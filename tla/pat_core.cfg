SPECIFICATION RetrySpec
CONSTANTS
    a = a
    b = b
    p1 = p1
    p2 = p2
    e1 = e1
    e2 = e2
    oneOff = oneOff
    l1 = l1
    l2 = l2
    l3 = l3
    None = None
    Procs <- TwoProcs
    Patterns <- TwoPatterns
    Events <- TwoEvents
    Reasons <- OneReason
    Learnings <- ThreeLearnings
    MaxMines = 3
    MaxFaults = 1
INVARIANTS
    TypeOK StatusAudited
PROPERTIES
    PromotedOnce PromotionCompletes
CHECK_DEADLOCK FALSE
