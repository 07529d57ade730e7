SPECIFICATION Spec
CONSTANTS
    a = a
    b = b
    l1 = l1
    l2 = l2
    k1 = k1
    c1 = c1
    skill = skill
    None = None
    Procs <- TwoProcs
    Learnings <- TwoLearnings
    Keys <- OneKey
    Contents <- OneContent
    Levels <- TwoLevels
    Destinations <- OneDestination
    MaxCalls = 4
    MaxFaults = 1
SYMMETRY Symmetric
INVARIANTS
    TypeOK StoresExplained RetryCreatesNothing ChangesAudited
CHECK_DEADLOCK FALSE
