SPECIFICATION FairSpec
CONSTANTS
    p1 = p1
    p2 = p2
    A = A
    B = B
    Procs = {p1, p2}
    Owners = {A, B}
    OwnerOf <- OwnNames
    Jobs = {1, 2}
    MaxRetries = 0
    NoOwner = NoOwner
    NoRow = NoRow
    MaxRuns = 2
    Budget <- FewCalls
INVARIANTS
    TypeOK AuditFollowsLog LeaseSound
PROPERTIES
    EndsWithAudit LeaseEnds
CHECK_DEADLOCK FALSE
