SPECIFICATION Spec
CONSTANTS
    s1 = s1
    t1 = t1
    t2 = t2
    r1 = r1
    r2 = r2
    x1 = x1
    x2 = x2
    c1 = c1
    c2 = c2
    c3 = c3
    p1 = p1
    p2 = p2
    Procs = {p1, p2}
    Sessions = {s1}
    TurnIds = {t1, t2}
    Revisions = {r1, r2}
    Texts = {x1, x2}
    Checkpoints = {c1, c2, c3}
    Envelopes <- FewEnvelopes
    NoCheckpoint = NoCheckpoint
    NoRow = NoRow
    MaxAttempts = 5
    Budget <- TwoFailures
SYMMETRY Symmetry
INVARIANTS
    TypeOK Audited SessionCoversTurns
PROPERTIES
    CheckpointSound
CHECK_DEADLOCK FALSE
