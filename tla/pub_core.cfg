SPECIFICATION Spec
CONSTANTS
    a = a
    b = b
    p1 = p1
    p2 = p2
    Procs = {p1, p2}
    Files = {1, 2}
    Learnings = {a, b}
    Managed = {2}
    Base <- MCBase
    Dest <- MCDest
    UserText = UserText
    NoFile = NoFile
    NoProc = NoProc
    DeadProc = DeadProc
    MaxPubs = 2
    MaxPreviews = 2
    Budget <- OneFailure
    SharedSecond = FALSE
    RacingEdits = FALSE
    TornPreview = FALSE
SYMMETRY Symmetry
INVARIANTS
    TypeOK OwnsItsWork TreeAccountedFor PublishedHasPublication
PROPERTIES
    KeepsPromise PlanIsKept UndoIsExact OnlyOwnUndoRemoves
