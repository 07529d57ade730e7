SPECIFICATION SearchAlone
CONSTANTS
    Publishers = {"p1"}
    a = a
    Lessons = {a}
    Preferences = {}
    Proposed <- MCProposed
    Areas = {1, 2}
    Terms = {0, 1}
    MaxTick = 2
    MaxPlans = 2
    MaxApprovals = 2
    MaxReleases = 2
    MaxUpsets = 1
    r1 = r1
    r2 = r2
    Releases = {r1, r2}
    Paths = {"AGENTS", "SKILL"}
    PathsOf <- MCPathsOf
    InRoot = {"AGENTS"}
    EditorTexts = {"edited"}
    MaxChanges = 1
    Scanners = {"s1", "s2"}
    Files = {1, 2}
    Lines <- MCLines
    Layouts <- MCLayouts
    Histories <- MCHistories
    MaxWrites = 2
    MaxCommands = 2
    Events <- MCEvents
    Rank <- MCRank
    Volatile = {"uuid"}
    Generic = {"error"}
    MaxClusterMembers = 3
    MinDistinctSessions = 3
    MinDistinctDays = 2
    MinSuccessfulOccurrences = 2
    JaccardOver = 1
    JaccardUnder = 2
    MaxRounds = 2
    Problems = {"q1", "q2"}
    Threshold = 3
    WindowDuration = 1
    MaxObservations = 4
    MaxNow = 3
    Reporters = {"p1", "p2"}
    Recurring = {"l1", "l2"}
    Fingerprint <- MCFingerprint
    Pasts <- MCPasts
    RetryKeys = {"k1"}
    PageLimit = 4
    StaleAfter = 1
    MaxRecords = 5
    MaxDay = 1
    MaxAsks = 3
    Curators = {"c1", "c2"}
    Related = {"l1", "l2"}
    Unknown = "l9"
    Kinds = {"extends", "supersedes"}
    MaxRelations = 3
    Shelf <- MCShelf
    Queries <- MCQueries
    StatusFilters <- MCStatuses
    Engram <- MCEngram
    VolatileWords = {"uuid"}
    DefaultLimit = 2
    MaxLimit = 3
    MaxTermsPerQuery = 3
    overfetchMultiplier = 2
    Limits = {0, 1, 5}
    LastDay = 7
INVARIANT StrongerScoresHigher
CHECK_DEADLOCK FALSE
