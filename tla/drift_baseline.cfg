SPECIFICATION DriftAlone
CONSTANTS
    Publishers = {"p1"}
    a = a
    Lessons = {a}
    Preferences = {}
    Proposed <- MCProposed
    Areas = {1, 2}
    Terms = {0, 1}
    MaxTick = 2
    MaxPlans = 2
    MaxApprovals = 2
    MaxReleases = 2
    MaxUpsets = 1
    r1 = r1
    r2 = r2
    Releases = {r1, r2}
    Paths = {"AGENTS", "SKILL"}
    PathsOf <- MCPathsOf
    InRoot = {"AGENTS"}
    EditorTexts = {"edited"}
    MaxChanges = 1
INVARIANT OkMeansPublished
CHECK_DEADLOCK FALSE
