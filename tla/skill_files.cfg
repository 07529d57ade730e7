SPECIFICATION SkillsAlone
CONSTANTS
    Updaters = {u1, u2}
    LastRelease = 2
    SkillFiles = {0, 1, 2}
    OtherFiles = {3}
    Notes = {9}
    LastVersion = 2
    Ships <- MCShips
    MaxEditions = 2
    MaxRuns = 3
    Commands = {"c1", "c2"}
    AllAgents <- MCAgents
    ByCLI = {"codex"}
    OwnServers = {"own"}
    Overlap = FALSE
    Callers = {"k1", "k2", "k3", "k4"}
    Wrapper <- MCWrapper
    Process <- MCProcess
    Known <- MCKnown
    Alters = {2}
INVARIANT EveryUserFileKept
CHECK_DEADLOCK FALSE
