SPECIFICATION LaunchdFairSpec
CONSTANTS
    A = A
    B = B
    Off = Off
    Runners <- MCRunners
    NoPlist = NoPlist
    Torn = Torn
    Names <- MCNames
    Dirs = {"standard", "chosen"}
    Fields <- MCFields
    Low <- MCLow
    High <- MCHigh
    Schedules = {"week", "both"}
    Parts <- MCParts
    Every <- MCEvery
    MaxIntervals = 20
    MaxAttempts = 2
    MaxEdits = 2
    MaxFaults = 2
INVARIANTS
    DriftExplained
    JobsAreRight
PROPERTIES
    RemovalsInOrder
    SyncEnds
CHECK_DEADLOCK FALSE
