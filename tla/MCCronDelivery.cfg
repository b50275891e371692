SPECIFICATION FairSpec
CONSTANTS
    MaxRuns = 2
    Chunks = 2
    Retries = 1
    HasMaxAge = TRUE
    MaxCrashes = 1
    MaxIOErrors = 1
    MaxPartial = 1
    MaxLines = 3
INVARIANTS
    OwedIsKept
    RunsHonest
    TaskHonest
PROPERTIES
    OwedSettles
CHECK_DEADLOCK FALSE
