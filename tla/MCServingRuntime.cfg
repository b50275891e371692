SPECIFICATION FairSpec
CONSTANTS
    MaxGenerations = 3
    MaxDisturbances = 2
    MaxRetries = 2
    Stall = 2
    HandlerLimit = 3
INVARIANTS
    RecoveryPending
PROPERTIES
    RestartsJustified
    ShutdownEnds
    PollingRecovers
CHECK_DEADLOCK FALSE
