CONSTANTS
    NumPrompts = 2
    MaxRuns = 2
    MaxDeltas = 1
    MaxUnread = 1
SPECIFICATION FairSpec
INVARIANTS
    AnswersRight
PROPERTIES
    DraftsKeepQuiet
    TurnsSettle
CHECK_DEADLOCK FALSE
