SPECIFICATION MigrationSpec
CONSTANTS
  Sources <- MCSources
  Topics <- MCTopics
  Numbered <- MCNumbered
  Suspect <- MCSuspect
  MaxFaults = 2
  MaxSnapshots = 1
INVARIANT EveryFileAccounted
CHECK_DEADLOCK FALSE
