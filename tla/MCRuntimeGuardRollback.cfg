SPECIFICATION Spec
CONSTANTS
  p1 = p1
  p2 = p2
  p3 = p3
  Procs <- TwoProcs
  NumLocks = 2
  Inodes = {1, 2, 3}
  NoProc = NoProc
  MaxClock = 1
INVARIANTS
  GaveUpCleanly
VIEW Live
CHECK_DEADLOCK FALSE
