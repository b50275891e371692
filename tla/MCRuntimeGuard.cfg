SPECIFICATION Spec
CONSTANTS
  p1 = p1
  p2 = p2
  p3 = p3
  Procs <- ThreeProcs
  NumLocks = 1
  Inodes = {1, 2}
  NoProc = NoProc
  MaxClock = 1
INVARIANTS
    ServesAlone
PROPERTIES
    LiveEntriesUntouched
SYMMETRY Symmetric
VIEW Live
CHECK_DEADLOCK FALSE
