SPECIFICATION UpdateSpec
CONSTANTS
  p1 = p1
  p2 = p2
  p3 = p3
  Pages <- MCPages
  Dated <- MCDated
  High = 2
  Low = 1
  MaxVersion = 3
  MaxRequests = 2
  MaxFaults = 2
INVARIANTS
    WorkspaceHonest
PROPERTIES
    AllOrNothing
    LastCopyKept
    OnlyEvaluatedArchived
SYMMETRY Records
CHECK_DEADLOCK FALSE
