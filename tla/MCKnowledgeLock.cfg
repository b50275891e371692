SPECIFICATION Spec
CONSTANTS
    p1 = p1
    p2 = p2
    p3 = p3
    Procs <- MCProcs
    Ghost = Ghost
    Inodes <- MCInodes
    MaxCrashes = 1
    Stalls = TRUE
INVARIANTS
    LockSound
PROPERTIES
    LiveLockKept
SYMMETRY Sym
CHECK_DEADLOCK FALSE
