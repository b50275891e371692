SPECIFICATION Spec
CONSTANTS
    p1 = p1
    p2 = p2
    p3 = p3
    Procs <- MCProcs
    Inodes <- MCInodes
    MaxCrashes = 1
INVARIANTS
    LockSound
SYMMETRY Sym
CHECK_DEADLOCK FALSE
