--------------------------- MODULE MCKnowledgeLock ---------------------------
EXTENDS KnowledgeLock, TLC

CONSTANTS p1, p2, p3
MCProcs == {p1, p2, p3}
MCInodes == {1, 2}
Sym == Permutations(MCProcs)
=============================================================================
