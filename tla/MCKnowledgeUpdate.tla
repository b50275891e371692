------------------------- MODULE MCKnowledgeUpdate -------------------------
(* Three pages, two of them dated project records.                         *)
EXTENDS KnowledgeUpdate

CONSTANTS p1, p2, p3
MCPages == {p1, p2, p3}
MCDated == {p1, p2}
Records == Permutations(MCDated)
=============================================================================
