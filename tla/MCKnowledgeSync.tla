-------------------------- MODULE MCKnowledgeSync --------------------------
EXTENDS KnowledgeSync

CONSTANTS w1, w2
MCWorkspaces == {w1, w2}

(* An irregular entry is refused where a page that does not parse is.      *)
MCFlaws == {Transformed, Hidden, Unparsed, WrongIndex, Driver, Gitlink, Rewritten}
Sym == Permutations(MCWorkspaces)
=============================================================================
