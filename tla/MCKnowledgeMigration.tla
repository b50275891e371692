----------------------- MODULE MCKnowledgeMigration -----------------------
(* Two legacy files, one page name with a number and one without.          *)
EXTENDS KnowledgeMigration

MCSources == <<"s1", "s2">>
MCTopics == {"status", "note"}
MCNumbered == {"status"}
MCSuspect == {"s1", "memory", "index", "status"}
=============================================================================
