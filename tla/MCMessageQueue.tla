--------------------------- MODULE MCMessageQueue ---------------------------
(* MessageQueue for TLC.  State objects are model values. *)
EXTENDS MessageQueue

CONSTANTS chatA, o1, o2

OneChat == {chatA}
TwoObjects == {o1, o2}
=============================================================================
