------------------------------ MODULE MCPiTurn ------------------------------
(* Two prompts to one chat, two or three runs, one piece of text each. *)
EXTENDS PiTurn
=============================================================================
