-------------------------- MODULE MCServingRuntime --------------------------
(* A small instance of ServingRuntime for TLC: generations enough for every
   fault to cost one and for an old one to come back late. *)
EXTENDS ServingRuntime
=============================================================================
