-------------------------- MODULE MCCronHealthLock --------------------------
(***************************************************************************)
(* Three runs of one cron, one of which may die.                           *)
(***************************************************************************)
EXTENDS CronHealthLock, TLC

CONSTANTS p1, p2, p3

MCProcs == {p1, p2, p3}
MCInodes == {1}
Sym == Permutations(MCProcs)
=============================================================================
