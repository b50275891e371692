-------------------------- MODULE MCSessionManager --------------------------
(* SessionManager for TLC. *)
EXTENDS SessionManager, TLC

CONSTANTS chatA, chatB, k1, k2, n1, n2, n3, t1, t2, t3

MCChats == {chatA, chatB}
OneChat == {chatA}
OneStarter == {k1}
MCStarters == {k1, k2}
MCSessions == {n1, n2, n3}
TwoSessions == {n1, n2}
MCTranscripts == {t1, t2, t3}
TwoTranscripts == {t1, t2}

Symmetric ==
  Permutations(MCStarters) \cup Permutations(MCSessions)
  \cup Permutations(MCTranscripts)

(* States that differ only in what nothing refers to any more (a session   *)
(* object or a transcript waiting for reuse) are the same state.           *)
Reachable ==
  <<accepting, startups, su, active, gauge,
    [n \in Sessions |-> IF n \in UsedSessions THEN sess[n] ELSE NoSession],
    teardowns, store, restarts, notifying, closing,
    cleaned \cap UsedTranscripts, notified \cap UsedTranscripts,
    IF boot = "up" THEN <<>> ELSE stored>>
=============================================================================
