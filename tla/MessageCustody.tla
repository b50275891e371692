--------------------------- MODULE MessageCustody ---------------------------
(***************************************************************************)
(* What the message queue promises about each message it is offered, with  *)
(* no queue in sight: a message is turned away or taken into the queue's   *)
(* custody, and custody ends exactly once, either by handing the message   *)
(* and its media to the agent's session or by reclaiming the media.        *)
(* MessageQueue implements this specification.                             *)
(***************************************************************************)
EXTENDS Naturals

CONSTANT Messages

VARIABLE custody   \* "unseen", "queued", "session" or "reclaimed"

CustodyStates == {"unseen", "queued", "session", "reclaimed"}

Move(ms, from, to) ==
  /\ ms # {}
  /\ \A m \in ms : custody[m] = from
  /\ custody' = [m \in Messages |-> IF m \in ms THEN to ELSE custody[m]]

Init == custody = [m \in Messages |-> "unseen"]

(* enqueue returns true *)
Accept == \E m \in Messages : Move({m}, "unseen", "queued")

(* enqueue returns false *)
Reject == \E m \in Messages : Move({m}, "unseen", "reclaimed")

(* onAgentOwnership for a batch, or one steered message consumed *)
HandOver == \E ms \in SUBSET Messages : Move(ms, "queued", "session")

(* a failed turn, clear or shutdown *)
Reclaim == \E ms \in SUBSET Messages : Move(ms, "queued", "reclaimed")

Next == Accept \/ Reject \/ HandOver \/ Reclaim

SafeSpec == Init /\ [][Next]_custody

Leaves(m) == custody[m] = "queued" /\ custody'[m] # "queued"

(* Custody of every accepted message ends. *)
Spec == SafeSpec /\ \A m \in Messages : WF_custody(Next /\ Leaves(m))
=============================================================================
