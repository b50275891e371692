---------------------------- MODULE StreamRelay ----------------------------
(***************************************************************************)
(* The relay of one answer to a chat (src/src/stream-relay.ts): the text   *)
(* accumulated from the stream, the scheduler of cosmetic drafts (one      *)
(* request in flight, one replaceable snapshot waiting, a refresh of what  *)
(* is visible) and the final delivery.  A text is the sequence of the runs *)
(* its pieces come from; <<0>> is the text of an error, <<>> is no text.   *)
(*                                                                         *)
(* Left out: the rendering of a text (rich answers, chunks, HTML), typing, *)
(* NO_REPLY, and the clock: a draft that is due now and one that has to    *)
(* wait for its timer are both possible whenever a draft may start.        *)
(***************************************************************************)
EXTENDS Naturals, Sequences, SequencesExt

VARIABLES relay, draft

relayVars == <<relay, draft>>

NoText == <<>>
ErrorText == <<0>>

NewDraft == [fly |-> NoText, pend |-> NoText, latest |-> NoText, vis |-> NoText,
             timer |-> FALSE, refresh |-> FALSE, quiet |-> FALSE, unsupported |-> FALSE]

RelayOff == [st |-> "off", acc |-> NoText]
RelayInit == relay = RelayOff /\ draft = NewDraft

(* `quiet' stands for `suspended' or `cancelled': neither is ever undone. *)
Blocked(d) == d.quiet \/ d.unsupported
Unscheduled(d) == [d EXCEPT !.pend = NoText, !.timer = FALSE, !.refresh = FALSE]
Hushed(d) == [NewDraft EXCEPT !.fly = d.fly, !.quiet = TRUE]

(* startOrSchedule: at once, or when the throttle's timer is due. *)
Scheduled(d) ==
    IF Blocked(d) \/ d.fly # NoText \/ d.pend = NoText
    THEN {d}
    ELSE {[d EXCEPT !.fly = d.pend, !.pend = NoText, !.refresh = FALSE],
          [d EXCEPT !.timer = TRUE]}

(* enqueue: the snapshot replaces the one that waits. *)
Enqueued(d, text) ==
    IF Blocked(d) \/ text = NoText \/ text = d.latest
    THEN {d}
    ELSE Scheduled([d EXCEPT !.latest = text, !.pend = text])

ResetShown(d) == [d EXCEPT !.latest = NoText, !.vis = NoText]
ResetDraft(d) == [Unscheduled(d) EXCEPT !.latest = NoText, !.vis = NoText]

NeedsRefresh(d) ==
    /\ ~Blocked(d) /\ d.vis # NoText /\ d.latest # NoText
    /\ d.fly = NoText /\ d.pend = NoText /\ ~d.refresh

WithRefresh(d) == IF NeedsRefresh(d) THEN [d EXCEPT !.refresh = TRUE] ELSE d

(* handleResult, then what follows the request whatever its result. *)
Landed(d, result) ==
    LET told == CASE result = "sent"        -> [d EXCEPT !.vis = d.fly, !.fly = NoText]
                  [] result = "unsupported" -> [NewDraft EXCEPT !.unsupported = TRUE]
                  [] result = "failed"      -> [d EXCEPT !.fly = NoText]
    IN {WithRefresh(e) : e \in Scheduled(told)}

----------------------------------------------------------------------------
(* The relay's handling of what the reader yields. *)

RelayStarts ==
    /\ relay' = [st |-> "reading", acc |-> NoText]
    /\ draft' = NewDraft

RelayText(r) ==
    /\ relay' = [relay EXCEPT !.acc = Append(@, r)]
    /\ draft' \in Enqueued(draft, relay'.acc)

RelayReset ==
    /\ relay' = [relay EXCEPT !.acc = NoText]
    /\ draft' = ResetDraft(draft)

(* An error replaces the text, a result stands in for text never streamed;
   then closeAndWait stops the scheduler. *)
RelayResult(text) ==
    /\ relay' = [st |-> "sending",
                 acc |-> IF text = ErrorText \/ relay.acc = NoText THEN text ELSE relay.acc]
    /\ draft' = Hushed(draft)

RelayEnds == relay' = RelayOff /\ draft' = NewDraft

(* The steps of the scheduler that are not caused by the stream. *)
DraftLands(result) ==
    /\ draft.fly # NoText
    /\ draft' \in Landed(draft, result)
    /\ UNCHANGED relay

ThrottleDue ==
    /\ draft.timer
    /\ draft' \in Scheduled([draft EXCEPT !.timer = FALSE])
    /\ UNCHANGED relay

RefreshDue ==
    /\ draft.refresh
    /\ LET d == [draft EXCEPT !.refresh = FALSE]
       IN draft' \in IF Blocked(d) \/ d.vis = NoText \/ d.latest = NoText \/ d.pend # NoText
                     THEN {d}
                     ELSE Scheduled([d EXCEPT !.pend = d.vis])
    /\ UNCHANGED relay

(* An authenticated message suspends the draft registered for its chat. *)
HumanWrites ==
    /\ relay.st # "off" /\ ~draft.quiet
    /\ draft' = Hushed(draft)
    /\ UNCHANGED relay

(* What sendDraft answers; a rate limit only lengthens the pause. *)
DraftResults == {"sent", "failed", "unsupported"}

DraftStep ==
    \/ \E result \in DraftResults : DraftLands(result)
    \/ ThrottleDue
    \/ RefreshDue
    \/ HumanWrites
============================================================================
