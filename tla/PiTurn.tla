------------------------------- MODULE PiTurn -------------------------------
(***************************************************************************)
(* One chat's turns: a prompt is written to the Pi child, the records of   *)
(* its lifecycle are read from the child's stdout and translated into the  *)
(* lines of one answer (src/src/pi-rpc-protocol.ts), a watchdog probes a   *)
(* silent child and kills one that does not answer, an internal            *)
(* (collaboration) turn borrows the same child with its own outbox         *)
(* (sendSessionMessage in src/src/session-manager.ts), and the relay of    *)
(* StreamRelay accumulates and delivers the answer.                        *)
(*                                                                         *)
(* Pi is external.  A prompt is rejected, handled without a run, started,  *)
(* or queued behind the running lifecycle.  A lifecycle is a series of     *)
(* runs: a run ends with visible text, silently, at the length limit with  *)
(* nothing but reasoning, in an error or in a context overflow; Pi may     *)
(* retry, compact, continue, or start a queued prompt before it settles.   *)
(*                                                                         *)
(* Named bounds: NumPrompts, MaxRuns (runs of all prompts), MaxDeltas      *)
(* (pieces of text streamed by one run), MaxUnread (records).              *)
(***************************************************************************)
EXTENDS StreamRelay, FiniteSets

CONSTANTS NumPrompts, MaxRuns, MaxDeltas, MaxUnread

ASSUME BoundsAssumption ==
    /\ NumPrompts \in Nat \ {0} /\ MaxRuns \in Nat \ {0} /\ MaxDeltas \in Nat
    /\ MaxUnread \in Nat \ {0}

VARIABLES
    turn,     \* the session's queue task
    parse,    \* PiRpcParseState of the turn's reader
    child,    \* the Pi child process, as it is
    stdout,   \* records written and not yet read
    stdin,    \* prompts written and not yet taken
    probe,    \* the watchdog's get_state: "no", "asked", "sent"
    outbox,   \* whose directory lies at the outbox path
    isolated, \* outputIsolationFailed
    owner,    \* owner[r]: the prompt run r belongs to
    kinds,    \* kinds[n]: "human" or "internal"
    said      \* history: the last answer delivered to the chat

vars == <<turn, parse, child, stdout, stdin, probe, outbox, isolated, owner,
          kinds, said, relay, draft>>

Reading == turn.st = "reading"
Exited == child.st = "dead"
NewChild == [st |-> "idle", killed |-> FALSE, kind |-> "visible", retry |-> FALSE,
             deltas |-> 0, err |-> FALSE, queue |-> <<>>,
             slipped |-> FALSE]  \* history: a prompt was sent without a reader
NewParse == [pend |-> NoText, length |-> FALSE, cur |-> FALSE, comp |-> FALSE,
             reset |-> FALSE, overflow |-> FALSE, handled |-> FALSE, life |-> FALSE]
NewTurn == [n |-> 0, st |-> "idle", last |-> 0, ok |-> TRUE, settled |-> FALSE, consumed |-> FALSE]
Silent == [n |-> 0, text |-> NoText, last |-> 0, ok |-> TRUE, box |-> "human", clean |-> TRUE]

Init ==
    /\ turn = NewTurn
    /\ parse = NewParse /\ child = NewChild /\ stdout = <<>> /\ stdin = <<>>
    /\ probe = "no" /\ outbox = "human" /\ isolated = FALSE
    /\ owner = <<>> /\ kinds = <<>> /\ said = Silent
    /\ RelayInit

----------------------------------------------------------------------------
(* Pi (external). *)

Responsive == child.st \notin {"dead", "hung"}
ProbeAnswers(recs) == {i \in DOMAIN recs : recs[i].t = "state"}

(* At most one answer is ever under way. *)
WithoutProbe(recs) ==
    IF ProbeAnswers(recs) = {} THEN recs
    ELSE RemoveAt(recs, CHOOSE i \in ProbeAnswers(recs) : TRUE)

(* A running reader is at most MaxUnread records behind; without one the pipe
   takes them all. *)
Emit(recs) ==
    /\ Reading => Len(WithoutProbe(stdout)) < MaxUnread
    /\ stdout' = stdout \o recs
LastRun == Len(owner)
Reserved == Len(child.queue) + (IF child.retry THEN 1 ELSE 0)
RoomForRun == LastRun + Reserved < MaxRuns

PiUnchanged == UNCHANGED <<turn, parse, outbox, isolated, kinds, said, relay, draft>>

StartRecord(r) == [t |-> "start", r |-> r]
Response(n, disposition) == [t |-> "prompt", n |-> n, d |-> disposition]

AtRest == [child EXCEPT !.kind = "visible", !.retry = FALSE, !.deltas = 0, !.err = FALSE]

StartsRun(n) ==
    /\ owner' = Append(owner, n)
    /\ child' = [AtRest EXCEPT !.st = "running"]

(* Handled input may have its extension start a lifecycle alongside the
   response: both are written at once. *)
PiTakesPrompt ==
    /\ stdin # <<>> /\ child.st = "idle"
    /\ stdin' = Tail(stdin)
    /\ LET n == Head(stdin) IN
       \/ /\ RoomForRun /\ StartsRun(n)
          /\ Emit(<<Response(n, "started"), StartRecord(LastRun + 1)>>)
       \/ /\ RoomForRun /\ StartsRun(n)
          /\ Emit(<<Response(n, "handled"), StartRecord(LastRun + 1)>>)
       \/ \E d \in {"rejected", "handled"} :
             Emit(<<Response(n, d)>>) /\ UNCHANGED <<child, owner>>
    /\ UNCHANGED probe /\ PiUnchanged

PiQueuesPrompt ==
    /\ stdin # <<>> /\ Responsive /\ child.st # "idle"
    /\ stdin' = Tail(stdin)
    /\ IF RoomForRun
       THEN /\ child' = [child EXCEPT !.queue = Append(@, Head(stdin))]
            /\ Emit(<<Response(Head(stdin), "queued")>>)
       ELSE Emit(<<Response(Head(stdin), "rejected")>>) /\ UNCHANGED child
    /\ UNCHANGED <<owner, probe>> /\ PiUnchanged

PiStreams ==
    /\ child.st = "running" /\ child.deltas < MaxDeltas
    /\ child' = [child EXCEPT !.deltas = @ + 1]
    /\ Emit(<<[t |-> "delta", r |-> LastRun]>>)
    /\ UNCHANGED <<stdin, owner, probe>> /\ PiUnchanged

(* A blocking dialog of an extension: nobody can answer it. *)
PiAsksDialog ==
    /\ child.st = "running" /\ child.deltas = 0
    /\ child' = [child EXCEPT !.st = "dialog"]
    /\ Emit(<<[t |-> "dialog"]>>)
    /\ UNCHANGED <<stdin, owner, probe>> /\ PiUnchanged

PiEndsRun ==
    /\ child.st = "running"
    /\ \E kind \in {"visible", "silent", "length", "error", "overflow"}, retry \in BOOLEAN :
          /\ retry => kind \in {"error", "overflow"} /\ RoomForRun
          /\ kind = "length" => child.deltas = 0
          /\ child' = [child EXCEPT !.st = "ended", !.kind = kind, !.retry = retry]
          /\ Emit(<<[t |-> "end", r |-> LastRun, kind |-> kind, retry |-> retry]>>)
    /\ UNCHANGED <<stdin, owner, probe>> /\ PiUnchanged

(* After an overflow Pi compacts, and goes on only when that succeeded. *)
PiCompacts ==
    /\ child.st = "ended" /\ child.kind = "overflow"
    /\ \/ /\ child.retry \/ RoomForRun
          /\ StartsRun(owner[LastRun])
          /\ Emit(<<[t |-> "compaction"], [t |-> "compacted", ok |-> TRUE], StartRecord(LastRun + 1)>>)
       \/ /\ child' = [child EXCEPT !.kind = "error", !.retry = FALSE]
          /\ Emit(<<[t |-> "compaction"], [t |-> "compacted", ok |-> FALSE]>>)
          /\ UNCHANGED owner
    /\ UNCHANGED <<stdin, probe>> /\ PiUnchanged

(* An automatic retry, or a continuation after the length limit. *)
PiContinues ==
    /\ child.st = "ended"
    /\ (child.kind = "error" /\ child.retry) \/ (child.kind = "length" /\ RoomForRun)
    /\ StartsRun(owner[LastRun])
    /\ Emit(<<StartRecord(LastRun + 1)>>)
    /\ UNCHANGED <<stdin, probe>> /\ PiUnchanged

PiReportsError ==
    /\ child.st = "ended" /\ ~child.retry /\ ~child.err
    /\ child' = [child EXCEPT !.err = TRUE]
    /\ Emit(<<[t |-> "error"]>>)
    /\ UNCHANGED <<stdin, owner, probe>> /\ PiUnchanged

PiStartsQueued ==
    /\ child.st = "ended" /\ ~child.retry /\ child.queue # <<>>
    /\ owner' = Append(owner, Head(child.queue))
    /\ child' = [AtRest EXCEPT !.st = "running", !.queue = Tail(@)]
    /\ Emit(<<StartRecord(LastRun + 1)>>)
    /\ UNCHANGED <<stdin, probe>> /\ PiUnchanged

(* The record also names the lifecycle's last run and whether it left a
   usable answer: the reader does not see these two. *)
PiSettles ==
    /\ child.st = "ended" /\ ~child.retry /\ child.queue = <<>>
    /\ child' = [AtRest EXCEPT !.st = "idle"]
    /\ Emit(<<[t |-> "settled", r |-> LastRun, ok |-> child.kind = "visible" /\ ~child.err]>>)
    /\ UNCHANGED <<stdin, owner, probe>> /\ PiUnchanged

PiAnswersProbe ==
    /\ probe = "asked" /\ Responsive
    /\ \E live \in BOOLEAN :
          /\ child.st \in {"running", "dialog"} => live
          /\ child.st = "idle" => ~live
          /\ Emit(<<[t |-> "state", live |-> live]>>)
    /\ probe' = "sent"
    /\ UNCHANGED <<stdin, owner, child>> /\ PiUnchanged

PiHangs ==
    /\ Responsive
    /\ child' = [child EXCEPT !.st = "hung"]
    /\ UNCHANGED <<stdin, stdout, owner, probe>> /\ PiUnchanged

PiDies ==
    /\ ~Exited
    /\ child' = [child EXCEPT !.st = "dead"]
    /\ stdin' = <<>>
    /\ UNCHANGED <<stdout, owner, probe>> /\ PiUnchanged

PiProgress ==
    \/ PiTakesPrompt \/ PiQueuesPrompt \/ PiStreams \/ PiEndsRun \/ PiCompacts
    \/ PiContinues \/ PiReportsError \/ PiStartsQueued \/ PiSettles

----------------------------------------------------------------------------
(* Writing a prompt (sendSessionMessage up to the reader). *)

(* The queue of the session holds one task, and a human turn keeps it until
   its relay has delivered (outputDone). *)
(* The task ends with its reader: the relay may still be at work. *)
QueueFreeEarly == turn.st = "idle"

QueueFree == turn.st = "idle" /\ relay.st = "off"

CanSend == QueueFree /\ turn.n < NumPrompts
NextPrompt == turn.n + 1

(* getOrCreateSession: a child that exited is replaced, together with the
   outbox; one that was told to stop is first waited for. *)
Usable == Exited \/ ~child.killed

BeginTurn(kind) ==
    /\ turn' = [NewTurn EXCEPT !.n = NextPrompt, !.st = "reading"]
    /\ said' = Silent
    /\ kinds' = Append(kinds, kind)
    /\ parse' = NewParse

AbandonTurn(kind) ==
    /\ turn' = [NewTurn EXCEPT !.n = NextPrompt]
    /\ said' = Silent
    /\ kinds' = Append(kinds, kind)
    /\ UNCHANGED parse

SendHuman(stored) ==
    /\ CanSend /\ Usable
    /\ IF Exited
       THEN /\ stdout' = <<>> /\ stdin' = <<NextPrompt>>
            /\ outbox' = "human" /\ isolated' = FALSE
       ELSE /\ ~isolated
            /\ stdin' = Append(stdin, NextPrompt)
            /\ UNCHANGED <<stdout, outbox, isolated>>
    /\ child' = LET c == IF Exited THEN NewChild ELSE child
                IN IF stored THEN c ELSE [c EXCEPT !.slipped = TRUE]
    /\ IF stored
       THEN BeginTurn("human") /\ RelayStarts
       ELSE AbandonTurn("human") /\ UNCHANGED relayVars
    /\ UNCHANGED <<probe, owner>>

(* The session refuses, and the chat is told so. *)
RefuseHuman ==
    /\ CanSend /\ ~Exited /\ Usable /\ isolated
    /\ AbandonTurn("human")
    /\ UNCHANGED <<child, stdout, stdin, probe, outbox, isolated, owner, relayVars>>

(* A blocking dialog; other requests of an extension's UI ask for nothing. *)
AsksDialog(rec) == rec.t = "dialog"

(* The child's identity is asked for and what stdout holds is read away; a
   dialog found there refuses the turn. *)
IdentityAsked ==
    /\ Responsive /\ ~child.killed
    /\ \A i \in DOMAIN stdout : ~AsksDialog(stdout[i])
    /\ stdout' = <<>>

(* An internal turn first asks for the child's identity, then swaps the outbox and stores the state, then writes. *)
SendInternal ==
    /\ CanSend /\ ~isolated /\ IdentityAsked
    /\ stdin' = Append(stdin, NextPrompt)
    /\ outbox' = "internal"
    /\ BeginTurn("internal")
    /\ UNCHANGED <<child, probe, isolated, owner, relayVars>>

----------------------------------------------------------------------------
(* parsePiEvent: what one record makes of the parse state. *)

Retain(s, outcome, replacesLength) ==
    [s EXCEPT !.pend = outcome, !.length = @ /\ ~replacesLength,
              !.comp = s.cur, !.cur = FALSE, !.reset = FALSE]

(* What the last assistant message of the run says: its stop reason and its
   text decide whether the run failed, in an overflow or not, and what it leaves. *)
Failed(rec) == rec.kind \in {"error", "overflow"}

Outcome(rec) ==
    CASE Failed(rec) -> ErrorText
      [] rec.kind = "visible" -> <<rec.r>>
      [] OTHER -> NoText

(* A pending overflow is remembered until recovery fails, or a run ends that
   did not overflow; the lines ask for a reset at most once per run. *)
RememberOverflow(s, rec) == [s EXCEPT !.overflow = rec.kind = "overflow"]
MarkReset(s) == [s EXCEPT !.reset = TRUE]

AfterEnd(s, rec) ==
    LET seen == [RememberOverflow(s, rec) EXCEPT !.life = TRUE, !.length = @ \/ rec.kind = "length"]
        kept == Retain(seen, Outcome(rec), Failed(rec) \/ rec.kind = "visible")
    IN IF Failed(rec) /\ rec.retry THEN MarkReset(kept) ELSE kept

(* The error names what failed and the overflow it was to recover from. *)
Fail(s) == [s EXCEPT !.pend = ErrorText, !.overflow = FALSE]

Parsed(s, rec) ==
    CASE rec.t = "prompt" /\ rec.n = turn.n /\ rec.d # "rejected" ->
            [s EXCEPT !.handled = rec.d = "handled"]
      [] rec.t = "start" ->
            LET seen == [s EXCEPT !.life = TRUE] IN IF s.comp THEN MarkReset(seen) ELSE seen
      [] rec.t = "delta" -> [s EXCEPT !.cur = TRUE]
      [] rec.t = "end" -> AfterEnd(s, rec)
      [] rec.t = "compaction" -> IF s.overflow THEN MarkReset(s) ELSE s
      [] rec.t = "compacted" ->
            IF ~s.overflow THEN s
            ELSE IF rec.ok THEN MarkReset(s) ELSE Fail(s)
      [] rec.t = "error" -> Fail(s)
      [] OTHER -> s

(* A queued continuation that does not replace what came before it. *)
ResetsOnRetry(s, rec) ==
    \/ (rec.t = "end" /\ rec.retry)
    \/ /\ ~s.reset /\ s.overflow
       /\ rec.t = "compaction" \/ (rec.t = "compacted" /\ rec.ok)

(* The line yielded asks the relay to drop the text it has. *)
Resets(s, rec) ==
    \/ (rec.t = "end" /\ rec.retry)
    \/ /\ ~s.reset
       /\ \/ (rec.t = "start" /\ s.comp)
          \/ (rec.t = "compaction" /\ s.overflow)
          \/ (rec.t = "compacted" /\ rec.ok /\ s.overflow)

Rejects(rec) == rec.t = "prompt" /\ rec.n = turn.n /\ rec.d = "rejected"

SettledText(s) == IF s.length \/ s.pend = NoText THEN ErrorText ELSE s.pend

(* At the end of stdout whatever the runs left is dropped: the error that is
   pending, or that the child exited. *)
EofText == ErrorText

----------------------------------------------------------------------------
(* The reader (readPiStream) and what the turn does at its end. *)

Human == kinds[turn.n] = "human"

RelayLine(s, rec) ==
    IF ~Human THEN UNCHANGED relayVars
    ELSE IF rec.t = "delta" THEN RelayText(rec.r)
    ELSE IF Resets(s, rec) THEN RelayReset
    ELSE UNCHANGED relayVars

(* A genuine record also clears the probe, whose late answer means nothing
   then.  The stream ends with a result: the rest of its chunk is lost. *)
EndsWith(text, rest) ==
    /\ \E k \in 0 .. Len(rest) : stdout' = WithoutProbe(SubSeq(rest, k + 1, Len(rest)))
    /\ probe' = "no"
    /\ parse' = NewParse
    /\ IF Human THEN RelayResult(text) ELSE UNCHANGED relayVars

(* Nobody can answer an extension's dialog: it is cancelled on stdin, and Pi
   goes on if it still waits. *)
CancelDialog ==
    child' = IF child.st = "dialog" THEN [child EXCEPT !.st = "running", !.deltas = @ + 1] ELSE child

(* A record is activity first, then perhaps a dialog, and only then a line. *)
Translate(rec) ==
    /\ stdout' = WithoutProbe(Tail(stdout)) /\ probe' = "no"
    /\ IF AsksDialog(rec) THEN CancelDialog ELSE UNCHANGED child
    /\ parse' = Parsed(parse, rec)
    /\ RelayLine(parse, rec)

ReadRecord ==
    /\ Reading /\ stdout # <<>> /\ Head(stdout).t \notin {"state", "settled"}
    /\ LET rec == Head(stdout) IN
       /\ IF Rejects(rec)
          THEN /\ EndsWith(ErrorText, Tail(stdout))
               /\ turn' = [turn EXCEPT !.st = IF Human THEN "idle" ELSE "closing"]
               /\ UNCHANGED child
          ELSE /\ Translate(rec)
               /\ turn' = [turn EXCEPT !.consumed = @ \/ (rec.t = "start" /\ owner[rec.r] = turn.n)]
    /\ UNCHANGED <<stdin, outbox, isolated, owner, kinds, said>>

ReadSettled ==
    /\ Reading /\ stdout # <<>> /\ Head(stdout).t = "settled"
    /\ LET rec == Head(stdout) IN
       /\ EndsWith(SettledText(parse), Tail(stdout))
       /\ turn' = [turn EXCEPT !.st = IF Human THEN "idle" ELSE "closing",
                               !.settled = TRUE, !.last = rec.r, !.ok = rec.ok]
    /\ UNCHANGED <<child, stdin, outbox, isolated, owner, kinds, said>>

(* Handled input without a lifecycle ends the turn once stdout is drained. *)
HandledAtOnce == parse.handled
HandledOnly == parse.handled /\ ~parse.life

(* Nothing is left to read: stdout ended with its child. *)
StdoutEnded == stdout = <<>> /\ Exited

ReadDrained ==
    /\ Reading /\ stdout = <<>> /\ (HandledOnly \/ StdoutEnded)
    /\ EndsWith(IF HandledOnly THEN NoText ELSE EofText, <<>>)
    /\ turn' = [turn EXCEPT !.st = IF Human THEN "idle" ELSE "closing"]
    /\ UNCHANGED <<child, stdin, outbox, isolated, owner, kinds, said>>

(* The watchdog: silence, then a get_state, then SIGTERM and SIGKILL. *)
Terminate == child' = [child EXCEPT !.killed = TRUE]

ActivityTimeout ==
    /\ Reading /\ stdout = <<>> /\ probe = "no" /\ ~Exited /\ ~child.killed
    /\ probe' = "asked"
    /\ UNCHANGED <<turn, parse, child, stdout, stdin, outbox, isolated, owner,
                   kinds, said, relayVars>>

ProbeForgotten ==
    /\ Reading /\ probe # "no" /\ UNCHANGED child
    /\ probe' = "no" /\ stdout' = WithoutProbe(stdout)
    /\ UNCHANGED <<turn, parse, stdin, outbox, isolated, owner, kinds, said, relayVars>>

ProbeTimeout ==
    /\ Reading /\ probe # "no" /\ Terminate
    /\ probe' = "no" /\ stdout' = WithoutProbe(stdout)
    /\ UNCHANGED <<turn, parse, stdin, outbox, isolated, owner, kinds, said, relayVars>>

ReadProbe ==
    /\ Reading /\ stdout # <<>> /\ Head(stdout).t = "state"
    /\ IF Head(stdout).live THEN UNCHANGED child ELSE Terminate
    /\ stdout' = Tail(stdout) /\ probe' = "no"
    /\ UNCHANGED <<turn, parse, stdin, outbox, isolated, owner, kinds, said, relayVars>>

Killed ==
    child.killed /\ PiDies

(* The end of an internal turn.  One whose lifecycle was not seen to settle
   stops its child and waits for it; only then the outbox is given back. *)
StopUnsettled ==
    /\ turn.st = "closing" /\ ~turn.settled /\ ~isolated
    /\ isolated' = TRUE /\ Terminate
    /\ UNCHANGED <<turn, parse, stdout, stdin, probe, outbox, owner, kinds, said, relayVars>>

GiveOutboxBack ==
    /\ turn.st = "closing" /\ (turn.settled \/ (isolated /\ Exited))
    /\ turn' = [turn EXCEPT !.st = "idle"]
    /\ \/ outbox' = "human" /\ UNCHANGED isolated
       \/ UNCHANGED outbox /\ isolated' = TRUE
    /\ UNCHANGED <<parse, child, stdout, stdin, probe, owner, kinds, said, relayVars>>

(* Final delivery: the text, then the files of the outbox; when the first
   piece cannot be sent the relay fails and the outbox is left alone. *)
Deliver(sent) ==
    /\ relay.st = "sending"
    /\ sent \/ relay.acc # NoText
    /\ RelayEnds
    /\ said' = IF sent
               THEN [n |-> turn.n, text |-> relay.acc, ok |-> turn.ok, last |-> turn.last,
                           box |-> outbox, clean |-> ~child.slipped]
               ELSE said
    /\ UNCHANGED <<turn, parse, child, stdout, stdin, probe, outbox, isolated, owner, kinds>>

DraftWorks ==
    /\ DraftStep
    /\ UNCHANGED <<turn, parse, child, stdout, stdin, probe, outbox, isolated, owner,
                   kinds, said>>

Next ==
    \/ PiProgress \/ PiAnswersProbe \/ PiAsksDialog \/ PiHangs \/ PiDies
    \/ \E stored \in BOOLEAN : SendHuman(stored)
    \/ RefuseHuman \/ SendInternal
    \/ ReadRecord \/ ReadSettled \/ ReadDrained \/ ReadProbe
    \/ ActivityTimeout \/ ProbeTimeout \/ Killed
    \/ StopUnsettled \/ GiveOutboxBack
    \/ \E sent \in BOOLEAN : Deliver(sent)
    \/ DraftWorks

Spec == Init /\ [][Next]_vars

(* Fairness: the bot's event loop reads what is there and its timers fire, a
   signalled child exits, and Pi goes on unless it hangs or dies. *)
Fairness ==
    /\ WF_vars(PiProgress) /\ WF_vars(PiAnswersProbe)
    /\ WF_vars(ReadRecord \/ ReadSettled \/ ReadDrained \/ ReadProbe)
    /\ WF_vars(ActivityTimeout) /\ WF_vars(ProbeTimeout) /\ WF_vars(Killed)
    /\ WF_vars(StopUnsettled) /\ WF_vars(GiveOutboxBack)
    /\ WF_vars(Deliver(TRUE))

FairSpec == Spec /\ Fairness

----------------------------------------------------------------------------
(* Whatever Pi went through before it settled - retries, compaction,
   continuations, queued prompts - the answer delivered is the text of the
   last run and of no other, and an error exactly when that run left none. *)
AnswerIsLastRun ==
    said.clean /\ said.last # 0 =>
        IF said.ok
        THEN said.text # NoText /\ ToSet(said.text) = {said.last}
        ELSE said.text = ErrorText

(* An answer is made of runs of the prompt it answers, and only the human's
   outbox is emptied into the chat - unless a prompt was sent whose reader
   never ran, because its state could not be stored. *)
AnswerIsOwn ==
    /\ said.clean => \A r \in ToSet(said.text) \ {0} : owner[r] = said.n
    /\ said.box = "human"

(* Between two turns a child that is alive and not being stopped owes
   nothing: no prompt is untaken, no record unread, no run under way.  The
   next reader therefore starts at its own prompt's first record. *)
InSync ==
    QueueFree /\ Responsive /\ ~child.killed /\ ~child.slipped =>
        stdin = <<>> /\ stdout = <<>> /\ child.st = "idle"

(* An answer is the right one: of the last run, of its own prompt, and read
   from where that prompt's records begin. *)
AnswersRight == AnswerIsLastRun /\ AnswerIsOwn /\ InSync

(* A draft starts only while the answer is being read, it shows what was
   accumulated or what was visible before, never after a message of the human. *)
DraftsKeepQuiet ==
    [][draft'.fly # draft.fly /\ draft'.fly # NoText =>
          /\ relay'.st = "reading" /\ ~draft.quiet
          /\ IsPrefix(draft'.fly, relay'.acc) \/ draft'.fly = draft.vis]_vars

(* Every turn comes to its end and its answer is sent: a hung child is killed,
   a dialog nobody can answer is cancelled, a lost child is noticed. *)
TurnsSettle == turn.st # "idle" \/ relay.st # "off" ~> turn.st = "idle" /\ relay.st = "off"
============================================================================
