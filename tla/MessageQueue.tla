---------------------------- MODULE MessageQueue ----------------------------
(***************************************************************************)
(* The per-chat message queue of src/src/message-queue.ts: debounce before *)
(* a turn, collect during a turn, acknowledged steering of collected       *)
(* messages into the running turn, /reconnect and /clean (clear), and the  *)
(* process shutdown that drives the queues (runtime-shutdown.ts).          *)
(*                                                                         *)
(* JavaScript runs one callback at a time, so an action is everything the  *)
(* code does between two awaits.  A ChatQueueState object is identified by *)
(* a member of QStates: the code compares object identities                *)
(* (queues.get(chatId) !== state) to tell a state that was cleared and     *)
(* replaced from the current one, and so does the model.                   *)
(***************************************************************************)
EXTENDS Naturals, Sequences, FiniteSets

CONSTANTS
  Chats,      \* chat ids
  QStates,    \* identities of ChatQueueState objects (bound: objects alive at once)
  NoState,    \* queues.get(chatId) is undefined
  NumMsgs,    \* bound: messages the transports offer
  QueueCap    \* queueCap

Msgs == 1..NumMsgs
NoMsg == 0

ASSUME MessageQueueAssumption ==
  /\ Chats # {}
  /\ NumMsgs \in Nat
  /\ QueueCap \in Nat \ {0}
  /\ NoState \notin QStates

VARIABLES
  accepting,  \* acceptingMessages
  queues,     \* queues: chat -> identity of its ChatQueueState
  st,         \* the ChatQueueState objects
  turn,       \* per state, the turn its flush is in (flush or a drain batch)
  evictDue,   \* per chat, flush calls that are done but for their evictIfIdle
  stage,      \* shutdownServingRuntime: "serving", "draining" or "stopped"
  offered,    \* messages offered so far; message n is the n-th
  cleaned,    \* history: runs of each message's cleanup
  dropped,    \* history: runs of each message's dropCleanup
  taken,      \* history: times the agent took each message
  owned       \* history: messages whose media ownership went to the session

vars == <<accepting, queues, st, turn, evictDue, stage, offered,
          cleaned, dropped, taken, owned>>

-----------------------------------------------------------------------------
(* Helpers *)

ElementsOf(seq) == {seq[i] : i \in DOMAIN seq}

(* runCleanups over a set of messages: each callback runs once more. *)
Ran(count, ms) == [m \in Msgs |-> IF m \in ms THEN count[m] + 1 ELSE count[m]]

(* getState's object literal. *)
FreshState(c) ==
  [chat |-> c, pending |-> <<>>, timer |-> FALSE, collect |-> <<>>,
   busy |-> FALSE, submitting |-> NoMsg, steerPending |-> {}, blocked |-> FALSE,
   platform |-> FALSE, noticeScheduled |-> FALSE, cooling |-> FALSE,
   cooldownTimer |-> FALSE, calls |-> {}]

NoTurn == [phase |-> "none", batch |-> <<>>, live |-> FALSE,
           accepted |-> FALSE, drain |-> FALSE]

Current(s) == queues[st[s].chat] = s

CurrentStates == {queues[c] : c \in Chats} \ {NoState}

(* No map entry, flush, timer or steer promise refers to the object any more. *)
Unreferenced(s) ==
  /\ s \notin CurrentStates /\ turn[s].phase = "none"
  /\ st[s].calls = {} /\ ~st[s].cooldownTimer

BeginBusyGeneration(q) ==
  [q EXCEPT !.busy = TRUE, !.submitting = NoMsg, !.steerPending = {},
            !.blocked = FALSE]

(* Mutated form: promises of the finished generation stay registered. *)
KeepSteerPending(q) == [q EXCEPT !.submitting = NoMsg, !.blocked = TRUE]

SettleBusyGeneration(q) ==
  [q EXCEPT !.submitting = NoMsg, !.steerPending = {}, !.blocked = TRUE]

(* A turn without a platform context is settled at once and sends nothing. *)
StartBusy(q) ==
  IF q.platform THEN BeginBusyGeneration(q)
  ELSE SettleBusyGeneration(BeginBusyGeneration(q))

NewTurn(q, batch, drain) ==
  [phase |-> IF q.platform THEN "prepare" ELSE "reply", batch |-> batch,
   live |-> TRUE, accepted |-> FALSE, drain |-> drain]

(* The collected entries that are not yet with Pi, and the first of them. *)
Fresh(q) == {i \in DOMAIN q.collect : q.collect[i] \notin q.steerPending}

FirstFresh(q) == q.collect[CHOOSE i \in Fresh(q) : \A j \in Fresh(q) : i <= j]

(* attemptAcknowledgedSteer.  q.calls holds the promises of                *)
(* acknowledgedSteerFn that have not settled; a synchronous throw is a     *)
(* promise that rejects.                                                   *)
AttemptSteer(q) ==
  IF q.busy /\ ~q.blocked /\ q.submitting = NoMsg /\ Fresh(q) # {}
  THEN [q EXCEPT !.submitting = FirstFresh(q),
                 !.steerPending = @ \cup {FirstFresh(q)},
                 !.calls = @ \cup {FirstFresh(q)}]
  ELSE q

(* Mutated form: the entry is not spliced out. *)
WithoutSplice(seq, m) == seq

(* The seq with its first m spliced out (indexOf, splice). *)
Without(seq, m) ==
  LET i == CHOOSE i \in DOMAIN seq : seq[i] = m
  IN SubSeq(seq, 1, i - 1) \o SubSeq(seq, i + 1, Len(seq))

(* clear / clearAll on one state: what is left of the detached object. *)
DropCollectEntries(q) ==
  [SettleBusyGeneration(q) EXCEPT !.collect = <<>>]

Detached(q) ==
  [DropCollectEntries(q) EXCEPT !.timer = FALSE, !.cooldownTimer = FALSE,
                                !.noticeScheduled = FALSE]

(* Mutated form: clear() forgets the collect buffer. *)
UndeliveredPending(q) == ElementsOf(q.pending)

(* The messages whose cleanups clear() runs. *)
Undelivered(q) == ElementsOf(q.pending) \cup ElementsOf(q.collect)

(* rejectSaturatedInput: at most one notice per cooldown is scheduled. *)
RejectSaturated(q) ==
  IF q.noticeScheduled \/ q.cooling THEN q
  ELSE [q EXCEPT !.noticeScheduled = TRUE, !.cooling = TRUE]

(* Mutated form: a state may be evicted under a running turn. *)
IdleThoughBusy(q) == q.pending = <<>> /\ q.collect = <<>> /\ ~q.timer

Idle(q) == ~q.busy /\ q.pending = <<>> /\ q.collect = <<>> /\ ~q.timer

-----------------------------------------------------------------------------
Init ==
  /\ accepting = TRUE
  /\ queues = [c \in Chats |-> NoState]
  /\ st = [s \in QStates |-> FreshState(CHOOSE c \in Chats : TRUE)]
  /\ turn = [s \in QStates |-> NoTurn]
  /\ evictDue = [c \in Chats |-> 0]
  /\ stage = "serving"
  /\ offered = 0
  /\ cleaned = [m \in Msgs |-> 0]
  /\ dropped = [m \in Msgs |-> 0]
  /\ taken = [m \in Msgs |-> 0]
  /\ owned = {}

-----------------------------------------------------------------------------
(* Enqueue *)

(* enqueue after beginShutdown: refused, both cleanups run. *)
RefuseMessage ==
  /\ ~accepting /\ offered < NumMsgs
  /\ offered' = offered + 1
  /\ cleaned' = Ran(cleaned, {offered + 1})
  /\ dropped' = Ran(dropped, {offered + 1})
  /\ UNCHANGED <<accepting, queues, st, turn, evictDue, stage, taken, owned>>

(* getState and the assignments enqueue makes before it branches. *)
TouchedState(c, s) ==
  [(IF queues[c] = NoState THEN FreshState(c) ELSE st[s])
     EXCEPT !.platform = TRUE, !.cooldownTimer = FALSE]

(* Mutated form: off by one at the cap. *)
FullLate(q) == Len(IF q.busy THEN q.collect ELSE q.pending) > QueueCap

Full(q) == Len(IF q.busy THEN q.collect ELSE q.pending) >= QueueCap

(* Mutated form: the newest message goes first. *)
UnshiftCollected(q, m) == [q EXCEPT !.collect = <<m>> \o @]

PushCollected(q, m) == [q EXCEPT !.collect = Append(@, m)]

(* enqueue(chatId, ...): collect and offer to steering while a turn runs,  *)
(* otherwise (re)arm the debounce timer; over the cap, reject.             *)
Enqueue(c) ==
  /\ accepting /\ offered < NumMsgs
  /\ \/ queues[c] # NoState
     \/ \E s \in QStates : Unreferenced(s)
  /\ LET m == offered + 1
         s == IF queues[c] # NoState THEN queues[c]
              ELSE CHOOSE u \in QStates : Unreferenced(u)
         q == TouchedState(c, s)
         full == Full(q)
     IN /\ offered' = m
        /\ queues' = [queues EXCEPT ![c] = s]
        /\ st' = [st EXCEPT ![s] =
             IF full THEN RejectSaturated(q)
             ELSE IF q.busy
               THEN AttemptSteer(PushCollected(q, m))
               ELSE [q EXCEPT !.pending = Append(@, m), !.timer = TRUE]]
        /\ cleaned' = IF full THEN Ran(cleaned, {m}) ELSE cleaned
        /\ dropped' = IF full THEN Ran(dropped, {m}) ELSE dropped
  /\ UNCHANGED <<accepting, turn, evictDue, stage, taken, owned>>

(* The microtask of rejectSaturatedInput sends the notice. *)
SendRejectionNotice(s) ==
  /\ Current(s) /\ st[s].noticeScheduled
  /\ st' = [st EXCEPT ![s].noticeScheduled = FALSE]
  /\ UNCHANGED <<accepting, queues, turn, evictDue, stage, offered,
                 cleaned, dropped, taken, owned>>

(* Date.now() passes nextRejectionNoticeAt. *)
CooldownElapses(s) ==
  /\ st[s].cooling
  /\ st' = [st EXCEPT ![s].cooling = FALSE]
  /\ UNCHANGED <<accepting, queues, turn, evictDue, stage, offered,
                 cleaned, dropped, taken, owned>>

-----------------------------------------------------------------------------
(* Turns: flush and drainCollectBuffer *)

(* flush up to its first await. *)
Flushed(q) == StartBusy([q EXCEPT !.pending = <<>>, !.timer = FALSE])

(* The debounce timer fires: startFlush(chatId). *)
DebounceFires(c) ==
  /\ queues[c] # NoState
  /\ st[queues[c]].timer /\ st[queues[c]].pending # <<>>
  /\ LET s == queues[c]
     IN /\ st' = [st EXCEPT ![s] = Flushed(@)]
        /\ turn' = [turn EXCEPT ![s] = NewTurn(st[s], st[s].pending, FALSE)]
  /\ UNCHANGED <<accepting, queues, evictDue, stage, offered,
                 cleaned, dropped, taken, owned>>

(* Mutated form: dropCleanups run although the session took the media. *)
ReclaimsAlways(t) == TRUE

(* liveDropCleanups is not null. *)
Reclaims(t) == t.live

(* Mutated form: the flush ends without draining the collect buffer. *)
NeverDrains(q) == FALSE

DrainsNext(q) == q.collect # <<>>

(* What follows settleBusyGeneration once no replyError is awaited: run    *)
(* the batch's cleanups, reclaim media nobody took, and, unless the state  *)
(* was cleared meanwhile, drain the collect buffer as the next turn or end *)
(* the flush.  A cleared state's flush returns, but when the turn was a    *)
(* drain batch only drainCollectBuffer returns and flush still evicts.     *)
EndTurn(s, q) ==
  LET t == turn[s]
      c == q.chat
      batch == ElementsOf(t.batch)
      more == DrainsNext(q)
  IN /\ cleaned' = Ran(cleaned, batch)
     /\ dropped' = IF Reclaims(t) THEN Ran(dropped, batch) ELSE dropped
     /\ \/ /\ ~Current(s)
           /\ st' = [st EXCEPT ![s] = q]
           /\ turn' = [turn EXCEPT ![s] = NoTurn]
           /\ evictDue' = IF t.drain THEN [evictDue EXCEPT ![c] = @ + 1]
                          ELSE evictDue
        \/ /\ Current(s) /\ more
           /\ st' = [st EXCEPT ![s] = StartBusy([q EXCEPT !.collect = <<>>])]
           /\ turn' = [turn EXCEPT ![s] = NewTurn(q, q.collect, TRUE)]
           /\ UNCHANGED evictDue
        \/ /\ Current(s) /\ ~more
           /\ st' = [st EXCEPT ![s] = [q EXCEPT !.busy = FALSE]]
           /\ turn' = [turn EXCEPT ![s] = NoTurn]
           /\ evictDue' = [evictDue EXCEPT ![c] = @ + 1]

(* prepareSessionFn resolves; deliverRecoveryNotice follows unless cleared. *)
SessionPrepared(s) ==
  /\ turn[s].phase = "prepare" /\ Current(s)
  /\ turn' = [turn EXCEPT ![s].phase = "notice"]
  /\ UNCHANGED <<accepting, queues, st, evictDue, stage, offered,
                 cleaned, dropped, taken, owned>>

(* recoveryNoticeFn settled, either way; processFn is called unless cleared. *)
NoticeDelivered(s) ==
  /\ turn[s].phase = "notice" /\ Current(s)
  /\ turn' = [turn EXCEPT ![s].phase = "process"]
  /\ UNCHANGED <<accepting, queues, st, evictDue, stage, offered,
                 cleaned, dropped, taken, owned>>

(* Mutated form: a cleared turn still claims its media. *)
TransfersAnyway(s) == TRUE

(* transferOwnership is ignored once the queue was cleared. *)
TransfersOwnership(s) == Current(s)

(* The agent accepts the prompt and processFn calls onAgentOwnership: the  *)
(* session owns the media from here on, unless the state was cleared.      *)
AgentTakesPrompt(s) ==
  /\ turn[s].phase = "process" /\ ~turn[s].accepted
  /\ LET batch == ElementsOf(turn[s].batch)
     IN /\ turn' = [turn EXCEPT ![s].accepted = TRUE,
                                ![s].live = @ /\ ~TransfersOwnership(s)]
        /\ taken' = Ran(taken, batch)
        /\ owned' = IF TransfersOwnership(s) THEN owned \cup batch ELSE owned
  /\ UNCHANGED <<accepting, queues, st, evictDue, stage, offered,
                 cleaned, dropped>>

(* The awaited call returns: processFn, or an earlier one on a state that  *)
(* was cleared while it ran.                                               *)
TurnSucceeds(s) ==
  /\ \/ turn[s].phase = "process"
     \/ turn[s].phase \in {"prepare", "notice"} /\ ~Current(s)
  /\ EndTurn(s, SettleBusyGeneration(st[s]))
  /\ UNCHANGED <<accepting, queues, stage, offered, taken, owned>>

(* prepareSessionFn or processFn throws.  The error is sent to the user    *)
(* (awaited) unless the state was cleared.                                 *)
TurnThrows(s) ==
  /\ turn[s].phase \in {"prepare", "process"}
  /\ IF Current(s)
     THEN /\ st' = [st EXCEPT ![s] = SettleBusyGeneration(@)]
          /\ turn' = [turn EXCEPT ![s].phase = "reply"]
          /\ UNCHANGED <<evictDue, cleaned, dropped>>
     ELSE EndTurn(s, SettleBusyGeneration(st[s]))
  /\ UNCHANGED <<accepting, queues, stage, offered, taken, owned>>

(* replyError settled, either way. *)
ErrorReplied(s) ==
  /\ turn[s].phase = "reply"
  /\ EndTurn(s, st[s])
  /\ UNCHANGED <<accepting, queues, stage, offered, taken, owned>>

-----------------------------------------------------------------------------
(* Acknowledged steering *)

(* finishSteerEnqueue: Pi queued the entry, the next one may be offered. *)
SteerEnqueued(s, m) ==
  /\ m \in st[s].calls
  /\ Current(s) /\ st[s].busy /\ ~st[s].blocked /\ st[s].submitting = m
  /\ m \in st[s].steerPending /\ m \in ElementsOf(st[s].collect)
  /\ st' = [st EXCEPT ![s] = AttemptSteer([@ EXCEPT !.submitting = NoMsg])]
  /\ UNCHANGED <<accepting, queues, turn, evictDue, stage, offered,
                 cleaned, dropped, taken, owned>>

(* finishAcknowledgedSteer's guard: the promise belongs to this busy       *)
(* generation of the current state.                                        *)
SteerIsLive(s, m) ==
  Current(s) /\ st[s].busy /\ m \in st[s].steerPending

SteerForgotten(q, m) ==
  [q EXCEPT !.steerPending = @ \ {m}, !.calls = @ \ {m},
            !.submitting = IF @ = m THEN NoMsg ELSE @]

(* The promise resolves true: Pi consumed the entry, so it leaves the      *)
(* collect buffer; the session owns its media (only cleanup runs).         *)
SteerConsumed(s, m) ==
  /\ m \in st[s].calls /\ SteerIsLive(s, m)
  /\ LET q == SteerForgotten(st[s], m)
         found == m \in ElementsOf(q.collect)
     IN /\ st' = [st EXCEPT ![s] =
             IF found THEN AttemptSteer([q EXCEPT !.collect = Without(@, m)])
             ELSE q]
        /\ cleaned' = IF found THEN Ran(cleaned, {m}) ELSE cleaned
        /\ taken' = IF found THEN Ran(taken, {m}) ELSE taken
        /\ owned' = IF found THEN owned \cup {m} ELSE owned
  /\ UNCHANGED <<accepting, queues, turn, evictDue, stage, offered, dropped>>

(* The promise resolves false or rejects: stop steering in this turn. *)
SteerRefused(s, m) ==
  /\ m \in st[s].calls /\ SteerIsLive(s, m)
  /\ st' = [st EXCEPT ![s] = [SteerForgotten(@, m) EXCEPT !.blocked = TRUE]]
  /\ UNCHANGED <<accepting, queues, turn, evictDue, stage, offered,
                 cleaned, dropped, taken, owned>>

(* The promise settles after its busy generation or its state is gone. *)
SteerSettlesLate(s, m) ==
  /\ m \in st[s].calls /\ ~SteerIsLive(s, m)
  /\ st' = [st EXCEPT ![s].calls = @ \ {m}]
  /\ UNCHANGED <<accepting, queues, turn, evictDue, stage, offered,
                 cleaned, dropped, taken, owned>>

-----------------------------------------------------------------------------
(* Eviction, clear and shutdown *)

(* Mutated form: a state kept for its rejection cooldown gets no timer. *)
EvictWithoutTimer(c, sts) ==
  LET s == queues[c]
      idle == IF s = NoState THEN FALSE ELSE Idle(sts[s])
  IN /\ queues' = IF idle /\ ~sts[s].cooling THEN [queues EXCEPT ![c] = NoState]
                  ELSE queues
     /\ st' = IF idle /\ sts[s].cooling
              THEN [sts EXCEPT ![s].platform = FALSE] ELSE sts

(* evictIfIdle(chatId), over the states as the caller left them. *)
EvictIfIdle(c, sts) ==
  LET s == queues[c]
      idle == IF s = NoState THEN FALSE ELSE Idle(sts[s])
  IN IF idle /\ ~sts[s].cooling
     THEN /\ queues' = [queues EXCEPT ![c] = NoState]
          /\ st' = sts
     ELSE /\ UNCHANGED queues
          /\ st' = IF idle
                   THEN [sts EXCEPT ![s].platform = FALSE,
                                    ![s].cooldownTimer = TRUE]
                   ELSE sts

(* flush's last step, after the await of drainCollectBuffer. *)
FlushEvicts(c) ==
  /\ evictDue[c] > 0
  /\ evictDue' = [evictDue EXCEPT ![c] = @ - 1]
  /\ EvictIfIdle(c, st)
  /\ UNCHANGED <<accepting, turn, stage, offered, cleaned, dropped, taken, owned>>

(* The rejection cooldown timer of an idle state fires. *)
CooldownTimerFires(s) ==
  /\ st[s].cooldownTimer
  /\ EvictIfIdle(st[s].chat, [st EXCEPT ![s].cooldownTimer = FALSE])
  /\ UNCHANGED <<accepting, turn, evictDue, stage, offered,
                 cleaned, dropped, taken, owned>>

(* clear(chatId), from /reconnect and /clean. *)
Clear(c) ==
  /\ queues[c] # NoState
  /\ LET s == queues[c]
         lost == Undelivered(st[s])
     IN /\ st' = [st EXCEPT ![s] = Detached(@)]
        /\ cleaned' = Ran(cleaned, lost)
        /\ dropped' = Ran(dropped, lost)
  /\ queues' = [queues EXCEPT ![c] = NoState]
  /\ UNCHANGED <<accepting, turn, evictDue, stage, offered, taken, owned>>

(* clearAll *)
ClearAll ==
  LET lost == UNION {Undelivered(st[s]) : s \in CurrentStates}
  IN /\ st' = [s \in QStates |->
                 IF s \in CurrentStates THEN Detached(st[s]) ELSE st[s]]
     /\ cleaned' = Ran(cleaned, lost)
     /\ dropped' = Ran(dropped, lost)
     /\ queues' = [c \in Chats |-> NoState]

(* Mutated form: flushPending starts nothing. *)
StartsNone(s) == FALSE

(* flushPending's test. *)
Starts(s) == s \in CurrentStates /\ st[s].pending # <<>> /\ ~st[s].busy

(* beginShutdown, which cancels the debounce timers, and flushPending in   *)
(* the same callback of shutdownServingRuntime.                            *)
BeginShutdown ==
  /\ stage = "serving"
  /\ stage' = "draining"
  /\ accepting' = FALSE
  /\ st' = [s \in QStates |->
              IF Starts(s) THEN Flushed(st[s])
              ELSE IF s \in CurrentStates THEN [st[s] EXCEPT !.timer = FALSE]
              ELSE st[s]]
  /\ turn' = [s \in QStates |->
                IF Starts(s) THEN NewTurn(st[s], st[s].pending, FALSE)
                ELSE turn[s]]
  /\ UNCHANGED <<queues, evictDue, offered, cleaned, dropped, taken, owned>>

(* waitForIdle: no flush is left in activeFlushes. *)
NoActiveFlush ==
  /\ \A s \in QStates : turn[s].phase = "none"
  /\ \A c \in Chats : evictDue[c] = 0

(* The queues are idle within the deadline; clearAll follows. *)
FinishDrain ==
  /\ stage = "draining" /\ NoActiveFlush
  /\ stage' = "stopped"
  /\ ClearAll
  /\ UNCHANGED <<accepting, turn, evictDue, offered, taken, owned>>

(* The deadline passes, in the transport, session or queue drain:          *)
(* forceShutdownCleanup.                                                   *)
ForceShutdown ==
  /\ stage \in {"serving", "draining"}
  /\ stage' = "stopped"
  /\ accepting' = FALSE
  /\ ClearAll
  /\ UNCHANGED <<turn, evictDue, offered, taken, owned>>

(* The process is down: nothing is left to run. *)
Stopped ==
  /\ stage = "stopped" /\ NoActiveFlush /\ offered = NumMsgs
  /\ \A s \in QStates : st[s].calls = {} /\ ~st[s].cooling
  /\ UNCHANGED vars

-----------------------------------------------------------------------------
TurnStep(s) ==
  \/ SessionPrepared(s) \/ NoticeDelivered(s) \/ AgentTakesPrompt(s)
  \/ TurnSucceeds(s) \/ TurnThrows(s) \/ ErrorReplied(s)

SteerStep(s) ==
  \E m \in Msgs : \/ SteerEnqueued(s, m) \/ SteerConsumed(s, m)
                  \/ SteerRefused(s, m) \/ SteerSettlesLate(s, m)

StateStep(s) ==
  SendRejectionNotice(s) \/ CooldownElapses(s) \/ CooldownTimerFires(s)

ChatStep(c) ==
  Enqueue(c) \/ DebounceFires(c) \/ FlushEvicts(c) \/ Clear(c)

Next ==
  \/ RefuseMessage
  \/ \E c \in Chats : ChatStep(c)
  \/ \E s \in QStates : TurnStep(s) \/ SteerStep(s) \/ StateStep(s)
  \/ BeginShutdown \/ FinishDrain \/ ForceShutdown \/ Stopped

Spec == Init /\ [][Next]_vars

(* Timers fire, microtasks run, and every promise the queue awaits settles:  *)
(* sendSessionMessage gives up on a silent child (activity timeout), and     *)
(* steer promises settle at the latest with the child's turn.  Nothing makes *)
(* users send, clear or shut down.                                           *)
Fairness ==
  /\ \A c \in Chats : WF_vars(DebounceFires(c)) /\ WF_vars(FlushEvicts(c))
  /\ \A s \in QStates : /\ WF_vars(TurnStep(s))
                        /\ WF_vars(SteerStep(s))
                        /\ WF_vars(CooldownElapses(s))
                        /\ WF_vars(CooldownTimerFires(s))

FairSpec == Spec /\ Fairness

-----------------------------------------------------------------------------
(* Properties *)

QueueState ==
  [chat : Chats, pending : Seq(Msgs), timer : BOOLEAN, collect : Seq(Msgs),
   busy : BOOLEAN, submitting : Msgs \cup {NoMsg}, steerPending : SUBSET Msgs,
   blocked : BOOLEAN, platform : BOOLEAN, noticeScheduled : BOOLEAN,
   cooling : BOOLEAN, cooldownTimer : BOOLEAN, calls : SUBSET Msgs]

TurnRecord ==
  [phase : {"none", "prepare", "notice", "process", "reply"}, batch : Seq(Msgs),
   live : BOOLEAN, accepted : BOOLEAN, drain : BOOLEAN]

(* Types of all variables; buffers never exceed the cap enqueue enforces.  *)
TypeOK ==
  /\ accepting \in BOOLEAN
  /\ queues \in [Chats -> QStates \cup {NoState}]
  /\ st \in [QStates -> QueueState]
  /\ turn \in [QStates -> TurnRecord]
  /\ evictDue \in [Chats -> Nat]
  /\ stage \in {"serving", "draining", "stopped"}
  /\ offered \in 0..NumMsgs
  /\ cleaned \in [Msgs -> Nat]
  /\ dropped \in [Msgs -> Nat]
  /\ taken \in [Msgs -> Nat]
  /\ owned \subseteq Msgs
  /\ \A s \in QStates : /\ Len(st[s].pending) <= QueueCap
                        /\ Len(st[s].collect) <= QueueCap

(* Places that still hold message m: a buffer of a current state, or the   *)
(* batch of a turn, a cleared state's turn included.                       *)
Holders(m) ==
  {<<"pending", s>> : s \in {u \in CurrentStates : m \in ElementsOf(st[u].pending)}}
  \cup
  {<<"collect", s>> : s \in {u \in CurrentStates : m \in ElementsOf(st[u].collect)}}
  \cup
  {<<"batch", s>> : s \in {u \in QStates : m \in ElementsOf(turn[u].batch)}}

(* No message is lost or kept twice: until its cleanup ran, an offered     *)
(* message is in exactly one place, and afterwards in none.                *)
CustodyAccounted ==
  \A m \in 1..offered :
    Cardinality(Holders(m)) = (IF cleaned[m] = 0 THEN 1 ELSE 0)

(* Every message's cleanup and dropCleanup run at most once, and a message *)
(* that is done was either handed to the session, which keeps its media,   *)
(* or had its media reclaimed: never both, never neither (comment at       *)
(* message-queue.ts:354).                                                  *)
MediaSettledOnce ==
  \A m \in Msgs :
    /\ cleaned[m] <= 1 /\ dropped[m] <= 1
    /\ m \in owned => dropped[m] = 0
    /\ cleaned[m] = 1 => (m \in owned \/ dropped[m] = 1)

(* The agent is given no message twice: one that steering consumed is not  *)
(* in a later collect batch, and no batch is sent again.                   *)
AgentSeesOnce == \A m \in Msgs : taken[m] <= 1

(* Nothing waits for an event that never comes: debounced messages have an *)
(* armed timer and no turn in their way, collected messages have a running *)
(* turn that will drain them, and both have a platform to answer on (a     *)
(* turn without one would settle its messages unsent).                     *)
NothingStranded ==
  \A s \in CurrentStates :
    /\ st[s].busy <=> turn[s].phase # "none"
    /\ st[s].pending # <<>> => st[s].timer /\ ~st[s].busy
    /\ st[s].collect # <<>> => st[s].busy
    /\ st[s].pending # <<>> \/ st[s].busy => st[s].platform

(* Steering bookkeeping never refers to an entry that left the buffer, and *)
(* none outlives its busy generation.                                      *)
SteerConsistent ==
  \A s \in CurrentStates :
    /\ st[s].submitting # NoMsg => st[s].submitting \in st[s].steerPending
    /\ st[s].steerPending \subseteq ElementsOf(st[s].collect) \cap st[s].calls
    /\ turn[s].phase \in {"none", "reply"} => st[s].steerPending = {}

Increasing(seq) == \A i, j \in DOMAIN seq : i < j => seq[i] < seq[j]

(* A chat's messages reach the agent in the order they were sent: what is  *)
(* collected comes after the running batch, and batches keep the order.    *)
OrderKept ==
  \A s \in CurrentStates :
    /\ Increasing(st[s].pending)
    /\ Increasing(turn[s].batch \o st[s].collect)

(* Messages stay accounted for on their way to the agent: each is in one   *)
(* place until it is settled, in the order it was sent, and the steering   *)
(* bookkeeping refers to no message that left it.                          *)
AccountedInOrder == CustodyAccounted /\ SteerConsistent /\ OrderKept

(* A message is dealt with once: it reaches the agent at most once and its *)
(* media is settled once.                                                  *)
HandledOnce == MediaSettledOnce /\ AgentSeesOnce

(* A turn of a cleared state neither touches the state that replaced it    *)
(* nor takes over media ownership.                                         *)
ClearedTurnIsInert ==
  [][\A s \in QStates :
       turn'[s] # turn[s] /\ turn[s].phase # "none" /\ ~Current(s)
       => /\ \A u \in CurrentStates : st'[u] = st[u]
          /\ queues' = queues
          /\ owned' = owned]_vars

(* A shutdown that drains within its deadline loses no accepted message:   *)
(* clearAll finds nothing left to drop.                                    *)
DrainLosesNothing ==
  [][stage = "draining" /\ stage' = "stopped" /\ NoActiveFlush
     => dropped' = dropped /\ cleaned' = cleaned]_vars

(* Every message a transport offers is eventually consumed or reclaimed,   *)
(* however turns, steering, clears and shutdown interleave.                *)
MessagesSettle == \A m \in Msgs : offered >= m ~> cleaned[m] = 1

(* A chat's state is eventually dropped from the map when the chat falls   *)
(* silent: neither a turn nor a rejection cooldown retains it for good.    *)
IdleStatesReclaimed == \A c \in Chats : queues[c] # NoState ~> queues[c] = NoState

-----------------------------------------------------------------------------
(* Refinement: who has custody of each message. *)
CustodyOf(m) ==
  IF m > offered THEN "unseen"
  ELSE IF m \in owned THEN "session"
  ELSE IF dropped[m] > 0 THEN "reclaimed"
  ELSE "queued"

Custody == INSTANCE MessageCustody
  WITH Messages <- Msgs, custody <- [m \in Msgs |-> CustodyOf(m)]

(* The queue implements MessageCustody: custody of an accepted message     *)
(* ends, and it ends once, with the session or with reclaimed media.       *)
KeepsCustody == Custody!Spec
=============================================================================
