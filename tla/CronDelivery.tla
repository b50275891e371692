---------------------------- MODULE CronDelivery ----------------------------
(***************************************************************************)
(* One scheduled cron from invocation to invocation: main() of             *)
(* src/src/cron-runner.ts over the single durable slot of                  *)
(* src/src/cron-outbox.ts and the chat that receives the results.          *)
(*                                                                         *)
(* launchd starts the job again on every calendar match and never runs it  *)
(* twice at once, so there is at most one invocation and the slot is what  *)
(* survives between them.  Each action is one file operation, one message  *)
(* to the chat or one generation; the process may die between any two.     *)
(* Only the slot, the chat and the published health metric outlive it.     *)
(*                                                                         *)
(* The payload is the number of the run that produced it and is sent as a  *)
(* fixed number of messages.  Logs, diagnostic events, the retry counter   *)
(* of a record and the best-effort notices to the administrator change     *)
(* nothing that is read back and are left out.                             *)
(***************************************************************************)
EXTENDS CronTask

CONSTANTS
    MaxRuns,      \* logical runs explored
    Chunks,       \* messages a result is split into
    Retries,      \* length of CRON_DELIVERY_RETRY_DELAYS_MS
    HasMaxAge,    \* whether the cron sets deliveryMaxAgeMs
    MaxCrashes,   \* process deaths explored
    MaxIOErrors,  \* failing file operations explored
    MaxPartial    \* failing deliveries of one result that arrive in part

ASSUME CronAssumption ==
    /\ MaxRuns \in Nat /\ Chunks \in Nat \ {0} /\ Retries \in Nat
    /\ HasMaxAge \in BOOLEAN
    /\ MaxCrashes \in Nat /\ MaxIOErrors \in Nat /\ MaxPartial \in Nat

VARIABLES
    slot,       \* the cron's outbox record on disk
    pc,         \* what the invocation does next; "idle": no process
    run,        \* the logical run in progress, 0 during pickup
    pending,    \* the record this invocation read
    chunk,      \* next message of the delivery under way
    attempt,    \* fresh delivery attempts made, this one included
    outcome,    \* terminalOutcome of the logical run
    chat,       \* chat[r][c]: copies of message c of run r that arrived
    published,  \* published[r][o]: times the counter of outcome o grew for r
    ran,        \* logical runs started so far
    produced,   \* history: runs whose generation left something to deliver
    faults,     \* history: what the outside did to each run
    doubt,      \* history: deliveries of r that arrived in part, or whose end was not recorded
    crashes, ioErrors

disk == <<slot, chat, published>>
memory == <<run, pending, chunk, attempt, outcome>>
history == <<ran, produced, faults, doubt>>
bounds == <<crashes, ioErrors>>
vars == <<disk, pc, memory, history, bounds>>

Runs == 1..MaxRuns
Outcomes == {"success", "failure"}
Faults == {"crash", "io", "refused", "expired", "metric"}
Kinds == {"empty", "corrupt", "failure-notice", "output"}
Records == [kind : Kinds, run : 0..MaxRuns, old : BOOLEAN]
Steps == {"idle", "starting", "pickup", "dropping", "replaying", "settling",
          "deferring", "rejected", "generating", "delivering", "waiting",
          "queueing", "writing", "publishing"}

Unowed(kind) == [kind |-> kind, run |-> 0, old |-> FALSE]
Empty == Unowed("empty")
Owed(r) == slot.kind = "output" /\ slot.run = r

Blame(r, fault) == faults' = [faults EXCEPT ![r] = @ \union {fault}]

(* A failing file operation, as often as MaxIOErrors allows. *)
IOError == ioErrors < MaxIOErrors /\ ioErrors' = ioErrors + 1

(* The slot may hold a notice written by an older release, or garbage. *)
Init ==
    /\ slot \in {Unowed(k) : k \in {"empty", "corrupt", "failure-notice"}}
    /\ pc = "idle" /\ run = 0 /\ pending = Empty
    /\ chunk = 1 /\ attempt = 1 /\ outcome = "success"
    /\ chat = [r \in Runs |-> [c \in 1..Chunks |-> 0]]
    /\ published = [r \in Runs |-> [o \in Outcomes |-> 0]]
    /\ ran = 0 /\ produced = {}
    /\ faults = [r \in Runs |-> {}] /\ doubt = [r \in Runs |-> 0]
    /\ crashes = 0 /\ ioErrors = 0

(* The process is gone and its memory with it. *)
Forgotten ==
    /\ pc' = "idle" /\ run' = 0 /\ pending' = Empty
    /\ chunk' = 1 /\ attempt' = 1 /\ outcome' = "success"

(* launchd starts the job.  Once MaxRuns runs have started, an invocation  *)
(* is of interest only while something is owed.                            *)
Invoke ==
    /\ pc = "idle"
    /\ ran < MaxRuns \/ slot # Empty
    /\ pc' = "starting"
    /\ UNCHANGED <<disk, memory, history, bounds>>

BeginRun == run' = ran + 1 /\ ran' = ran + 1

LoadTask ==
    /\ pc = "starting" /\ pc' = "pickup"
    /\ Loadable # {}
    /\ UNCHANGED <<disk, memory, history, bounds>>

(* Mutant: the process exits before it finalizes. *)
MisconfiguredSilently ==
    /\ pc = "starting" /\ ran < MaxRuns
    /\ ran' = ran + 1 /\ Forgotten
    /\ UNCHANGED <<disk, produced, faults, doubt, bounds>>

(* A bad configuration is a failed run that never looked at the slot. *)
Misconfigured ==
    /\ pc = "starting" /\ ran < MaxRuns
    /\ Loadable # Tasks \X Defaults
    /\ BeginRun /\ outcome' = "failure" /\ pc' = "publishing"
    /\ UNCHANGED <<disk, pending, chunk, attempt, produced, faults, doubt, bounds>>

-----------------------------------------------------------------------------
(* Pickup: what an earlier run still owes, before anything new. *)

Overdue(record) == HasMaxAge /\ record.old
Droppable(record) ==
    \/ record.kind \in {"corrupt", "failure-notice"}
    \/ record.kind = "output" /\ Overdue(record)

(* Mutant: an owed result is left for a later invocation. *)
PickUpLater ==
    /\ pc = "pickup"
    /\ pending' = slot
    /\ pc' = CASE slot = Empty    -> "generating"
               [] Droppable(slot) -> "dropping"
               [] OTHER           -> "deferring"
    /\ UNCHANGED <<disk, run, chunk, attempt, outcome, history, bounds>>

PickUp ==
    /\ pc = "pickup"
    /\ pending' = slot
    /\ pc' = CASE slot = Empty    -> "generating"
               [] Droppable(slot) -> "dropping"
               [] OTHER           -> "replaying"
    /\ UNCHANGED <<disk, run, chunk, attempt, outcome, history, bounds>>

PickUpFails ==
    /\ pc = "pickup" /\ IOError /\ Forgotten
    /\ UNCHANGED <<disk, history, crashes>>

Clearing == {"dropping", "rejected", "settling"}

(* Mutant: the record of a finished delivery stays. *)
ClearNothing ==
    /\ pc \in Clearing
    /\ slot' = slot /\ pc' = "generating" /\ chunk' = 1
    /\ UNCHANGED <<chat, published, run, pending, attempt, outcome, history, bounds>>

(* clearCronOutboxRecord, then on to generation: an unusable or overdue    *)
(* record, one the chat refused, and one delivered all end here.           *)
Clear ==
    /\ pc \in Clearing
    /\ slot' = Empty /\ pc' = "generating" /\ chunk' = 1
    /\ UNCHANGED <<chat, published, run, pending, attempt, outcome, history, bounds>>

(* A record that will not go away stops the invocation.  If it has just    *)
(* been delivered, the next pickup cannot know.                            *)
ClearFails ==
    /\ pc \in Clearing /\ IOError /\ Forgotten
    /\ doubt' = IF pc = "settling" THEN [doubt EXCEPT ![pending.run] = @ + 1] ELSE doubt
    /\ UNCHANGED <<disk, ran, produced, faults, crashes>>

(* Mutant: a deferred pickup does not stop the invocation. *)
DeferAndGoOn ==
    /\ pc = "deferring" /\ pc' = "generating"
    /\ UNCHANGED <<disk, memory, history, bounds>>

(* The record is rewritten with one more attempt and the invocation ends   *)
(* without a logical run, whether or not the rewrite worked.               *)
Defer ==
    /\ pc = "deferring" /\ Forgotten
    /\ UNCHANGED <<disk, history, bounds>>

-----------------------------------------------------------------------------
(* Sending, of an owed record or of a fresh result. *)

Sending == pc \in {"replaying", "delivering"}
Sent == IF pc = "replaying" THEN pending.run ELSE run
Arrives == chat' = [chat EXCEPT ![Sent][chunk] = @ + 1]

SendChunk ==
    /\ Sending /\ Arrives
    /\ IF chunk < Chunks
       THEN chunk' = chunk + 1 /\ pc' = pc
       ELSE /\ chunk' = 1
            /\ pc' = IF pc = "replaying" THEN "settling" ELSE "publishing"
    /\ UNCHANGED <<slot, published, run, pending, attempt, outcome, history, bounds>>

(* Mutant: a lost answer counts as a rejection. *)
QueueableIfUnreachable(failure) == failure = "unreachable"

(* Only a proven rejection is worth no further attempt. *)
Queueable(failure) == failure # "refused"

(* Mutant: the list of delays is read one past its end. *)
AfterFailureLate(failure) ==
    CASE pc = "replaying" -> IF Queueable(failure) THEN "deferring" ELSE "rejected"
      [] pc = "delivering" /\ attempt <= Retries + 1 -> "waiting"
      [] pc = "delivering" /\ attempt > Retries + 1 ->
            IF Queueable(failure) THEN "queueing" ELSE "publishing"

AfterFailure(failure) ==
    CASE pc = "replaying" -> IF Queueable(failure) THEN "deferring" ELSE "rejected"
      [] pc = "delivering" /\ attempt <= Retries -> "waiting"
      [] pc = "delivering" /\ attempt > Retries ->
            IF Queueable(failure) THEN "queueing" ELSE "publishing"

(* Mutant: a failed delivery is published with the outcome of generation. *)
OutcomeKept == outcome

OutcomeAfterFailure ==
    IF pc = "delivering" /\ attempt > Retries THEN "failure" ELSE outcome

(* The chat refuses the message, cannot be reached, or takes the message   *)
(* and the answer is lost.                                                 *)
SendFails(failure) ==
    /\ Sending
    /\ pc' = AfterFailure(failure) /\ chunk' = 1
    /\ outcome' = OutcomeAfterFailure
    /\ IF failure = "unanswered" THEN Arrives ELSE UNCHANGED chat
    /\ IF failure = "refused" THEN Blame(Sent, "refused") ELSE UNCHANGED faults
    /\ IF chunk > 1 \/ failure = "unanswered"
       THEN /\ doubt[Sent] < MaxPartial
            /\ doubt' = [doubt EXCEPT ![Sent] = @ + 1]
       ELSE UNCHANGED doubt
    /\ UNCHANGED <<slot, published, run, pending, attempt, ran, produced, bounds>>

(* deps.sleep, then the whole result again. *)
Retry ==
    /\ pc = "waiting"
    /\ attempt' = attempt + 1 /\ pc' = "delivering"
    /\ UNCHANGED <<disk, run, pending, chunk, outcome, history, bounds>>

-----------------------------------------------------------------------------
(* The logical run. *)

(* Generation fails, or leaves nothing to say (empty output, NO_REPLY), or *)
(* a result; an LLM result may carry the unresolved marker, and then the   *)
(* run counts as failed although its report is delivered.                  *)
GenerateNothing(o) ==
    /\ pc = "generating" /\ ran < MaxRuns
    /\ BeginRun /\ outcome' = o /\ pc' = "publishing"
    /\ UNCHANGED <<disk, pending, chunk, attempt, produced, faults, doubt, bounds>>

Generate(o) ==
    /\ pc = "generating" /\ ran < MaxRuns
    /\ BeginRun /\ outcome' = o /\ pc' = "delivering"
    /\ produced' = produced \union {ran + 1}
    /\ UNCHANGED <<disk, pending, chunk, attempt, faults, doubt, bounds>>

\* The verdict on what the process left decides.
Execute ==
    \E v \in Verdicts : IF v.silent THEN GenerateNothing(v.outcome) ELSE Generate(v.outcome)

(* Bound: no run is left to explore. *)
NoRunLeft ==
    /\ pc = "generating" /\ ran = MaxRuns /\ Forgotten
    /\ UNCHANGED <<disk, history, bounds>>

(* queueOutputIfEmpty: an occupied or unreadable slot is left alone. *)
CheckSlot ==
    /\ pc = "queueing"
    /\ pc' = IF slot = Empty THEN "writing" ELSE "publishing"
    /\ UNCHANGED <<disk, memory, history, bounds>>

Queue ==
    /\ pc = "writing"
    /\ slot' = [kind |-> "output", run |-> run, old |-> FALSE]
    /\ pc' = "publishing"
    /\ UNCHANGED <<chat, published, memory, history, bounds>>

QueueFails ==
    /\ pc \in {"queueing", "writing"} /\ IOError
    /\ Blame(run, "io") /\ pc' = "publishing"
    /\ UNCHANGED <<disk, memory, ran, produced, doubt, crashes>>

(* finalizeInvocation, then exit. *)
Publish ==
    /\ pc = "publishing"
    /\ published' = [published EXCEPT ![run][outcome] = @ + 1]
    /\ Forgotten
    /\ UNCHANGED <<slot, chat, history, bounds>>

PublishFails ==
    /\ pc = "publishing" /\ IOError
    /\ Blame(run, "metric") /\ Forgotten
    /\ UNCHANGED <<disk, ran, produced, doubt, crashes>>

-----------------------------------------------------------------------------
(* The outside world. *)

(* The process dies.  A delivery of an owed record that got anything       *)
(* through will be repeated.                                               *)
Crash ==
    /\ pc # "idle" /\ crashes < MaxCrashes /\ crashes' = crashes + 1
    /\ IF run # 0 THEN Blame(run, "crash") ELSE UNCHANGED faults
    /\ doubt' = IF pc = "settling" \/ (pc = "replaying" /\ chunk > 1)
                THEN [doubt EXCEPT ![pending.run] = @ + 1] ELSE doubt
    /\ Forgotten
    /\ UNCHANGED <<disk, ran, produced, ioErrors>>

(* The owed result passes the age its cron sets. *)
Age ==
    /\ HasMaxAge /\ slot.kind = "output" /\ ~slot.old
    /\ slot' = [slot EXCEPT !.old = TRUE]
    /\ Blame(slot.run, "expired")
    /\ UNCHANGED <<chat, published, pc, memory, ran, produced, doubt, bounds>>

Runner ==
    \/ LoadTask \/ Misconfigured
    \/ PickUp \/ PickUpFails \/ Clear \/ ClearFails \/ Defer
    \/ SendChunk \/ \E failure \in {"refused", "unreachable", "unanswered"} : SendFails(failure)
    \/ Retry
    \/ Execute
    \/ NoRunLeft
    \/ CheckSlot \/ Queue \/ QueueFails
    \/ Publish \/ PublishFails

Next == Invoke \/ Runner \/ Crash \/ Age

Spec == Init /\ [][Next]_vars

(* launchd keeps starting the job, a started process keeps running, and    *)
(* no message of an owed result fails for ever.                            *)
FairSpec ==
    /\ Spec
    /\ WF_vars(Invoke) /\ WF_vars(Runner)
    /\ SF_vars(LoadTask)
    /\ \A c \in 1..Chunks : SF_vars(pc = "replaying" /\ chunk = c /\ SendChunk)

-----------------------------------------------------------------------------
TypeOK ==
    /\ slot \in Records /\ pending \in Records
    /\ pc \in Steps
    /\ run \in 0..MaxRuns /\ ran \in 0..MaxRuns
    /\ chunk \in 1..Chunks /\ attempt \in 1..(Retries + 1)
    /\ outcome \in Outcomes
    /\ chat \in [Runs -> [1..Chunks -> Nat]]
    /\ published \in [Runs -> [Outcomes -> Nat]]
    /\ produced \subseteq Runs
    /\ faults \in [Runs -> SUBSET Faults]
    /\ doubt \in [Runs -> Nat]
    /\ crashes \in 0..MaxCrashes /\ ioErrors \in 0..MaxIOErrors

Delivered(r) == \A c \in 1..Chunks : chat[r][c] > 0
InHand(r) == run = r /\ pc \in {"delivering", "waiting", "queueing", "writing"}

(* README.md:946-950: generated output stays owed across outages.  A       *)
(* result nobody refused, that did not expire and whose run neither died   *)
(* nor lost its file operation is in the chat, in the slot or being sent,  *)
(* however often the chat was unreachable and whatever later invocations   *)
(* met.                                                                    *)
OwedIsKept ==
    \A r \in produced :
        faults[r] \intersect {"crash", "io", "refused", "expired"} = {}
            => Delivered(r) \/ Owed(r) \/ InHand(r)

(* README.md:943-948: pickup-first.  While a logical run is in progress    *)
(* nothing else is owed, so its own result always finds the slot free.     *)
PickupFirst ==
    pc \in {"generating", "delivering", "waiting", "queueing", "writing"} => slot = Empty

(* README.md:969-972: a message repeats only after a delivery that arrived *)
(* in part or without an answer, or that ended before the record was       *)
(* cleared; each such delivery accounts for one more copy.                 *)
RepeatsAccounted ==
    \A r \in Runs, c \in 1..Chunks : chat[r][c] <= 1 + doubt[r]

(* README.md:364-367: a default topic is only ever used in the default     *)
(* chat, whatever the task and the configuration leave out.                *)
TopicStaysHome == pc = "pickup" => Misaddressed = {}

(* docs/monitoring.md:171-190: a run counts as a success exactly when its  *)
(* process ended well and its report is not marked unresolved; a timeout   *)
(* is told from a signal, and the marker is taken out of what is sent.     *)
VerdictHonest == pc = "generating" => Misjudged = {}

Counted(r) == published[r]["success"] + published[r]["failure"]

(* docs/monitoring.md:174-175, 238-242: each logical run counts once, in   *)
(* one outcome, unless it died or could not write its metric, and an       *)
(* invocation that only picks up counts nothing.                           *)
CountedOnce ==
    /\ \A r \in Runs : Counted(r) <= 1
    /\ \A r \in 1..ran :
          run # r /\ faults[r] \intersect {"crash", "metric"} = {} => Counted(r) = 1
    /\ \A r \in Runs : Counted(r) = 1 => r <= ran

(* docs/monitoring.md:171-176: a run published as a success has delivered  *)
(* whatever it produced, and owes nothing.                                 *)
SuccessIsDelivered ==
    \A r \in Runs : published[r]["success"] > 0 =>
        /\ r \in produced => Delivered(r)
        /\ ~Owed(r)

(* What an invocation does, and what it says of itself: what is owed goes  *)
(* first, nothing repeats without a reason, each run counts once, and      *)
(* success means delivered.                                                *)
RunsHonest == PickupFirst /\ RepeatsAccounted /\ CountedOnce /\ SuccessIsDelivered

(* The task is sent where it belongs and its report is judged for what it  *)
(* is.                                                                     *)
TaskHonest == TopicStaysHome /\ VerdictHonest

(* README.md:949-950: what is owed is taken up again until it is delivered *)
(* or dropped.                                                             *)
OwedSettles == \A r \in Runs : Owed(r) ~> ~Owed(r)

=============================================================================
