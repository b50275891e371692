------------------------- MODULE CronDeliveryProofs -------------------------
(* The safety properties of one cron's deliveries, for any number of runs,   *)
(* messages, retries, crashes and failing file operations.                   *)
EXTENDS CronDelivery, LaunchdCrons, SequenceTheorems, WellFoundedInduction, TLAPS

RunSteps == {"delivering", "waiting", "queueing", "writing", "publishing"}
Holding == {"replaying", "deferring", "rejected", "settling"}

(* The number of the run in memory is that of the run in progress. *)
RunIsCurrent ==
    /\ pc \in RunSteps => run = ran /\ run # 0
    /\ pc \notin RunSteps => run = 0

(* Every attempt starts with the first message, and waits only while a     *)
(* delay is left.                                                          *)
CountersReset ==
    /\ ~Sending => chunk = 1
    /\ pc = "waiting" => attempt <= Retries

(* The slot and the record read from it name runs that have started; an    *)
(* invocation that redelivers still finds the record it read.              *)
RecordHeld ==
    /\ slot.kind = "empty" => slot = Empty
    /\ slot.kind = "output" => slot.run \in 1..ran
    /\ pc \in Holding =>
          slot.kind = "output" /\ pending.kind = "output" /\ slot.run = pending.run

(* A record is dropped undelivered only if it is no result, was refused or *)
(* is too old.                                                             *)
DropsExcused ==
    /\ slot.kind = "output" /\ slot.old => "expired" \in faults[slot.run]
    /\ pc = "dropping" /\ slot.kind = "output" => "expired" \in faults[slot.run]
    /\ pc = "rejected" => "refused" \in faults[pending.run]

Control == RunIsCurrent /\ CountersReset /\ RecordHeld /\ DropsExcused /\ PickupFirst
           /\ produced \subseteq 1..ran

(* A result still owed or in hand has been sent no more often than its     *)
(* doubtful deliveries, but for the messages of the delivery under way.    *)
Unsettled(r) == (Owed(r) /\ pc # "settling") \/ InHand(r)
UnderWay(r, c) == Sending /\ Sent = r /\ c < chunk

CopiesOf(r, c) ==
    /\ chat[r][c] <= doubt[r] + 1
    /\ Unsettled(r) /\ ~UnderWay(r, c) => chat[r][c] <= doubt[r]
    /\ r > ran => chat[r][c] = 0

CopiesBounded == \A r \in Runs, c \in 1..Chunks : CopiesOf(r, c)

ProgressMade ==
    /\ Sending => \A c \in 1..(chunk - 1) : chat[Sent][c] > 0
    /\ pc = "settling" => Delivered(pending.run)

CountsExact ==
    /\ CountedOnce
    /\ run # 0 => Counted(run) = 0

OutcomeTrue ==
    /\ SuccessIsDelivered
    /\ pc \in {"queueing", "writing"} => outcome = "failure"
    /\ pc = "publishing" /\ outcome = "success" =>
          (run \in produced => Delivered(run)) /\ ~Owed(run)

CronInv == TypeOK /\ Control /\ CopiesBounded /\ ProgressMade
           /\ CountsExact /\ OutcomeTrue /\ OwedIsKept

-----------------------------------------------------------------------------
LEMMA UnowedTyped == \A kind \in Kinds : Unowed(kind) \in Records
<1>. SUFFICES ASSUME NEW k \in Kinds PROVE Unowed(k) \in Records
  OBVIOUS
<1>1. 0 \in 0..MaxRuns
  BY CronAssumption
<1>2. [kind |-> k, run |-> 0, old |-> FALSE] \in [kind : Kinds, run : 0..MaxRuns, old : BOOLEAN]
  BY <1>1, Zenon
<1>. QED BY <1>2 DEF Unowed, Records

(* An execution ends in a generation with an outcome, of something or of   *)
(* nothing.                                                                *)
LEMMA ExecutionEnds ==
  ASSUME Execute
  PROVE  \E o \in Outcomes : GenerateNothing(o) \/ Generate(o)
<1>1. PICK v \in Verdicts : IF v.silent THEN GenerateNothing(v.outcome) ELSE Generate(v.outcome)
  BY DEF Execute
<1>2. v.outcome \in Outcomes
  BY DEF Verdicts, OutcomeOf, Outcomes
<1>. QED BY <1>1, <1>2

LEMMA InitCron == Init => CronInv
<1> SUFFICES ASSUME Init PROVE CronInv
  OBVIOUS
<1>. USE CronAssumption
<1>1. slot \in Records /\ pending \in Records
  <2>1. PICK k \in {"empty", "corrupt", "failure-notice"} : slot = Unowed(k)
    BY DEF Init
  <2>. QED BY <2>1, UnowedTyped DEF Init, Empty, Kinds
<1>2. TypeOK
  BY <1>1 DEF Init, TypeOK, Steps, Outcomes, Runs
<1>3. Control
  BY DEF Init, Control, RunIsCurrent, CountersReset, RecordHeld, DropsExcused, PickupFirst,
         RunSteps, Holding, Unowed, Empty, Sending
<1>4. CopiesBounded /\ ProgressMade
  BY DEF Init, CopiesBounded, CopiesOf, ProgressMade, Unsettled, Owed, InHand, Unowed, Sending, Runs
<1>5. CountsExact /\ OutcomeTrue /\ OwedIsKept
  BY DEF Init, CountsExact, CountedOnce, Counted, OutcomeTrue, SuccessIsDelivered,
         OwedIsKept, Owed, Unowed, Outcomes, Runs
<1>. QED BY <1>2, <1>3, <1>4, <1>5 DEF CronInv

(* What a process that ends leaves in memory is well typed, and so is what *)
(* an arriving message leaves in the chat.                                 *)
LEMMA ForgottenTyped ==
  ASSUME Forgotten
  PROVE  /\ pc' \in Steps /\ run' \in 0..MaxRuns /\ pending' \in Records
         /\ chunk' \in 1..Chunks /\ attempt' \in 1..(Retries + 1) /\ outcome' \in Outcomes
<1>1. Empty \in Records
  BY UnowedTyped DEF Empty, Kinds
<1>. QED BY <1>1, CronAssumption DEF Forgotten, Steps, Outcomes

LEMMA SentIsRun ==
  ASSUME TypeOK, Control, Sending
  PROVE  Sent \in Runs
<1>. USE CronAssumption DEF TypeOK, Runs
<1>1. CASE pc = "replaying"
  <2>1. slot.run \in 1..ran /\ slot.run = pending.run
    BY <1>1 DEF Control, RecordHeld, Holding
  <2>. QED BY <1>1, <2>1 DEF Sent
<1>2. CASE pc = "delivering"
  BY <1>2 DEF Control, RunIsCurrent, RunSteps, Sent
<1>. QED BY <1>1, <1>2 DEF Sending

LEMMA FailureLeadsOn ==
  ASSUME TypeOK, NEW failure
  PROVE  /\ pc = "replaying" =>
             /\ AfterFailure(failure) \in {"deferring", "rejected"}
             /\ AfterFailure(failure) = "rejected" => failure = "refused"
         /\ pc = "delivering" =>
             /\ AfterFailure(failure) \in {"waiting", "queueing", "publishing"}
             /\ AfterFailure(failure) = "waiting" <=> attempt <= Retries
             /\ AfterFailure(failure) = "publishing" => failure = "refused"
<1>1. attempt \in Nat /\ Retries \in Nat
  BY CronAssumption DEF TypeOK
<1>2. attempt <= Retries \/ attempt > Retries
  BY <1>1
<1>3. ~(attempt <= Retries /\ attempt > Retries)
  BY <1>1
<1>4. CASE pc = "replaying"
  BY <1>4 DEF AfterFailure, Queueable
<1>5. CASE pc = "delivering"
  <2>1. CASE attempt <= Retries
    BY <1>3, <1>5, <2>1 DEF AfterFailure
  <2>2. CASE attempt > Retries
    BY <1>3, <1>5, <2>2 DEF AfterFailure, Queueable
  <2>. QED BY <1>2, <2>1, <2>2
<1>. QED BY <1>4, <1>5

LEMMA BlameTyped ==
  ASSUME TypeOK, NEW r \in Runs, NEW fault \in Faults, Blame(r, fault)
  PROVE  faults' \in [Runs -> SUBSET Faults]
<1>1. faults[r] \union {fault} \in SUBSET Faults
  BY DEF TypeOK
<1>. QED BY <1>1 DEF Blame, TypeOK

LEMMA BlameGrows ==
  ASSUME TypeOK, NEW r \in Runs, NEW fault \in Faults, Blame(r, fault)
  PROVE  \A q \in Runs :
           /\ faults[q] \subseteq faults'[q]
           /\ q = r => fault \in faults'[q]
           /\ q # r => faults'[q] = faults[q]
BY DEF Blame, TypeOK

LEMMA ArrivalCounts ==
  ASSUME TypeOK, Sent \in Runs, Arrives
  PROVE  \A r \in Runs, c \in 1..Chunks :
           chat'[r][c] = IF r = Sent /\ c = chunk THEN chat[r][c] + 1 ELSE chat[r][c]
BY DEF Arrives, TypeOK

LEMMA DoubtCounts ==
  ASSUME TypeOK, NEW r \in Runs, doubt' = [doubt EXCEPT ![r] = @ + 1]
  PROVE  \A q \in Runs : doubt'[q] = IF q = r THEN doubt[q] + 1 ELSE doubt[q]
BY DEF TypeOK

LEMMA Numbers ==
  ASSUME TypeOK, NEW r \in Runs
  PROVE  /\ r \in Nat /\ ran \in Nat /\ run \in Nat /\ chunk \in Nat /\ doubt[r] \in Nat
         /\ \A c \in 1..Chunks : c \in Nat /\ chat[r][c] \in Nat
         /\ \A o \in Outcomes : published[r][o] \in Nat
BY CronAssumption DEF TypeOK, Runs

LEMMA RunTyped ==
  ASSUME TypeOK, Control, pc \in RunSteps
  PROVE  run \in Runs
BY CronAssumption DEF TypeOK, Control, RunIsCurrent, Runs

LEMMA HeldRunTyped ==
  ASSUME TypeOK, Control
  PROVE  /\ pc \in Holding => pending.run \in Runs
         /\ slot.kind = "output" => slot.run \in Runs
<1>1. slot.kind = "output" => slot.run \in Runs
  BY CronAssumption DEF TypeOK, Control, RecordHeld, Runs
<1>. QED BY <1>1 DEF Control, RecordHeld

LEMMA ArrivalTyped ==
  ASSUME TypeOK, Sent \in Runs, Arrives
  PROVE  chat' \in [Runs -> [1..Chunks -> Nat]]
<1>1. chat[Sent] \in [1..Chunks -> Nat] /\ chat[Sent][chunk] \in Nat
  BY DEF TypeOK
<1>2. [chat[Sent] EXCEPT ![chunk] = chat[Sent][chunk] + 1] \in [1..Chunks -> Nat]
  BY <1>1 DEF TypeOK
<1>. QED BY <1>2 DEF Arrives, TypeOK

(* Every action keeps the types. *)
LEMMA TypedStep ==
  ASSUME TypeOK, Control, Next
  PROVE  TypeOK'
<1>. USE CronAssumption DEF TypeOK, vars, disk, memory, history, bounds, IOError, BeginRun, Blame
<1>1. CASE Invoke
  BY <1>1 DEF Invoke, Steps
<1>2. CASE LoadTask
  BY <1>2 DEF LoadTask, Steps
<1>3. CASE Misconfigured
  BY <1>3 DEF Misconfigured, Steps, Outcomes
<1>4. CASE PickUp
  BY <1>4 DEF PickUp, Steps, Droppable
<1>5. CASE PickUpFails
  BY <1>5, ForgottenTyped DEF PickUpFails
<1>6. CASE Clear
  <2>1. Empty \in Records
    BY UnowedTyped DEF Empty, Kinds
  <2>. QED BY <1>6, <2>1 DEF Clear, Steps
<1>7. CASE ClearFails
  <2>1. pc = "settling" => pending.run \in Runs
    BY <1>7 DEF Control, RecordHeld, Holding, Runs
  <2>2. doubt' \in [Runs -> Nat]
    BY <1>7, <2>1 DEF ClearFails
  <2>3. ioErrors' \in 0..MaxIOErrors
    BY <1>7 DEF ClearFails
  <2>. QED BY <1>7, <2>2, <2>3, ForgottenTyped DEF ClearFails
<1>8. CASE Defer
  BY <1>8, ForgottenTyped DEF Defer
<1>9. CASE SendChunk
  <2>1. chat' \in [Runs -> [1..Chunks -> Nat]]
    BY <1>9, SentIsRun, ArrivalTyped DEF SendChunk
  <2>. QED BY <1>9, <2>1 DEF SendChunk, Steps
<1>10. ASSUME NEW failure \in {"refused", "unreachable", "unanswered"}, SendFails(failure)
      PROVE  TypeOK'
  <2>1. chat' \in [Runs -> [1..Chunks -> Nat]]
    BY <1>10, SentIsRun, ArrivalTyped DEF SendFails
  <2>2. Sent \in Runs
    BY <1>10, SentIsRun DEF SendFails
  <2>3. pc' \in Steps /\ outcome' \in Outcomes
    BY <1>10, FailureLeadsOn DEF SendFails, Sending, OutcomeAfterFailure, Steps, Outcomes
  <2>4. faults' \in [Runs -> SUBSET Faults]
    BY <1>10, <2>2, BlameTyped DEF SendFails, Faults
  <2>5. doubt' \in [Runs -> Nat]
    <3>1. CASE doubt' = [doubt EXCEPT ![Sent] = @ + 1]
      BY <2>2, <3>1
    <3>. QED BY <1>10, <3>1 DEF SendFails
  <2>. QED BY <1>10, <2>1, <2>3, <2>4, <2>5 DEF SendFails
<1>11. CASE Retry
  BY <1>11 DEF Retry, Steps, Control, CountersReset, Sending
<1>12. ASSUME NEW o \in Outcomes, GenerateNothing(o)
      PROVE  TypeOK'
  BY <1>12 DEF GenerateNothing, Steps
<1>13. ASSUME NEW o \in Outcomes, Generate(o)
      PROVE  TypeOK'
  BY <1>13 DEF Generate, Steps, Runs
<1>14. CASE NoRunLeft
  BY <1>14, ForgottenTyped DEF NoRunLeft
<1>15. CASE CheckSlot
  BY <1>15 DEF CheckSlot, Steps
<1>16. CASE Queue
  BY <1>16 DEF Queue, Steps, Records, Kinds, Control, RunIsCurrent, RunSteps
<1>17. CASE QueueFails
  <2>1. run \in Runs /\ pc' \in Steps
    BY <1>17, RunTyped DEF QueueFails, RunSteps, Steps
  <2>2. faults' \in [Runs -> SUBSET Faults]
    BY <1>17, <2>1, BlameTyped DEF QueueFails, Faults
  <2>3. ioErrors' \in 0..MaxIOErrors
    BY <1>17 DEF QueueFails
  <2>. QED BY <1>17, <2>1, <2>2, <2>3 DEF QueueFails
<1>18. CASE Publish
  <2>1. run \in Runs /\ outcome \in Outcomes
    BY <1>18 DEF Publish, Control, RunIsCurrent, RunSteps, Runs
  <2>2. [published[run] EXCEPT ![outcome] = published[run][outcome] + 1] \in [Outcomes -> Nat]
    BY <2>1
  <2>3. published' \in [Runs -> [Outcomes -> Nat]]
    BY <1>18, <2>1, <2>2 DEF Publish
  <2>. QED BY <1>18, <2>3, ForgottenTyped DEF Publish
<1>19. CASE PublishFails
  <2>1. run \in Runs
    BY <1>19, RunTyped DEF PublishFails, RunSteps
  <2>2. faults' \in [Runs -> SUBSET Faults]
    BY <1>19, <2>1, BlameTyped DEF PublishFails, Faults
  <2>3. ioErrors' \in 0..MaxIOErrors
    BY <1>19 DEF PublishFails
  <2>. QED BY <1>19, <2>2, <2>3, ForgottenTyped DEF PublishFails
<1>20. CASE Crash
  <2>1. run # 0 => run \in Runs
    BY DEF Runs
  <2>2. pc \in {"settling", "replaying"} => pending.run \in Runs
    BY HeldRunTyped DEF Holding
  <2>3. faults' \in [Runs -> SUBSET Faults]
    BY <1>20, <2>1, BlameTyped DEF Crash, Faults
  <2>4. doubt' \in [Runs -> Nat]
    BY <1>20, <2>2 DEF Crash
  <2>. QED BY <1>20, <2>3, <2>4, ForgottenTyped DEF Crash
<1>21. CASE Age
  BY <1>21 DEF Age, Records, Faults, Control, RecordHeld, Runs, Kinds
<1>. QED
  BY <1>1, <1>2, <1>3, <1>4, <1>5, <1>6, <1>7, <1>8, <1>9, <1>10, <1>11, <1>12, <1>13,
     ExecutionEnds, <1>14, <1>15, <1>16, <1>17, <1>18, <1>19, <1>20, <1>21 DEF
         Next, Runner

(* Every action keeps the control invariant. *)
LEMMA ControlStep ==
  ASSUME TypeOK, Control, Next
  PROVE  Control'
<1>. USE CronAssumption DEF TypeOK, vars, disk, memory, history, bounds, IOError, Forgotten,
                            BeginRun, Blame, Control, RunIsCurrent, CountersReset, RecordHeld,
                            DropsExcused, PickupFirst, RunSteps, Holding, Sending, Runs, Records,
                            Empty, Unowed, Clearing
<1>1. CASE Invoke
  BY <1>1 DEF Invoke
<1>2. CASE LoadTask
  BY <1>2 DEF LoadTask
<1>3. CASE Misconfigured
  BY <1>3 DEF Misconfigured
<1>4. CASE PickUp
  <2>1. RunIsCurrent' /\ CountersReset' /\ PickupFirst' /\ produced' \subseteq 1..ran'
    BY <1>4 DEF PickUp
  <2>2. slot # Empty /\ ~Droppable(slot) => slot.kind = "output"
    BY DEF Droppable, Kinds, Empty, Unowed, TypeOK, Records
  <2>3. RecordHeld'
    BY <1>4, <2>2 DEF PickUp
  <2>4. DropsExcused'
    BY <1>4 DEF PickUp, Droppable, Overdue
  <2>. QED BY <2>1, <2>3, <2>4
<1>5. CASE PickUpFails
  BY <1>5 DEF PickUpFails
<1>6. CASE Clear
  BY <1>6 DEF Clear
<1>7. CASE ClearFails
  BY <1>7 DEF ClearFails
<1>8. CASE Defer
  BY <1>8 DEF Defer
<1>9. CASE SendChunk
  BY <1>9 DEF SendChunk, Arrives, Sent
<1>10. ASSUME NEW failure \in {"refused", "unreachable", "unanswered"}, SendFails(failure)
      PROVE  Control'
  <2>1. Sent \in Runs
    BY <1>10, SentIsRun DEF SendFails
  <2>2. /\ \A q \in Runs : faults[q] \subseteq faults'[q]
        /\ failure = "refused" => "refused" \in faults'[Sent]
    BY <1>10, <2>1, BlameGrows DEF SendFails, Faults
  <2>3. CountersReset'
    <3>1. pc' \notin {"replaying", "delivering"} /\ chunk' = 1
      BY <1>10, FailureLeadsOn DEF SendFails
    <3>2. pc' = "waiting" => attempt <= Retries
      BY <1>10, FailureLeadsOn DEF SendFails
    <3>. QED BY <1>10, <3>1, <3>2 DEF SendFails
  <2>4. DropsExcused'
    BY <1>10, <2>2, HeldRunTyped, FailureLeadsOn DEF SendFails, Sent
  <2>5. CASE pc = "replaying"
    <3>1. pc' \in {"deferring", "rejected"}
      BY <1>10, <2>5, FailureLeadsOn DEF SendFails
    <3>2. RunIsCurrent' /\ PickupFirst' /\ RecordHeld' /\ produced' \subseteq 1..ran'
      BY <1>10, <2>5, <3>1 DEF SendFails
    <3>. QED BY <3>2, <2>3, <2>4
  <2>6. CASE pc = "delivering"
    <3>1. pc' \in {"waiting", "queueing", "publishing"}
      BY <1>10, <2>6, FailureLeadsOn DEF SendFails
    <3>2. RunIsCurrent' /\ PickupFirst' /\ RecordHeld' /\ produced' \subseteq 1..ran'
      BY <1>10, <2>6, <3>1 DEF SendFails
    <3>. QED BY <3>2, <2>3, <2>4
  <2>. QED BY <1>10, <2>5, <2>6 DEF SendFails
<1>11. CASE Retry
  BY <1>11 DEF Retry
<1>12. ASSUME NEW o \in Outcomes, GenerateNothing(o)
      PROVE  Control'
  BY <1>12 DEF GenerateNothing
<1>13. ASSUME NEW o \in Outcomes, Generate(o)
      PROVE  Control'
  BY <1>13 DEF Generate
<1>14. CASE NoRunLeft
  BY <1>14 DEF NoRunLeft
<1>15. CASE CheckSlot
  BY <1>15 DEF CheckSlot
<1>16. CASE Queue
  BY <1>16 DEF Queue
<1>17. CASE QueueFails
  BY <1>17 DEF QueueFails
<1>18. CASE Publish
  BY <1>18 DEF Publish
<1>19. CASE PublishFails
  <2>1. \A q \in Runs : faults[q] \subseteq faults'[q]
    BY <1>19, RunTyped, BlameGrows DEF PublishFails, Faults
  <2>. QED BY <1>19, <2>1, HeldRunTyped DEF PublishFails
<1>20. CASE Crash
  <2>1. \A q \in Runs : faults[q] \subseteq faults'[q]
    BY <1>20, BlameGrows DEF Crash, Faults
  <2>. QED BY <1>20, <2>1, HeldRunTyped DEF Crash
<1>21. CASE Age
  <2>1. /\ slot.kind = "output" /\ slot' = [slot EXCEPT !.old = TRUE]
        /\ slot.run \in Runs /\ slot # Empty
        /\ UNCHANGED <<pc, memory, ran, produced>>
    BY <1>21 DEF Age
  <2>2. /\ \A q \in Runs : faults[q] \subseteq faults'[q]
        /\ "expired" \in faults'[slot.run]
    BY <1>21, <2>1, BlameGrows DEF Age, Faults
  <2>3. RunIsCurrent' /\ CountersReset' /\ PickupFirst' /\ produced' \subseteq 1..ran'
    BY <2>1
  <2>4. RecordHeld'
    BY <2>1
  <2>5. DropsExcused'
    BY <2>1, <2>2
  <2>. QED BY <2>3, <2>4, <2>5
<1>. QED
  BY <1>1, <1>2, <1>3, <1>4, <1>5, <1>6, <1>7, <1>8, <1>9, <1>10, <1>11, <1>12, <1>13,
     ExecutionEnds, <1>14, <1>15, <1>16, <1>17, <1>18, <1>19, <1>20, <1>21 DEF
         Next, Runner

(* Every action accounts for the copies it adds. *)
LEMMA CopiesStep ==
  ASSUME TypeOK, Control, CopiesBounded, Next
  PROVE  CopiesBounded'
<1>. USE CronAssumption DEF vars, disk, memory, history, bounds, IOError, Forgotten, BeginRun,
                            Blame, Control, RunIsCurrent, CountersReset, RecordHeld, DropsExcused,
                            PickupFirst, RunSteps, Holding, Sending, CopiesBounded, CopiesOf,
                            Unsettled, UnderWay, Owed, InHand, Sent, Empty, Unowed, Clearing
<1>1. CASE Invoke
  BY <1>1 DEF Invoke
<1>2. CASE LoadTask
  BY <1>2 DEF LoadTask
<1>3. CASE Misconfigured
  <2> SUFFICES ASSUME NEW r \in Runs, NEW c \in 1..Chunks
               PROVE  CopiesOf(r, c)'
    BY DEF CopiesBounded
  <2>1. CopiesOf(r, c) /\ r \in Nat /\ ran \in Nat /\ doubt[r] \in Nat /\ chat[r][c] \in Nat
    BY Numbers DEF CopiesBounded
  <2>2. /\ ran' = ran + 1 /\ chat' = chat /\ doubt' = doubt
        /\ (Unsettled(r)' => Unsettled(r) /\ ~UnderWay(r, c))
    BY <1>3 DEF Misconfigured
  <2>. QED BY <1>3, <2>1, <2>2 DEF Misconfigured
<1>4. CASE PickUp
  BY <1>4 DEF PickUp
<1>5. CASE PickUpFails
  BY <1>5 DEF PickUpFails
<1>6. CASE Clear
  BY <1>6 DEF Clear
<1>7. CASE ClearFails
  <2> SUFFICES ASSUME NEW r \in Runs, NEW c \in 1..Chunks
               PROVE  CopiesOf(r, c)'
    BY DEF CopiesBounded
  <2>1. CopiesOf(r, c) /\ r \in Nat /\ ran \in Nat /\ doubt[r] \in Nat /\ chat[r][c] \in Nat
    BY Numbers DEF CopiesBounded
  <2>2. CASE pc = "settling"
    <3>1. slot.run = pending.run /\ slot.run \in Runs
      BY <2>2, HeldRunTyped
    <3>2. doubt'[r] = IF r = slot.run THEN doubt[r] + 1 ELSE doubt[r]
      BY <1>7, <2>2, <3>1, DoubtCounts DEF ClearFails
    <3>3. Unsettled(r)' => r = slot.run
      BY <1>7 DEF ClearFails
    <3>. QED BY <1>7, <2>1, <3>2, <3>3 DEF ClearFails
  <2>3. CASE pc # "settling"
    BY <1>7, <2>1, <2>3 DEF ClearFails
  <2>. QED BY <2>2, <2>3
<1>8. CASE Defer
  BY <1>8 DEF Defer
<1>9. CASE SendChunk
  <2> SUFFICES ASSUME NEW r \in Runs, NEW c \in 1..Chunks
               PROVE  CopiesOf(r, c)'
    BY DEF CopiesBounded
  <2>1. CopiesOf(r, c) /\ r \in Nat /\ ran \in Nat /\ doubt[r] \in Nat /\ chat[r][c] \in Nat
    BY Numbers DEF CopiesBounded
  <2>2. Sent \in Runs
    BY <1>9, SentIsRun DEF SendChunk
  <2>3. chat'[r][c] = IF r = Sent /\ c = chunk THEN chat[r][c] + 1 ELSE chat[r][c]
    BY <1>9, <2>2, ArrivalCounts DEF SendChunk
  <2>4. Sent <= ran /\ (Unsettled(r) => r = Sent)
    BY <1>9 DEF SendChunk, TypeOK
  <2>5. Unsettled(r)' => r = Sent /\ Unsettled(r) /\ chunk' = chunk + 1 /\ Sent' = Sent /\ Sending'
    BY <1>9, <2>4 DEF SendChunk
  <2>6. Unsettled(r)' /\ ~UnderWay(r, c)' => c # chunk /\ ~UnderWay(r, c)
    BY <1>9, <2>5, Numbers DEF SendChunk, TypeOK
  <2>7. r = Sent /\ c = chunk => Unsettled(r) /\ ~UnderWay(r, c)
    BY <1>9, Numbers DEF SendChunk
  <2>8. ran' = ran /\ doubt' = doubt
    BY <1>9 DEF SendChunk
  <2>. QED BY <2>1, <2>2, <2>3, <2>4, <2>5, <2>6, <2>7, <2>8 DEF CopiesOf
<1>10. ASSUME NEW failure \in {"refused", "unreachable", "unanswered"}, SendFails(failure)
      PROVE  CopiesBounded'
  <2> SUFFICES ASSUME NEW r \in Runs, NEW c \in 1..Chunks
               PROVE  CopiesOf(r, c)'
    BY DEF CopiesBounded
  <2>1. CopiesOf(r, c) /\ r \in Nat /\ ran \in Nat /\ doubt[r] \in Nat /\ chat[r][c] \in Nat
    BY Numbers DEF CopiesBounded
  <2>2. Sent \in Runs /\ (Unsettled(r) => r = Sent)
    BY <1>10, SentIsRun DEF SendFails
  <2>3. /\ ~Sending' /\ pc' # "settling" /\ slot' = slot /\ run' = run /\ ran' = ran
        /\ pc' \in {"waiting", "queueing", "writing"} => pc = "delivering"
    BY <1>10, FailureLeadsOn DEF SendFails
  <2>4. Unsettled(r)' => Unsettled(r)
    BY <1>10, <2>3 DEF SendFails
  <2>5. r = Sent => Unsettled(r) /\ r <= ran
    BY <1>10, Numbers DEF SendFails, TypeOK
  <2>6. \/ chat'[r][c] = chat[r][c]
        \/ (r = Sent /\ c = chunk /\ failure = "unanswered" /\ chat'[r][c] = chat[r][c] + 1)
    BY <1>10, <2>2, ArrivalCounts DEF SendFails
  <2>7. doubt'[r] = IF r = Sent /\ (chunk > 1 \/ failure = "unanswered") THEN doubt[r] + 1 ELSE doubt[r]
    BY <1>10, <2>2, DoubtCounts DEF SendFails
  <2>8. c < chunk => chunk > 1
    BY Numbers
  <2>9. UnderWay(r, c) => r = Sent /\ c < chunk
    OBVIOUS
  <2>10. c = chunk => ~UnderWay(r, c)
    BY Numbers
  <2>. HIDE DEF Unsettled, UnderWay, Owed, InHand, Sent, Sending
  <2>11. CASE r = Sent
    BY <2>1, <2>3, <2>5, <2>6, <2>7, <2>8, <2>9, <2>10, <2>11
  <2>12. CASE r # Sent
    BY <2>1, <2>2, <2>3, <2>4, <2>6, <2>7, <2>12
  <2>. QED BY <2>11, <2>12
<1>11. CASE Retry
  BY <1>11 DEF Retry
<1>12. ASSUME NEW o \in Outcomes, GenerateNothing(o)
      PROVE  CopiesBounded'
  <2> SUFFICES ASSUME NEW r \in Runs, NEW c \in 1..Chunks
               PROVE  CopiesOf(r, c)'
    BY DEF CopiesBounded
  <2>1. CopiesOf(r, c) /\ r \in Nat /\ ran \in Nat /\ doubt[r] \in Nat /\ chat[r][c] \in Nat
    BY Numbers DEF CopiesBounded
  <2>2. ran' = ran + 1 /\ chat' = chat /\ doubt' = doubt /\ ~Unsettled(r)'
    BY <1>12 DEF GenerateNothing
  <2>. QED BY <2>1, <2>2 DEF CopiesOf
<1>13. ASSUME NEW o \in Outcomes, Generate(o)
      PROVE  CopiesBounded'
  <2> SUFFICES ASSUME NEW r \in Runs, NEW c \in 1..Chunks
               PROVE  CopiesOf(r, c)'
    BY DEF CopiesBounded
  <2>1. CopiesOf(r, c) /\ r \in Nat /\ ran \in Nat /\ doubt[r] \in Nat /\ chat[r][c] \in Nat
    BY Numbers DEF CopiesBounded
  <2>2. ran' = ran + 1 /\ run' = ran + 1 /\ chat' = chat /\ doubt' = doubt
    BY <1>13 DEF Generate
  <2>3. Unsettled(r)' => r = ran + 1
    BY <1>13 DEF Generate
  <2>. QED BY <2>1, <2>2, <2>3 DEF CopiesOf
<1>14. CASE NoRunLeft
  BY <1>14 DEF NoRunLeft
<1>15. CASE CheckSlot
  BY <1>15 DEF CheckSlot
<1>16. CASE Queue
  BY <1>16 DEF Queue
<1>17. CASE QueueFails
  BY <1>17 DEF QueueFails
<1>18. CASE Publish
  BY <1>18 DEF Publish
<1>19. CASE PublishFails
  BY <1>19 DEF PublishFails
<1>20. CASE Crash
  <2> SUFFICES ASSUME NEW r \in Runs, NEW c \in 1..Chunks
               PROVE  CopiesOf(r, c)'
    BY DEF CopiesBounded
  <2>1. CopiesOf(r, c) /\ r \in Nat /\ ran \in Nat /\ doubt[r] \in Nat /\ chat[r][c] \in Nat
    BY Numbers DEF CopiesBounded
  <2>2. CASE pc = "settling" \/ (pc = "replaying" /\ chunk > 1)
    <3>1. slot.run = pending.run /\ slot.run \in Runs
      BY <2>2, HeldRunTyped
    <3>2. doubt'[r] = IF r = slot.run THEN doubt[r] + 1 ELSE doubt[r]
      BY <1>20, <2>2, <3>1, DoubtCounts DEF Crash
    <3>3. Unsettled(r)' => r = slot.run
      BY <1>20 DEF Crash
    <3>. QED BY <1>20, <2>1, <3>2, <3>3 DEF Crash
  <2>3. CASE ~(pc = "settling" \/ (pc = "replaying" /\ chunk > 1))
    <3>1. chat' = chat /\ doubt' = doubt /\ ran' = ran
      BY <1>20, <2>3 DEF Crash
    <3>2. Unsettled(r)' => Unsettled(r)
      BY <1>20, <2>3 DEF Crash
    <3>3. ~UnderWay(r, c) \/ ~Unsettled(r)'
      BY <1>20, <2>3, Numbers DEF Crash, TypeOK
    <3>. QED BY <2>1, <3>1, <3>2, <3>3 DEF CopiesOf
  <2>. QED BY <2>2, <2>3
<1>21. CASE Age
  BY <1>21 DEF Age
<1>. QED
  BY <1>1, <1>2, <1>3, <1>4, <1>5, <1>6, <1>7, <1>8, <1>9, <1>10, <1>11, <1>12, <1>13,
     ExecutionEnds, <1>14, <1>15, <1>16, <1>17, <1>18, <1>19, <1>20, <1>21 DEF
         Next, Runner

(* The messages that arrived stay; the last one completes the result. *)
LEMMA DeliveredStays ==
  ASSUME TypeOK, Sent \in Runs, Arrives \/ chat' = chat
  PROVE  \A r \in Runs : Delivered(r) => Delivered(r)'
<1>. SUFFICES ASSUME NEW r \in Runs, Delivered(r), NEW c \in 1..Chunks
              PROVE  chat'[r][c] > 0
  BY DEF Delivered
<1>1. chat[r][c] > 0 /\ chat[r][c] \in Nat
  BY Numbers DEF Delivered
<1>2. CASE Arrives
  BY <1>1, <1>2, ArrivalCounts
<1>. QED BY <1>1, <1>2

LEMMA LastArrives ==
  ASSUME TypeOK, Control, ProgressMade, SendChunk, chunk >= Chunks
  PROVE  \A c \in 1..Chunks : chat'[Sent][c] > 0
<1>. SUFFICES ASSUME NEW c \in 1..Chunks PROVE chat'[Sent][c] > 0
  OBVIOUS
<1>1. Sent \in Runs
  BY SentIsRun DEF SendChunk
<1>2. chat'[Sent][c] = IF c = chunk THEN chat[Sent][c] + 1 ELSE chat[Sent][c]
  BY <1>1, ArrivalCounts DEF SendChunk
<1>3. chat[Sent][c] \in Nat /\ chunk = Chunks
  BY <1>1, Numbers, CronAssumption DEF TypeOK
<1>4. c # chunk => c \in 1..(chunk - 1)
  BY <1>3, CronAssumption
<1>5. c # chunk => chat[Sent][c] > 0
  BY <1>4 DEF ProgressMade, SendChunk
<1>. QED BY <1>2, <1>3, <1>5

(* Every action keeps track of the messages that arrived. *)
LEMMA ProgressStep ==
  ASSUME TypeOK, Control, ProgressMade, Next
  PROVE  ProgressMade'
<1>. USE CronAssumption DEF TypeOK, vars, disk, memory, history, bounds, IOError, Forgotten,
                            BeginRun, Blame, Control, RunIsCurrent, CountersReset, RecordHeld,
                            DropsExcused, PickupFirst, RunSteps, Holding, Sending, ProgressMade,
                            Delivered, Sent, Clearing, Empty, Unowed, Runs
<1>1. CASE Invoke
  BY <1>1 DEF Invoke
<1>2. CASE LoadTask
  BY <1>2 DEF LoadTask
<1>3. CASE Misconfigured
  BY <1>3 DEF Misconfigured
<1>4. CASE PickUp
  BY <1>4 DEF PickUp
<1>5. CASE PickUpFails
  BY <1>5 DEF PickUpFails
<1>6. CASE Clear
  BY <1>6 DEF Clear
<1>7. CASE ClearFails
  BY <1>7 DEF ClearFails
<1>8. CASE Defer
  BY <1>8 DEF Defer
<1>9. CASE SendChunk
  <2>1. CASE chunk < Chunks
    <3>1. Sent \in Runs
      BY <1>9, SentIsRun DEF SendChunk
    <3>2. pc' = pc /\ chunk' = chunk + 1 /\ Sent' = Sent
      BY <1>9, <2>1 DEF SendChunk
    <3>3. ASSUME NEW c \in 1..chunk
          PROVE  chat'[Sent][c] > 0
      <4>1. c \in 1..Chunks /\ (c # chunk => c \in 1..(chunk - 1))
        BY <2>1, <3>3
      <4>2. chat[Sent][c] \in Nat
        BY <3>1, <4>1, Numbers
      <4>3. chat'[Sent][c] = IF c = chunk THEN chat[Sent][c] + 1 ELSE chat[Sent][c]
        BY <1>9, <3>1, <4>1, ArrivalCounts DEF SendChunk
      <4>4. c # chunk => chat[Sent][c] > 0
        BY <1>9, <4>1 DEF SendChunk
      <4>. QED BY ONLY <4>2, <4>3, <4>4
    <3>4. chunk' - 1 = chunk
      BY <3>2
    <3>5. pc' # "settling"
      BY <1>9, <3>2 DEF SendChunk
    <3>. HIDE DEF Sent
    <3>. QED BY <3>2, <3>3, <3>4, <3>5
  <2>2. CASE ~(chunk < Chunks)
    <3>1. \A c \in 1..Chunks : chat'[Sent][c] > 0
      <4>1. chunk >= Chunks
        BY <2>2
      <4>. HIDE DEF Sent, ProgressMade, Control, TypeOK
      <4>. QED BY <1>9, <4>1, LastArrives
    <3>2. ~Sending' /\ (pc' = "settling" => Sent = pending'.run)
      BY <1>9, <2>2 DEF SendChunk
    <3>. QED BY <3>1, <3>2
  <2>. QED BY <2>1, <2>2
<1>10. ASSUME NEW failure \in {"refused", "unreachable", "unanswered"}, SendFails(failure)
      PROVE  ProgressMade'
  <2>1. ~Sending' /\ pc' # "settling"
    BY <1>10, FailureLeadsOn DEF SendFails
  <2>. QED BY <2>1
<1>11. CASE Retry
  BY <1>11 DEF Retry
<1>12. ASSUME NEW o \in Outcomes, GenerateNothing(o)
      PROVE  ProgressMade'
  BY <1>12 DEF GenerateNothing
<1>13. ASSUME NEW o \in Outcomes, Generate(o)
      PROVE  ProgressMade'
  BY <1>13 DEF Generate
<1>14. CASE NoRunLeft
  BY <1>14 DEF NoRunLeft
<1>15. CASE CheckSlot
  BY <1>15 DEF CheckSlot
<1>16. CASE Queue
  BY <1>16 DEF Queue
<1>17. CASE QueueFails
  BY <1>17 DEF QueueFails
<1>18. CASE Publish
  BY <1>18 DEF Publish
<1>19. CASE PublishFails
  BY <1>19 DEF PublishFails
<1>20. CASE Crash
  BY <1>20 DEF Crash
<1>21. CASE Age
  BY <1>21 DEF Age
<1>. QED
  BY <1>1, <1>2, <1>3, <1>4, <1>5, <1>6, <1>7, <1>8, <1>9, <1>10, <1>11, <1>12, <1>13,
     ExecutionEnds, <1>14, <1>15, <1>16, <1>17, <1>18, <1>19, <1>20, <1>21 DEF
         Next, Runner

(* Blaming a run leaves the counters as they are, and starting one gives it *)
(* no count yet.                                                            *)
LEMMA CountsFrame ==
  ASSUME CountsExact, published' = published, ran' = ran, run' = run,
         \A r \in Runs : faults[r] \subseteq faults'[r], ran <= MaxRuns, ran \in Nat
  PROVE  CountsExact'
<1>1. \A r \in 1..ran : r \in Runs
  BY CronAssumption DEF Runs
<1>. QED BY <1>1 DEF CountsExact, CountedOnce, Counted

LEMMA CountsStart ==
  ASSUME TypeOK, CountsExact, run = 0, ran < MaxRuns, BeginRun,
         published' = published, faults' = faults
  PROVE  CountsExact'
<1>1. ran \in Nat /\ ran + 1 \in Runs
  BY CronAssumption DEF TypeOK, Runs
<1>2. \A r \in Runs : Counted(r) \in Nat
  BY Numbers DEF Counted, Outcomes
<1>3. Counted(ran + 1) = 0
  <2>1. ~(ran + 1 <= ran)
    BY <1>1
  <2>. QED BY <1>1, <1>2, <2>1 DEF CountsExact, CountedOnce
<1>4. \A r \in Runs : Counted(r)' = Counted(r)
  BY DEF Counted
<1>5. ran' = ran + 1 /\ run' = ran + 1
  BY DEF BeginRun
<1>6. ASSUME NEW r \in 1..ran', run' # r, faults'[r] \intersect {"crash", "metric"} = {}
      PROVE  Counted(r)' = 1
  <2>1. r \in 1..(ran + 1) /\ r # ran + 1
    BY <1>5, <1>6
  <2>2. r \in 1..ran /\ r # 0
    BY <1>1, <2>1
  <2>3. r \in Runs
    BY <1>1, <2>2, CronAssumption DEF Runs
  <2>. QED BY <1>4, <1>6, <2>2, <2>3 DEF CountsExact, CountedOnce
<1>7. \A r \in Runs : r <= ran => r <= ran'
  BY <1>1, <1>5 DEF Runs
<1>. HIDE DEF Counted
<1>. QED BY <1>1, <1>3, <1>4, <1>5, <1>6, <1>7 DEF CountsExact, CountedOnce

LEMMA CountsEnd ==
  ASSUME TypeOK, Control, CountsExact, pc \in RunSteps, Blame(run, "crash") \/ Blame(run, "metric"),
         published' = published, ran' = ran, run' = 0
  PROVE  CountsExact'
<1>1. run \in Runs
  BY RunTyped
<1>2. \A r \in Runs :
        /\ faults[r] \subseteq faults'[r]
        /\ r = run => faults'[r] \intersect {"crash", "metric"} # {}
  BY <1>1, BlameGrows DEF Faults
<1>3. \A r \in 1..ran : r \in Runs /\ r # 0
  BY CronAssumption DEF TypeOK, Runs
<1>4. \A r \in Runs : Counted(r)' = Counted(r)
  BY DEF Counted
<1>5. ASSUME NEW r \in 1..ran, faults'[r] \intersect {"crash", "metric"} = {}
      PROVE  Counted(r)' = 1
  <2>1. r # run /\ faults[r] \intersect {"crash", "metric"} = {}
    <3>1. r \in Runs
      BY <1>3
    <3>2. faults[r] \subseteq faults'[r] /\ (r = run => faults'[r] \intersect {"crash", "metric"} # {})
      BY ONLY <1>2, <3>1
    <3>. QED BY ONLY <1>5, <3>2
  <2>. QED BY <1>3, <1>4, <2>1 DEF CountsExact, CountedOnce
<1>. HIDE DEF Counted
<1>. QED BY <1>4, <1>5 DEF CountsExact, CountedOnce

(* Every action keeps the counters of the runs exact. *)
LEMMA CountsStep ==
  ASSUME TypeOK, Control, CountsExact, Next
  PROVE  CountsExact'
<1>. USE CronAssumption DEF TypeOK, vars, disk, memory, history, bounds, IOError, Forgotten,
                            Control, RunIsCurrent, CountersReset, RecordHeld, DropsExcused,
                            PickupFirst, RunSteps, Holding, Sending, CountsExact, CountedOnce,
                            Counted, Runs, Outcomes
<1>1. CASE Invoke
  BY <1>1 DEF Invoke
<1>2. CASE LoadTask
  BY <1>2 DEF LoadTask
<1>3. CASE Misconfigured
  <2>1. run = 0 /\ ran < MaxRuns /\ published' = published /\ faults' = faults
    BY <1>3 DEF Misconfigured
  <2>. QED BY <1>3, <2>1, CountsStart DEF Misconfigured
<1>4. CASE PickUp
  BY <1>4 DEF PickUp
<1>5. CASE PickUpFails
  BY <1>5 DEF PickUpFails
<1>6. CASE Clear
  BY <1>6 DEF Clear
<1>7. CASE ClearFails
  <2>1. run = 0 /\ run' = 0
    BY <1>7 DEF ClearFails, Clearing
  <2>2. published' = published /\ ran' = ran /\ faults' = faults
    BY <1>7 DEF ClearFails
  <2>3. ran <= MaxRuns /\ ran \in Nat
    BY CronAssumption
  <2>4. run' = run /\ \A r \in Runs : faults[r] \subseteq faults'[r]
    BY <2>1, <2>2
  <2>. HIDE DEF CountsExact
  <2>. QED BY <2>2, <2>3, <2>4, CountsFrame
<1>8. CASE Defer
  BY <1>8 DEF Defer
<1>9. CASE SendChunk
  BY <1>9 DEF SendChunk
<1>10. ASSUME NEW failure \in {"refused", "unreachable", "unanswered"}, SendFails(failure)
      PROVE  CountsExact'
  <2>1. published' = published /\ ran' = ran /\ run' = run /\ ran <= MaxRuns /\ ran \in Nat
    BY <1>10, CronAssumption DEF SendFails
  <2>2. \A r \in Runs : faults[r] \subseteq faults'[r]
    BY <1>10, SentIsRun, BlameGrows DEF SendFails, Faults
  <2>. QED BY <2>1, <2>2, CountsFrame
<1>11. CASE Retry
  BY <1>11 DEF Retry
<1>12. ASSUME NEW o \in Outcomes, GenerateNothing(o)
      PROVE  CountsExact'
  <2>1. run = 0 /\ ran < MaxRuns /\ published' = published /\ faults' = faults
    BY <1>12 DEF GenerateNothing
  <2>. QED BY <1>12, <2>1, CountsStart DEF GenerateNothing
<1>13. ASSUME NEW o \in Outcomes, Generate(o)
      PROVE  CountsExact'
  <2>1. run = 0 /\ ran < MaxRuns /\ published' = published /\ faults' = faults
    BY <1>13 DEF Generate
  <2>. QED BY <1>13, <2>1, CountsStart DEF Generate
<1>14. CASE NoRunLeft
  BY <1>14 DEF NoRunLeft
<1>15. CASE CheckSlot
  BY <1>15 DEF CheckSlot
<1>16. CASE Queue
  BY <1>16 DEF Queue
<1>17. CASE QueueFails
  <2>1. published' = published /\ ran' = ran /\ run' = run /\ ran <= MaxRuns /\ ran \in Nat
    BY <1>17, CronAssumption DEF QueueFails
  <2>2. \A r \in Runs : faults[r] \subseteq faults'[r]
    BY <1>17, RunTyped, BlameGrows DEF QueueFails, Faults
  <2>. QED BY <2>1, <2>2, CountsFrame
<1>18. CASE Publish
  <2>1. run \in Runs /\ run \in 1..ran /\ outcome \in Outcomes /\ \A r \in 1..ran : r \in Runs /\ r # 0
    BY <1>18, RunTyped, CronAssumption DEF Publish
  <2>2. \A r \in Runs, o \in Outcomes :
          published'[r][o] = IF r = run /\ o = outcome THEN published[r][o] + 1 ELSE published[r][o]
    BY <1>18, <2>1 DEF Publish
  <2>3. \A r \in Runs : r # run => Counted(r)' = Counted(r)
    BY <2>2
  <2>4. \A r \in Runs : r = run => Counted(r)' = 1
    <3>1. published[run]["success"] \in Nat /\ published[run]["failure"] \in Nat
      BY <2>1, Numbers
    <3>2. published[run]["success"] + published[run]["failure"] = 0
      BY <2>1
    <3>3. published[run]["success"] = 0 /\ published[run]["failure"] = 0
      BY ONLY <3>1, <3>2
    <3>4. CASE outcome = "success"
      BY ONLY <2>1, <2>2, <3>3, <3>4 DEF Counted, Outcomes
    <3>5. CASE outcome = "failure"
      BY ONLY <2>1, <2>2, <3>3, <3>5 DEF Counted, Outcomes
    <3>. QED BY ONLY <2>1, <3>4, <3>5 DEF Outcomes
  <2>5. run' = 0 /\ ran' = ran /\ faults' = faults
    BY <1>18 DEF Publish
  <2>6. \A r \in Runs : Counted(r)' <= 1
    <3>1. \A r \in Runs : Counted(r) <= 1
      OBVIOUS
    <3>. QED BY ONLY <2>3, <2>4, <3>1
  <2>7. \A r \in 1..ran : faults[r] \intersect {"crash", "metric"} = {} => Counted(r)' = 1
    <3>1. \A r \in 1..ran : r # run /\ faults[r] \intersect {"crash", "metric"} = {} => Counted(r) = 1
      OBVIOUS
    <3>. QED BY ONLY <2>1, <2>3, <2>4, <3>1
  <2>8. \A r \in Runs : Counted(r)' = 1 => r <= ran
    <3>1. \A r \in Runs : Counted(r) = 1 => r <= ran
      OBVIOUS
    <3>2. run <= ran
      BY <2>1
    <3>. QED BY ONLY <2>3, <3>1, <3>2
  <2>. QED BY ONLY <2>5, <2>6, <2>7, <2>8 DEF CountsExact, CountedOnce
<1>19. CASE PublishFails
  <2>1. published' = published /\ ran' = ran /\ run' = 0
    BY <1>19 DEF PublishFails
  <2>. QED BY <1>19, <2>1, CountsEnd DEF PublishFails
<1>20. CASE Crash
  <2>1. published' = published /\ ran' = ran /\ run' = 0
    BY <1>20 DEF Crash
  <2>2. CASE run # 0
    BY <1>20, <2>1, <2>2, CountsEnd DEF Crash
  <2>3. CASE run = 0
    BY <1>20, <2>1, <2>3, CountsFrame, CronAssumption DEF Crash
  <2>. QED BY <2>2, <2>3
<1>21. CASE Age
  <2>1. published' = published /\ ran' = ran /\ run' = run /\ ran <= MaxRuns /\ ran \in Nat
    BY <1>21, CronAssumption DEF Age
  <2>2. \A r \in Runs : faults[r] \subseteq faults'[r]
    BY <1>21, HeldRunTyped, BlameGrows DEF Age, Faults
  <2>. QED BY <2>1, <2>2, CountsFrame
<1>. QED
  BY <1>1, <1>2, <1>3, <1>4, <1>5, <1>6, <1>7, <1>8, <1>9, <1>10, <1>11, <1>12, <1>13,
     ExecutionEnds, <1>14, <1>15, <1>16, <1>17, <1>18, <1>19, <1>20, <1>21 DEF
         Next, Runner

(* Every action keeps the outcomes true. *)
LEMMA OutcomeStep ==
  ASSUME TypeOK, Control, ProgressMade, CountsExact, OutcomeTrue, Next
  PROVE  OutcomeTrue'
<1>. USE CronAssumption DEF vars, disk, memory, history, bounds, IOError, Forgotten, BeginRun,
                            Blame, Control, RunIsCurrent, CountersReset, RecordHeld, DropsExcused,
                            PickupFirst, RunSteps, Holding, Sending, CountsExact, CountedOnce,
                            Counted, OutcomeTrue, SuccessIsDelivered, Owed, Delivered, Sent,
                            Outcomes, Empty, Unowed
<1>1. CASE Invoke
  BY <1>1 DEF Invoke
<1>2. CASE LoadTask
  BY <1>2 DEF LoadTask
<1>3. CASE Misconfigured
  BY <1>3 DEF Misconfigured
<1>4. CASE PickUp
  BY <1>4 DEF PickUp
<1>5. CASE PickUpFails
  BY <1>5 DEF PickUpFails
<1>6. CASE Clear
  BY <1>6 DEF Clear, Clearing
<1>7. CASE ClearFails
  BY <1>7 DEF ClearFails
<1>8. CASE Defer
  BY <1>8 DEF Defer
<1>9. CASE SendChunk
  <2>1. \A r \in Runs : Delivered(r) => Delivered(r)'
    BY <1>9, SentIsRun, DeliveredStays DEF SendChunk
  <2>2. SuccessIsDelivered'
    BY <1>9, <2>1 DEF SendChunk
  <2>3. pc' = "publishing" => Sent = run /\ ~(chunk < Chunks) /\ ~Owed(run)
    BY <1>9 DEF SendChunk
  <2>4. pc' = "publishing" => Delivered(run)'
    BY <1>9, <2>3, LastArrives, CronAssumption DEF TypeOK, SendChunk
  <2>. QED BY <1>9, <2>2, <2>3, <2>4 DEF SendChunk
<1>10. ASSUME NEW failure \in {"refused", "unreachable", "unanswered"}, SendFails(failure)
      PROVE  OutcomeTrue'
  <2>1. \A r \in Runs : Delivered(r) => Delivered(r)'
    BY <1>10, SentIsRun, DeliveredStays DEF SendFails
  <2>2. SuccessIsDelivered'
    BY <1>10, <2>1 DEF SendFails
  <2>3. attempt \in Nat /\ Retries \in Nat
    BY CronAssumption DEF TypeOK
  <2>4. pc' \in {"publishing", "queueing", "writing"} => pc = "delivering" /\ ~(attempt <= Retries)
    BY <1>10, FailureLeadsOn DEF SendFails
  <2>5. pc' \in {"publishing", "queueing", "writing"} => outcome' = "failure"
    BY <1>10, <2>3, <2>4 DEF SendFails, OutcomeAfterFailure
  <2>. QED BY <2>2, <2>5
<1>11. CASE Retry
  BY <1>11 DEF Retry
<1>12. ASSUME NEW o \in Outcomes, GenerateNothing(o)
      PROVE  OutcomeTrue'
  <2>1. ran + 1 \notin 1..ran /\ ran + 1 # 0
    BY DEF TypeOK
  <2>. QED BY <1>12, <2>1 DEF GenerateNothing
<1>13. ASSUME NEW o \in Outcomes, Generate(o)
      PROVE  OutcomeTrue'
  <2>1. \A r \in Runs : published[r]["success"] > 0 => r # ran + 1
    BY Numbers DEF TypeOK
  <2>. QED BY <1>13, <2>1 DEF Generate
<1>14. CASE NoRunLeft
  BY <1>14 DEF NoRunLeft
<1>15. CASE CheckSlot
  BY <1>15 DEF CheckSlot
<1>16. CASE Queue
  <2>1. run \in Runs
    BY <1>16, RunTyped DEF Queue
  <2>2. published[run]["success"] = 0
    BY <1>16, <2>1, Numbers DEF Queue
  <2>3. Owed(run)' /\ \A r \in Runs : Owed(r)' => r = run
    BY <1>16 DEF Queue
  <2>. QED BY <1>16, <2>2, <2>3 DEF Queue
<1>17. CASE QueueFails
  BY <1>17 DEF QueueFails
<1>18. CASE Publish
  <2>1. run \in Runs
    BY <1>18, RunTyped DEF Publish
  <2>2. \A r \in Runs : published'[r]["success"] > 0 =>
          published[r]["success"] > 0 \/ (r = run /\ outcome = "success")
    BY <1>18, <2>1 DEF Publish, TypeOK
  <2>. QED BY <1>18, <2>1, <2>2 DEF Publish
<1>19. CASE PublishFails
  BY <1>19 DEF PublishFails
<1>20. CASE Crash
  BY <1>20 DEF Crash
<1>21. CASE Age
  <2>1. slot'.kind = slot.kind /\ slot'.run = slot.run
    BY <1>21 DEF Age, TypeOK, Records
  <2>. QED BY <1>21, <2>1 DEF Age
<1>. QED
  BY <1>1, <1>2, <1>3, <1>4, <1>5, <1>6, <1>7, <1>8, <1>9, <1>10, <1>11, <1>12, <1>13,
     ExecutionEnds, <1>14, <1>15, <1>16, <1>17, <1>18, <1>19, <1>20, <1>21 DEF
         Next, Runner

(* Every action keeps what is owed. *)
LEMMA KeptStep ==
  ASSUME TypeOK, Control, ProgressMade, OwedIsKept, Next
  PROVE  OwedIsKept'
<1>. USE CronAssumption DEF vars, disk, memory, history, bounds, IOError, Forgotten, BeginRun,
                            Blame, Control, RunIsCurrent, CountersReset, RecordHeld, DropsExcused,
                            PickupFirst, RunSteps, Holding, Sending, OwedIsKept, InHand, Owed,
                            Delivered, Sent, Empty, Unowed
<1>1. CASE Invoke
  BY <1>1 DEF Invoke
<1>2. CASE LoadTask
  BY <1>2 DEF LoadTask
<1>3. CASE Misconfigured
  BY <1>3 DEF Misconfigured
<1>4. CASE PickUp
  BY <1>4 DEF PickUp
<1>5. CASE PickUpFails
  BY <1>5 DEF PickUpFails
<1>6. CASE Clear
  BY <1>6 DEF Clear, Clearing, ProgressMade, TypeOK
<1>7. CASE ClearFails
  <2>1. \A r : (Owed(r)' <=> Owed(r)) /\ (Delivered(r)' <=> Delivered(r)) /\ ~InHand(r)
    BY <1>7 DEF ClearFails, Clearing
  <2>2. produced' = produced /\ faults' = faults
    BY <1>7 DEF ClearFails
  <2>. HIDE DEF Owed, InHand, Delivered
  <2>. QED BY <2>1, <2>2
<1>8. CASE Defer
  BY <1>8 DEF Defer
<1>9. CASE SendChunk
  <2>1. \A r \in Runs : Delivered(r) => Delivered(r)'
    BY <1>9, SentIsRun, DeliveredStays DEF SendChunk
  <2>2. \A r : Owed(r)' <=> Owed(r)
    BY <1>9 DEF SendChunk
  <2>3. \A r \in Runs : InHand(r) => InHand(r)' \/ Delivered(r)'
    <3>1. CASE chunk < Chunks
      BY <1>9, <3>1 DEF SendChunk
    <3>2. CASE ~(chunk < Chunks)
      <4>1. \A c \in 1..Chunks : chat'[Sent][c] > 0
        BY <1>9, <3>2, LastArrives, CronAssumption DEF TypeOK
      <4>. QED BY <1>9, <4>1 DEF SendChunk
    <3>. QED BY <3>1, <3>2
  <2>4. produced' = produced /\ faults' = faults /\ produced \subseteq Runs
    BY <1>9 DEF SendChunk, TypeOK
  <2>. HIDE DEF Owed, InHand, Delivered
  <2>. QED BY <2>1, <2>2, <2>3, <2>4
<1>10. ASSUME NEW failure \in {"refused", "unreachable", "unanswered"}, SendFails(failure)
      PROVE  OwedIsKept'
  <2>1. \A r \in Runs : Delivered(r) => Delivered(r)'
    BY <1>10, SentIsRun, DeliveredStays DEF SendFails
  <2>2. \A r : Owed(r)' <=> Owed(r)
    BY <1>10 DEF SendFails
  <2>3. /\ \A r \in Runs : faults[r] \subseteq faults'[r]
        /\ failure = "refused" => "refused" \in faults'[Sent]
    BY <1>10, SentIsRun, BlameGrows DEF SendFails, Faults
  <2>4. \A r \in Runs : InHand(r) => InHand(r)' \/ "refused" \in faults'[r]
    BY <1>10, <2>3, FailureLeadsOn DEF SendFails
  <2>5. produced' = produced /\ produced \subseteq Runs
    BY <1>10 DEF SendFails, TypeOK
  <2>. HIDE DEF Owed, InHand, Delivered, Sent
  <2>. QED BY <2>1, <2>2, <2>3, <2>4, <2>5
<1>11. CASE Retry
  BY <1>11 DEF Retry
<1>12. ASSUME NEW o \in Outcomes, GenerateNothing(o)
      PROVE  OwedIsKept'
  BY <1>12 DEF GenerateNothing
<1>13. ASSUME NEW o \in Outcomes, Generate(o)
      PROVE  OwedIsKept'
  BY <1>13 DEF Generate
<1>14. CASE NoRunLeft
  BY <1>14 DEF NoRunLeft
<1>15. CASE CheckSlot
  BY <1>15 DEF CheckSlot
<1>16. CASE Queue
  <2>1. \A r : ~Owed(r) /\ (Delivered(r)' <=> Delivered(r)) /\ (InHand(r) => Owed(r)')
    BY <1>16 DEF Queue
  <2>2. produced' = produced /\ faults' = faults
    BY <1>16 DEF Queue
  <2>. HIDE DEF Owed, InHand, Delivered
  <2>. QED BY <2>1, <2>2
<1>17. CASE QueueFails
  <2>1. \A r \in Runs : faults[r] \subseteq faults'[r] /\ (InHand(r) => "io" \in faults'[r])
    BY <1>17, RunTyped, BlameGrows DEF QueueFails, Faults
  <2>2. \A r : (Owed(r)' <=> Owed(r)) /\ (Delivered(r)' <=> Delivered(r))
    BY <1>17 DEF QueueFails
  <2>3. produced' = produced /\ produced \subseteq Runs
    BY <1>17 DEF QueueFails, TypeOK
  <2>. HIDE DEF Owed, InHand, Delivered
  <2>. QED BY <2>1, <2>2, <2>3
<1>18. CASE Publish
  BY <1>18 DEF Publish
<1>19. CASE PublishFails
  <2>1. \A r \in Runs : faults[r] \subseteq faults'[r]
    BY <1>19, RunTyped, BlameGrows DEF PublishFails, Faults
  <2>2. \A r : (Owed(r)' <=> Owed(r)) /\ (Delivered(r)' <=> Delivered(r)) /\ ~InHand(r)
    BY <1>19 DEF PublishFails
  <2>3. produced' = produced /\ produced \subseteq Runs
    BY <1>19 DEF PublishFails, TypeOK
  <2>. HIDE DEF Owed, InHand, Delivered
  <2>. QED BY <2>1, <2>2, <2>3
<1>20. CASE Crash
  <2>1. \A r \in Runs : faults[r] \subseteq faults'[r] /\ (InHand(r) => "crash" \in faults'[r])
    BY <1>20, RunTyped, BlameGrows DEF Crash, Faults
  <2>2. \A r : (Owed(r)' <=> Owed(r)) /\ (Delivered(r)' <=> Delivered(r))
    BY <1>20 DEF Crash
  <2>3. produced' = produced /\ produced \subseteq Runs
    BY <1>20 DEF Crash, TypeOK
  <2>. HIDE DEF Owed, InHand, Delivered
  <2>. QED BY <2>1, <2>2, <2>3
<1>21. CASE Age
  <2>1. \A r \in Runs : faults[r] \subseteq faults'[r]
    BY <1>21, HeldRunTyped, BlameGrows DEF Age, Faults
  <2>2. slot'.kind = slot.kind /\ slot'.run = slot.run
    BY <1>21 DEF Age, TypeOK, Records
  <2>3. produced' = produced /\ produced \subseteq Runs
    BY <1>21 DEF Age, TypeOK
  <2>. QED BY <1>21, <2>1, <2>2, <2>3 DEF Age
<1>. QED
  BY <1>1, <1>2, <1>3, <1>4, <1>5, <1>6, <1>7, <1>8, <1>9, <1>10, <1>11, <1>12, <1>13,
     ExecutionEnds, <1>14, <1>15, <1>16, <1>17, <1>18, <1>19, <1>20, <1>21 DEF
         Next, Runner

(* The invariant is inductive. *)
LEMMA NextCron == CronInv /\ [Next]_vars => CronInv'
<1> SUFFICES ASSUME CronInv, [Next]_vars PROVE CronInv'
  OBVIOUS
<1>1. CASE Next
  BY <1>1, TypedStep, ControlStep, CopiesStep, ProgressStep, CountsStep, OutcomeStep, KeptStep
     DEF CronInv
<1>2. CASE UNCHANGED vars
  <2>. USE <1>2 DEF CronInv, vars, disk, memory, history, bounds
  <2>1. TypeOK' /\ Control'
    BY DEF TypeOK, Control, RunIsCurrent, CountersReset, Sending, RecordHeld, DropsExcused,
           PickupFirst
  <2>2. CopiesBounded' /\ ProgressMade'
    BY DEF CopiesBounded, CopiesOf, Unsettled, UnderWay, Owed, InHand, ProgressMade, Sending, Sent,
           Delivered
  <2>3. CountsExact' /\ OutcomeTrue' /\ OwedIsKept'
    BY DEF CountsExact, CountedOnce, Counted, OutcomeTrue, SuccessIsDelivered, OwedIsKept,
           Owed, InHand, Delivered
  <2>. QED BY <2>1, <2>2, <2>3
<1>. QED BY <1>1, <1>2

-----------------------------------------------------------------------------
(* Every reachable state is well typed. *)
THEOREM CronTypeCorrect == Spec => []TypeOK
<1>1. CronInv => TypeOK
  BY DEF CronInv
<1>. QED BY <1>1, InitCron, NextCron, PTL DEF Spec

(* Generated output stays owed across outages, crashes of later invocations *)
(* and failing removals, until it is delivered, refused or too old.         *)
THEOREM OutputStaysOwed == Spec => []OwedIsKept
<1>1. CronInv => OwedIsKept
  BY DEF CronInv
<1>. QED BY <1>1, InitCron, NextCron, PTL DEF Spec

(* Nothing is generated while a result of an earlier run is owed. *)
THEOREM PickupComesFirst == Spec => []PickupFirst
<1>1. CronInv => PickupFirst
  BY DEF CronInv, Control
<1>. QED BY <1>1, InitCron, NextCron, PTL DEF Spec

(* A message repeats once at most for every delivery whose end is unknown. *)
THEOREM RepeatsNeedDoubt == Spec => []RepeatsAccounted
<1>1. CronInv => RepeatsAccounted
  BY Numbers DEF CronInv, CopiesBounded, CopiesOf, RepeatsAccounted
<1>. QED BY <1>1, InitCron, NextCron, PTL DEF Spec

(* Each logical run is published once, and pickups are not published. *)
THEOREM RunsCountedOnce == Spec => []CountedOnce
<1>1. CronInv => CountedOnce
  BY DEF CronInv, CountsExact
<1>. QED BY <1>1, InitCron, NextCron, PTL DEF Spec

(* A run is published as a success only when nothing of it is owed. *)
THEOREM SuccessDelivers == Spec => []SuccessIsDelivered
<1>1. CronInv => SuccessIsDelivered
  BY DEF CronInv, OutcomeTrue
<1>. QED BY <1>1, InitCron, NextCron, PTL DEF Spec

(* What is owed goes first, nothing repeats without a reason, every run   *)
(* counts once, success is delivered.                                     *)
THEOREM RunsAreHonest == Spec => []RunsHonest
<1>1. PickupFirst /\ RepeatsAccounted /\ CountedOnce /\ SuccessIsDelivered => RunsHonest
  BY DEF RunsHonest
<1>. QED BY <1>1, PickupComesFirst, RepeatsNeedDoubt, RunsCountedOnce, SuccessDelivers, PTL

-----------------------------------------------------------------------------
(* The task's address and the verdict on its report, for reports of any      *)
(* length.                                                                    *)

(* A topic of the default chat is used in that chat only: any other topic    *)
(* is the task's own.                                                        *)
LEMMA NoneMisaddressed == Misaddressed = {}
<1> SUFFICES ASSUME NEW p \in Loadable, TopicOf(p[1], p[2]) = Home
             PROVE  ChatOf(p[1], p[2]) = Home
  BY DEF Misaddressed
<1>1. PICK task \in Tasks, d \in Defaults : p = <<task, d>> /\ Loads(task, d)
  BY DEF Loadable
<1>2. task.topic \in {"absent", "own", "bad"} /\ d.chat \in {"absent", Home, "bad"}
  BY <1>1 DEF Tasks, Defaults
<1>3. TopicOf(task, d) = Home /\ ChatOf(task, d) # "absent"
  BY <1>1 DEF Loads
<1>4. task.topic = "absent" /\ ChatOf(task, d) = Kept(d.chat)
  BY <1>2, <1>3 DEF TopicOf, Home
<1>5. Kept(d.chat) \in {"absent", Home}
  BY <1>2 DEF Kept
<1>. QED BY <1>1, <1>3, <1>4, <1>5

(* A nonempty set of line numbers has a last one. *)
LEMMA LastNumber ==
  ASSUME NEW n \in Nat, NEW F \in SUBSET (1..n), F # {}
  PROVE  \E i \in F : \A j \in F : j <= i
<1> DEFINE G == {n - i : i \in F}
<1>1. G \in SUBSET Nat /\ G # {}
  <2>1. \A i \in F : n - i \in Nat
    OBVIOUS
  <2>2. PICK i : i \in F
    OBVIOUS
  <2>3. n - i \in G
    BY <2>2
  <2>. QED BY <2>1, <2>3
<1>2. PICK g \in G : \A k \in G : ~ (<<k, g>> \in OpToRel(<, Nat))
  BY <1>1, NatLessThanWellFounded, WFMin
<1>3. PICK i \in F : g = n - i
  BY <1>2
<1>4. ASSUME NEW j \in F
      PROVE  j <= i
  <2>1. n - j \in G /\ n - j \in Nat /\ g \in Nat
    BY <1>1, <1>2
  <2>2. ~(n - j < n - i)
    BY <1>2, <1>3, <2>1 DEF OpToRel
  <2>. QED BY <2>2
<1>. QED BY <1>4

LEMMA LastLineFound ==
  ASSUME NEW report \in Reports, ~Blank(report)
  PROVE  /\ LastLine(report) \in DOMAIN report /\ LastLine(report) # 0
         /\ report[LastLine(report)] # "blank"
         /\ \A j \in DOMAIN report : j > LastLine(report) => report[j] = "blank"
<1>1. PICK n \in Nat : DOMAIN report = 1..n
  BY CronTaskAssumption DEF Reports
<1> DEFINE F == {i \in DOMAIN report : report[i] # "blank"}
<1>2. F \in SUBSET (1..n) /\ F # {}
  BY <1>1 DEF Blank
<1>3. PICK i \in F : \A j \in F : j <= i
  BY <1>2, LastNumber
<1>4. ASSUME NEW j \in DOMAIN report, j > i
      PROVE  report[j] = "blank"
  <2>1. j \in 1..n /\ i \in 1..n
    BY <1>1, <1>2, <1>3
  <2>2. ~(j <= i)
    BY <1>4, <2>1
  <2>. QED BY <1>3, <2>2
<1>5. LastLine(report) =
        CHOOSE k \in DOMAIN report :
          report[k] # "blank" /\ \A j \in DOMAIN report : j > k => report[j] = "blank"
  BY DEF LastLine
<1>6. /\ LastLine(report) \in DOMAIN report /\ report[LastLine(report)] # "blank"
      /\ \A j \in DOMAIN report : j > LastLine(report) => report[j] = "blank"
  BY <1>3, <1>4, <1>5
<1>7. LastLine(report) # 0
  BY <1>1, <1>6
<1>. QED BY <1>6, <1>7

(* The classification finds the marker exactly where the report is one       *)
(* marker's: alone, and with nothing but blank lines after it.               *)
LEMMA MarkedIsUnresolved ==
  ASSUME NEW report \in Reports
  PROVE  Marked(report) <=> Unresolved(report)
<1>1. PICK n \in Nat : DOMAIN report = 1..n
  BY CronTaskAssumption DEF Reports
<1>2. CASE Blank(report)
  <2>1. LastLine(report) = 0
    BY <1>2 DEF LastLine
  <2>. QED BY <1>2, <2>1 DEF Marked, Unresolved, Blank
<1>3. CASE ~Blank(report)
  <2>. DEFINE last == LastLine(report)
  <2>1. /\ last \in DOMAIN report /\ last # 0 /\ report[last] # "blank"
        /\ \A j \in DOMAIN report : j > last => report[j] = "blank"
    BY <1>3, LastLineFound
  <2>. HIDE DEF last
  <2>2. Marked(report) <=> {i \in DOMAIN report : report[i] = "MARKER"} = {last}
    BY <2>1 DEF Marked, Markers, last
  <2>3. ASSUME {i \in DOMAIN report : report[i] = "MARKER"} = {last}
        PROVE  Unresolved(report)
    <3>1. \A j \in DOMAIN report : j < last => j # last
      BY <1>1, <2>1
    <3>2. report[last] = "MARKER" /\ \A j \in DOMAIN report : j < last => report[j] # "MARKER"
      BY <2>3, <3>1
    <3>. QED BY <2>1, <3>2 DEF Unresolved
  <2>4. ASSUME Unresolved(report)
        PROVE  {i \in DOMAIN report : report[i] = "MARKER"} = {last}
    <3>1. PICK i \in DOMAIN report :
            /\ report[i] = "MARKER"
            /\ \A j \in DOMAIN report : (j > i => report[j] = "blank") /\ (j < i => report[j] # "MARKER")
      BY <2>4 DEF Unresolved
    <3>2. \A j \in DOMAIN report : j > i \/ j < i \/ j = i
      BY <1>1
    <3>3. i > last \/ i < last \/ i = last
      BY <1>1, <2>1
    <3>4. i = last
      <4>1. ~(i > last)
        BY <2>1, <3>1
      <4>2. i < last => last > i
        BY <1>1, <2>1
      <4>. QED BY <2>1, <3>1, <3>3, <4>1, <4>2
    <3>5. \A j \in DOMAIN report : report[j] = "MARKER" => j = i
      BY <3>1, <3>2
    <3>. QED BY <3>1, <3>4, <3>5
  <2>. QED BY <2>2, <2>3, <2>4
<1>. QED BY <1>2, <1>3

(* Taking the marker out leaves no report that would be judged unresolved. *)
LEMMA StrippedResolved ==
  ASSUME NEW report \in Reports
  PROVE  ~Unresolved(Stripped(report))
<1>1. PICK n \in Nat : report \in [1..n -> Lines]
  BY CronTaskAssumption DEF Reports
<1>2. CASE ~Marked(report)
  BY <1>2, MarkedIsUnresolved DEF Stripped
<1>3. CASE Marked(report)
  <2>. DEFINE last == LastLine(report)
  <2>1. last \in 1..n /\ {i \in DOMAIN report : report[i] = "MARKER"} = {last}
    BY <1>1, <1>3 DEF Marked, Markers
  <2>. HIDE DEF last
  <2>2. Stripped(report) = SubSeq(report, 1, last - 1)
    BY <1>3 DEF Stripped, last
  <2>3. /\ DOMAIN Stripped(report) = 1..(last - 1)
        /\ \A i \in 1..(last - 1) : Stripped(report)[i] = report[i]
    <3>1. report \in Seq(Lines) /\ Len(report) = n
      BY <1>1
    <3>. QED BY <2>1, <2>2, <3>1, SubSeqProperties
  <2>4. \A i \in DOMAIN Stripped(report) : Stripped(report)[i] # "MARKER"
    BY <1>1, <2>1, <2>3
  <2>. QED BY <2>4 DEF Unresolved
<1>. QED BY <1>2, <1>3

LEMMA NoneMisjudged == Misjudged = {}
<1> SUFFICES ASSUME NEW e \in Misjudged
             PROVE  FALSE
  OBVIOUS
<1>1. /\ e \in Executions /\ e.report \in Reports /\ e.end \in Ends
      /\ e.type \in {"llm", "script"}
  BY DEF Misjudged, Executions
<1>2. Marked(e.report) <=> Unresolved(e.report)
  BY <1>1, MarkedIsUnresolved
<1>3. CASE OutcomeOf(e) = "success" /\ (~Ended(e) \/ (e.type = "llm" /\ Unresolved(e.report)))
  BY <1>1, <1>2, <1>3 DEF OutcomeOf, Ended, Fails, ScriptFails, PiFails
<1>4. CASE /\ OutcomeOf(e) = "failure" /\ Ended(e)
           /\ ~(e.type = "llm" /\ (Unresolved(e.report) \/ (Blank(e.report) /\ e.stderr)))
  BY <1>1, <1>2, <1>4 DEF OutcomeOf, Ended, Fails, ScriptFails, PiFails
<1>5. CASE e.end.code = "ETIMEDOUT" /\ (e.type = "llm" => e.agent) /\ Disposition(e) # "timeout"
  <2>1. e.end.status = "none"
    <3>1. \E end \in Ends : e.end = end
      BY <1>1
    <3>2. e.end = [code |-> "ETIMEDOUT", signal |-> TRUE, status |-> "none"]
      BY <1>5, <3>1 DEF Ends
    <3>. QED BY <3>2
  <2>2. Fails(e)
    BY <1>1, <1>5, <2>1 DEF Fails, ScriptFails, PiFails
  <2>3. ScriptCategory(e.end) = "timeout" /\ PiCategory(e.end) = "timeout"
    <3>1. e.end.code = "ETIMEDOUT" /\ e.end.signal = TRUE /\ e.end.status = "none"
      BY <1>1, <1>5, <2>1 DEF Ends
    <3>. QED BY <3>1 DEF ScriptCategory, PiCategory
  <2>4. Category(e) = "timeout"
    BY <1>1, <1>5, <2>3 DEF Category
  <2>5. Disposition(e) = "timeout"
    BY <2>2, <2>4 DEF Disposition
  <2>. QED BY <1>5, <2>5
<1>6. CASE Disposition(e) = "delivers" /\ e.type = "llm" /\ Unresolved(Said(e))
  BY <1>1, <1>6, StrippedResolved DEF Said
<1>. QED BY <1>3, <1>4, <1>5, <1>6 DEF Misjudged

(* For reports of any number of lines, any definition and any default: a     *)
(* default topic is used in the default chat only, a run counts as a success *)
(* exactly when its process ended well with a report not marked unresolved,  *)
(* a timeout goes by its name, and the marker is never sent                  *)
(* (loadCronTask, runPi, runScript, classifyPiResult and                     *)
(* classifyLlmCronTerminalResult).                                           *)
THEOREM TasksAreHonest == Spec => []TaskHonest
<1>1. TaskHonest
  BY NoneMisaddressed, NoneMisjudged DEF TaskHonest, TopicStaysHome, VerdictHonest
<1>. QED BY <1>1, PTL


-----------------------------------------------------------------------------
(* The launchd plists: what is loaded, what is written, what is removed. *)

(* A value that is due in a restricted field is one of its expansion, in which
   day 7 of the week became day 0. *)
LEMMA ExpandedMatches ==
  ASSUME NEW s \in Schedules, NEW f \in Restricted(s), NEW t \in Times
  PROVE  t[f] \in Expanded(f, Parts[s][f]) <=> MatchesField(s, f, t)
<1>1. f \in Fields /\ Parts[s][f] # {}
  BY DEF Restricted
<1>2. f = "weekday" => t[f] # 7
  BY LaunchdAssumption, <1>1 DEF Times, LaunchdAssumption
<1>3. \A v : v \in UNION {Values(p) : p \in Parts[s][f]}
               <=> \E p \in Parts[s][f] : v \in Values(p)
  OBVIOUS
<1>4. ASSUME t[f] \in Expanded(f, Parts[s][f])
      PROVE  MatchesField(s, f, t)
  <2>1. PICK v \in UNION {Values(p) : p \in Parts[s][f]} :
               t[f] = IF f = "weekday" /\ v = 7 THEN 0 ELSE v
    BY <1>4 DEF Expanded
  <2>2. PICK p \in Parts[s][f] : v \in Values(p)
    BY <1>3
  <2>. QED BY <2>1, <2>2 DEF MatchesField
<1>5. ASSUME MatchesField(s, f, t)
      PROVE  t[f] \in Expanded(f, Parts[s][f])
  <2>1. PICK p \in Parts[s][f] :
               t[f] \in Values(p) \/ (f = "weekday" /\ t[f] = 0 /\ 7 \in Values(p))
    BY <1>1, <1>5 DEF MatchesField
  <2>2. PICK v : v = IF t[f] \in Values(p) THEN t[f] ELSE 7
    OBVIOUS
  <2>3. v \in UNION {Values(q) : q \in Parts[s][f]}
    BY <2>1, <2>2
  <2>4. t[f] = IF f = "weekday" /\ v = 7 THEN 0 ELSE v
    BY <1>2, <2>1, <2>2
  <2>. QED BY <2>3, <2>4 DEF Expanded
<1>. QED BY <1>4, <1>5

(* The intervals of a schedule fire where all of its restricted fields match. *)
LEMMA IntervalsFire ==
  ASSUME NEW s \in Schedules, NEW t \in Times
  PROVE  Fires(s, t) <=> \A f \in Restricted(s) : MatchesField(s, f, t)
<1>1. ASSUME Fires(s, t), NEW f \in Restricted(s)
      PROVE  MatchesField(s, f, t)
  <2>1. PICK i \in Intervals(s) : \A g \in DOMAIN i : i[g] = t[g]
    BY <1>1 DEF Fires
  <2>2. DOMAIN i = Restricted(s) /\ i[f] \in Expanded(f, Parts[s][f])
    BY <2>1 DEF Intervals
  <2>3. t[f] \in Expanded(f, Parts[s][f])
    BY <2>1, <2>2
  <2>. QED BY <2>3, ExpandedMatches
<1>2. ASSUME \A f \in Restricted(s) : MatchesField(s, f, t)
      PROVE  Fires(s, t)
  <2> DEFINE i == [f \in Restricted(s) |-> t[f]]
  <2>1. \A f \in Restricted(s) : t[f] \in Expanded(f, Parts[s][f])
    BY <1>2, ExpandedMatches
  <2>2. i \in [Restricted(s) -> UNION {Expanded(f, Parts[s][f]) : f \in Restricted(s)}]
    BY <2>1
  <2>3. i \in Intervals(s)
    BY <2>1, <2>2 DEF Intervals
  <2>. QED BY <2>3 DEF Fires
<1>. QED BY <1>1, <1>2

(* What the validation lets through fires exactly when it is due. *)
LEMMA AcceptedIsFaithful == Accepted \subseteq Faithful
<1> SUFFICES ASSUME NEW s \in Accepted
             PROVE  s \in Faithful
  OBVIOUS
<1>1. s \in Schedules /\ Supported(s)
  BY DEF Accepted
<1>2. CASE Every[s] > 0
  BY <1>1, <1>2 DEF Faithful
<1>3. CASE ~ {"day", "weekday"} \subseteq Restricted(s)
  <2> SUFFICES ASSUME NEW t \in Times
               PROVE  Fires(s, t) <=> Due(s, t)
    BY <1>1 DEF Faithful
  <2>1. {"day", "weekday"} \subseteq Fields
    BY LaunchdAssumption DEF LaunchdAssumption
  <2>2. Due(s, t) <=> \A f \in Fields : MatchesField(s, f, t)
    BY <1>3, <2>1 DEF Due
  <2>3. \A f \in Fields \ Restricted(s) : MatchesField(s, f, t)
    BY DEF Restricted, MatchesField
  <2>4. Restricted(s) \subseteq Fields
    BY DEF Restricted
  <2>5. Fires(s, t) <=> \A f \in Restricted(s) : MatchesField(s, f, t)
    BY <1>1, IntervalsFire
  <2>. QED BY <2>2, <2>3, <2>4, <2>5
<1>. QED BY <1>1, <1>2, <1>3 DEF Supported

(* Where the entries of a chain come from. *)
LEMMA ChainEntries ==
  ASSUME NEW S, NEW above \in Seq(S), NEW below \in Seq(S), NEW x \in S
  PROVE  /\ Len(above \o below \o <<x>>) = Len(above) + Len(below) + 1
         /\ \A i \in 1 .. Len(above) : (above \o below \o <<x>>)[i] = above[i]
         /\ \A i \in 1 .. Len(below) : (above \o below \o <<x>>)[Len(above) + i] = below[i]
<1>1. <<x>> \in Seq(S) /\ Len(<<x>>) = 1
  OBVIOUS
<1>2. PICK ab : ab = above \o below
  OBVIOUS
<1>a. ab \in Seq(S)
  BY <1>2
<1>3. Len(ab) = Len(above) + Len(below) /\ Len(above) \in Nat /\ Len(below) \in Nat
  BY <1>2
<1>4. /\ \A i \in 1 .. Len(above) : ab[i] = above[i]
      /\ \A i \in 1 .. Len(below) : ab[Len(above) + i] = below[i]
  BY <1>2, <1>3
<1>5. Len(ab \o <<x>>) = Len(ab) + 1 /\ \A i \in 1 .. Len(ab) : (ab \o <<x>>)[i] = ab[i]
  BY <1>1, <1>a, <1>3
<1>. QED BY <1>2, <1>3, <1>4, <1>5

(* A runner that is trusted can be replaced by nobody else. *)
LEMMA NobodyIsFooled == Fooled = {}
<1> SUFFICES ASSUME NEW r \in Runners, Trusted(r)
             PROVE  ~Replaceable(r)
  BY DEF Fooled, TrustedRunners
<1>1. /\ r.above \in Seq(Entries) /\ r.above # <<>> /\ r.below \in Seq(Entries)
      /\ r.script \in Entries /\ r.links \in Nat
  BY RunnersAssumption DEF RunnersAssumption
<1>2. Mine(r.script) /\ Mine(TrustDir(r)) /\ Guarded(r.above) /\ (r.links = 1 => r.link.inside)
  BY DEF Trusted, LinkSound
<1>3. \A i \in 1 .. Len(r.below) : Mine(r.below[i])
  BY <1>1 DEF Trusted
<1>4. ASSUME NEW parent, Mine(parent), NEW child
      PROVE  ~Swaps(parent, child)
  BY <1>4 DEF Mine, Swaps, Trustees
<1>5. PICK chain, n, m : chain = Chain(r) /\ n = Len(r.above) /\ m = Len(r.below)
  OBVIOUS
<1>6. /\ Len(chain) = n + m + 1 /\ n \in Nat \ {0} /\ m \in Nat
      /\ \A i \in 1 .. n : chain[i] = r.above[i]
      /\ \A i \in 1 .. m : chain[n + i] = r.below[i]
  <2>1. n \in Nat \ {0} /\ m \in Nat
    BY <1>1, <1>5
  <2>2. PICK above \in Seq(Entries), below \in Seq(Entries), x \in Entries :
               above = r.above /\ below = r.below /\ x = r.script
    BY <1>1
  <2>3. chain = above \o below \o <<x>> /\ n = Len(above) /\ m = Len(below)
    BY <1>5, <2>2 DEF Chain
  <2>4. /\ Len(chain) = n + m + 1
        /\ \A i \in 1 .. n : chain[i] = above[i]
        /\ \A i \in 1 .. m : chain[n + i] = below[i]
    BY <2>3, ChainEntries
  <2>. QED BY <2>1, <2>2, <2>4
<1>7. ASSUME NEW i \in 1 .. n + m
      PROVE  ~Swaps(chain[i], chain[i + 1])
  <2>1. CASE i < n
    <3>1. chain[i] = r.above[i] /\ chain[i + 1] = r.above[i + 1]
      BY <1>6, <2>1
    <3>2. Guards(r.above[i], r.above[i + 1])
      BY <1>2, <1>5, <1>6, <2>1 DEF Guarded
    <3>. QED BY <3>1, <3>2 DEF Guards, Swaps
  <2>2. CASE i = n
    <3>1. chain[i] = r.above[n]
      BY <1>6, <2>2
    <3>2. chain[i] = TrustDir(r)
      BY <1>5, <3>1 DEF TrustDir
    <3>. QED BY <1>2, <1>4, <3>2
  <2>3. CASE i > n
    <3>1. PICK j \in 1 .. m : i = n + j
      <4>1. i - n \in 1 .. m /\ i = n + (i - n)
        BY <1>6, <2>3
      <4>. QED BY <4>1
    <3>2. chain[i] = r.below[j]
      BY <1>6, <3>1
    <3>. QED BY <1>3, <1>4, <1>5, <3>2
  <2>. QED BY <1>6, <2>1, <2>2, <2>3
<1>8. \A i \in 1 .. Len(Chain(r)) - 1 : ~Swaps(Chain(r)[i], Chain(r)[i + 1])
  <2>1. Len(chain) - 1 = n + m
    BY <1>6
  <2>. QED BY <1>5, <1>7, <2>1
<1>9. ~r.script.open /\ r.script.owner \in Trustees
  BY <1>2 DEF Mine, Trustees
<1>. QED BY <1>2, <1>8, <1>9 DEF Replaceable

AcceptedJobs == {Rendered(s, d) : s \in Accepted, d \in Dirs}
Items == [name : Names, to : AcceptedJobs \cup {NoPlist}]
Stages == {"idle", "next", "check", "write", "bootout", "bootstrap", "rollback",
           "restore", "rewrite", "retire", "unlink"}
Between == {"idle", "next"}
Syncs == [at : Stages, todo : SUBSET Items, name : Names \cup {"none"},
          to : AcceptedJobs \cup {NoPlist}, previous : AcceptedJobs \cup {NoPlist, Torn},
          unloaded : BOOLEAN, tries : Nat, asleep : BOOLEAN]

(* Only accepted schedules are written and loaded. *)
FilesShaped ==
    /\ dir \in Dirs /\ plist \in [Names -> AcceptedJobs \cup {NoPlist, Torn}]
    /\ loaded \in [Names -> AcceptedJobs \cup {NoPlist}]
    /\ running \subseteq {c \in Names : loaded[c] # NoPlist}
SyncShaped == sync \in Syncs

(* The stages of a removal and those of a replacement. *)
Roles ==
    /\ sync.at \notin Between => sync.name \in Names
    /\ sync.at \in {"check", "retire", "unlink"} => sync.to = NoPlist
    /\ sync.at \in {"write", "bootstrap", "restore", "rewrite", "rollback"} => sync.to # NoPlist

(* What is loaded is what is written, but for the cron that is being changed. *)
Steady ==
    \A c \in Names \ lapsed :
        (c # sync.name \/ sync.at \in Between \cup {"check", "write"}) => loaded[c] = plist[c]

(* What is loaded of the cron that is being changed. *)
Halfway ==
    /\ (sync.name \notin lapsed /\ sync.at = "bootout") =>
           loaded[sync.name] = IF sync.to = NoPlist THEN plist[sync.name] ELSE sync.previous
    /\ (sync.name \notin lapsed /\ sync.at = "bootstrap") =>
           loaded[sync.name] = NoPlist /\ (sync.unloaded <=> sync.previous # NoPlist)
    /\ (sync.name \notin lapsed /\ sync.at \in {"restore", "rewrite"} /\ ~RollsBack) =>
           loaded[sync.name] = sync.previous
    /\ sync.at \in {"retire", "unlink"} => loaded[sync.name] = NoPlist
    /\ sync.at = "unlink" => <<sync.name, plist[sync.name].dir>> \notin metrics

(* A job of the cron that is being changed started after it was asked for. *)
ActiveKnown == sync.at \notin Between /\ sync.name \in running => since

(* The rest of the state has its shape. *)
BooksShaped ==
    /\ crons \in [Names -> Schedules \cup {Off}] /\ metrics \subseteq Names \X Dirs
    /\ lapsed \subseteq Names /\ since \in BOOLEAN

LaunchdInv == FilesShaped /\ SyncShaped /\ Roles /\ Steady /\ Halfway /\ ActiveKnown
Ordered == RetiredBeforeRemoved /\ ActiveLeftAlone

LEMMA RestsIdle == Idle \in Syncs /\ Idle.at = "idle" /\ Idle.name = "none" /\ Idle.todo = {}
BY DEF Syncs, Stages, Idle

LEMMA RestingRoles ==
  ASSUME sync' \in Syncs, sync'.at \in Between
  PROVE  SyncShaped' /\ Roles' /\ Halfway' /\ ActiveKnown'
BY DEF SyncShaped, Roles, Halfway, ActiveKnown, Between

(* A step that leaves files and jobs alone keeps the order of things. *)
LEMMA NothingMoves ==
  ASSUME UNCHANGED <<plist, loaded>>
  PROVE  Ordered
BY DEF Ordered, RetiredBeforeRemoved, ActiveLeftAlone

(* A step that comes to rest, the cron it changed in order or lapsed. *)
LEMMA ComesToRest ==
  ASSUME LaunchdInv, FilesShaped', sync' \in Syncs, sync'.at \in Between,
         \A c \in Names \ lapsed' : loaded'[c] = plist'[c]
  PROVE  LaunchdInv'
BY RestingRoles DEF LaunchdInv, Steady

LEMMA PlanKeeps ==
  ASSUME LaunchdInv, NEW prune \in BOOLEAN, Plan(prune)
  PROVE  LaunchdInv' /\ Ordered
<1>1. Writes \subseteq Items
  <2>1. dir \in Dirs
    BY DEF LaunchdInv, FilesShaped
  <2>2. \A d \in Names : crons[d] # Off => Rendered(crons[d], dir) \in AcceptedJobs
    BY <2>1 DEF Plan, AcceptedJobs
  <2>. QED BY <2>2 DEF Writes, Items
<1>2. Prunable \subseteq Items
  BY DEF Prunable, Items
<1>3. PICK T \in SUBSET Items : sync' = [Idle EXCEPT !.at = "next", !.todo = T]
  BY <1>1, <1>2 DEF Plan, Changed
<1>4. sync' \in Syncs /\ sync'.at \in Between
  BY <1>3 DEF Syncs, Stages, Idle, Between
<1>5. \A c \in Names \ lapsed' : loaded'[c] = plist'[c]
  BY DEF LaunchdInv, Steady, Plan, Between
<1>6. FilesShaped'
  BY DEF LaunchdInv, FilesShaped, Plan
<1>7. Ordered
  BY NothingMoves DEF Plan
<1>. QED BY <1>4, <1>5, <1>6, <1>7, ComesToRest

LEMMA FinishedKeeps ==
  ASSUME LaunchdInv, Finished
  PROVE  LaunchdInv' /\ Ordered
<1>1. sync' \in Syncs /\ sync'.at \in Between
  BY RestsIdle DEF Finished, Between
<1>2. \A c \in Names \ lapsed' : loaded'[c] = plist'[c]
  BY DEF LaunchdInv, Steady, Finished, Between
<1>3. FilesShaped'
  BY DEF LaunchdInv, FilesShaped, Finished
<1>4. Ordered
  BY NothingMoves DEF Finished
<1>. QED BY <1>1, <1>2, <1>3, <1>4, ComesToRest

LEMMA AskKeeps ==
  ASSUME LaunchdInv, Ask
  PROVE  LaunchdInv' /\ Ordered
<1>1. sync.at = "next" /\ sync \in Syncs /\ \A c \in Names \ lapsed : loaded[c] = plist[c]
  BY DEF Ask, LaunchdInv, SyncShaped, Steady, Between
<1>0. PICK i \in FirstOf(sync.todo) : \E activity \in {Activity(i.name), "unknown"} :
           sync' = IF Deferred(activity) THEN [Idle EXCEPT !.at = "next", !.todo = sync.todo \ {i}]
                   ELSE [Idle EXCEPT !.at = IF i.to = NoPlist THEN "check" ELSE "write",
                                     !.todo = sync.todo \ {i}, !.name = i.name, !.to = i.to]
  BY DEF Ask
<1>2. PICK activity \in {Activity(i.name), "unknown"} :
           sync' = IF Deferred(activity) THEN [Idle EXCEPT !.at = "next", !.todo = sync.todo \ {i}]
                   ELSE [Idle EXCEPT !.at = IF i.to = NoPlist THEN "check" ELSE "write",
                                     !.todo = sync.todo \ {i}, !.name = i.name, !.to = i.to]
  BY <1>0
<1>3. i \in Items /\ sync.todo \ {i} \in SUBSET Items
  BY <1>1, <1>2 DEF FirstOf, Syncs
<1>4. UNCHANGED <<plist, loaded, running, dir, lapsed>>
  BY DEF Ask
<1>5. FilesShaped' /\ Ordered
  BY <1>4, NothingMoves DEF LaunchdInv, FilesShaped
<1>6. CASE Deferred(activity)
  <2>1. sync' \in Syncs /\ sync'.at \in Between
    BY <1>2, <1>3, <1>6 DEF Syncs, Stages, Idle, Between
  <2>. QED BY <1>1, <1>4, <1>5, <2>1, ComesToRest
<1>7. CASE ~Deferred(activity)
  <2>1. PICK a : a = IF i.to = NoPlist THEN "check" ELSE "write"
    OBVIOUS
  <2>2. sync' = [Idle EXCEPT !.at = a, !.todo = sync.todo \ {i}, !.name = i.name, !.to = i.to]
    BY <1>2, <1>7, <2>1
  <2>3. i.name \in Names /\ i.to \in AcceptedJobs \cup {NoPlist} /\ a \in {"check", "write"}
    BY <1>3, <2>1 DEF Items
  <2>4. sync' \in Syncs /\ sync'.at = a /\ sync'.name = i.name /\ sync'.to = i.to
    BY <1>3, <2>2, <2>3 DEF Syncs, Stages, Idle
  <2>5. i.name \notin running
    BY <1>2, <1>7 DEF Deferred, Activity, LaunchdInv, FilesShaped
  <2>6. Roles'
    BY <2>1, <2>3, <2>4 DEF Roles, Between
  <2>7. Steady'
    BY <1>1, <1>4 DEF Steady
  <2>8. Halfway'
    BY <2>1, <2>4 DEF Halfway
  <2>9. ActiveKnown'
    BY <1>4, <2>4, <2>5 DEF ActiveKnown
  <2>. QED BY <1>5, <2>4, <2>6, <2>7, <2>8, <2>9 DEF LaunchdInv, SyncShaped
<1>. QED BY <1>6, <1>7

LEMMA CheckKeeps ==
  ASSUME LaunchdInv, Check
  PROVE  LaunchdInv' /\ Ordered
<1>1. sync.at = "check" /\ sync \in Syncs /\ \A c \in Names \ lapsed : loaded[c] = plist[c]
  BY DEF Check, LaunchdInv, SyncShaped, Steady
<1>2. UNCHANGED <<plist, loaded, running, dir, lapsed>>
  BY DEF Check
<1>3. FilesShaped' /\ Ordered
  BY <1>2, NothingMoves DEF LaunchdInv, FilesShaped
<1>4. CASE sync' = Idle
  <2>1. sync' \in Syncs /\ sync'.at \in Between
    BY <1>4, RestsIdle DEF Between
  <2>. QED BY <1>1, <1>2, <1>3, <2>1, ComesToRest
<1>5. CASE sync' = [sync EXCEPT !.at = "bootout"] /\ UNCHANGED since
  <2>1. /\ sync' \in Syncs /\ sync'.at = "bootout"
        /\ sync'.name = sync.name /\ sync'.to = sync.to
    BY <1>1, <1>5 DEF Syncs, Stages
  <2>2. sync.name \in Names /\ sync.to = NoPlist
    BY <1>1 DEF LaunchdInv, Roles, Between
  <2>3. Roles' /\ Steady' /\ Halfway' /\ ActiveKnown'
    <3>1. Roles'
      BY <2>1, <2>2 DEF Roles
    <3>2. Steady'
      BY <1>1, <1>2 DEF Steady
    <3>3. Halfway'
      BY <1>1, <1>2, <2>1, <2>2 DEF Halfway
    <3>4. ActiveKnown'
      BY <1>1, <1>2, <1>5, <2>1 DEF ActiveKnown, LaunchdInv, Between
    <3>. QED BY <3>1, <3>2, <3>3, <3>4
  <2>. QED BY <1>3, <2>1, <2>3 DEF LaunchdInv, SyncShaped
<1>. QED BY <1>4, <1>5 DEF Check, Throw, GoTo

(* A step that touches the file and the job of the cron under change alone. *)
OnlyUnderChange ==
    \A c \in Names \ {sync.name} :
        plist'[c] = plist[c] /\ loaded'[c] = loaded[c] /\ (c \in lapsed => c \in lapsed')

(* Such a step leaves the other crons steady, and cuts a job only with reason. *)
LEMMA OthersSteady ==
  ASSUME LaunchdInv, OnlyUnderChange, sync.at \notin Between
  PROVE  /\ \A c \in Names \ lapsed' : c # sync.name => loaded'[c] = plist'[c]
         /\ ActiveLeftAlone
<1>1. \A c \in Names \ lapsed' : c # sync.name => loaded'[c] = plist'[c]
  BY DEF LaunchdInv, Steady, OnlyUnderChange
<1>2. ActiveLeftAlone
  <2> SUFFICES ASSUME NEW c \in running, plist'[c] # plist[c] \/ loaded'[c] # loaded[c]
               PROVE  since
    BY DEF ActiveLeftAlone
  <2>1. c \in Names
    BY DEF LaunchdInv, FilesShaped
  <2>2. c = sync.name
    BY <2>1 DEF OnlyUnderChange
  <2>. QED BY <2>2 DEF LaunchdInv, ActiveKnown
<1>. QED BY <1>1, <1>2

(* When it comes to rest, the cron itself is in order or lapsed. *)
LEMMA ChangeEnds ==
  ASSUME LaunchdInv, OnlyUnderChange, sync.at \notin Between, FilesShaped',
         sync' \in Syncs, sync'.at \in Between,
         sync.name \notin lapsed' => loaded'[sync.name] = plist'[sync.name]
  PROVE  LaunchdInv'
BY OthersSteady, ComesToRest

(* When it goes on, the steps that are left are those of the same cron. *)
LEMMA ChangeGoesOn ==
  ASSUME LaunchdInv, OnlyUnderChange, sync.at \notin Between, FilesShaped', Halfway',
         sync' \in Syncs, sync'.name = sync.name, sync'.to = sync.to,
         sync'.at \in {"bootout", "bootstrap", "rollback", "restore", "rewrite", "retire", "unlink"},
         sync'.at \in {"retire", "unlink"} => sync.to = NoPlist,
         sync'.at \in {"bootstrap", "restore", "rewrite", "rollback"} => sync.to # NoPlist,
         running' \subseteq running, UNCHANGED since
  PROVE  LaunchdInv'
<1>1. Roles'
  BY DEF Roles, LaunchdInv, Between
<1>2. Steady'
  BY OthersSteady DEF Steady, Between
<1>3. ActiveKnown'
  BY DEF ActiveKnown, LaunchdInv, Between
<1>. QED BY <1>1, <1>2, <1>3 DEF LaunchdInv, SyncShaped

LEMMA WriteKeeps ==
  ASSUME LaunchdInv, Write
  PROVE  LaunchdInv' /\ Ordered
<1>1. /\ sync.at = "write" /\ sync.at \notin Between /\ sync \in Syncs
      /\ \A c \in Names \ lapsed : loaded[c] = plist[c]
      /\ sync.name \in Names /\ sync.to # NoPlist
  BY DEF Write, LaunchdInv, SyncShaped, Steady, Between, Roles
<1>2. UNCHANGED <<loaded, running, dir, lapsed>>
  BY DEF Write
<1>3. CASE sync' = Idle /\ UNCHANGED plist
  <2>1. sync' \in Syncs /\ sync'.at \in Between
    BY <1>3, RestsIdle DEF Between
  <2>2. FilesShaped' /\ Ordered
    BY <1>2, <1>3, NothingMoves DEF LaunchdInv, FilesShaped
  <2>. QED BY <1>1, <1>2, <1>3, <2>1, <2>2, ComesToRest
<1>4. CASE /\ plist' = [plist EXCEPT ![sync.name] = sync.to]
           /\ sync' = [sync EXCEPT !.at = "bootout", !.previous = plist[sync.name]]
           /\ UNCHANGED since
  <2>1. sync.to \in AcceptedJobs /\ plist \in [Names -> AcceptedJobs \cup {NoPlist, Torn}]
    BY <1>1 DEF Syncs, LaunchdInv, FilesShaped
  <2>2. FilesShaped'
    BY <1>1, <1>2, <1>4, <2>1 DEF LaunchdInv, FilesShaped
  <2>3. plist[sync.name] \in AcceptedJobs \cup {NoPlist, Torn}
    BY <1>1, <2>1
  <2>4. /\ sync' \in Syncs /\ sync'.at = "bootout" /\ sync'.previous = plist[sync.name]
        /\ sync'.name = sync.name /\ sync'.to = sync.to
    BY <1>1, <1>4, <2>3 DEF Syncs, Stages
  <2>5. OnlyUnderChange
    BY <1>2, <1>4, <2>1 DEF OnlyUnderChange
  <2>6. Halfway'
    BY <1>1, <1>2, <2>4 DEF Halfway
  <2>7. LaunchdInv'
    BY <1>1, <1>2, <1>4, <2>2, <2>4, <2>5, <2>6, ChangeGoesOn
  <2>8. RetiredBeforeRemoved
    BY <1>1 DEF RetiredBeforeRemoved
  <2>. QED BY <1>1, <2>5, <2>7, <2>8, OthersSteady DEF Ordered
<1>. QED BY <1>3, <1>4 DEF Write, Throw

LEMMA BootoutKeeps ==
  ASSUME LaunchdInv, Bootout
  PROVE  LaunchdInv' /\ Ordered
<1>1. sync.at = "bootout" /\ sync.at \notin Between /\ sync \in Syncs /\ sync.name \in Names
  BY DEF Bootout, LaunchdInv, SyncShaped, Between, Roles
<1>2. UNCHANGED <<plist, dir, lapsed, metrics>>
  BY DEF Bootout
<1>3. sync.name \notin lapsed =>
         loaded[sync.name] = IF sync.to = NoPlist THEN plist[sync.name] ELSE sync.previous
  BY <1>1 DEF LaunchdInv, Halfway
<1>4. RetiredBeforeRemoved
  BY <1>2 DEF RetiredBeforeRemoved
<1>5. CASE /\ sync' = [sync EXCEPT !.at = IF sync.to = NoPlist THEN "retire" ELSE "bootstrap",
                                   !.unloaded = loaded[sync.name] # NoPlist]
           /\ loaded' = [loaded EXCEPT ![sync.name] = NoPlist]
           /\ running' = running \ {sync.name}
           /\ UNCHANGED since
  <2>0. PICK u \in BOOLEAN : u = (loaded[sync.name] # NoPlist)
    OBVIOUS
  <2>1. PICK a : a = IF sync.to = NoPlist THEN "retire" ELSE "bootstrap"
    OBVIOUS
  <2>2. sync' = [sync EXCEPT !.at = a, !.unloaded = u]
    BY <1>5, <2>0, <2>1
  <2>3. /\ sync' \in Syncs /\ sync'.at = a /\ sync'.unloaded = u
        /\ sync'.name = sync.name /\ sync'.to = sync.to /\ sync'.previous = sync.previous
    BY <1>1, <2>1, <2>2 DEF Syncs, Stages
  <2>4. loaded \in [Names -> AcceptedJobs \cup {NoPlist}]
    BY DEF LaunchdInv, FilesShaped
  <2>5. FilesShaped'
    BY <1>2, <1>5, <2>4 DEF LaunchdInv, FilesShaped
  <2>6. OnlyUnderChange
    BY <1>2, <1>5, <2>4 DEF OnlyUnderChange
  <2>7. Halfway'
    <3>1. loaded'[sync'.name] = NoPlist
      BY <1>1, <1>5, <2>3, <2>4
    <3>2. CASE sync.to = NoPlist
      BY <2>1, <2>3, <3>1, <3>2 DEF Halfway
    <3>3. CASE sync.to # NoPlist
      <4>1. sync'.at = "bootstrap"
        BY <2>1, <2>3, <3>3
      <4>2. sync.name \notin lapsed => loaded[sync.name] = sync.previous
        BY <1>3, <3>3
      <4>3. sync.name \notin lapsed => (sync'.unloaded <=> sync'.previous # NoPlist)
        BY <2>0, <2>3, <4>2
      <4>. QED BY <1>2, <2>3, <3>1, <4>1, <4>3 DEF Halfway
    <3>. QED BY <3>2, <3>3
  <2>8. LaunchdInv'
    BY <1>1, <1>5, <2>1, <2>3, <2>5, <2>6, <2>7, ChangeGoesOn
  <2>. QED BY <1>1, <1>4, <2>6, <2>8, OthersSteady DEF Ordered
<1>6. CASE UNCHANGED <<loaded, running>> /\ sync.to = NoPlist /\ sync' = Idle
  <2>1. sync' \in Syncs /\ sync'.at \in Between
    BY <1>6, RestsIdle DEF Between
  <2>2. FilesShaped' /\ Ordered /\ OnlyUnderChange
    BY <1>2, <1>6, NothingMoves DEF LaunchdInv, FilesShaped, OnlyUnderChange
  <2>. QED BY <1>1, <1>2, <1>3, <1>6, <2>1, <2>2, ChangeEnds
<1>7. CASE /\ UNCHANGED <<loaded, running, since>> /\ sync.to # NoPlist
           /\ sync' = [sync EXCEPT !.at = "restore"]
  <2>1. /\ sync' \in Syncs /\ sync'.at = "restore" /\ sync'.unloaded = sync.unloaded
        /\ sync'.name = sync.name /\ sync'.to = sync.to /\ sync'.previous = sync.previous
    BY <1>1, <1>7 DEF Syncs, Stages
  <2>2. FilesShaped' /\ Ordered /\ OnlyUnderChange
    BY <1>2, <1>7, NothingMoves DEF LaunchdInv, FilesShaped, OnlyUnderChange
  <2>3. Halfway'
    BY <1>1, <1>2, <1>3, <1>7, <2>1 DEF Halfway
  <2>4. LaunchdInv'
    BY <1>1, <1>7, <2>1, <2>2, <2>3, ChangeGoesOn
  <2>. QED BY <2>2, <2>4
<1>. QED BY <1>5, <1>6, <1>7 DEF Bootout, Throw, GoTo

LEMMA BootstrapKeeps ==
  ASSUME LaunchdInv, Bootstrap
  PROVE  LaunchdInv' /\ Ordered
<1>1. /\ sync.at \in {"bootstrap", "rollback"} /\ sync.at \notin Between
      /\ sync \in Syncs /\ sync.name \in Names /\ sync.to # NoPlist
  BY DEF Bootstrap, LaunchdInv, SyncShaped, Between, Roles
<1>2. UNCHANGED <<plist, running, dir, metrics>>
  BY DEF Bootstrap
<1>3. /\ loaded \in [Names -> AcceptedJobs \cup {NoPlist}]
      /\ plist \in [Names -> AcceptedJobs \cup {NoPlist, Torn}]
  BY DEF LaunchdInv, FilesShaped
<1>4. RetiredBeforeRemoved
  BY <1>2 DEF RetiredBeforeRemoved
<1>5. CASE /\ Present(sync.name)
           /\ loaded' = [loaded EXCEPT ![sync.name] = plist[sync.name]]
           /\ lapsed' = lapsed \ {sync.name}
           /\ IF sync.at = "bootstrap" THEN Settled ELSE Throw
  <2>1. sync' \in Syncs /\ sync'.at \in Between
    <3>1. CASE Throw
      BY <3>1, RestsIdle DEF Throw, Between
    <3>2. CASE Settled
      BY <1>1, <3>2 DEF Settled, Syncs, Stages, Idle, Between
    <3>. QED BY <1>5, <3>1, <3>2
  <2>2. plist[sync.name] \in AcceptedJobs /\ plist[sync.name] # NoPlist
    BY <1>1, <1>3, <1>5 DEF Present
  <2>3. FilesShaped'
    BY <1>1, <1>2, <1>3, <1>5, <2>2 DEF LaunchdInv, FilesShaped
  <2>4. OnlyUnderChange
    BY <1>2, <1>3, <1>5 DEF OnlyUnderChange
  <2>5. loaded'[sync.name] = plist'[sync.name]
    BY <1>1, <1>2, <1>3, <1>5
  <2>. QED BY <1>1, <1>4, <2>1, <2>3, <2>4, <2>5, ChangeEnds, OthersSteady DEF Ordered
<1>6. CASE /\ sync' = [sync EXCEPT !.tries = TriesAgain(@), !.asleep = TRUE]
           /\ UNCHANGED <<loaded, lapsed, since>>
  <2>1. /\ sync' \in Syncs /\ sync'.at = sync.at /\ sync'.unloaded = sync.unloaded
        /\ sync'.name = sync.name /\ sync'.to = sync.to /\ sync'.previous = sync.previous
    <3>1. PICK n \in Nat : n = sync.tries + 1
      BY <1>1 DEF Syncs
    <3>2. sync' = [sync EXCEPT !.tries = n, !.asleep = TRUE]
      BY <1>6, <3>1 DEF TriesAgain
    <3>. QED BY <1>1, <3>2 DEF Syncs
  <2>2. FilesShaped' /\ Ordered /\ OnlyUnderChange
    BY <1>2, <1>6, NothingMoves DEF LaunchdInv, FilesShaped, OnlyUnderChange
  <2>3. Halfway'
    BY <1>1, <1>2, <1>6, <2>1 DEF LaunchdInv, Halfway
  <2>4. LaunchdInv'
    BY <1>1, <1>2, <1>6, <2>1, <2>2, <2>3, ChangeGoesOn
  <2>. QED BY <2>2, <2>4
<1>. QED BY <1>5, <1>6 DEF Bootstrap

LEMMA AwakeKeeps ==
  ASSUME LaunchdInv, Awake
  PROVE  LaunchdInv' /\ Ordered
<1>1. sync \in Syncs
  BY DEF LaunchdInv, SyncShaped
<1>2. UNCHANGED <<plist, loaded, running, dir, metrics, since, lapsed>>
  BY DEF Awake
<1>3. /\ sync' \in Syncs /\ sync'.at = sync.at /\ sync'.unloaded = sync.unloaded
      /\ sync'.name = sync.name /\ sync'.to = sync.to /\ sync'.previous = sync.previous
  BY <1>1 DEF Awake, Syncs
<1>4. FilesShaped' /\ Ordered
  BY <1>2, NothingMoves DEF LaunchdInv, FilesShaped
<1>5. Roles'
  BY <1>3 DEF LaunchdInv, Roles
<1>6. Steady'
  BY <1>2, <1>3 DEF LaunchdInv, Steady
<1>7. Halfway'
  BY <1>2, <1>3 DEF LaunchdInv, Halfway, RollsBack
<1>8. ActiveKnown'
  BY <1>2, <1>3 DEF LaunchdInv, ActiveKnown
<1>. QED BY <1>3, <1>4, <1>5, <1>6, <1>7, <1>8 DEF LaunchdInv, SyncShaped

LEMMA BootstrapFailsKeeps ==
  ASSUME LaunchdInv, BootstrapFails
  PROVE  LaunchdInv' /\ Ordered
<1>1. /\ sync.at \in {"bootstrap", "rollback"} /\ sync.at \notin Between
      /\ sync \in Syncs /\ sync.name \in Names /\ sync.to # NoPlist
  BY DEF BootstrapFails, LaunchdInv, SyncShaped, Between, Roles
<1>2. UNCHANGED <<plist, loaded, running, dir, metrics>>
  BY DEF BootstrapFails
<1>3. FilesShaped' /\ Ordered
  BY <1>2, NothingMoves DEF LaunchdInv, FilesShaped
<1>4. CASE /\ sync.at = "bootstrap" /\ UNCHANGED <<since, lapsed>>
           /\ sync' = [sync EXCEPT !.at = "restore", !.tries = 0]
  <2>1. /\ sync' \in Syncs /\ sync'.at = "restore" /\ sync'.unloaded = sync.unloaded
        /\ sync'.name = sync.name /\ sync'.to = sync.to /\ sync'.previous = sync.previous
    BY <1>1, <1>4 DEF Syncs, Stages
  <2>2. OnlyUnderChange
    BY <1>2, <1>4 DEF OnlyUnderChange
  <2>3. sync.name \notin lapsed =>
           loaded[sync.name] = NoPlist /\ (sync.unloaded <=> sync.previous # NoPlist)
    BY <1>4 DEF LaunchdInv, Halfway
  <2>4. Halfway'
    BY <1>2, <1>4, <2>1, <2>3 DEF Halfway, RollsBack
  <2>5. LaunchdInv'
    BY <1>1, <1>2, <1>3, <1>4, <2>1, <2>2, <2>4, ChangeGoesOn
  <2>. QED BY <1>3, <2>5
<1>5. CASE sync' = Idle /\ lapsed' = lapsed \cup {sync.name}
  <2>1. sync' \in Syncs /\ sync'.at \in Between
    BY <1>5, RestsIdle DEF Between
  <2>2. OnlyUnderChange
    BY <1>2, <1>5 DEF OnlyUnderChange
  <2>. QED BY <1>1, <1>3, <1>5, <2>1, <2>2, ChangeEnds
<1>. QED BY <1>1, <1>4, <1>5 DEF BootstrapFails, Throw, Lapses

(* After the old plist is back: the rollback, or the cron as it was. *)
LEMMA AfterRestoreKeeps ==
  ASSUME LaunchdInv, sync.at \in {"restore", "rewrite"}, AfterRestore,
         UNCHANGED <<loaded, running, dir, metrics, lapsed>>,
         plist' = [plist EXCEPT ![sync.name] = sync.previous]
  PROVE  LaunchdInv' /\ Ordered
<1>1. /\ sync.at \notin Between /\ sync \in Syncs /\ sync.name \in Names /\ sync.to # NoPlist
  BY DEF LaunchdInv, SyncShaped, Between, Roles
<1>2. /\ sync.previous \in AcceptedJobs \cup {NoPlist, Torn}
      /\ plist \in [Names -> AcceptedJobs \cup {NoPlist, Torn}]
  BY <1>1 DEF Syncs, LaunchdInv, FilesShaped
<1>3. FilesShaped'
  BY <1>1, <1>2 DEF LaunchdInv, FilesShaped
<1>4. OnlyUnderChange
  BY <1>2 DEF OnlyUnderChange
<1>5. Ordered
  BY <1>1, <1>4, OthersSteady DEF Ordered, RetiredBeforeRemoved
<1>6. CASE RollsBack /\ sync' = [sync EXCEPT !.at = "rollback"] /\ UNCHANGED since
  <2>1. /\ sync' \in Syncs /\ sync'.at = "rollback"
        /\ sync'.name = sync.name /\ sync'.to = sync.to
    BY <1>1, <1>6 DEF Syncs, Stages
  <2>2. Halfway'
    BY <2>1 DEF Halfway
  <2>3. LaunchdInv'
    BY <1>1, <1>3, <1>4, <1>6, <2>1, <2>2, ChangeGoesOn
  <2>. QED BY <1>5, <2>3
<1>7. CASE ~RollsBack /\ sync' = Idle
  <2>1. sync' \in Syncs /\ sync'.at \in Between
    BY <1>7, RestsIdle DEF Between
  <2>2. sync.name \notin lapsed' => loaded'[sync.name] = plist'[sync.name]
    BY <1>1, <1>2, <1>7 DEF LaunchdInv, Halfway
  <2>. QED BY <1>1, <1>3, <1>4, <1>5, <2>1, <2>2, ChangeEnds
<1>. QED BY <1>6, <1>7 DEF AfterRestore, GoTo, Throw

LEMMA RestoreKeeps ==
  ASSUME LaunchdInv, Restore
  PROVE  LaunchdInv' /\ Ordered
<1>1. /\ sync.at = "restore" /\ sync.at \notin Between
      /\ sync \in Syncs /\ sync.name \in Names /\ sync.to # NoPlist
  BY DEF Restore, LaunchdInv, SyncShaped, Between, Roles
<1>2. UNCHANGED <<loaded, running, dir, metrics, lapsed>>
  BY DEF Restore
<1>3. CASE /\ sync.previous = NoPlist /\ AfterRestore
           /\ plist' = [plist EXCEPT ![sync.name] = NoPlist]
  BY <1>1, <1>2, <1>3, AfterRestoreKeeps
<1>4. CASE /\ plist' = [plist EXCEPT ![sync.name] = Torn]
           /\ sync' = [sync EXCEPT !.at = "rewrite"] /\ UNCHANGED since
  <2>1. /\ sync' \in Syncs /\ sync'.at = "rewrite" /\ sync'.unloaded = sync.unloaded
        /\ sync'.name = sync.name /\ sync'.to = sync.to /\ sync'.previous = sync.previous
    BY <1>1, <1>4 DEF Syncs, Stages
  <2>2. plist \in [Names -> AcceptedJobs \cup {NoPlist, Torn}]
    BY DEF LaunchdInv, FilesShaped
  <2>3. FilesShaped'
    BY <1>1, <1>2, <1>4, <2>2 DEF LaunchdInv, FilesShaped
  <2>4. OnlyUnderChange
    BY <1>2, <1>4, <2>2 DEF OnlyUnderChange
  <2>5. Halfway'
    BY <1>1, <1>2, <2>1 DEF LaunchdInv, Halfway, RollsBack
  <2>6. LaunchdInv'
    BY <1>1, <1>2, <1>4, <2>1, <2>3, <2>4, <2>5, ChangeGoesOn
  <2>. QED BY <1>1, <2>4, <2>6, OthersSteady DEF Ordered, RetiredBeforeRemoved
<1>. QED BY <1>3, <1>4 DEF Restore, GoTo

(* A step that breaks off and says so. *)
LEMMA BreaksOff ==
  ASSUME LaunchdInv, sync.at \notin Between, sync' = Idle, lapsed' = lapsed \cup {sync.name},
         UNCHANGED <<plist, loaded, running, dir>>
  PROVE  LaunchdInv' /\ Ordered
<1>1. sync' \in Syncs /\ sync'.at \in Between
  BY RestsIdle DEF Between
<1>2. FilesShaped' /\ Ordered /\ OnlyUnderChange
  BY NothingMoves DEF LaunchdInv, FilesShaped, OnlyUnderChange
<1>. QED BY <1>1, <1>2, ChangeEnds

LEMMA RewriteKeeps ==
  ASSUME LaunchdInv, Rewrite
  PROVE  LaunchdInv' /\ Ordered
<1>1. sync.at = "rewrite" /\ sync.at \notin Between /\ UNCHANGED <<loaded, running, dir, metrics>>
  BY DEF Rewrite, Between
<1>2. CASE /\ plist' = [plist EXCEPT ![sync.name] = sync.previous]
           /\ AfterRestore /\ UNCHANGED lapsed
  BY <1>1, <1>2, AfterRestoreKeeps
<1>3. CASE Throw /\ Lapses(sync.name) /\ UNCHANGED plist
  BY <1>1, <1>3, BreaksOff DEF Throw, Lapses
<1>. QED BY <1>2, <1>3 DEF Rewrite

LEMMA RetireKeeps ==
  ASSUME LaunchdInv, Retire
  PROVE  LaunchdInv' /\ Ordered
<1>1. /\ sync.at = "retire" /\ sync.at \notin Between
      /\ sync \in Syncs /\ sync.to = NoPlist /\ loaded[sync.name] = NoPlist
  BY DEF Retire, LaunchdInv, SyncShaped, Between, Roles, Halfway
<1>2. UNCHANGED <<plist, loaded, running, dir>>
  BY DEF Retire
<1>3. CASE /\ metrics' = metrics \ {<<sync.name, MetricDir(sync.name)>>}
           /\ sync' = [sync EXCEPT !.at = "unlink"] /\ UNCHANGED <<since, lapsed>>
  <2>1. /\ sync' \in Syncs /\ sync'.at = "unlink"
        /\ sync'.name = sync.name /\ sync'.to = sync.to
    BY <1>1, <1>3 DEF Syncs, Stages
  <2>2. FilesShaped' /\ Ordered /\ OnlyUnderChange
    BY <1>2, <1>3, NothingMoves DEF LaunchdInv, FilesShaped, OnlyUnderChange
  <2>3. Halfway'
    BY <1>1, <1>2, <1>3, <2>1 DEF Halfway, MetricDir
  <2>4. LaunchdInv'
    BY <1>1, <1>2, <1>3, <2>1, <2>2, <2>3, ChangeGoesOn
  <2>. QED BY <2>2, <2>4
<1>4. CASE Throw /\ Lapses(sync.name)
  BY <1>1, <1>2, <1>4, BreaksOff DEF Throw, Lapses
<1>. QED BY <1>3, <1>4 DEF Retire, GoTo

LEMMA UnlinkKeeps ==
  ASSUME LaunchdInv, Unlink
  PROVE  LaunchdInv' /\ Ordered
<1>1. /\ sync.at = "unlink" /\ sync.at \notin Between
      /\ sync \in Syncs /\ sync.name \in Names /\ loaded[sync.name] = NoPlist
      /\ <<sync.name, plist[sync.name].dir>> \notin metrics
  BY DEF Unlink, LaunchdInv, SyncShaped, Between, Roles, Halfway
<1>2. UNCHANGED <<loaded, running, dir, metrics>>
  BY DEF Unlink
<1>3. CASE /\ plist' = [plist EXCEPT ![sync.name] = NoPlist]
           /\ lapsed' = lapsed \ {sync.name} /\ Settled
  <2>1. sync' \in Syncs /\ sync'.at \in Between
    BY <1>1, <1>3 DEF Settled, Syncs, Stages, Idle, Between
  <2>2. plist \in [Names -> AcceptedJobs \cup {NoPlist, Torn}]
    BY DEF LaunchdInv, FilesShaped
  <2>3. FilesShaped'
    BY <1>1, <1>2, <1>3, <2>2 DEF LaunchdInv, FilesShaped
  <2>4. OnlyUnderChange
    BY <1>2, <1>3, <2>2 DEF OnlyUnderChange
  <2>5. loaded'[sync.name] = plist'[sync.name]
    BY <1>1, <1>2, <1>3, <2>2
  <2>6. RetiredBeforeRemoved
    BY <1>1, <1>2, <2>4 DEF RetiredBeforeRemoved, OnlyUnderChange
  <2>. QED BY <1>1, <2>1, <2>3, <2>4, <2>5, <2>6, ChangeEnds, OthersSteady DEF Ordered
<1>4. CASE Throw /\ Lapses(sync.name) /\ UNCHANGED plist
  BY <1>1, <1>2, <1>4, BreaksOff DEF Throw, Lapses
<1>. QED BY <1>3, <1>4 DEF Unlink

LEMMA StartJobKeeps ==
  ASSUME LaunchdInv, StartJob
  PROVE  LaunchdInv' /\ Ordered
<1>1. UNCHANGED <<plist, loaded, sync, dir, metrics, lapsed>>
  BY DEF StartJob
<1>2. PICK c \in Names \ running : /\ loaded[c] # NoPlist
                                   /\ running' = running \cup {c}
                                   /\ since' = (since \/ c = sync.name)
  BY DEF StartJob
<1>3. FilesShaped' /\ Ordered
  BY <1>1, <1>2, NothingMoves DEF LaunchdInv, FilesShaped
<1>4. SyncShaped' /\ Roles' /\ Steady' /\ Halfway'
  BY <1>1 DEF LaunchdInv, SyncShaped, Roles, Steady, Halfway, RollsBack
<1>5. ActiveKnown'
  BY <1>1, <1>2 DEF LaunchdInv, ActiveKnown
<1>. QED BY <1>3, <1>4, <1>5 DEF LaunchdInv

LEMMA EndJobKeeps ==
  ASSUME LaunchdInv, EndJob
  PROVE  LaunchdInv' /\ Ordered
<1>1. UNCHANGED <<plist, loaded, sync, dir, since, lapsed>>
  BY DEF EndJob
<1>2. PICK c \in running : /\ running' = running \ {c}
                           /\ metrics' = metrics \cup {<<c, loaded[c].dir>>}
  BY DEF EndJob
<1>3. FilesShaped' /\ Ordered
  BY <1>1, <1>2, NothingMoves DEF LaunchdInv, FilesShaped
<1>4. SyncShaped' /\ Roles' /\ Steady'
  BY <1>1 DEF LaunchdInv, SyncShaped, Roles, Steady
<1>5. loaded[c] # NoPlist
  BY DEF LaunchdInv, FilesShaped
<1>6. Halfway'
  BY <1>1, <1>2, <1>5 DEF LaunchdInv, Halfway, RollsBack
<1>7. ActiveKnown'
  BY <1>1, <1>2 DEF LaunchdInv, ActiveKnown
<1>. QED BY <1>3, <1>4, <1>6, <1>7 DEF LaunchdInv

(* A step that neither the sync nor launchd has a part in. *)
LEMMA ElsewhereKeeps ==
  ASSUME LaunchdInv, dir' \in Dirs,
         UNCHANGED <<plist, loaded, running, metrics, sync, since, lapsed>>
  PROVE  LaunchdInv' /\ Ordered
<1>1. FilesShaped' /\ Ordered
  BY NothingMoves DEF LaunchdInv, FilesShaped
<1>2. SyncShaped' /\ Roles' /\ Steady' /\ Halfway' /\ ActiveKnown'
  BY DEF LaunchdInv, SyncShaped, Roles, Steady, Halfway, RollsBack, ActiveKnown
<1>. QED BY <1>1, <1>2 DEF LaunchdInv

LEMMA CrashKeeps ==
  ASSUME LaunchdInv, SyncDies
  PROVE  LaunchdInv' /\ Ordered
<1>1. sync' = Idle /\ UNCHANGED <<plist, loaded, running, dir>>
  BY DEF SyncDies, Throw
<1>2. CASE sync.at \in {"next", "check", "write"} /\ lapsed' = lapsed
  <2>1. sync' \in Syncs /\ sync'.at \in Between
    BY <1>1, RestsIdle DEF Between
  <2>2. FilesShaped' /\ Ordered
    BY <1>1, NothingMoves DEF LaunchdInv, FilesShaped
  <2>3. \A c \in Names \ lapsed' : loaded'[c] = plist'[c]
    BY <1>1, <1>2 DEF LaunchdInv, Steady, Between
  <2>. QED BY <2>1, <2>2, <2>3, ComesToRest
<1>3. CASE sync.at \notin {"next", "check", "write"} /\ lapsed' = lapsed \cup {sync.name}
  <2>1. sync.at \notin Between
    BY <1>3 DEF SyncDies, Between
  <2>. QED BY <1>1, <1>3, <2>1, BreaksOff
<1>. QED BY <1>2, <1>3 DEF SyncDies

LEMMA LoginKeeps ==
  ASSUME LaunchdInv, Login
  PROVE  LaunchdInv' /\ Ordered
<1>1. /\ sync.at = "idle" /\ sync' = sync /\ UNCHANGED <<plist, dir, metrics>>
      /\ loaded' = [c \in Names |-> IF Present(c) THEN plist[c] ELSE NoPlist]
      /\ running' = {} /\ lapsed' = {c \in Names : plist[c] = Torn}
  BY DEF Login
<1>2. sync' \in Syncs /\ sync'.at \in Between
  BY <1>1 DEF LaunchdInv, SyncShaped, Between
<1>3. plist \in [Names -> AcceptedJobs \cup {NoPlist, Torn}]
  BY DEF LaunchdInv, FilesShaped
<1>4. loaded' \in [Names -> AcceptedJobs \cup {NoPlist}]
  BY <1>1, <1>3 DEF Present
<1>5. FilesShaped'
  BY <1>1, <1>4 DEF LaunchdInv, FilesShaped
<1>6. \A c \in Names \ lapsed' : loaded'[c] = plist'[c]
  BY <1>1, <1>3 DEF Present
<1>7. Ordered
  BY <1>1 DEF Ordered, RetiredBeforeRemoved, ActiveLeftAlone
<1>. QED BY <1>2, <1>5, <1>6, <1>7, ComesToRest

LEMMA InitLaunchdInv == LaunchdInit => LaunchdInv
<1> SUFFICES ASSUME LaunchdInit
             PROVE  LaunchdInv
  OBVIOUS
<1>1. \A c \in Names : crons[c] # Off => Rendered(crons[c], dir) \in AcceptedJobs
  BY DEF LaunchdInit, AcceptedJobs
<1>2. plist \in [Names -> AcceptedJobs \cup {NoPlist}]
  BY <1>1 DEF LaunchdInit
<1>3. FilesShaped
  BY <1>2 DEF LaunchdInit, FilesShaped
<1>4. sync \in Syncs /\ sync.at = "idle"
  BY RestsIdle DEF LaunchdInit
<1>5. SyncShaped /\ Roles /\ Steady /\ Halfway /\ ActiveKnown
  BY <1>4 DEF LaunchdInit, SyncShaped, Roles, Steady, Halfway, ActiveKnown, Between
<1>. QED BY <1>3, <1>5 DEF LaunchdInv

LEMMA LaunchdStep == LaunchdInv /\ [LaunchdNext]_launchdVars => LaunchdInv' /\ Ordered
<1> SUFFICES ASSUME LaunchdInv, [LaunchdNext]_launchdVars
             PROVE  LaunchdInv' /\ Ordered
  OBVIOUS
<1>1. CASE \E prune \in BOOLEAN : Plan(prune)
  BY <1>1, PlanKeeps
<1>2. CASE SyncStep
  BY <1>2, FinishedKeeps, AskKeeps, CheckKeeps, WriteKeeps, BootoutKeeps, BootstrapKeeps,
     AwakeKeeps, BootstrapFailsKeeps, RestoreKeeps, RewriteKeeps, RetireKeeps, UnlinkKeeps
     DEF SyncStep
<1>3. CASE StartJob \/ EndJob \/ SyncDies \/ Login
  BY <1>3, StartJobKeeps, EndJobKeeps, CrashKeeps, LoginKeeps
<1>4. CASE Edit
  <2>1. dir' \in Dirs /\ UNCHANGED <<plist, loaded, running, metrics, sync, since, lapsed>>
    BY <1>4 DEF Edit, LaunchdInv, FilesShaped
  <2>. QED BY <2>1, ElsewhereKeeps
<1>5. CASE UNCHANGED launchdVars
  <2>1. dir' \in Dirs /\ UNCHANGED <<plist, loaded, running, metrics, sync, since, lapsed>>
    BY <1>5 DEF launchdVars, LaunchdInv, FilesShaped
  <2>. QED BY <2>1, ElsewhereKeeps
<1>. QED BY <1>1, <1>2, <1>3, <1>4, <1>5 DEF LaunchdNext

LEMMA LaunchdInvHolds == LaunchdSpec => []LaunchdInv
BY InitLaunchdInv, LaunchdStep, PTL DEF LaunchdSpec

(* Outside a change, or for another cron, launchd runs what the file says
   unless the last change of the cron broke off. *)
THEOREM DriftIsExplained == LaunchdSpec => []DriftExplained
<1>1. LaunchdInv => DriftExplained
  BY DEF LaunchdInv, Steady, DriftExplained
<1>. QED BY <1>1, LaunchdInvHolds, PTL

(* What launchd loaded fires when its schedule is due, and its program is one
   that only its owner and root can replace. *)
THEOREM LoadedJobsAreRight == LaunchdSpec => []JobsAreRight
<1>1. LaunchdInv => FiresWhenDue
  <2> SUFFICES ASSUME LaunchdInv, NEW c \in Names, loaded[c] # NoPlist
               PROVE  loaded[c].cron \in Faithful
    BY DEF FiresWhenDue
  <2>1. loaded[c] \in AcceptedJobs
    BY DEF LaunchdInv, FilesShaped
  <2>2. PICK s \in Accepted, d \in Dirs : loaded[c] = Rendered(s, d)
    BY <2>1 DEF AcceptedJobs
  <2>. QED BY <2>2, AcceptedIsFaithful DEF Rendered
<1>2. RunnerIsOwners
  BY NobodyIsFooled DEF RunnerIsOwners
<1>3. LaunchdInv => JobsAreRight
  BY <1>1, <1>2 DEF JobsAreRight
<1>. QED BY <1>3, LaunchdInvHolds, PTL

(* A plist goes only after the metrics in the directory it names; a job that *)
(* ran when it was asked about is let be.                                    *)
THEOREM RemovalsKeepTheirOrder == LaunchdSpec => RemovalsInOrder
<1>1. LaunchdInv /\ [LaunchdNext]_launchdVars => [RetiredBeforeRemoved /\ ActiveLeftAlone]_launchdVars
  BY LaunchdStep DEF Ordered
<1>. QED BY <1>1, LaunchdInvHolds, PTL DEF LaunchdSpec, RemovalsInOrder

LEMMA InitBooks == LaunchdInit => BooksShaped
BY DEF LaunchdInit, BooksShaped, Accepted

LEMMA BooksStep == BooksShaped /\ LaunchdInv /\ [LaunchdNext]_launchdVars => BooksShaped'
<1> SUFFICES ASSUME BooksShaped, LaunchdInv, [LaunchdNext]_launchdVars
             PROVE  BooksShaped'
  OBVIOUS
<1>1. \A c \in Names : loaded[c] # NoPlist => loaded[c].dir \in Dirs
  <2>1. \A j \in AcceptedJobs : j.dir \in Dirs
    BY DEF AcceptedJobs, Rendered
  <2>. QED BY <2>1 DEF LaunchdInv, FilesShaped
<1>2. sync.at \notin Between => sync.name \in Names
  BY DEF LaunchdInv, Roles
<1>3. crons' \in [Names -> Schedules \cup {Off}]
  <2>1. CASE Edit
    BY <2>1 DEF BooksShaped, Edit
  <2>2. CASE UNCHANGED crons
    BY <2>2 DEF BooksShaped
  <2>. QED BY <2>1, <2>2 DEF LaunchdNext, launchdVars, Plan, SyncStep, Finished, Ask, Check, Write, Bootout,
           Bootstrap, Awake, BootstrapFails, Restore, Rewrite, Retire, Unlink, StartJob, EndJob,
           SyncDies, Login
<1>4. metrics' \subseteq Names \X Dirs
  <2>1. CASE EndJob
    BY <1>1, <2>1 DEF BooksShaped, EndJob, LaunchdInv, FilesShaped
  <2>2. CASE metrics' \subseteq metrics
    BY <2>2 DEF BooksShaped
  <2>. QED BY <2>1, <2>2 DEF LaunchdNext, launchdVars, Plan, SyncStep, Finished, Ask, Check, Write, Bootout,
           Bootstrap, Awake, BootstrapFails, Restore, Rewrite, Retire, Unlink, StartJob, Edit,
           SyncDies, Login
<1>5. lapsed' \subseteq Names
  <2>1. CASE lapsed' \subseteq lapsed \/ (lapsed' = lapsed \cup {sync.name} /\ sync.at \notin Between)
    BY <1>2, <2>1 DEF BooksShaped
  <2>2. CASE Login
    BY <2>2 DEF Login
  <2>. QED BY <2>1, <2>2 DEF LaunchdNext, launchdVars, Plan, SyncStep, Finished, Ask, Check, Write, Bootout,
           Bootstrap, Awake, BootstrapFails, Restore, Rewrite, Retire, Unlink, StartJob, EndJob,
           Edit, SyncDies, Lapses, Between
<1>6. since' \in BOOLEAN
  <2>1. CASE StartJob
    BY <2>1 DEF BooksShaped, StartJob
  <2>2. CASE since' \in {FALSE, since}
    BY <2>2 DEF BooksShaped
  <2>. QED BY <2>1, <2>2 DEF LaunchdNext, launchdVars, Plan, SyncStep, Finished, Ask, Check, Write, Bootout,
           Bootstrap, Awake, BootstrapFails, Restore, Rewrite, Retire, Unlink, EndJob,
           Edit, SyncDies, Login, Throw, GoTo, Settled, AfterRestore
<1>. QED BY <1>3, <1>4, <1>5, <1>6 DEF BooksShaped

(* Every part of the state has its shape. *)
THEOREM LaunchdTypeCorrect == LaunchdSpec => []LaunchdTypeOK
<1>1. LaunchdInv /\ BooksShaped => LaunchdTypeOK
  <2> SUFFICES ASSUME LaunchdInv, BooksShaped
               PROVE  LaunchdTypeOK
    OBVIOUS
  <2>1. AcceptedJobs \subseteq Jobs
    BY DEF AcceptedJobs, Jobs, Accepted
  <2>2. sync.todo \subseteq Items
    BY DEF LaunchdInv, SyncShaped, Syncs
  <2>. QED BY <2>1, <2>2 DEF LaunchdInv, FilesShaped, BooksShaped, LaunchdTypeOK, Items
<1>. QED BY <1>1, InitBooks, BooksStep, InitLaunchdInv, LaunchdStep, PTL DEF LaunchdSpec

=============================================================================
