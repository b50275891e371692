------------------------- MODULE MessageQueueProofs --------------------------
(* What holds of the message queue for every number of chats, state        *)
(* objects and messages, and for every queue cap.                          *)
EXTENDS MessageQueue, SequenceTheorems, FiniteSetTheorems,
        WellFoundedInduction, TLAPS

(* The types of the variables and the bounds of the buffers.               *)

(* A nonempty set of naturals has a least element. *)
LEMMA LeastElement ==
  ASSUME NEW F \in SUBSET Nat, F # {}
  PROVE  \E i \in F : \A j \in F : i <= j
<1>1. \E i \in F : \A j \in F : ~ (<<j, i>> \in OpToRel(<, Nat))
  BY NatLessThanWellFounded, WFMin
<1>2. PICK i \in F : \A j \in F : ~ (<<j, i>> \in OpToRel(<, Nat))
  BY <1>1
<1>3. ASSUME NEW j \in F
      PROVE  i <= j
  <2>1. ~ (j < i)
    BY <1>2 DEF OpToRel
  <2> QED
    BY <2>1
<1> QED
  BY <1>3

(* The states TypeOK admits. *)
SizedStates ==
  {q \in QueueState : Len(q.pending) <= QueueCap /\ Len(q.collect) <= QueueCap}

LEMMA FirstFreshEntry ==
  ASSUME NEW q \in QueueState, Fresh(q) # {}
  PROVE  /\ FirstFresh(q) \in Msgs
         /\ FirstFresh(q) \in ElementsOf(q.collect)
         /\ FirstFresh(q) \notin q.steerPending
<1> DEFINE first == CHOOSE i \in Fresh(q) : \A j \in Fresh(q) : i <= j
<1>1. q.collect \in Seq(Msgs)
  BY DEF QueueState
<1>2. Fresh(q) \in SUBSET Nat /\ Fresh(q) \subseteq DOMAIN q.collect
  BY <1>1, LenProperties DEF Fresh
<1>3. \E i \in Fresh(q) : \A j \in Fresh(q) : i <= j
  BY <1>2, LeastElement
<1>4. first \in Fresh(q)
  BY <1>3
<1> HIDE DEF first
<1>5. q.collect[first] \in Msgs
  BY <1>1, <1>2, <1>4, LenProperties, ElementOfSeq
<1>6. q.collect[first] \in ElementsOf(q.collect)
  BY <1>2, <1>4 DEF ElementsOf
<1>7. q.collect[first] \notin q.steerPending
  BY <1>4 DEF Fresh
<1> QED
  BY <1>5, <1>6, <1>7 DEF FirstFresh, first

(* p and q agree on everything but the steering bookkeeping. *)
SteeringApart(p, q) ==
  /\ p.chat = q.chat /\ p.pending = q.pending /\ p.timer = q.timer
  /\ p.collect = q.collect /\ p.busy = q.busy /\ p.platform = q.platform
  /\ p.noticeScheduled = q.noticeScheduled /\ p.cooling = q.cooling
  /\ p.cooldownTimer = q.cooldownTimer

LEMMA AttemptSteerType ==
  ASSUME NEW q \in QueueState
  PROVE  /\ AttemptSteer(q) \in QueueState
         /\ SteeringApart(AttemptSteer(q), q)
<1>1. CASE q.busy /\ ~q.blocked /\ q.submitting = NoMsg /\ Fresh(q) # {}
  <2> DEFINE m == FirstFresh(q)
  <2>1. m \in Msgs
    BY <1>1, FirstFreshEntry
  <2>2. AttemptSteer(q) = [q EXCEPT !.submitting = m, !.steerPending = @ \cup {m},
                                    !.calls = @ \cup {m}]
    BY <1>1 DEF AttemptSteer
  <2> HIDE DEF m
  <2>3. q.steerPending \cup {m} \in SUBSET Msgs /\ q.calls \cup {m} \in SUBSET Msgs
    BY <2>1 DEF QueueState
  <2>4. AttemptSteer(q) \in QueueState
    BY <2>1, <2>2, <2>3 DEF QueueState
  <2>5. SteeringApart(AttemptSteer(q), q)
    BY <2>2 DEF QueueState, SteeringApart
  <2> QED
    BY <2>4, <2>5
<1>2. CASE ~(q.busy /\ ~q.blocked /\ q.submitting = NoMsg /\ Fresh(q) # {})
  BY <1>2 DEF AttemptSteer, SteeringApart
<1> QED
  BY <1>1, <1>2

LEMMA SettleBusyType ==
  ASSUME NEW q \in QueueState
  PROVE  /\ SettleBusyGeneration(q) \in QueueState
         /\ SteeringApart(SettleBusyGeneration(q), q)
BY DEF SettleBusyGeneration, QueueState, SteeringApart

(* A started turn is busy and otherwise changes only steering. *)
LEMMA StartBusyType ==
  ASSUME NEW q \in QueueState
  PROVE  /\ StartBusy(q) \in QueueState
         /\ SteeringApart(StartBusy(q), [q EXCEPT !.busy = TRUE])
<1>1. /\ BeginBusyGeneration(q) \in QueueState
      /\ SteeringApart(BeginBusyGeneration(q), [q EXCEPT !.busy = TRUE])
  BY DEF BeginBusyGeneration, QueueState, SteeringApart
<1>2. /\ SettleBusyGeneration(BeginBusyGeneration(q)) \in QueueState
      /\ SteeringApart(SettleBusyGeneration(BeginBusyGeneration(q)), [q EXCEPT !.busy = TRUE])
  BY <1>1, SettleBusyType DEF SteeringApart
<1> QED
  BY <1>1, <1>2 DEF StartBusy

LEMMA FlushedType ==
  ASSUME NEW q \in QueueState
  PROVE  /\ Flushed(q) \in QueueState
         /\ SteeringApart(Flushed(q), [q EXCEPT !.busy = TRUE, !.timer = FALSE,
                                                !.pending = <<>>])
<1> DEFINE r == [q EXCEPT !.pending = <<>>, !.timer = FALSE]
<1>1. r \in QueueState
  BY EmptySeq DEF QueueState
<1>2. StartBusy(r) \in QueueState /\ SteeringApart(StartBusy(r), [r EXCEPT !.busy = TRUE])
  BY <1>1, StartBusyType
<1> QED
  BY <1>2 DEF Flushed, QueueState, SteeringApart

LEMMA RejectSaturatedType ==
  ASSUME NEW q \in QueueState
  PROVE  /\ RejectSaturated(q) \in QueueState
         /\ RejectSaturated(q).chat = q.chat
         /\ RejectSaturated(q).pending = q.pending
         /\ RejectSaturated(q).collect = q.collect
         /\ RejectSaturated(q).timer = q.timer
         /\ RejectSaturated(q).busy = q.busy
         /\ RejectSaturated(q).platform = q.platform
BY DEF RejectSaturated, QueueState

LEMMA DetachedType ==
  ASSUME NEW q \in QueueState
  PROVE  /\ Detached(q) \in QueueState
         /\ Detached(q).chat = q.chat
         /\ Detached(q).pending = q.pending
         /\ Detached(q).collect = <<>>
         /\ Detached(q).busy = q.busy
<1>1. SettleBusyGeneration(q) \in QueueState
      /\ SteeringApart(SettleBusyGeneration(q), q)
  BY SettleBusyType
<1> QED
  BY <1>1, EmptySeq DEF Detached, DropCollectEntries, QueueState, SteeringApart

(* The elements of an appended, concatenated or spliced sequence. *)
LEMMA AppendElements ==
  ASSUME NEW S, NEW seq \in Seq(S), NEW e \in S
  PROVE  ElementsOf(Append(seq, e)) = ElementsOf(seq) \cup {e}
<1>1. /\ Append(seq, e) \in Seq(S) /\ Len(Append(seq, e)) = Len(seq) + 1
      /\ \A i \in 1..Len(seq) : Append(seq, e)[i] = seq[i]
      /\ Append(seq, e)[Len(seq) + 1] = e
  BY AppendProperties
<1>2. DOMAIN Append(seq, e) = 1..(Len(seq) + 1) /\ DOMAIN seq = 1..Len(seq)
      /\ Len(seq) \in Nat
  BY <1>1, LenProperties
<1> QED
  BY <1>1, <1>2 DEF ElementsOf

LEMMA ConcatElements ==
  ASSUME NEW S, NEW a \in Seq(S), NEW b \in Seq(S)
  PROVE  ElementsOf(a \o b) = ElementsOf(a) \cup ElementsOf(b)
<1> DEFINE ab == a \o b
<1>1. /\ ab \in Seq(S) /\ Len(ab) = Len(a) + Len(b)
      /\ \A i \in 1..(Len(a) + Len(b)) :
           ab[i] = IF i <= Len(a) THEN a[i] ELSE b[i - Len(a)]
  BY ConcatProperties
<1>2. /\ Len(a) \in Nat /\ DOMAIN a = 1..Len(a)
      /\ Len(b) \in Nat /\ DOMAIN b = 1..Len(b)
      /\ DOMAIN ab = 1..(Len(a) + Len(b))
  BY <1>1, LenProperties
<1> HIDE DEF ab
<1>3. ASSUME NEW x \in ElementsOf(ab)
      PROVE  x \in ElementsOf(a) \cup ElementsOf(b)
  <2>1. PICK i \in 1..(Len(a) + Len(b)) : x = ab[i]
    BY <1>2, <1>3 DEF ElementsOf
  <2>2. CASE i <= Len(a)
    <3>1. i \in 1..Len(a) /\ x = a[i]
      BY <1>1, <1>2, <2>1, <2>2
    <3> QED
      BY <1>2, <3>1 DEF ElementsOf
  <2>3. CASE ~ (i <= Len(a))
    <3>1. i - Len(a) \in 1..Len(b) /\ x = b[i - Len(a)]
      BY <1>1, <1>2, <2>1, <2>3
    <3> QED
      BY <1>2, <3>1 DEF ElementsOf
  <2> QED
    BY <2>2, <2>3
<1>4. ASSUME NEW x \in ElementsOf(a)
      PROVE  x \in ElementsOf(ab)
  BY <1>1, <1>2, <1>4 DEF ElementsOf
<1>5. ASSUME NEW x \in ElementsOf(b)
      PROVE  x \in ElementsOf(ab)
  <2>1. PICK i \in 1..Len(b) : x = b[i]
    BY <1>2, <1>5 DEF ElementsOf
  <2>2. PICK k \in 1..(Len(a) + Len(b)) : k = i + Len(a)
    BY <1>2
  <2>3. ~ (k <= Len(a)) /\ k - Len(a) = i
    BY <1>2, <2>2
  <2>4. ab[k] = b[i]
    BY <1>1, <2>3
  <2> QED
    BY <1>2, <2>1, <2>4 DEF ElementsOf
<1> QED
  BY <1>3, <1>4, <1>5 DEF ab

LEMMA SubSeqElements ==
  ASSUME NEW S, NEW seq \in Seq(S), NEW m \in 1..(Len(seq) + 1), NEW n \in 0..Len(seq)
  PROVE  /\ SubSeq(seq, m, n) \in Seq(S)
         /\ Len(SubSeq(seq, m, n)) = IF m <= n THEN n - m + 1 ELSE 0
         /\ ElementsOf(SubSeq(seq, m, n)) = {seq[i] : i \in m..n}
<1> DEFINE sub == SubSeq(seq, m, n)
<1>1. Len(seq) \in Nat /\ \A i \in m..n : seq[i] \in S
  BY LenProperties, ElementOfSeq
<1>2. /\ sub \in Seq(S) /\ Len(sub) = IF m <= n THEN n - m + 1 ELSE 0
      /\ \A i \in 1..(n - m + 1) : sub[i] = seq[m + i - 1]
  BY <1>1, SubSeqProperties
<1>3. DOMAIN sub = 1..(n - m + 1)
  BY <1>1, <1>2, LenProperties
<1> HIDE DEF sub
<1>4. ASSUME NEW x \in ElementsOf(sub)
      PROVE  x \in {seq[i] : i \in m..n}
  <2>1. PICK i \in 1..(n - m + 1) : x = sub[i]
    BY <1>3, <1>4 DEF ElementsOf
  <2>2. m + i - 1 \in m..n /\ x = seq[m + i - 1]
    BY <1>1, <1>2, <2>1
  <2> QED
    BY <2>2
<1>5. ASSUME NEW i \in m..n
      PROVE  seq[i] \in ElementsOf(sub)
  <2>1. i - m + 1 \in 1..(n - m + 1) /\ sub[i - m + 1] = seq[m + (i - m + 1) - 1]
    BY <1>1, <1>2
  <2>2. m + (i - m + 1) - 1 = i
    BY <1>1
  <2> QED
    BY <1>3, <2>1, <2>2 DEF ElementsOf
<1> QED
  BY <1>2, <1>4, <1>5 DEF sub

LEMMA WithoutType ==
  ASSUME NEW seq \in Seq(Msgs), NEW m \in ElementsOf(seq)
  PROVE  /\ Without(seq, m) \in Seq(Msgs)
         /\ Len(Without(seq, m)) = Len(seq) - 1
         /\ ElementsOf(Without(seq, m)) \subseteq ElementsOf(seq)
         /\ ElementsOf(seq) \subseteq ElementsOf(Without(seq, m)) \cup {m}
<1>1. \E j \in DOMAIN seq : seq[j] = m
  BY DEF ElementsOf
<1>2. Len(seq) \in Nat /\ DOMAIN seq = 1..Len(seq)
  BY LenProperties
<1>3. PICK i \in 1..Len(seq) : i = (CHOOSE j \in DOMAIN seq : seq[j] = m) /\ seq[i] = m
  BY <1>1, <1>2
<1> DEFINE left == SubSeq(seq, 1, i - 1)
           right == SubSeq(seq, i + 1, Len(seq))
<1>4. /\ left \in Seq(Msgs) /\ Len(left) = i - 1
      /\ ElementsOf(left) = {seq[j] : j \in 1..(i - 1)}
  BY <1>2, SubSeqElements
<1>5. /\ right \in Seq(Msgs) /\ Len(right) = Len(seq) - i
      /\ ElementsOf(right) = {seq[j] : j \in (i + 1)..Len(seq)}
  <2>1. i + 1 \in 1..(Len(seq) + 1) /\ Len(seq) \in 0..Len(seq)
    BY <1>2
  <2>2. /\ right \in Seq(Msgs)
        /\ Len(right) = IF i + 1 <= Len(seq) THEN Len(seq) - (i + 1) + 1 ELSE 0
        /\ ElementsOf(right) = {seq[j] : j \in (i + 1)..Len(seq)}
    BY <2>1, SubSeqElements
  <2> HIDE DEF right
  <2>3. Len(right) = Len(seq) - i
    <3>1. CASE i + 1 <= Len(seq)
      BY <1>2, <2>2, <3>1
    <3>2. CASE i = Len(seq)
      BY <1>2, <2>2, <3>2
    <3> QED
      BY <1>2, <1>3, <3>1, <3>2
  <2> QED
    BY <2>2, <2>3
<1> HIDE DEF left, right
<1>6. left \o right \in Seq(Msgs) /\ Len(left \o right) = Len(left) + Len(right)
  BY <1>4, <1>5, ConcatProperties
<1>7. ElementsOf(left \o right) = ElementsOf(left) \cup ElementsOf(right)
  BY <1>4, <1>5, ConcatElements
<1>8. Without(seq, m) = left \o right
  BY <1>3 DEF Without, left, right
<1>9. ElementsOf(seq) = {seq[j] : j \in 1..Len(seq)}
  BY <1>2 DEF ElementsOf
<1>10. ElementsOf(left) \cup ElementsOf(right) \subseteq ElementsOf(seq)
  BY <1>2, <1>4, <1>5, <1>9
<1>11. ElementsOf(seq) \subseteq ElementsOf(left) \cup ElementsOf(right) \cup {m}
  <2> SUFFICES ASSUME NEW j \in 1..Len(seq)
               PROVE  seq[j] \in ElementsOf(left) \cup ElementsOf(right) \cup {m}
    BY <1>9
  <2>1. j < i \/ j = i \/ j > i
    BY <1>2
  <2>2. CASE j < i
    BY <1>2, <1>4, <2>2
  <2>3. CASE j = i
    BY <1>3, <2>3
  <2>4. CASE j > i
    BY <1>2, <1>5, <2>4
  <2> QED
    BY <2>1, <2>2, <2>3, <2>4
<1>12. Len(left) + Len(right) = Len(seq) - 1
  BY <1>2, <1>4, <1>5
<1> QED
  BY <1>6, <1>7, <1>8, <1>10, <1>11, <1>12

(* What is left is the sequence with the entries after the spliced one     *)
(* moved up by one.                                                        *)
LEMMA WithoutShape ==
  ASSUME NEW seq \in Seq(Msgs), NEW m \in ElementsOf(seq)
  PROVE  \E i \in 1..Len(seq) :
           /\ seq[i] = m
           /\ DOMAIN Without(seq, m) = 1..(Len(seq) - 1)
           /\ \A k \in 1..(Len(seq) - 1) :
                Without(seq, m)[k] = IF k <= i - 1 THEN seq[k] ELSE seq[k + 1]
<1>1. \E j \in DOMAIN seq : seq[j] = m
  BY DEF ElementsOf
<1>2. Len(seq) \in Nat /\ DOMAIN seq = 1..Len(seq)
  BY LenProperties
<1>3. PICK i \in 1..Len(seq) : i = (CHOOSE j \in DOMAIN seq : seq[j] = m) /\ seq[i] = m
  BY <1>1, <1>2
<1> DEFINE left == SubSeq(seq, 1, i - 1)
           right == SubSeq(seq, i + 1, Len(seq))
           rest == left \o right
<1>4. /\ left \in Seq(Msgs) /\ Len(left) = i - 1
      /\ \A k \in 1..(i - 1) : left[k] = seq[k]
  <2>1. \A k \in 1..(i - 1) : seq[k] \in Msgs
    BY <1>2, ElementOfSeq
  <2> QED
    BY <1>2, <2>1, SubSeqProperties
<1>5. /\ right \in Seq(Msgs) /\ Len(right) = Len(seq) - i
      /\ \A k \in 1..(Len(seq) - i) : right[k] = seq[i + k]
  <2>1. \A k \in (i + 1)..Len(seq) : seq[k] \in Msgs
    BY <1>2, ElementOfSeq
  <2>2. /\ right \in Seq(Msgs)
        /\ Len(right) = IF i + 1 <= Len(seq) THEN Len(seq) - (i + 1) + 1 ELSE 0
        /\ \A k \in 1..(Len(seq) - (i + 1) + 1) : right[k] = seq[(i + 1) + k - 1]
    BY <1>2, <2>1, SubSeqProperties
  <2> HIDE DEF right
  <2>3. Len(right) = Len(seq) - i
    <3>1. i = Len(seq) \/ i + 1 <= Len(seq)
      BY <1>2, <1>3
    <3>2. CASE i = Len(seq)
      BY <1>2, <2>2, <3>2
    <3>3. CASE i + 1 <= Len(seq)
      <4>1. Len(right) = Len(seq) - (i + 1) + 1
        BY <2>2, <3>3
      <4> QED
        BY <1>2, <4>1
    <3> QED
      BY <3>1, <3>2, <3>3
  <2>4. ASSUME NEW k \in 1..(Len(seq) - i)
        PROVE  right[k] = seq[i + k]
    <3>1. k \in 1..(Len(seq) - (i + 1) + 1) /\ (i + 1) + k - 1 = i + k
      BY <1>2
    <3>2. right[k] = seq[(i + 1) + k - 1]
      BY <2>2, <3>1
    <3> QED
      BY <3>1, <3>2
  <2> QED
    BY <2>2, <2>3, <2>4
<1> HIDE DEF left, right
<1>6. /\ rest \in Seq(Msgs) /\ DOMAIN rest = 1..(Len(seq) - 1)
      /\ \A k \in 1..(Len(seq) - 1) : rest[k] = IF k <= i - 1 THEN left[k]
                                               ELSE right[k - (i - 1)]
  <2>1. /\ rest \in Seq(Msgs) /\ Len(rest) = Len(left) + Len(right)
        /\ \A k \in 1..(Len(left) + Len(right)) :
              rest[k] = IF k <= Len(left) THEN left[k] ELSE right[k - Len(left)]
    BY <1>4, <1>5, ConcatProperties
  <2>2. Len(left) + Len(right) = Len(seq) - 1 /\ Len(left) = i - 1
    BY <1>2, <1>4, <1>5
  <2> HIDE DEF rest
  <2>3. DOMAIN rest = 1..(Len(seq) - 1)
    BY <2>1, <2>2, LenProperties
  <2> QED
    BY <2>1, <2>2, <2>3
<1> HIDE DEF rest
<1>7. \A k \in 1..(Len(seq) - 1) : rest[k] = IF k <= i - 1 THEN seq[k] ELSE seq[k + 1]
  <2> SUFFICES ASSUME NEW k \in 1..(Len(seq) - 1)
               PROVE  rest[k] = IF k <= i - 1 THEN seq[k] ELSE seq[k + 1]
    OBVIOUS
  <2>1. CASE k <= i - 1
    BY <1>2, <1>4, <1>6, <2>1
  <2>2. CASE ~ (k <= i - 1)
    <3>1. k - (i - 1) \in 1..(Len(seq) - i)
      BY <1>2, <2>2
    <3>2. right[k - (i - 1)] = seq[i + (k - (i - 1))] /\ i + (k - (i - 1)) = k + 1
      BY <1>2, <1>5, <3>1
    <3> QED
      BY <1>6, <2>2, <3>2
  <2> QED
    BY <2>1, <2>2
<1>8. Without(seq, m) = rest
  BY <1>3 DEF Without, rest, left, right
<1> QED
  BY <1>3, <1>6, <1>7, <1>8

-----------------------------------------------------------------------------
(* Type correctness *)

LEMMA FreshStateSized ==
  ASSUME NEW c \in Chats
  PROVE  FreshState(c) \in SizedStates
BY MessageQueueAssumption, EmptySeq DEF FreshState, SizedStates, QueueState

(* The operations on a state object keep it within type and cap. *)
LEMMA SizedKept ==
  ASSUME NEW q \in SizedStates
  PROVE  /\ AttemptSteer(q) \in SizedStates
         /\ SettleBusyGeneration(q) \in SizedStates
         /\ StartBusy(q) \in SizedStates
         /\ Flushed(q) \in SizedStates
         /\ RejectSaturated(q) \in SizedStates
         /\ Detached(q) \in SizedStates
<1>1. q \in QueueState /\ Len(q.pending) <= QueueCap /\ Len(q.collect) <= QueueCap
  BY DEF SizedStates
<1>2. Len(<<>>) <= QueueCap
  BY MessageQueueAssumption, EmptySeq
<1>3. AttemptSteer(q) \in SizedStates
  BY <1>1, AttemptSteerType DEF SizedStates, SteeringApart
<1>4. SettleBusyGeneration(q) \in SizedStates
  BY <1>1, SettleBusyType DEF SizedStates, SteeringApart
<1>5. StartBusy(q) \in SizedStates
  <2>1. StartBusy(q) \in QueueState /\ SteeringApart(StartBusy(q), [q EXCEPT !.busy = TRUE])
    BY <1>1, StartBusyType
  <2> QED
    BY <1>1, <2>1 DEF SizedStates, SteeringApart, QueueState
<1>6. Flushed(q) \in SizedStates
  <2>1. /\ Flushed(q) \in QueueState
        /\ SteeringApart(Flushed(q), [q EXCEPT !.busy = TRUE, !.timer = FALSE,
                                               !.pending = <<>>])
    BY <1>1, FlushedType
  <2>2. Flushed(q).pending = <<>> /\ Flushed(q).collect = q.collect
    BY <1>1, <2>1 DEF SteeringApart, QueueState
  <2> QED
    BY <1>1, <1>2, <2>1, <2>2 DEF SizedStates
<1>7. RejectSaturated(q) \in SizedStates
  BY <1>1, RejectSaturatedType DEF SizedStates
<1>8. Detached(q) \in SizedStates
  BY <1>1, <1>2, DetachedType DEF SizedStates
<1> QED
  BY <1>3, <1>4, <1>5, <1>6, <1>7, <1>8

LEMMA FlagsSized ==
  ASSUME NEW q \in SizedStates
  PROVE  /\ [q EXCEPT !.timer = FALSE] \in SizedStates
         /\ [q EXCEPT !.noticeScheduled = FALSE] \in SizedStates
         /\ [q EXCEPT !.cooling = FALSE] \in SizedStates
         /\ [q EXCEPT !.cooldownTimer = FALSE] \in SizedStates
BY DEF SizedStates, QueueState

(* TypeOK, with the cap folded into the type of a state object. *)
LEMMA TypeOKSized ==
  TypeOK <=> /\ accepting \in BOOLEAN
             /\ queues \in [Chats -> QStates \cup {NoState}]
             /\ st \in [QStates -> SizedStates]
             /\ turn \in [QStates -> TurnRecord]
             /\ evictDue \in [Chats -> Nat]
             /\ stage \in {"serving", "draining", "stopped"}
             /\ offered \in 0..NumMsgs
             /\ cleaned \in [Msgs -> Nat]
             /\ dropped \in [Msgs -> Nat]
             /\ taken \in [Msgs -> Nat]
             /\ owned \subseteq Msgs
BY DEF TypeOK, SizedStates

LEMMA TypeOKSizedNext ==
  TypeOK' <=> /\ accepting' \in BOOLEAN
              /\ queues' \in [Chats -> QStates \cup {NoState}]
              /\ st' \in [QStates -> SizedStates]
              /\ turn' \in [QStates -> TurnRecord]
              /\ evictDue' \in [Chats -> Nat]
              /\ stage' \in {"serving", "draining", "stopped"}
              /\ offered' \in 0..NumMsgs
              /\ cleaned' \in [Msgs -> Nat]
              /\ dropped' \in [Msgs -> Nat]
              /\ taken' \in [Msgs -> Nat]
              /\ owned' \subseteq Msgs
BY DEF TypeOK, SizedStates

LEMMA RanType ==
  ASSUME NEW count \in [Msgs -> Nat], NEW ms
  PROVE  Ran(count, ms) \in [Msgs -> Nat]
BY DEF Ran

LEMMA ElementsType ==
  ASSUME NEW S, NEW seq \in Seq(S)
  PROVE  ElementsOf(seq) \subseteq S
BY LenProperties, ElementOfSeq DEF ElementsOf

LEMMA NewTurnType ==
  ASSUME NEW q \in QueueState, NEW batch \in Seq(Msgs), NEW drain \in BOOLEAN
  PROVE  NewTurn(q, batch, drain) \in TurnRecord
BY DEF NewTurn, TurnRecord, QueueState

(* EvictIfIdle, as FlushEvicts and CooldownTimerFires call it. *)
LEMMA EvictIfIdleType ==
  ASSUME queues \in [Chats -> QStates \cup {NoState}], NEW c \in Chats,
         NEW sts \in [QStates -> SizedStates], EvictIfIdle(c, sts)
  PROVE  /\ queues' \in [Chats -> QStates \cup {NoState}]
         /\ st' \in [QStates -> SizedStates]
<1> DEFINE s == queues[c]
<1>1. queues' \in [Chats -> QStates \cup {NoState}]
  BY DEF EvictIfIdle
<1>2. \/ st' = sts
      \/ s # NoState /\ st' = [sts EXCEPT ![s].platform = FALSE, ![s].cooldownTimer = TRUE]
  BY DEF EvictIfIdle
<1>3. ASSUME s # NoState
      PROVE  [sts[s] EXCEPT !.platform = FALSE, !.cooldownTimer = TRUE] \in SizedStates
  <2>1. sts[s] \in SizedStates
    BY <1>3
  <2> QED
    BY <2>1 DEF SizedStates, QueueState
<1>4. ASSUME s # NoState,
             st' = [sts EXCEPT ![s].platform = FALSE, ![s].cooldownTimer = TRUE]
      PROVE  st' \in [QStates -> SizedStates]
  BY <1>3, <1>4
<1> QED
  BY <1>1, <1>2, <1>4

(* What clearing the states in C leaves in memory. *)
LEMMA DetachedStatesType ==
  ASSUME st \in [QStates -> SizedStates], NEW C
  PROVE  [s \in QStates |-> IF s \in C THEN Detached(st[s]) ELSE st[s]]
           \in [QStates -> SizedStates]
BY SizedKept

(* A turn's end keeps types, whatever state q the handler left behind. *)
LEMMA EndTurnType ==
  ASSUME TypeOK, NEW s \in QStates, NEW q \in SizedStates, EndTurn(s, q)
  PROVE  /\ st' \in [QStates -> SizedStates]
         /\ turn' \in [QStates -> TurnRecord]
         /\ evictDue' \in [Chats -> Nat]
         /\ cleaned' \in [Msgs -> Nat]
         /\ dropped' \in [Msgs -> Nat]
<1>1. /\ st \in [QStates -> SizedStates] /\ turn \in [QStates -> TurnRecord]
      /\ evictDue \in [Chats -> Nat]
      /\ cleaned \in [Msgs -> Nat] /\ dropped \in [Msgs -> Nat]
      /\ q \in QueueState /\ q.chat \in Chats /\ q.collect \in Seq(Msgs)
  BY TypeOKSized DEF SizedStates, QueueState
<1>2. cleaned' \in [Msgs -> Nat] /\ dropped' \in [Msgs -> Nat]
  BY <1>1, RanType DEF EndTurn
<1>3. evictDue' \in [Chats -> Nat]
  <2>1. evictDue' = evictDue \/ evictDue' = [evictDue EXCEPT ![q.chat] = @ + 1]
    BY DEF EndTurn
  <2>2. evictDue[q.chat] + 1 \in Nat
    BY <1>1
  <2>3. [evictDue EXCEPT ![q.chat] = @ + 1] \in [Chats -> Nat]
    BY <1>1, <2>2
  <2> QED
    BY <1>1, <2>1, <2>3
<1>4. NoTurn \in TurnRecord /\ NewTurn(q, q.collect, TRUE) \in TurnRecord
  BY <1>1, NewTurnType, EmptySeq DEF NoTurn, TurnRecord
<1>5. turn' \in [QStates -> TurnRecord]
  BY <1>1, <1>4 DEF EndTurn
<1>6. [q EXCEPT !.collect = <<>>] \in SizedStates
  <2>1. <<>> \in Seq(Msgs) /\ Len(<<>>) <= QueueCap
    BY EmptySeq, MessageQueueAssumption
  <2> QED
    BY <2>1 DEF SizedStates, QueueState
<1>7. [q EXCEPT !.busy = FALSE] \in SizedStates
  BY DEF SizedStates, QueueState
<1>8. StartBusy([q EXCEPT !.collect = <<>>]) \in SizedStates
  BY <1>6, SizedKept
<1>9. st' \in [QStates -> SizedStates]
  BY <1>1, <1>7, <1>8 DEF EndTurn
<1> QED
  BY <1>2, <1>3, <1>5, <1>9

LEMMA EnqueueType ==
  ASSUME TypeOK, NEW c \in Chats, Enqueue(c)
  PROVE  /\ queues' \in [Chats -> QStates \cup {NoState}]
         /\ st' \in [QStates -> SizedStates]
         /\ offered' \in 0..NumMsgs
         /\ cleaned' \in [Msgs -> Nat]
         /\ dropped' \in [Msgs -> Nat]
<1> DEFINE m == offered + 1
           s == IF queues[c] # NoState THEN queues[c]
                ELSE CHOOSE u \in QStates : Unreferenced(u)
           q == TouchedState(c, s)
           full == Full(q)
           new == IF full THEN RejectSaturated(q)
                  ELSE IF q.busy THEN AttemptSteer(PushCollected(q, m))
                  ELSE [q EXCEPT !.pending = Append(@, m), !.timer = TRUE]
<1>1. /\ queues \in [Chats -> QStates \cup {NoState}]
      /\ st \in [QStates -> SizedStates] /\ offered \in 0..NumMsgs
      /\ cleaned \in [Msgs -> Nat] /\ dropped \in [Msgs -> Nat]
  BY TypeOKSized
<1>2. m \in Msgs /\ m \in 0..NumMsgs
  BY <1>1, MessageQueueAssumption DEF Enqueue, Msgs
<1>3. s \in QStates
  BY <1>1 DEF Enqueue
<1>4. /\ offered' = m /\ queues' = [queues EXCEPT ![c] = s]
      /\ st' = [st EXCEPT ![s] = new]
      /\ cleaned' = (IF full THEN Ran(cleaned, {m}) ELSE cleaned)
      /\ dropped' = (IF full THEN Ran(dropped, {m}) ELSE dropped)
  BY DEF Enqueue
<1>5. q \in SizedStates
  <2>1. st[s] \in SizedStates
    BY <1>1, <1>3
  <2>2. FreshState(c) \in SizedStates
    BY FreshStateSized
  <2>3. (IF queues[c] = NoState THEN FreshState(c) ELSE st[s]) \in SizedStates
    BY <2>1, <2>2
  <2> QED
    BY <2>3 DEF TouchedState, SizedStates, QueueState
<1> HIDE DEF m, s, q
<1>6. /\ q \in QueueState /\ q.pending \in Seq(Msgs) /\ q.collect \in Seq(Msgs)
      /\ Len(q.pending) \in Nat /\ Len(q.collect) \in Nat
      /\ Len(q.pending) <= QueueCap /\ Len(q.collect) <= QueueCap
  BY <1>5, LenProperties DEF SizedStates, QueueState
<1>7. RejectSaturated(q) \in SizedStates
  BY <1>5, SizedKept
<1>8. ASSUME ~full, q.busy
      PROVE  AttemptSteer(PushCollected(q, m)) \in SizedStates
  <2>1. Len(q.collect) + 1 <= QueueCap
    BY <1>6, <1>8, MessageQueueAssumption DEF Full
  <2>2. Append(q.collect, m) \in Seq(Msgs) /\ Len(Append(q.collect, m)) <= QueueCap
    BY <1>2, <1>6, <2>1, AppendProperties
  <2>3. PushCollected(q, m) \in SizedStates
    BY <1>5, <2>2 DEF PushCollected, SizedStates, QueueState
  <2> QED
    BY <2>3, SizedKept
<1>9. ASSUME ~full, ~q.busy
      PROVE  [q EXCEPT !.pending = Append(@, m), !.timer = TRUE] \in SizedStates
  <2>1. Len(q.pending) + 1 <= QueueCap
    BY <1>6, <1>9, MessageQueueAssumption DEF Full
  <2>2. Append(q.pending, m) \in Seq(Msgs) /\ Len(Append(q.pending, m)) <= QueueCap
    BY <1>2, <1>6, <2>1, AppendProperties
  <2> QED
    BY <1>5, <2>2 DEF SizedStates, QueueState
<1>10. new \in SizedStates
  BY <1>7, <1>8, <1>9
<1> HIDE DEF new, full
<1> QED
  BY <1>1, <1>2, <1>3, <1>4, <1>10, RanType

LEMMA ClearAllType ==
  ASSUME TypeOK, ClearAll
  PROVE  /\ queues' \in [Chats -> QStates \cup {NoState}]
         /\ st' \in [QStates -> SizedStates]
         /\ cleaned' \in [Msgs -> Nat]
         /\ dropped' \in [Msgs -> Nat]
<1>1. /\ st \in [QStates -> SizedStates]
      /\ cleaned \in [Msgs -> Nat] /\ dropped \in [Msgs -> Nat]
  BY TypeOKSized
<1>2. st' \in [QStates -> SizedStates]
  BY <1>1, DetachedStatesType DEF ClearAll
<1>3. cleaned' \in [Msgs -> Nat] /\ dropped' \in [Msgs -> Nat]
  BY <1>1, RanType DEF ClearAll
<1> QED
  BY <1>2, <1>3 DEF ClearAll

(* Every variable has its type, and no buffer ever exceeds queueCap, in    *)
(* every reachable state (enqueue's saturation test, message-queue.ts:239  *)
(* and 260).                                                               *)
THEOREM TypeCorrect == Spec => []TypeOK
<1>1. Init => TypeOK
  <2> SUFFICES ASSUME Init
               PROVE  TypeOK
    OBVIOUS
  <2>1. (CHOOSE c \in Chats : TRUE) \in Chats
    BY MessageQueueAssumption
  <2>2. st \in [QStates -> SizedStates]
    BY <2>1, FreshStateSized DEF Init
  <2>3. turn \in [QStates -> TurnRecord]
    BY EmptySeq DEF Init, NoTurn, TurnRecord
  <2>4. offered \in 0..NumMsgs
    BY MessageQueueAssumption DEF Init
  <2> QED
    BY <2>2, <2>3, <2>4, TypeOKSized DEF Init
<1>2. TypeOK /\ [Next]_vars => TypeOK'
  <2> SUFFICES ASSUME TypeOK, [Next]_vars
               PROVE  TypeOK'
    OBVIOUS
  <2>0. /\ accepting \in BOOLEAN
        /\ queues \in [Chats -> QStates \cup {NoState}]
        /\ st \in [QStates -> SizedStates]
        /\ turn \in [QStates -> TurnRecord]
        /\ evictDue \in [Chats -> Nat]
        /\ stage \in {"serving", "draining", "stopped"}
        /\ offered \in 0..NumMsgs
        /\ cleaned \in [Msgs -> Nat]
        /\ dropped \in [Msgs -> Nat]
        /\ taken \in [Msgs -> Nat]
        /\ owned \subseteq Msgs
    BY TypeOKSized
  <2>1. CASE RefuseMessage
    <3>1. offered' \in 0..NumMsgs
      BY <2>0, <2>1, MessageQueueAssumption DEF RefuseMessage
    <3>2. cleaned' \in [Msgs -> Nat] /\ dropped' \in [Msgs -> Nat]
      BY <2>0, <2>1, RanType DEF RefuseMessage
    <3> QED
      BY <2>0, <2>1, <3>1, <3>2, TypeOKSizedNext DEF RefuseMessage
  <2>2. ASSUME NEW c \in Chats, Enqueue(c)
        PROVE  TypeOK'
    <3>1. /\ queues' \in [Chats -> QStates \cup {NoState}]
          /\ st' \in [QStates -> SizedStates]
          /\ offered' \in 0..NumMsgs
          /\ cleaned' \in [Msgs -> Nat]
          /\ dropped' \in [Msgs -> Nat]
      BY <2>2, EnqueueType
    <3>2. UNCHANGED <<accepting, turn, evictDue, stage, taken, owned>>
      BY <2>2 DEF Enqueue
    <3> QED
      BY <2>0, <3>1, <3>2, TypeOKSizedNext
  <2>3. ASSUME NEW c \in Chats, DebounceFires(c)
        PROVE  TypeOK'
    <3> DEFINE s == queues[c]
    <3>1. s \in QStates /\ st[s] \in SizedStates
      BY <2>0, <2>3 DEF DebounceFires
    <3>2. st[s] \in QueueState /\ st[s].pending \in Seq(Msgs)
      BY <3>1 DEF SizedStates, QueueState
    <3>3. Flushed(st[s]) \in SizedStates
      BY <3>1, SizedKept
    <3>4. NewTurn(st[s], st[s].pending, FALSE) \in TurnRecord
      BY <3>2, NewTurnType
    <3>5. /\ st' = [st EXCEPT ![s] = Flushed(st[s])]
          /\ turn' = [turn EXCEPT ![s] = NewTurn(st[s], st[s].pending, FALSE)]
          /\ UNCHANGED <<accepting, queues, evictDue, stage, offered, cleaned,
                         dropped, taken, owned>>
      BY <2>3 DEF DebounceFires
    <3> HIDE DEF s
    <3>6. st' \in [QStates -> SizedStates] /\ turn' \in [QStates -> TurnRecord]
      BY <2>0, <3>1, <3>3, <3>4, <3>5
    <3> QED
      BY <2>0, <3>5, <3>6, TypeOKSizedNext
  <2>4. ASSUME NEW c \in Chats, FlushEvicts(c)
        PROVE  TypeOK'
    <3>1. evictDue' \in [Chats -> Nat]
      BY <2>0, <2>4 DEF FlushEvicts
    <3>2. EvictIfIdle(c, st) /\ UNCHANGED <<accepting, turn, stage, offered, cleaned,
                                            dropped, taken, owned>>
      BY <2>4 DEF FlushEvicts
    <3>3. queues' \in [Chats -> QStates \cup {NoState}] /\ st' \in [QStates -> SizedStates]
      BY <2>0, <3>2, EvictIfIdleType
    <3> QED
      BY <2>0, <3>1, <3>2, <3>3, TypeOKSizedNext
  <2>5. ASSUME NEW c \in Chats, Clear(c)
        PROVE  TypeOK'
    <3> DEFINE s == queues[c]
    <3>1. s \in QStates /\ Detached(st[s]) \in SizedStates
      BY <2>0, <2>5, SizedKept DEF Clear
    <3>2. /\ st' = [st EXCEPT ![s] = Detached(st[s])]
          /\ cleaned' = Ran(cleaned, Undelivered(st[s]))
          /\ dropped' = Ran(dropped, Undelivered(st[s]))
          /\ queues' = [queues EXCEPT ![c] = NoState]
          /\ UNCHANGED <<accepting, turn, evictDue, stage, offered, taken, owned>>
      BY <2>5 DEF Clear
    <3>3. cleaned' \in [Msgs -> Nat] /\ dropped' \in [Msgs -> Nat]
      BY <2>0, <3>2, RanType
    <3>4. st' \in [QStates -> SizedStates] /\ queues' \in [Chats -> QStates \cup {NoState}]
      BY <2>0, <3>1, <3>2
    <3> QED
      BY <2>0, <3>2, <3>3, <3>4, TypeOKSizedNext
  <2>6. ASSUME NEW s \in QStates, TurnStep(s)
        PROVE  TypeOK'
    <3>1. CASE SessionPrepared(s) \/ NoticeDelivered(s)
      <4>1. turn' \in [QStates -> TurnRecord]
        <5>1. \A p \in {"notice", "process"} : [turn[s] EXCEPT !.phase = p] \in TurnRecord
          BY <2>0 DEF TurnRecord
        <5>2. \E p \in {"notice", "process"} : turn' = [turn EXCEPT ![s] = [turn[s] EXCEPT !.phase = p]]
          BY <2>0, <3>1 DEF SessionPrepared, NoticeDelivered
        <5> QED
          BY <2>0, <5>1, <5>2
      <4> QED
        BY <2>0, <3>1, <4>1, TypeOKSizedNext DEF SessionPrepared, NoticeDelivered
    <3>2. CASE AgentTakesPrompt(s)
      <4>1. turn[s] \in TurnRecord /\ ElementsOf(turn[s].batch) \subseteq Msgs
        BY <2>0, ElementsType DEF TurnRecord
      <4>2. /\ turn' = [turn EXCEPT ![s].accepted = TRUE,
                                    ![s].live = @ /\ ~TransfersOwnership(s)]
            /\ taken' = Ran(taken, ElementsOf(turn[s].batch))
            /\ owned' = (IF TransfersOwnership(s) THEN owned \cup ElementsOf(turn[s].batch)
                         ELSE owned)
            /\ UNCHANGED <<accepting, queues, st, evictDue, stage, offered,
                           cleaned, dropped>>
        BY <3>2 DEF AgentTakesPrompt
      <4>3. (turn[s].live /\ ~TransfersOwnership(s)) \in BOOLEAN
        OBVIOUS
      <4>4. turn' \in [QStates -> TurnRecord]
        BY <2>0, <4>1, <4>2, <4>3 DEF TurnRecord
      <4>5. taken' \in [Msgs -> Nat] /\ owned' \subseteq Msgs
        BY <2>0, <4>1, <4>2, RanType
      <4> QED
        BY <2>0, <4>2, <4>4, <4>5, TypeOKSizedNext
    <3>3. ASSUME NEW q \in SizedStates, EndTurn(s, q),
                 UNCHANGED <<accepting, queues, stage, offered, taken, owned>>
          PROVE  TypeOK'
      BY <2>0, <3>3, EndTurnType, TypeOKSizedNext
    <3>4. st[s] \in SizedStates /\ SettleBusyGeneration(st[s]) \in SizedStates
      BY <2>0, SizedKept
    <3>5. CASE TurnSucceeds(s)
      BY <3>3, <3>4, <3>5 DEF TurnSucceeds
    <3>6. CASE TurnThrows(s)
      <4>1. CASE Current(s)
        <5>1. /\ st' = [st EXCEPT ![s] = SettleBusyGeneration(@)]
              /\ turn' = [turn EXCEPT ![s].phase = "reply"]
              /\ UNCHANGED <<accepting, queues, evictDue, stage, offered, cleaned,
                             dropped, taken, owned>>
          BY <3>6, <4>1 DEF TurnThrows
        <5>2. st' \in [QStates -> SizedStates]
          BY <2>0, <3>4, <5>1
        <5>3. turn' \in [QStates -> TurnRecord]
          BY <2>0, <5>1 DEF TurnRecord
        <5> QED
          BY <2>0, <5>1, <5>2, <5>3, TypeOKSizedNext
      <4>2. CASE ~Current(s)
        BY <3>3, <3>4, <3>6, <4>2 DEF TurnThrows
      <4> QED
        BY <4>1, <4>2
    <3>7. CASE ErrorReplied(s)
      BY <3>3, <3>4, <3>7 DEF ErrorReplied
    <3> QED
      BY <2>6, <3>1, <3>2, <3>5, <3>6, <3>7 DEF TurnStep
  <2>7. ASSUME NEW s \in QStates, NEW m \in Msgs,
               \/ SteerEnqueued(s, m) \/ SteerConsumed(s, m)
               \/ SteerRefused(s, m) \/ SteerSettlesLate(s, m)
        PROVE  TypeOK'
    <3>1. st[s] \in SizedStates
      BY <2>0
    <3>2. ASSUME NEW q \in SizedStates, st' = [st EXCEPT ![s] = q],
                 UNCHANGED <<accepting, queues, turn, evictDue, stage, offered,
                             dropped>>,
                 cleaned' \in [Msgs -> Nat], taken' \in [Msgs -> Nat],
                 owned' \subseteq Msgs
          PROVE  TypeOK'
      <4>1. st' \in [QStates -> SizedStates]
        BY <2>0, <3>2
      <4> QED
        BY <2>0, <3>2, <4>1, TypeOKSizedNext
    <3>3. SteerForgotten(st[s], m) \in SizedStates
      BY <3>1 DEF SteerForgotten, SizedStates, QueueState
    <3>4. CASE SteerEnqueued(s, m)
      <4>1. [st[s] EXCEPT !.submitting = NoMsg] \in SizedStates
        BY <3>1 DEF SizedStates, QueueState
      <4>2. AttemptSteer([st[s] EXCEPT !.submitting = NoMsg]) \in SizedStates
        BY <4>1, SizedKept
      <4> QED
        BY <2>0, <3>2, <3>4, <4>2 DEF SteerEnqueued
    <3>5. CASE SteerConsumed(s, m)
      <4> DEFINE q == SteerForgotten(st[s], m)
                 spliced == [q EXCEPT !.collect = Without(@, m)]
      <4>1. q.collect \in Seq(Msgs) /\ Len(q.collect) \in Nat /\ Len(q.collect) <= QueueCap
        BY <3>3, LenProperties DEF SizedStates, QueueState
      <4>2. ASSUME m \in ElementsOf(q.collect)
            PROVE  AttemptSteer(spliced) \in SizedStates
        <5>1. /\ Without(q.collect, m) \in Seq(Msgs)
              /\ Len(Without(q.collect, m)) = Len(q.collect) - 1
          BY <4>1, <4>2, WithoutType
        <5>2. Len(Without(q.collect, m)) <= QueueCap
          BY <4>1, <5>1, MessageQueueAssumption
        <5>3. spliced \in SizedStates
          BY <3>3, <5>1, <5>2 DEF SizedStates, QueueState
        <5> QED
          BY <5>3, SizedKept
      <4> HIDE DEF spliced
      <4>3. /\ st' = [st EXCEPT ![s] = IF m \in ElementsOf(q.collect)
                                      THEN AttemptSteer(spliced) ELSE q]
            /\ cleaned' = (IF m \in ElementsOf(q.collect) THEN Ran(cleaned, {m}) ELSE cleaned)
            /\ taken' = (IF m \in ElementsOf(q.collect) THEN Ran(taken, {m}) ELSE taken)
            /\ owned' = (IF m \in ElementsOf(q.collect) THEN owned \cup {m} ELSE owned)
            /\ UNCHANGED <<accepting, queues, turn, evictDue, stage, offered, dropped>>
        BY <3>5 DEF SteerConsumed, spliced
      <4>4. /\ cleaned' \in [Msgs -> Nat] /\ taken' \in [Msgs -> Nat]
            /\ owned' \subseteq Msgs
        BY <2>0, <4>3, RanType
      <4>5. (IF m \in ElementsOf(q.collect) THEN AttemptSteer(spliced) ELSE q) \in SizedStates
        BY <3>3, <4>2
      <4> HIDE DEF q
      <4> QED
        BY <3>2, <4>3, <4>4, <4>5
    <3>6. CASE SteerRefused(s, m)
      <4>1. [SteerForgotten(st[s], m) EXCEPT !.blocked = TRUE] \in SizedStates
        BY <3>3 DEF SizedStates, QueueState
      <4> QED
        BY <2>0, <3>2, <3>6, <4>1 DEF SteerRefused
    <3>7. CASE SteerSettlesLate(s, m)
      <4>1. [st[s] EXCEPT !.calls = @ \ {m}] \in SizedStates
        BY <3>1 DEF SizedStates, QueueState
      <4>2. st' = [st EXCEPT ![s] = [st[s] EXCEPT !.calls = @ \ {m}]]
        BY <2>0, <3>7 DEF SteerSettlesLate
      <4> QED
        BY <2>0, <3>2, <3>7, <4>1, <4>2 DEF SteerSettlesLate
    <3> QED
      BY <2>7, <3>4, <3>5, <3>6, <3>7
  <2>8. ASSUME NEW s \in QStates, StateStep(s)
        PROVE  TypeOK'
    <3>1. CASE SendRejectionNotice(s) \/ CooldownElapses(s)
      <4>1. /\ [st[s] EXCEPT !.noticeScheduled = FALSE] \in SizedStates
            /\ [st[s] EXCEPT !.cooling = FALSE] \in SizedStates
        BY <2>0, FlagsSized
      <4>2. st' \in [QStates -> SizedStates]
        BY <2>0, <3>1, <4>1 DEF SendRejectionNotice, CooldownElapses
      <4> QED
        BY <2>0, <3>1, <4>2, TypeOKSizedNext DEF SendRejectionNotice, CooldownElapses
    <3>2. CASE CooldownTimerFires(s)
      <4> DEFINE sts == [st EXCEPT ![s].cooldownTimer = FALSE]
      <4>1. sts \in [QStates -> SizedStates]
        <5>1. [st[s] EXCEPT !.cooldownTimer = FALSE] \in SizedStates
          BY <2>0, FlagsSized
        <5> QED
          BY <2>0, <5>1
      <4>2. st[s].chat \in Chats
        BY <2>0 DEF SizedStates, QueueState
      <4>3. EvictIfIdle(st[s].chat, sts) /\ UNCHANGED <<accepting, turn, evictDue, stage,
              offered, cleaned, dropped, taken, owned>>
        BY <3>2 DEF CooldownTimerFires
      <4> HIDE DEF sts
      <4>4. /\ queues' \in [Chats -> QStates \cup {NoState}]
            /\ st' \in [QStates -> SizedStates]
        BY <2>0, <4>1, <4>2, <4>3, EvictIfIdleType
      <4> QED
        BY <2>0, <4>3, <4>4, TypeOKSizedNext
    <3> QED
      BY <2>8, <3>1, <3>2 DEF StateStep
  <2>9. CASE BeginShutdown
    <3>1. ASSUME NEW s \in QStates
          PROVE  /\ Flushed(st[s]) \in SizedStates
                 /\ [st[s] EXCEPT !.timer = FALSE] \in SizedStates
                 /\ NewTurn(st[s], st[s].pending, FALSE) \in TurnRecord
      <4>1. st[s] \in SizedStates /\ st[s] \in QueueState /\ st[s].pending \in Seq(Msgs)
        BY <2>0 DEF SizedStates, QueueState
      <4>2. [st[s] EXCEPT !.timer = FALSE] \in SizedStates
        BY <4>1, FlagsSized
      <4> QED
        BY <4>1, <4>2, SizedKept, NewTurnType
    <3>2. st' \in [QStates -> SizedStates]
      BY <2>0, <2>9, <3>1 DEF BeginShutdown
    <3>3. turn' \in [QStates -> TurnRecord]
      BY <2>0, <2>9, <3>1 DEF BeginShutdown
    <3> QED
      BY <2>0, <2>9, <3>2, <3>3, TypeOKSizedNext DEF BeginShutdown
  <2>10. CASE FinishDrain \/ ForceShutdown
    <3>1. ClearAll /\ UNCHANGED <<turn, evictDue, offered, taken, owned>>
      BY <2>10 DEF FinishDrain, ForceShutdown
    <3>2. accepting' \in BOOLEAN /\ stage' \in {"serving", "draining", "stopped"}
      BY <2>0, <2>10 DEF FinishDrain, ForceShutdown
    <3> QED
      BY <2>0, <3>1, <3>2, ClearAllType, TypeOKSizedNext
  <2>11. CASE UNCHANGED vars
    BY <2>0, <2>11, TypeOKSizedNext DEF vars
  <2> QED
    BY <2>1, <2>2, <2>3, <2>4, <2>5, <2>6, <2>7, <2>8, <2>9, <2>10, <2>11
    DEF Next, ChatStep, SteerStep, Stopped
<1> QED
  BY <1>1, <1>2, PTL DEF Spec

-----------------------------------------------------------------------------
(* The map, the state objects and their turns stay consistent: nothing is  *)
(* stranded in a buffer, and the turn of a cleared state touches nobody.   *)

(* The part of NothingStranded that is about one state and its turn. *)
Unstranded(q, t) ==
  /\ q.busy <=> t.phase # "none"
  /\ q.pending # <<>> => q.timer /\ ~q.busy
  /\ q.collect # <<>> => q.busy
  /\ q.pending # <<>> \/ q.busy => q.platform

(* The inductive invariant: a map entry refers to a state of its own chat  *)
(* (so two chats never share one), and that state is not stranded.         *)
Linked ==
  \A c \in Chats :
    queues[c] # NoState => /\ st[queues[c]].chat = c
                           /\ Unstranded(st[queues[c]], turn[queues[c]])

LEMMA LinkedImpliesNothingStranded == Linked => NothingStranded
BY DEF Linked, NothingStranded, Unstranded, CurrentStates

(* The types the proofs below need, of the variables before a step. *)
LEMMA StructureTypes ==
  ASSUME TypeOK
  PROVE  /\ queues \in [Chats -> QStates \cup {NoState}]
         /\ st \in [QStates -> QueueState]
         /\ turn \in [QStates -> TurnRecord]
         /\ \A s \in QStates : st[s] \in QueueState /\ st[s].chat \in Chats
BY DEF TypeOK, QueueState

(* queues.get(chatId) === state exactly when the state is in the map. *)
LEMMA CurrentIsMapped ==
  ASSUME TypeOK, Linked, NEW s \in QStates
  PROVE  /\ Current(s) <=> \E c \in Chats : queues[c] = s
         /\ Current(s) <=> s \in CurrentStates
<1>1. st[s].chat \in Chats /\ queues \in [Chats -> QStates \cup {NoState}]
  BY StructureTypes
<1>2. s # NoState
  BY MessageQueueAssumption
<1> QED
  BY <1>1, <1>2 DEF Current, CurrentStates, Linked

LEMMA MappedOnce ==
  ASSUME Linked, NEW c \in Chats, NEW d \in Chats,
         queues[c] # NoState, queues[c] = queues[d]
  PROVE  c = d
BY DEF Linked

(* A step that changes one state object and its turn, and no map entry. *)
LEMMA OneStateStep ==
  ASSUME TypeOK, Linked, NEW s \in QStates, NEW q, NEW t,
         st' = [st EXCEPT ![s] = q], turn' = [turn EXCEPT ![s] = t],
         UNCHANGED queues, q.chat = st[s].chat,
         Current(s) => Unstranded(q, t)
  PROVE  Linked'
<1> SUFFICES ASSUME NEW c \in Chats, queues'[c] # NoState
             PROVE  /\ st'[queues'[c]].chat = c
                    /\ Unstranded(st'[queues'[c]], turn'[queues'[c]])
  BY DEF Linked
<1>1. /\ queues'[c] = queues[c] /\ queues[c] \in QStates
      /\ st \in [QStates -> QueueState] /\ turn \in [QStates -> TurnRecord]
  BY StructureTypes
<1>2. st[queues[c]].chat = c /\ Unstranded(st[queues[c]], turn[queues[c]])
  BY <1>1 DEF Linked
<1>3. CASE queues[c] = s
  <2>1. Current(s)
    BY <1>3, CurrentIsMapped
  <2> QED
    BY <1>1, <1>2, <1>3, <2>1
<1>4. CASE queues[c] # s
  BY <1>1, <1>2, <1>4
<1> QED
  BY <1>3, <1>4

LEMMA SameTurn ==
  ASSUME TypeOK, NEW s \in QStates, UNCHANGED turn
  PROVE  turn' = [turn EXCEPT ![s] = turn[s]]
BY StructureTypes

(* Steering changes neither the turn nor what Unstranded looks at. *)
LEMMA SteeringKeepsUnstranded ==
  ASSUME NEW p, NEW q, NEW t, SteeringApart(p, q), Unstranded(q, t)
  PROVE  Unstranded(p, t)
BY DEF SteeringApart, Unstranded

LEMMA EnqueueLinked ==
  ASSUME TypeOK, Linked, NEW c \in Chats, Enqueue(c)
  PROVE  Linked'
<1> DEFINE m == offered + 1
           s == IF queues[c] # NoState THEN queues[c]
                ELSE CHOOSE u \in QStates : Unreferenced(u)
           q == TouchedState(c, s)
           full == Full(q)
           new == IF full THEN RejectSaturated(q)
                  ELSE IF q.busy THEN AttemptSteer(PushCollected(q, m))
                  ELSE [q EXCEPT !.pending = Append(@, m), !.timer = TRUE]
<1>1. /\ queues \in [Chats -> QStates \cup {NoState}]
      /\ st \in [QStates -> QueueState] /\ turn \in [QStates -> TurnRecord]
  BY StructureTypes
<1>2. s \in QStates /\ (queues[c] = NoState => Unreferenced(s))
  BY <1>1 DEF Enqueue
<1>3. /\ queues' = [queues EXCEPT ![c] = s]
      /\ st' = [st EXCEPT ![s] = new] /\ turn' = turn
  BY DEF Enqueue
<1>4. m \in Msgs
  <2>1. offered \in 0..NumMsgs
    BY DEF TypeOK
  <2> QED
    BY <2>1, MessageQueueAssumption DEF Enqueue, Msgs
<1>5. q \in QueueState /\ q.chat = c /\ q.platform = TRUE /\ Unstranded(q, turn[s])
  <2> DEFINE p == IF queues[c] = NoState THEN FreshState(c) ELSE st[s]
  <2>1. p \in QueueState /\ p.chat = c /\ Unstranded(p, turn[s])
    <3>1. CASE queues[c] = NoState
      <4>1. turn[s].phase = "none" /\ p = FreshState(c)
        BY <1>2, <3>1 DEF Unreferenced
      <4>2. FreshState(c) \in QueueState
        BY FreshStateSized DEF SizedStates
      <4>3. FreshState(c).chat = c /\ Unstranded(FreshState(c), turn[s])
        BY <4>1 DEF FreshState, Unstranded
      <4> QED
        BY <4>1, <4>2, <4>3
    <3>2. CASE queues[c] # NoState
      BY <1>1, <1>2, <3>2 DEF Linked
    <3> QED
      BY <3>1, <3>2
  <2>2. q = [p EXCEPT !.platform = TRUE, !.cooldownTimer = FALSE]
    BY DEF TouchedState
  <2> HIDE DEF p, q, s
  <2>3. /\ q \in QueueState /\ q.chat = p.chat /\ q.pending = p.pending
        /\ q.timer = p.timer /\ q.collect = p.collect /\ q.busy = p.busy
        /\ q.platform = TRUE
    BY <2>1, <2>2 DEF QueueState
  <2>4. Unstranded(q, turn[s])
    BY <2>1, <2>3 DEF Unstranded
  <2> QED
    BY <2>1, <2>3, <2>4
<1> HIDE DEF q
<1>6. new.chat = c /\ Unstranded(new, turn[s])
  <2>1. CASE full
    BY <1>5, <2>1, RejectSaturatedType DEF Unstranded
  <2>2. CASE ~full /\ q.busy
    <3> DEFINE p == PushCollected(q, m)
    <3>1. Append(q.collect, m) \in Seq(Msgs)
      BY <1>4, <1>5, AppendProperties DEF QueueState
    <3>2. p \in QueueState /\ p.chat = c /\ Unstranded(p, turn[s])
      BY <1>5, <2>2, <3>1 DEF PushCollected, QueueState, Unstranded
    <3>3. SteeringApart(AttemptSteer(p), p)
      BY <3>2, AttemptSteerType
    <3>4. AttemptSteer(p).chat = c /\ Unstranded(AttemptSteer(p), turn[s])
      BY <3>2, <3>3, SteeringKeepsUnstranded DEF SteeringApart
    <3> QED
      BY <2>2, <3>4
  <2>3. CASE ~full /\ ~q.busy
    <3>1. new = [q EXCEPT !.pending = Append(@, m), !.timer = TRUE]
      BY <2>3
    <3> QED
      BY <1>5, <2>3, <3>1 DEF QueueState, Unstranded
  <2> QED
    BY <2>1, <2>2, <2>3
<1> HIDE DEF new, s
<1> SUFFICES ASSUME NEW d \in Chats, queues'[d] # NoState
             PROVE  /\ st'[queues'[d]].chat = d
                    /\ Unstranded(st'[queues'[d]], turn'[queues'[d]])
  BY DEF Linked
<1>7. CASE d = c
  BY <1>1, <1>2, <1>3, <1>6, <1>7
<1>8. CASE d # c
  <2>1. queues'[d] = queues[d] /\ queues[d] \in QStates
    BY <1>1, <1>3, <1>8
  <2>2. queues[d] # s
    <3>1. CASE queues[c] = NoState
      BY <1>2, <2>1, <3>1 DEF Unreferenced, CurrentStates, s
    <3>2. CASE queues[c] # NoState
      BY <1>8, <3>2, MappedOnce DEF s
    <3> QED
      BY <3>1, <3>2
  <2> QED
    BY <1>1, <1>2, <1>3, <2>1, <2>2 DEF Linked
<1> QED
  BY <1>7, <1>8

LEMMA EndTurnLinked ==
  ASSUME TypeOK, Linked, NEW s \in QStates, NEW q \in QueueState,
         turn[s].phase # "none", SteeringApart(q, st[s]),
         EndTurn(s, q), UNCHANGED queues
  PROVE  Linked'
<1>1. q.chat = st[s].chat
  BY DEF SteeringApart
<1>2. CASE ~Current(s)
  BY <1>1, <1>2, OneStateStep DEF EndTurn
<1>3. CASE Current(s)
  <2>1. s \in QStates /\ s # NoState /\ st[s].chat \in Chats /\ queues[st[s].chat] = s
    BY <1>3, StructureTypes, MessageQueueAssumption DEF Current
  <2>2. Unstranded(q, turn[s])
    BY <2>1, SteeringKeepsUnstranded DEF Linked
  <2>3. q.busy /\ q.pending = <<>> /\ q.platform
    BY <2>2 DEF Unstranded
  <2>4. CASE DrainsNext(q)
    <3> DEFINE r == [q EXCEPT !.collect = <<>>]
    <3>1. r \in QueueState
      BY EmptySeq DEF QueueState
    <3>2. StartBusy(r) \in QueueState
          /\ SteeringApart(StartBusy(r), [r EXCEPT !.busy = TRUE])
      BY <3>1, StartBusyType
    <3>3. /\ StartBusy(r).chat = st[s].chat /\ StartBusy(r).busy
          /\ StartBusy(r).pending = <<>> /\ StartBusy(r).collect = <<>>
          /\ StartBusy(r).platform
      BY <1>1, <2>3, <3>1, <3>2 DEF SteeringApart, QueueState
    <3>4. NewTurn(q, q.collect, TRUE).phase # "none"
      BY DEF NewTurn
    <3>5. Unstranded(StartBusy(r), NewTurn(q, q.collect, TRUE))
      BY <3>3, <3>4 DEF Unstranded
    <3>6. /\ st' = [st EXCEPT ![s] = StartBusy(r)]
          /\ turn' = [turn EXCEPT ![s] = NewTurn(q, q.collect, TRUE)]
      BY <1>3, <2>4 DEF EndTurn
    <3> HIDE DEF r
    <3> QED
      BY <3>3, <3>5, <3>6, OneStateStep
  <2>5. CASE ~DrainsNext(q)
    <3> DEFINE r == [q EXCEPT !.busy = FALSE]
    <3>1. r.chat = st[s].chat /\ Unstranded(r, NoTurn)
      BY <1>1, <2>3, <2>5 DEF DrainsNext, Unstranded, NoTurn, QueueState
    <3>2. st' = [st EXCEPT ![s] = r] /\ turn' = [turn EXCEPT ![s] = NoTurn]
      BY <1>3, <2>5 DEF EndTurn
    <3> HIDE DEF r
    <3> QED
      BY <3>1, <3>2, OneStateStep
  <2> QED
    BY <2>4, <2>5
<1> QED
  BY <1>2, <1>3

(* evictIfIdle takes idle states off the map; it strands nobody else.  The *)
(* states sts differ from st in flags Unstranded does not look at.         *)
LEMMA EvictIfIdleLinked ==
  ASSUME TypeOK, Linked, NEW c \in Chats, NEW sts \in [QStates -> QueueState],
         \A u \in QStates : SteeringApart(sts[u], [st[u] EXCEPT
                              !.cooldownTimer = sts[u].cooldownTimer]),
         EvictIfIdle(c, sts), UNCHANGED turn
  PROVE  Linked'
<1> SUFFICES ASSUME NEW d \in Chats, queues'[d] # NoState
             PROVE  /\ st'[queues'[d]].chat = d
                    /\ Unstranded(st'[queues'[d]], turn'[queues'[d]])
  BY DEF Linked
<1> DEFINE s == queues[c]
           u == queues[d]
<1>1. queues \in [Chats -> QStates \cup {NoState}] /\ st \in [QStates -> QueueState]
  BY StructureTypes
<1>2. queues'[d] = u /\ u \in QStates
  BY <1>1 DEF EvictIfIdle
<1>3. st[u].chat = d /\ Unstranded(st[u], turn[u])
  BY <1>1, <1>2 DEF Linked
<1>4. /\ sts[u] \in QueueState /\ sts[u].chat = d
      /\ sts[u].pending = st[u].pending /\ sts[u].timer = st[u].timer
      /\ sts[u].collect = st[u].collect /\ sts[u].busy = st[u].busy
      /\ sts[u].platform = st[u].platform
  BY <1>1, <1>2, <1>3 DEF SteeringApart, QueueState
<1>5. Unstranded(sts[u], turn[u])
  BY <1>3, <1>4 DEF Unstranded
<1> HIDE DEF u
<1>6. CASE st' = sts
  BY <1>2, <1>4, <1>5, <1>6
<1>7. CASE /\ s # NoState /\ Idle(sts[s])
           /\ st' = [sts EXCEPT ![s].platform = FALSE, ![s].cooldownTimer = TRUE]
  <2>1. CASE u = s
    <3> DEFINE r == [sts[s] EXCEPT !.platform = FALSE, !.cooldownTimer = TRUE]
    <3>1. st'[u] = r
      BY <1>2, <1>7, <2>1
    <3>2. /\ r.chat = d /\ r.pending = sts[u].pending /\ r.timer = sts[u].timer
          /\ r.collect = sts[u].collect /\ r.busy = sts[u].busy
      BY <1>4, <2>1 DEF QueueState
    <3> HIDE DEF r
    <3>3. r.pending = <<>> /\ ~r.busy
      BY <1>7, <2>1, <3>2 DEF Idle
    <3>4. Unstranded(r, turn[u])
      BY <1>5, <3>2, <3>3 DEF Unstranded
    <3> QED
      BY <1>2, <3>1, <3>2, <3>4
  <2>2. CASE u # s
    BY <1>2, <1>4, <1>5, <1>7, <2>2
  <2> QED
    BY <2>1, <2>2
<1> QED
  BY <1>6, <1>7 DEF EvictIfIdle

(* Taking entries off the map strands nobody, whatever the states that are *)
(* no longer in it look like.                                              *)
LEMMA UnmappedLinked ==
  ASSUME TypeOK, Linked, UNCHANGED turn,
         \A d \in Chats : queues'[d] # NoState =>
           queues'[d] = queues[d] /\ st'[queues[d]] = st[queues[d]]
  PROVE  Linked'
BY DEF Linked

(* Every step keeps the map linked and strands nothing. *)
LEMMA NextLinked == TypeOK /\ Linked /\ [Next]_vars => Linked'
<1> SUFFICES ASSUME TypeOK, Linked, [Next]_vars
             PROVE  Linked'
  OBVIOUS
<1>0. /\ queues \in [Chats -> QStates \cup {NoState}]
      /\ st \in [QStates -> QueueState] /\ turn \in [QStates -> TurnRecord]
  BY StructureTypes
<1>1. CASE RefuseMessage
  BY <1>1 DEF RefuseMessage, Linked
<1>2. ASSUME NEW c \in Chats, Enqueue(c)
      PROVE  Linked'
  BY <1>2, EnqueueLinked
<1>3. ASSUME NEW c \in Chats, DebounceFires(c)
      PROVE  Linked'
  <2> DEFINE s == queues[c]
             t == NewTurn(st[s], st[s].pending, FALSE)
  <2>1. /\ s \in QStates /\ st[s] \in QueueState /\ Unstranded(st[s], turn[s])
        /\ st[s].pending # <<>>
    BY <1>0, <1>3 DEF DebounceFires, Linked
  <2>2. /\ Flushed(st[s]) \in QueueState
        /\ SteeringApart(Flushed(st[s]), [st[s] EXCEPT !.busy = TRUE, !.timer = FALSE,
                                                       !.pending = <<>>])
    BY <2>1, FlushedType
  <2>3. /\ Flushed(st[s]).chat = st[s].chat /\ Flushed(st[s]).pending = <<>>
        /\ Flushed(st[s]).busy = TRUE /\ Flushed(st[s]).platform = st[s].platform
    BY <2>1, <2>2 DEF SteeringApart, QueueState
  <2>4. t.phase # "none"
    BY DEF NewTurn
  <2>5. Unstranded(Flushed(st[s]), t)
    BY <2>1, <2>3, <2>4 DEF Unstranded
  <2>6. st' = [st EXCEPT ![s] = Flushed(st[s])] /\ turn' = [turn EXCEPT ![s] = t]
        /\ UNCHANGED queues
    BY <1>3 DEF DebounceFires
  <2> HIDE DEF s, t
  <2> QED
    BY <2>1, <2>3, <2>5, <2>6, OneStateStep
<1>4. ASSUME NEW c \in Chats, FlushEvicts(c)
      PROVE  Linked'
  <2>1. \A u \in QStates : SteeringApart(st[u], [st[u] EXCEPT
                             !.cooldownTimer = st[u].cooldownTimer])
    BY <1>0 DEF SteeringApart, QueueState
  <2> QED
    BY <1>0, <1>4, <2>1, EvictIfIdleLinked DEF FlushEvicts
<1>5. ASSUME NEW c \in Chats, Clear(c)
      PROVE  Linked'
  <2>1. ASSUME NEW d \in Chats, queues'[d] # NoState
        PROVE  queues'[d] = queues[d] /\ st'[queues[d]] = st[queues[d]]
    <3>1. d # c /\ queues'[d] = queues[d]
      BY <1>0, <1>5, <2>1 DEF Clear
    <3>2. queues[d] # queues[c]
      BY <1>5, <2>1, <3>1, MappedOnce DEF Clear
    <3> QED
      BY <1>0, <1>5, <3>1, <3>2 DEF Clear
  <2> QED
    BY <1>5, <2>1, UnmappedLinked DEF Clear
<1>6. ASSUME NEW s \in QStates, TurnStep(s)
      PROVE  Linked'
  <2>1. CASE SessionPrepared(s) \/ NoticeDelivered(s) \/ AgentTakesPrompt(s)
    <3>1. PICK t : /\ turn' = [turn EXCEPT ![s] = t] /\ t.phase # "none"
                   /\ turn[s].phase # "none"
      <4>1. turn[s] \in TurnRecord
        BY <1>0
      <4>2. CASE SessionPrepared(s)
        <5>1. turn' = [turn EXCEPT ![s] = [turn[s] EXCEPT !.phase = "notice"]]
          BY <1>0, <4>2 DEF SessionPrepared
        <5>2. turn[s].phase # "none"
          BY <4>2 DEF SessionPrepared
        <5>3. [turn[s] EXCEPT !.phase = "notice"].phase # "none"
          BY <4>1 DEF TurnRecord
        <5> QED
          BY <5>1, <5>2, <5>3
      <4>3. CASE NoticeDelivered(s)
        <5>1. turn' = [turn EXCEPT ![s] = [turn[s] EXCEPT !.phase = "process"]]
          BY <1>0, <4>3 DEF NoticeDelivered
        <5>2. turn[s].phase # "none"
          BY <4>3 DEF NoticeDelivered
        <5>3. [turn[s] EXCEPT !.phase = "process"].phase # "none"
          BY <4>1 DEF TurnRecord
        <5> QED
          BY <5>1, <5>2, <5>3
      <4>4. CASE AgentTakesPrompt(s)
        <5> DEFINE t == [turn[s] EXCEPT !.accepted = TRUE,
                                        !.live = @ /\ ~TransfersOwnership(s)]
        <5>1. turn' = [turn EXCEPT ![s] = t]
          BY <1>0, <4>4 DEF AgentTakesPrompt
        <5>2. turn[s].phase = "process" /\ t.phase = turn[s].phase
          BY <4>1, <4>4 DEF AgentTakesPrompt, TurnRecord
        <5> HIDE DEF t
        <5> QED
          BY <5>1, <5>2
      <4> QED
        BY <2>1, <4>2, <4>3, <4>4
    <3>2. st' = [st EXCEPT ![s] = st[s]] /\ UNCHANGED queues
      BY <1>0, <2>1 DEF SessionPrepared, NoticeDelivered, AgentTakesPrompt
    <3>3. Current(s) => Unstranded(st[s], turn[s])
      BY <1>0, CurrentIsMapped, MessageQueueAssumption DEF Linked
    <3>4. Current(s) => Unstranded(st[s], t)
      BY <3>1, <3>3 DEF Unstranded
    <3> QED
      BY <3>1, <3>2, <3>4, OneStateStep
  <2>2. /\ SettleBusyGeneration(st[s]) \in QueueState
        /\ SteeringApart(SettleBusyGeneration(st[s]), st[s])
        /\ SteeringApart(st[s], st[s])
    BY <1>0, SettleBusyType DEF SteeringApart
  <2>3. CASE TurnSucceeds(s)
    BY <2>2, <2>3, EndTurnLinked DEF TurnSucceeds
  <2>4. CASE TurnThrows(s)
    <3>1. CASE Current(s)
      <4>1. st' = [st EXCEPT ![s] = SettleBusyGeneration(st[s])] /\ UNCHANGED queues
        BY <2>4, <3>1 DEF TurnThrows
      <4>2. turn' = [turn EXCEPT ![s] = [turn[s] EXCEPT !.phase = "reply"]]
            /\ turn[s].phase # "none"
        BY <1>0, <2>4, <3>1 DEF TurnThrows
      <4>3. [turn[s] EXCEPT !.phase = "reply"].phase # "none"
        BY <1>0 DEF TurnRecord
      <4>4. Unstranded(st[s], turn[s])
        BY <1>0, <3>1, CurrentIsMapped, MessageQueueAssumption DEF Linked
      <4>5. Unstranded(st[s], [turn[s] EXCEPT !.phase = "reply"])
        BY <4>2, <4>3, <4>4 DEF Unstranded
      <4>6. Unstranded(SettleBusyGeneration(st[s]), [turn[s] EXCEPT !.phase = "reply"])
        BY <2>2, <4>5, SteeringKeepsUnstranded
      <4> QED
        BY <2>2, <4>1, <4>2, <4>6, OneStateStep DEF SteeringApart
    <3>2. CASE ~Current(s)
      BY <2>2, <2>4, <3>2, EndTurnLinked DEF TurnThrows
    <3> QED
      BY <3>1, <3>2
  <2>5. CASE ErrorReplied(s)
    BY <1>0, <2>2, <2>5, EndTurnLinked DEF ErrorReplied
  <2> QED
    BY <1>6, <2>1, <2>3, <2>4, <2>5 DEF TurnStep
<1>7. ASSUME NEW s \in QStates, NEW m \in Msgs,
             \/ SteerEnqueued(s, m) \/ SteerConsumed(s, m)
             \/ SteerRefused(s, m) \/ SteerSettlesLate(s, m)
      PROVE  Linked'
  <2>1. turn' = [turn EXCEPT ![s] = turn[s]] /\ UNCHANGED queues
    BY <1>0, <1>7 DEF SteerEnqueued, SteerConsumed, SteerRefused, SteerSettlesLate
  <2>2. Current(s) => Unstranded(st[s], turn[s])
    BY <1>0, CurrentIsMapped, MessageQueueAssumption DEF Linked
  <2>3. st[s] \in QueueState
    BY <1>0
  <2>4. ASSUME NEW q, SteeringApart(q, st[s]), st' = [st EXCEPT ![s] = q]
        PROVE  Linked'
    <3>1. q.chat = st[s].chat
      BY <2>4 DEF SteeringApart
    <3>2. Current(s) => Unstranded(q, turn[s])
      BY <2>2, <2>4, SteeringKeepsUnstranded
    <3> QED
      BY <2>1, <2>4, <3>1, <3>2, OneStateStep
  <2>5. CASE SteerEnqueued(s, m)
    <3> DEFINE q == [st[s] EXCEPT !.submitting = NoMsg]
    <3>1. q \in QueueState /\ SteeringApart(q, st[s])
      BY <2>3 DEF SteeringApart, QueueState
    <3>2. SteeringApart(AttemptSteer(q), q)
      BY <3>1, AttemptSteerType
    <3>3. SteeringApart(AttemptSteer(q), st[s])
      BY <3>1, <3>2 DEF SteeringApart
    <3>4. st' = [st EXCEPT ![s] = AttemptSteer(q)]
      BY <2>5 DEF SteerEnqueued
    <3> QED
      BY <2>4, <3>3, <3>4
  <2>6. /\ SteerForgotten(st[s], m) \in QueueState
        /\ SteeringApart(SteerForgotten(st[s], m), st[s])
    BY <2>3 DEF SteerForgotten, SteeringApart, QueueState
  <2>7. CASE SteerConsumed(s, m)
    <3> DEFINE q == SteerForgotten(st[s], m)
               r == [q EXCEPT !.collect = Without(@, m)]
    <3>1. CASE m \in ElementsOf(q.collect)
      <4>1. q.collect \in Seq(Msgs)
        BY <2>6 DEF QueueState
      <4>2. Without(q.collect, m) \in Seq(Msgs)
        BY <3>1, <4>1, WithoutType
      <4>3. /\ r \in QueueState /\ r.chat = q.chat /\ r.pending = q.pending
            /\ r.timer = q.timer /\ r.busy = q.busy /\ r.platform = q.platform
        BY <2>6, <4>2 DEF QueueState
      <4>4. st[s].busy
        BY <2>7 DEF SteerConsumed, SteerIsLive
      <4>5. r.chat = st[s].chat /\ (Current(s) => Unstranded(r, turn[s]))
        BY <2>2, <2>6, <4>3, <4>4 DEF SteeringApart, Unstranded
      <4> HIDE DEF r
      <4>6. SteeringApart(AttemptSteer(r), r)
        BY <4>3, AttemptSteerType
      <4>7. /\ AttemptSteer(r).chat = st[s].chat
            /\ Current(s) => Unstranded(AttemptSteer(r), turn[s])
        BY <4>5, <4>6, SteeringKeepsUnstranded DEF SteeringApart
      <4>8. st' = [st EXCEPT ![s] = AttemptSteer(r)]
        BY <2>7, <3>1 DEF SteerConsumed, r
      <4> QED
        BY <2>1, <4>7, <4>8, OneStateStep
    <3>2. CASE m \notin ElementsOf(q.collect)
      <4>1. st' = [st EXCEPT ![s] = q]
        BY <2>7, <3>2 DEF SteerConsumed
      <4> QED
        BY <2>4, <2>6, <4>1
    <3> QED
      BY <3>1, <3>2
  <2>8. CASE SteerRefused(s, m)
    <3> DEFINE q == [SteerForgotten(st[s], m) EXCEPT !.blocked = TRUE]
    <3>1. SteeringApart(q, st[s])
      BY <2>6 DEF SteeringApart, QueueState
    <3>2. st' = [st EXCEPT ![s] = q]
      BY <2>8 DEF SteerRefused
    <3> QED
      BY <2>4, <3>1, <3>2
  <2>9. CASE SteerSettlesLate(s, m)
    <3> DEFINE q == [st[s] EXCEPT !.calls = @ \ {m}]
    <3>1. SteeringApart(q, st[s])
      BY <2>3 DEF SteeringApart, QueueState
    <3>2. st' = [st EXCEPT ![s] = q]
      BY <1>0, <2>9 DEF SteerSettlesLate
    <3> QED
      BY <2>4, <3>1, <3>2
  <2> QED
    BY <1>7, <2>5, <2>7, <2>8, <2>9
<1>8. ASSUME NEW s \in QStates, StateStep(s)
      PROVE  Linked'
  <2>1. Current(s) => Unstranded(st[s], turn[s])
    BY <1>0, CurrentIsMapped, MessageQueueAssumption DEF Linked
  <2>2. CASE SendRejectionNotice(s) \/ CooldownElapses(s)
    <3>1. PICK q : /\ st' = [st EXCEPT ![s] = q] /\ q.chat = st[s].chat
                   /\ q.pending = st[s].pending /\ q.timer = st[s].timer
                   /\ q.collect = st[s].collect /\ q.busy = st[s].busy
                   /\ q.platform = st[s].platform
      <4>1. st[s] \in QueueState
        BY <1>0
      <4>2. CASE SendRejectionNotice(s)
        <5> DEFINE q == [st[s] EXCEPT !.noticeScheduled = FALSE]
        <5>1. st' = [st EXCEPT ![s] = q]
          BY <1>0, <4>2 DEF SendRejectionNotice
        <5>2. /\ q.chat = st[s].chat /\ q.pending = st[s].pending /\ q.timer = st[s].timer
              /\ q.collect = st[s].collect /\ q.busy = st[s].busy
              /\ q.platform = st[s].platform
          BY <4>1 DEF QueueState
        <5> HIDE DEF q
        <5> QED
          BY <5>1, <5>2
      <4>3. CASE CooldownElapses(s)
        <5> DEFINE q == [st[s] EXCEPT !.cooling = FALSE]
        <5>1. st' = [st EXCEPT ![s] = q]
          BY <1>0, <4>3 DEF CooldownElapses
        <5>2. /\ q.chat = st[s].chat /\ q.pending = st[s].pending /\ q.timer = st[s].timer
              /\ q.collect = st[s].collect /\ q.busy = st[s].busy
              /\ q.platform = st[s].platform
          BY <4>1 DEF QueueState
        <5> HIDE DEF q
        <5> QED
          BY <5>1, <5>2
      <4> QED
        BY <2>2, <4>2, <4>3
    <3>2. Current(s) => Unstranded(q, turn[s])
      BY <2>1, <3>1 DEF Unstranded
    <3>3. turn' = [turn EXCEPT ![s] = turn[s]] /\ UNCHANGED queues
      BY <1>0, <2>2 DEF SendRejectionNotice, CooldownElapses
    <3> QED
      BY <3>1, <3>2, <3>3, OneStateStep
  <2>3. CASE CooldownTimerFires(s)
    <3> DEFINE sts == [st EXCEPT ![s] = [st[s] EXCEPT !.cooldownTimer = FALSE]]
    <3>1. st[s].chat \in Chats /\ sts \in [QStates -> QueueState]
      <4>1. st[s].chat \in Chats /\ [st[s] EXCEPT !.cooldownTimer = FALSE] \in QueueState
        BY <1>0 DEF QueueState
      <4> QED
        BY <1>0, <4>1
    <3>2. ASSUME NEW u \in QStates
          PROVE  SteeringApart(sts[u], [st[u] EXCEPT !.cooldownTimer = sts[u].cooldownTimer])
      <4>1. st[u] \in QueueState /\ st[s] \in QueueState
        BY <1>0
      <4>2. CASE u = s
        <5>1. sts[u] = [st[u] EXCEPT !.cooldownTimer = FALSE]
          BY <1>0, <4>2
        <5> QED
          BY <4>1, <5>1 DEF SteeringApart, QueueState
      <4>3. CASE u # s
        <5>1. sts[u] = st[u]
          BY <1>0, <4>3
        <5> QED
          BY <4>1, <5>1 DEF SteeringApart, QueueState
      <4> QED
        BY <4>2, <4>3
    <3>3. EvictIfIdle(st[s].chat, sts) /\ UNCHANGED turn
      BY <1>0, <2>3 DEF CooldownTimerFires
    <3> HIDE DEF sts
    <3> QED
      BY <3>1, <3>2, <3>3, EvictIfIdleLinked
  <2> QED
    BY <1>8, <2>2, <2>3 DEF StateStep
<1>9. CASE BeginShutdown
  <2> SUFFICES ASSUME NEW c \in Chats, queues'[c] # NoState
               PROVE  /\ st'[queues'[c]].chat = c
                      /\ Unstranded(st'[queues'[c]], turn'[queues'[c]])
    BY DEF Linked
  <2> DEFINE s == queues[c]
  <2>1. /\ queues' = queues /\ s \in QStates /\ s \in CurrentStates
        /\ st[s] \in QueueState /\ st[s].chat = c /\ Unstranded(st[s], turn[s])
    BY <1>0, <1>9 DEF BeginShutdown, Linked, CurrentStates
  <2>2. CASE Starts(s)
    <3> DEFINE t == NewTurn(st[s], st[s].pending, FALSE)
    <3>1. st'[s] = Flushed(st[s]) /\ turn'[s] = t
      BY <1>9, <2>1, <2>2 DEF BeginShutdown
    <3>2. SteeringApart(Flushed(st[s]), [st[s] EXCEPT !.busy = TRUE, !.timer = FALSE,
                                                     !.pending = <<>>])
      BY <2>1, FlushedType
    <3>3. /\ Flushed(st[s]).chat = c /\ Flushed(st[s]).pending = <<>>
          /\ Flushed(st[s]).busy = TRUE /\ Flushed(st[s]).platform = st[s].platform
      BY <2>1, <3>2 DEF SteeringApart, QueueState
    <3>4. t.phase # "none" /\ st[s].pending # <<>>
      BY <2>2 DEF NewTurn, Starts
    <3>5. Unstranded(Flushed(st[s]), t)
      BY <2>1, <3>3, <3>4 DEF Unstranded
    <3> QED
      BY <2>1, <3>1, <3>3, <3>5
  <2>3. CASE ~Starts(s)
    <3> DEFINE r == [st[s] EXCEPT !.timer = FALSE]
    <3>1. st'[s] = r /\ turn'[s] = turn[s]
      BY <1>9, <2>1, <2>3 DEF BeginShutdown
    <3>2. st[s].pending = <<>>
      BY <2>1, <2>3 DEF Starts, Unstranded
    <3>3. /\ r.chat = c /\ r.pending = <<>> /\ r.collect = st[s].collect
          /\ r.busy = st[s].busy /\ r.platform = st[s].platform
      BY <2>1, <3>2 DEF QueueState
    <3> HIDE DEF r
    <3>4. Unstranded(r, turn[s])
      BY <2>1, <3>3 DEF Unstranded
    <3> QED
      BY <2>1, <3>1, <3>3, <3>4
  <2> QED
    BY <2>2, <2>3
<1>10. CASE FinishDrain \/ ForceShutdown
  BY <1>10 DEF FinishDrain, ForceShutdown, ClearAll, Linked
<1>11. CASE UNCHANGED vars
  BY <1>11 DEF vars, Linked
<1> QED
  BY <1>1, <1>2, <1>3, <1>4, <1>5, <1>6, <1>7, <1>8, <1>9, <1>10, <1>11
  DEF Next, ChatStep, SteerStep, Stopped

LEMMA AlwaysLinked == Spec => []Linked
<1>1. Init => Linked
  BY DEF Init, Linked
<1> QED
  BY <1>1, NextLinked, TypeCorrect, PTL DEF Spec

(* A turn that is over keeps no batch. *)
IdleTurnsEmpty == \A s \in QStates : turn[s].phase = "none" => turn[s].batch = <<>>

LEMMA NextIdleTurnsEmpty == TypeOK /\ IdleTurnsEmpty /\ [Next]_vars => IdleTurnsEmpty'
<1> SUFFICES ASSUME TypeOK, IdleTurnsEmpty, [Next]_vars, NEW s \in QStates,
                    turn'[s].phase = "none"
             PROVE  turn'[s].batch = <<>>
  BY DEF IdleTurnsEmpty
<1>1. turn \in [QStates -> TurnRecord] /\ turn[s] \in TurnRecord
      /\ (turn[s].phase = "none" => turn[s].batch = <<>>)
  BY StructureTypes DEF IdleTurnsEmpty
<1>2. NoTurn.batch = <<>> /\ \A q, b, d : NewTurn(q, b, d).phase # "none"
  BY DEF NoTurn, NewTurn
<1>3. CASE turn'[s] = turn[s]
  BY <1>1, <1>3
<1>4. CASE turn'[s] = NoTurn
  BY <1>2, <1>4
<1>5. ASSUME NEW u \in QStates, TurnStep(u)
      PROVE  turn'[s].batch = <<>>
  <2>1. CASE SessionPrepared(u)
    <3>1. turn'[s] = IF s = u THEN [turn[s] EXCEPT !.phase = "notice"] ELSE turn[s]
      BY <1>1, <2>1 DEF SessionPrepared
    <3> QED
      BY <1>1, <3>1 DEF TurnRecord
  <2>2. CASE NoticeDelivered(u)
    <3>1. turn'[s] = IF s = u THEN [turn[s] EXCEPT !.phase = "process"] ELSE turn[s]
      BY <1>1, <2>2 DEF NoticeDelivered
    <3> QED
      BY <1>1, <3>1 DEF TurnRecord
  <2>3. CASE AgentTakesPrompt(u)
    <3>1. CASE s = u
      <4>1. turn'[s] = [turn[s] EXCEPT !.accepted = TRUE,
                                       !.live = @ /\ ~TransfersOwnership(s)]
        BY <1>1, <2>3, <3>1 DEF AgentTakesPrompt
      <4>2. turn'[s].phase = turn[s].phase /\ turn[s].phase = "process"
        BY <1>1, <2>3, <3>1, <4>1 DEF AgentTakesPrompt, TurnRecord
      <4> QED
        BY <4>2
    <3>2. CASE s # u
      <4>1. turn' = [turn EXCEPT ![u] = [turn[u] EXCEPT !.accepted = TRUE,
                                           !.live = @ /\ ~TransfersOwnership(u)]]
        BY <1>1, <2>3 DEF AgentTakesPrompt
      <4>2. turn'[s] = turn[s]
        BY <1>1, <3>2, <4>1
      <4> QED
        BY <1>3, <4>2
    <3> QED
      BY <3>1, <3>2
  <2>4. ASSUME NEW q, EndTurn(u, q)
        PROVE  turn'[s].batch = <<>>
    <3>1. \/ turn'[s] = turn[s] \/ turn'[s] = NoTurn
          \/ turn'[s] = NewTurn(q, q.collect, TRUE)
      BY <1>1, <2>4 DEF EndTurn
    <3> QED
      BY <1>2, <1>3, <1>4, <3>1
  <2>5. CASE TurnThrows(u) /\ Current(u)
    <3>1. turn'[s] = IF s = u THEN [turn[s] EXCEPT !.phase = "reply"] ELSE turn[s]
      BY <1>1, <2>5 DEF TurnThrows
    <3> QED
      BY <1>1, <3>1 DEF TurnRecord
  <2>6. CASE TurnThrows(u) /\ ~Current(u)
    BY <2>4, <2>6 DEF TurnThrows
  <2>7. CASE TurnSucceeds(u)
    BY <2>4, <2>7 DEF TurnSucceeds
  <2>8. CASE ErrorReplied(u)
    BY <2>4, <2>8 DEF ErrorReplied
  <2> QED
    BY <1>5, <2>1, <2>2, <2>3, <2>5, <2>6, <2>7, <2>8 DEF TurnStep
<1>6. ASSUME NEW c \in Chats, DebounceFires(c)
      PROVE  turn'[s].batch = <<>>
  <2>1. \/ turn'[s] = turn[s]
        \/ turn'[s] = NewTurn(st[queues[c]], st[queues[c]].pending, FALSE)
    BY <1>1, <1>6 DEF DebounceFires
  <2> QED
    BY <1>2, <1>3, <2>1
<1>7. CASE BeginShutdown
  <2>1. turn'[s] = turn[s] \/ turn'[s] = NewTurn(st[s], st[s].pending, FALSE)
    BY <1>7 DEF BeginShutdown
  <2> QED
    BY <1>2, <1>3, <2>1
<1>8. CASE UNCHANGED turn
  BY <1>3, <1>8
<1>9. ASSUME NEW u \in QStates, SteerStep(u) \/ StateStep(u)
      PROVE  UNCHANGED turn
  BY <1>9 DEF SteerStep, StateStep, SteerEnqueued, SteerConsumed, SteerRefused,
     SteerSettlesLate, SendRejectionNotice, CooldownElapses, CooldownTimerFires
<1>10. ASSUME NEW c \in Chats, Enqueue(c) \/ FlushEvicts(c) \/ Clear(c)
       PROVE  UNCHANGED turn
  BY <1>10 DEF Enqueue, FlushEvicts, Clear
<1>11. CASE RefuseMessage \/ FinishDrain \/ ForceShutdown \/ Stopped \/ UNCHANGED vars
  BY <1>8, <1>11 DEF RefuseMessage, FinishDrain, ForceShutdown, Stopped, vars
<1> QED
  BY <1>5, <1>6, <1>7, <1>8, <1>9, <1>10, <1>11 DEF Next, ChatStep

LEMMA AlwaysIdleTurnsEmpty == Spec => []IdleTurnsEmpty
<1>1. Init => IdleTurnsEmpty
  BY DEF Init, IdleTurnsEmpty, NoTurn
<1> QED
  BY <1>1, NextIdleTurnsEmpty, TypeCorrect, PTL DEF Spec

(* In every reachable state of every instance, debounced messages have an  *)
(* armed timer and no turn in their way, collected messages have a running *)
(* turn that will drain them, and both have a platform to answer on: no    *)
(* interleaving of enqueue, flush, drain, steering, eviction, clear and    *)
(* shutdown leaves a message waiting for an event that never comes.        *)
THEOREM NothingIsStranded == Spec => []NothingStranded
BY AlwaysLinked, LinkedImpliesNothingStranded, PTL

(* The turn of a cleared state is inert: whatever its flush still does, it *)
(* changes no state in the map, no map entry and no media ownership        *)
(* (the identity checks at message-queue.ts:317, 321, 331, 360 and 374).   *)
THEOREM ClearedTurnsAreInert == Spec => ClearedTurnIsInert
<1> DEFINE Inert == \A s \in QStates :
      turn'[s] # turn[s] /\ turn[s].phase # "none" /\ ~Current(s)
      => /\ \A u \in CurrentStates : st'[u] = st[u]
         /\ queues' = queues
         /\ owned' = owned
<1>1. TypeOK /\ Linked /\ [Next]_vars => Inert
  <2> SUFFICES ASSUME TypeOK, Linked, [Next]_vars, NEW s \in QStates,
                      turn'[s] # turn[s], turn[s].phase # "none", ~Current(s)
               PROVE  /\ \A u \in CurrentStates : st'[u] = st[u]
                      /\ queues' = queues
                      /\ owned' = owned
    OBVIOUS
  <2>0. /\ st \in [QStates -> QueueState] /\ turn \in [QStates -> TurnRecord]
        /\ queues \in [Chats -> QStates \cup {NoState}]
        /\ s \notin CurrentStates
    BY StructureTypes, CurrentIsMapped
  <2>1. CASE UNCHANGED turn
    BY <2>1
  <2>2. ASSUME NEW c \in Chats, DebounceFires(c)
        PROVE  FALSE
    <3>1. turn'[s] = turn[s] \/ s = queues[c]
      BY <2>0, <2>2 DEF DebounceFires
    <3>2. queues[c] \in CurrentStates
      BY <2>2 DEF DebounceFires, CurrentStates
    <3> QED
      BY <2>0, <3>1, <3>2
  <2>3. ASSUME NEW u \in QStates, TurnStep(u)
        PROVE  s = u
    BY <2>0, <2>3 DEF TurnStep, SessionPrepared, NoticeDelivered, AgentTakesPrompt,
       TurnSucceeds, TurnThrows, ErrorReplied, EndTurn
  <2>4. ASSUME TurnStep(s)
        PROVE  /\ \A u \in CurrentStates : st'[u] = st[u]
               /\ queues' = queues
               /\ owned' = owned
    <3>1. queues' = queues
      BY <2>4 DEF TurnStep, SessionPrepared, NoticeDelivered, AgentTakesPrompt,
         TurnSucceeds, TurnThrows, ErrorReplied
    <3>2. owned' = owned
      BY <2>4 DEF TurnStep, SessionPrepared, NoticeDelivered, AgentTakesPrompt,
         TurnSucceeds, TurnThrows, ErrorReplied, TransfersOwnership
    <3>3. st' = st \/ \E q : st' = [st EXCEPT ![s] = q]
      BY <2>4 DEF TurnStep, SessionPrepared, NoticeDelivered, AgentTakesPrompt,
         TurnSucceeds, TurnThrows, ErrorReplied, EndTurn
    <3>4. \A u \in CurrentStates : st'[u] = st[u]
      BY <2>0, <3>3 DEF CurrentStates
    <3> QED
      BY <3>1, <3>2, <3>4
  <2>5. CASE BeginShutdown
    <3>1. ~Starts(s)
      BY <2>0 DEF Starts
    <3>2. turn'[s] = turn[s]
      BY <2>5, <3>1 DEF BeginShutdown
    <3> QED
      BY <3>2
  <2> QED
    BY <2>1, <2>2, <2>3, <2>4, <2>5
    DEF Next, ChatStep, SteerStep, StateStep, RefuseMessage, Enqueue, FlushEvicts,
        Clear, SteerEnqueued, SteerConsumed, SteerRefused, SteerSettlesLate,
        SendRejectionNotice, CooldownElapses, CooldownTimerFires, FinishDrain,
        ForceShutdown, Stopped, vars
<1>2. Spec => [][Inert]_vars
  BY <1>1, TypeCorrect, AlwaysLinked, PTL DEF Spec
<1> QED
  BY <1>2 DEF ClearedTurnIsInert

-----------------------------------------------------------------------------
(* Every message is in at most one place, and what is done with it and its *)
(* media is done once: the queue settles the media of each message exactly *)
(* once, the agent sees no message twice, and the queue implements         *)
(* MessageCustody.                                                         *)

(* The messages waiting in the buffers of a state that is in the map, and  *)
(* those of a turn, a cleared state's turn included.                       *)
W(s) == IF Current(s) THEN Undelivered(st[s]) ELSE {}
T(s) == ElementsOf(turn[s].batch)

(* A waiting message has nothing done with it yet. *)
WaitingUntouched ==
  \A s \in QStates : \A m \in W(s) :
    /\ m <= offered /\ cleaned[m] = 0 /\ dropped[m] = 0 /\ taken[m] = 0
    /\ m \notin owned

(* A message of a turn belongs to the session once ownership went over,    *)
(* and the agent took it once it accepted the prompt.                      *)
InTurnAccounted ==
  \A s \in QStates : \A m \in T(s) :
    /\ m <= offered /\ cleaned[m] = 0 /\ dropped[m] = 0
    /\ m \in owned <=> ~turn[s].live
    /\ taken[m] = (IF turn[s].accepted THEN 1 ELSE 0)

(* No message is in two places. *)
OnePlace ==
  \A s, u \in QStates : /\ W(s) \cap T(u) = {}
                        /\ s # u => W(s) \cap W(u) = {} /\ T(s) \cap T(u) = {}

UnseenUntouched ==
  \A m \in Msgs : m > offered =>
    cleaned[m] = 0 /\ dropped[m] = 0 /\ taken[m] = 0 /\ m \notin owned

Injective(seq) == \A i, j \in DOMAIN seq : seq[i] = seq[j] => i = j

(* Splicing by indexOf removes a message for good. *)
CollectedOnce == \A s \in QStates : Current(s) => Injective(st[s].collect)

(* A message waits or is in a turn until its cleanup ran. *)
NothingLost ==
  \A m \in 1..offered : cleaned[m] = 0 => \E s \in QStates : m \in W(s) \cup T(s)

InCustody ==
  /\ WaitingUntouched /\ InTurnAccounted /\ OnePlace /\ UnseenUntouched
  /\ CollectedOnce /\ NothingLost /\ MediaSettledOnce /\ AgentSeesOnce

(* A step that offers no message.  Waiting messages of the states in S     *)
(* become the batches of their turns; X are the messages whose cleanup     *)
(* runs, D those whose dropCleanup runs, O goes to the session and A to    *)
(* the agent.                                                              *)
Moves(S, X, D, O, A) ==
  /\ UNCHANGED offered
  /\ cleaned' = Ran(cleaned, X)
  /\ dropped' = Ran(dropped, D)
  /\ taken' = Ran(taken, A)
  /\ owned' = owned \cup O
  /\ \A s \in QStates : s \in S => T(s)' \subseteq W(s) /\ W(s)' = {}
  /\ \A s \in QStates : s \notin S => T(s)' \subseteq T(s) /\ W(s)' \subseteq W(s)

(* Only messages that leave the queue are settled, and each as it ought to *)
(* be: reclaimed unless the session has it.  No other message leaves.      *)
SettlesLeaving(X, D, O, A) ==
  /\ \A s \in QStates : W(s) \cup T(s) \subseteq X \cup W(s)' \cup T(s)'
  /\ \A s \in QStates : /\ X \cap (W(s)' \cup T(s)') = {}
                        /\ (O \cup A) \cap W(s)' = {}
  /\ \A m \in X : m <= offered /\ cleaned[m] = 0 /\ dropped[m] = 0
  /\ \A m \in X \cup O : m \in D <=> m \notin owned'
  /\ D \subseteq X
  /\ \A m \in O : m <= offered /\ dropped[m] = 0
  /\ \A m \in A : m <= offered /\ taken[m] = 0

TurnsMatch ==
  \A s \in QStates : \A m \in T(s)' :
    /\ m \in owned' <=> ~turn'[s].live
    /\ taken'[m] = (IF turn'[s].accepted THEN 1 ELSE 0)

(* Custody ends one way at a time.                                         *)
Handles ==
  /\ TurnsMatch /\ CollectedOnce'
  /\ \E S, X, D, O, A : /\ Moves(S, X, D, O, A) /\ SettlesLeaving(X, D, O, A)
                        /\ O = {} \/ D = {}

LEMMA HandlesKeepsCustody ==
  ASSUME TypeOK, InCustody, Handles
  PROVE  InCustody'
<1>a. PICK S, X, D, O, A : Moves(S, X, D, O, A) /\ SettlesLeaving(X, D, O, A)
  BY DEF Handles
<1>b. TurnsMatch /\ CollectedOnce'
  BY DEF Handles
<1> USE <1>a, <1>b DEF Moves, SettlesLeaving, TurnsMatch
<1>0. /\ offered \in Nat /\ offered \in 0..NumMsgs
      /\ cleaned \in [Msgs -> Nat] /\ dropped \in [Msgs -> Nat] /\ taken \in [Msgs -> Nat]
      /\ Msgs \subseteq Nat
  BY MessageQueueAssumption DEF TypeOK, Msgs
<1>1. \A m \in Msgs : /\ cleaned'[m] = (IF m \in X THEN cleaned[m] + 1 ELSE cleaned[m])
                      /\ dropped'[m] = (IF m \in D THEN dropped[m] + 1 ELSE dropped[m])
                      /\ taken'[m] = (IF m \in A THEN taken[m] + 1 ELSE taken[m])
  BY DEF Ran
<1>2. \A s \in QStates : W(s) \subseteq Msgs /\ T(s) \subseteq Msgs
  <2> SUFFICES ASSUME NEW s \in QStates
               PROVE  W(s) \subseteq Msgs /\ T(s) \subseteq Msgs
    OBVIOUS
  <2>1. /\ st[s].pending \in Seq(Msgs) /\ st[s].collect \in Seq(Msgs)
        /\ turn[s].batch \in Seq(Msgs)
    BY DEF TypeOK, QueueState, TurnRecord
  <2>2. /\ ElementsOf(st[s].pending) \subseteq Msgs /\ ElementsOf(st[s].collect) \subseteq Msgs
        /\ ElementsOf(turn[s].batch) \subseteq Msgs
    BY <2>1, ElementsType
  <2> QED
    BY <2>2 DEF W, T, Undelivered
<1> HIDE DEF W, T
<1>3. \A s \in QStates : W(s)' \subseteq W(s) /\ (T(s)' \subseteq T(s) \/ T(s)' \subseteq W(s))
  OBVIOUS
<1>4. WaitingUntouched'
  <2> SUFFICES ASSUME NEW s \in QStates, NEW m \in W(s)'
               PROVE  /\ m <= offered' /\ cleaned'[m] = 0 /\ dropped'[m] = 0
                      /\ taken'[m] = 0 /\ m \notin owned'
    BY DEF WaitingUntouched
  <2>1. /\ m \in W(s) /\ m \in Msgs
        /\ m \notin X /\ m \notin D /\ m \notin O /\ m \notin A
    BY <1>2, <1>3
  <2>2. m <= offered /\ cleaned[m] = 0 /\ dropped[m] = 0 /\ taken[m] = 0 /\ m \notin owned
    BY <2>1 DEF InCustody, WaitingUntouched
  <2> QED
    BY <1>1, <2>1, <2>2
<1>5. InTurnAccounted'
  <2> SUFFICES ASSUME NEW s \in QStates, NEW m \in T(s)'
               PROVE  /\ m <= offered' /\ cleaned'[m] = 0 /\ dropped'[m] = 0
                      /\ m \in owned' <=> ~turn'[s].live
                      /\ taken'[m] = (IF turn'[s].accepted THEN 1 ELSE 0)
    BY DEF InTurnAccounted
  <2>1. m \in T(s) \cup W(s) /\ m \in Msgs /\ m \notin X /\ m \notin D
    BY <1>2, <1>3
  <2>2. m <= offered /\ cleaned[m] = 0 /\ dropped[m] = 0
    BY <2>1 DEF InCustody, WaitingUntouched, InTurnAccounted
  <2> QED
    BY <1>1, <2>1, <2>2
<1>6. OnePlace'
  <2> SUFFICES ASSUME NEW s \in QStates, NEW u \in QStates
               PROVE  /\ W(s)' \cap T(u)' = {}
                      /\ s # u => W(s)' \cap W(u)' = {} /\ T(s)' \cap T(u)' = {}
    BY DEF OnePlace
  <2>1. /\ W(s) \cap T(u) = {} /\ W(u) \cap T(s) = {}
        /\ s # u => W(s) \cap W(u) = {} /\ T(s) \cap T(u) = {}
    BY DEF InCustody, OnePlace
  <2>2. W(s)' \cap T(u)' = {}
    <3>1. CASE u \in S /\ u = s
      BY <3>1
    <3>2. CASE u \in S /\ u # s
      BY <1>3, <2>1, <3>2
    <3>3. CASE u \notin S
      BY <1>3, <2>1, <3>3
    <3> QED
      BY <3>1, <3>2, <3>3
  <2>3. s # u => W(s)' \cap W(u)' = {}
    BY <1>3, <2>1
  <2>4. s # u => T(s)' \cap T(u)' = {}
    BY <1>3, <2>1
  <2> QED
    BY <2>2, <2>3, <2>4
<1>7. UnseenUntouched'
  <2> SUFFICES ASSUME NEW m \in Msgs, m > offered
               PROVE  cleaned'[m] = 0 /\ dropped'[m] = 0 /\ taken'[m] = 0 /\ m \notin owned'
    BY DEF UnseenUntouched
  <2>1. m \notin X /\ m \notin D /\ m \notin O /\ m \notin A
    BY <1>0
  <2>2. cleaned[m] = 0 /\ dropped[m] = 0 /\ taken[m] = 0 /\ m \notin owned
    BY DEF InCustody, UnseenUntouched
  <2> QED
    BY <1>1, <2>1, <2>2
<1>8. MediaSettledOnce'
  <2> SUFFICES ASSUME NEW m \in Msgs
               PROVE  /\ cleaned'[m] <= 1 /\ dropped'[m] <= 1
                      /\ m \in owned' => dropped'[m] = 0
                      /\ cleaned'[m] = 1 => (m \in owned' \/ dropped'[m] = 1)
    BY DEF MediaSettledOnce
  <2>1. /\ cleaned[m] <= 1 /\ dropped[m] <= 1
        /\ m \in owned => dropped[m] = 0
        /\ cleaned[m] = 1 => (m \in owned \/ dropped[m] = 1)
    BY DEF InCustody, MediaSettledOnce
  <2>2. CASE m \in X
    BY <1>0, <1>1, <2>1, <2>2
  <2>3. CASE m \notin X
    <3>1. m \notin D /\ cleaned'[m] = cleaned[m] /\ dropped'[m] = dropped[m]
      BY <1>1, <2>3
    <3> QED
      BY <2>1, <3>1
  <2> QED
    BY <2>2, <2>3
<1>9. AgentSeesOnce'
  <2> SUFFICES ASSUME NEW m \in Msgs
               PROVE  taken'[m] <= 1
    BY DEF AgentSeesOnce
  <2>1. taken[m] <= 1
    BY DEF InCustody, AgentSeesOnce
  <2> QED
    BY <1>0, <1>1, <2>1
<1>10. NothingLost'
  <2> SUFFICES ASSUME NEW m \in 1..offered, cleaned'[m] = 0
               PROVE  \E s \in QStates : m \in W(s)' \cup T(s)'
    BY DEF NothingLost
  <2>1. m \in Msgs /\ cleaned[m] \in Nat
    BY <1>0, MessageQueueAssumption DEF Msgs
  <2>2. m \notin X /\ cleaned[m] = 0
    BY <1>1, <2>1
  <2>3. \E s \in QStates : m \in W(s) \cup T(s)
    BY <2>2 DEF InCustody, NothingLost
  <2> QED
    BY <2>2, <2>3
<1> QED
  BY <1>4, <1>5, <1>6, <1>7, <1>8, <1>9, <1>10 DEF InCustody

-----------------------------------------------------------------------------
(* The steps *)

LEMMA EmptyElements == ElementsOf(<<>>) = {}
BY DEF ElementsOf

LEMMA RanNone ==
  ASSUME NEW count \in [Msgs -> Nat]
  PROVE  Ran(count, {}) = count
BY DEF Ran

(* A step that settles, hands over and shows nothing to anybody. *)
LEMMA QuietStep ==
  ASSUME TypeOK, InCustody, UNCHANGED <<offered, cleaned, dropped, taken, owned>>,
         NEW S,
         \A s \in QStates : s \in S => /\ T(s)' = W(s) /\ W(s)' = {} /\ T(s) = {}
                                       /\ turn'[s].live = TRUE /\ turn'[s].accepted = FALSE,
         \A s \in QStates : s \notin S => /\ T(s)' = T(s) /\ W(s)' = W(s)
                                          /\ T(s)' # {} => /\ turn'[s].live = turn[s].live
                                                           /\ turn'[s].accepted = turn[s].accepted,
         CollectedOnce'
  PROVE  Handles
<1>1. TurnsMatch
  <2> SUFFICES ASSUME NEW s \in QStates, NEW m \in T(s)'
               PROVE  /\ m \in owned' <=> ~turn'[s].live
                      /\ taken'[m] = (IF turn'[s].accepted THEN 1 ELSE 0)
    BY DEF TurnsMatch
  <2>1. CASE s \in S
    BY <2>1 DEF InCustody, WaitingUntouched
  <2>2. CASE s \notin S
    BY <2>2 DEF InCustody, InTurnAccounted
  <2> QED
    BY <2>1, <2>2
<1>2. Moves(S, {}, {}, {}, {})
  BY RanNone DEF Moves, TypeOK
<1>3. SettlesLeaving({}, {}, {}, {})
  BY DEF SettlesLeaving
<1> QED
  BY <1>1, <1>2, <1>3 DEF Handles

(* What the types and the structure say about one state and its turn. *)
LEMMA StateFacts ==
  ASSUME TypeOK, Linked, NEW s \in QStates
  PROVE  /\ st[s] \in QueueState /\ turn[s] \in TurnRecord
         /\ st[s].pending \in Seq(Msgs) /\ st[s].collect \in Seq(Msgs)
         /\ turn[s].batch \in Seq(Msgs) /\ T(s) \subseteq Msgs /\ W(s) \subseteq Msgs
         /\ Current(s) => Unstranded(st[s], turn[s])
<1>1. /\ st \in [QStates -> QueueState] /\ turn \in [QStates -> TurnRecord]
      /\ queues \in [Chats -> QStates \cup {NoState}] /\ st[s].chat \in Chats
  BY StructureTypes
<1>2. /\ st[s].pending \in Seq(Msgs) /\ st[s].collect \in Seq(Msgs)
      /\ turn[s].batch \in Seq(Msgs)
  BY <1>1 DEF QueueState, TurnRecord
<1>3. T(s) \subseteq Msgs /\ W(s) \subseteq Msgs
  <2>1. /\ ElementsOf(st[s].pending) \subseteq Msgs /\ ElementsOf(st[s].collect) \subseteq Msgs
        /\ ElementsOf(turn[s].batch) \subseteq Msgs
    BY <1>2, ElementsType
  <2> QED
    BY <2>1 DEF T, W, Undelivered
<1>4. Current(s) => Unstranded(st[s], turn[s])
  BY <1>1, CurrentIsMapped, MessageQueueAssumption DEF Linked
<1> QED
  BY <1>1, <1>2, <1>3, <1>4

(* A step that changes flags and steering, a turn's phase, or takes states *)
(* off the map.                                                            *)
LEMMA FlagStep ==
  ASSUME TypeOK, InCustody,
         UNCHANGED <<offered, cleaned, dropped, taken, owned>>,
         \A s \in QStates : /\ Current(s)' => Current(s)
                            /\ Current(s)' \/ W(s) = {}
                            /\ Current(s)' => /\ st'[s].pending = st[s].pending
                                              /\ st'[s].collect = st[s].collect
                            /\ turn'[s].batch = turn[s].batch
                            /\ turn'[s].live = turn[s].live
                            /\ turn'[s].accepted = turn[s].accepted
  PROVE  Handles
<1>1. \A s \in QStates : W(s)' = W(s)
  BY DEF W, Undelivered
<1>2. \A s \in QStates : T(s)' = T(s)
  BY DEF T
<1>3. CollectedOnce'
  BY DEF InCustody, CollectedOnce
<1> DEFINE none == {}
<1>4. /\ \A s \in QStates : s \in none => /\ T(s)' = W(s) /\ W(s)' = {} /\ T(s) = {}
                                          /\ turn'[s].live = TRUE /\ turn'[s].accepted = FALSE
      /\ \A s \in QStates : s \notin none =>
            /\ T(s)' = T(s) /\ W(s)' = W(s)
            /\ T(s)' # {} => /\ turn'[s].live = turn[s].live
                             /\ turn'[s].accepted = turn[s].accepted
  BY <1>1, <1>2
<1> HIDE DEF none
<1> QED
  BY <1>3, <1>4, QuietStep

(* A step of one state object and its turn that leaves the map alone.      *)
LEMMA OneStateFrame ==
  ASSUME TypeOK, NEW s \in QStates, NEW q, NEW t,
         st' = [st EXCEPT ![s] = q], turn' = [turn EXCEPT ![s] = t],
         UNCHANGED queues, q.chat = st[s].chat
  PROVE  /\ st'[s] = q /\ turn'[s] = t
         /\ \A u \in QStates : /\ Current(u)' <=> Current(u)
                               /\ u # s => st'[u] = st[u] /\ turn'[u] = turn[u]
<1>1. st \in [QStates -> QueueState] /\ turn \in [QStates -> TurnRecord]
  BY StructureTypes
<1>2. /\ st'[s] = q /\ turn'[s] = t
      /\ \A u \in QStates : u # s => st'[u] = st[u] /\ turn'[u] = turn[u]
  BY <1>1
<1>3. \A u \in QStates : st'[u].chat = st[u].chat
  BY <1>2
<1>4. \A u \in QStates : Current(u)' <=> Current(u)
  BY <1>3 DEF Current
<1> QED
  BY <1>2, <1>4

LEMMA OneStateFlags ==
  ASSUME TypeOK, InCustody, NEW s \in QStates, NEW q, NEW t,
         st' = [st EXCEPT ![s] = q], turn' = [turn EXCEPT ![s] = t],
         UNCHANGED queues, q.chat = st[s].chat,
         q.pending = st[s].pending, q.collect = st[s].collect,
         t.batch = turn[s].batch, t.live = turn[s].live, t.accepted = turn[s].accepted,
         UNCHANGED <<offered, cleaned, dropped, taken, owned>>
  PROVE  Handles
<1>1. /\ st'[s] = q /\ turn'[s] = t
      /\ \A u \in QStates : /\ Current(u)' <=> Current(u)
                            /\ u # s => st'[u] = st[u] /\ turn'[u] = turn[u]
  BY OneStateFrame
<1>2. \A u \in QStates : /\ Current(u)' => Current(u)
                         /\ Current(u)' \/ W(u) = {}
                         /\ Current(u)' => /\ st'[u].pending = st[u].pending
                                           /\ st'[u].collect = st[u].collect
                         /\ turn'[u].batch = turn[u].batch
                         /\ turn'[u].live = turn[u].live
                         /\ turn'[u].accepted = turn[u].accepted
  BY <1>1 DEF W
<1> QED
  BY <1>2, FlagStep

LEMMA EnqueueCustody ==
  ASSUME TypeOK, TypeOK', Linked, Linked', InCustody, NEW c \in Chats, Enqueue(c)
  PROVE  InCustody'
<1> DEFINE m == offered + 1
           s == IF queues[c] # NoState THEN queues[c]
                ELSE CHOOSE u \in QStates : Unreferenced(u)
           q == TouchedState(c, s)
           full == Full(q)
           new == IF full THEN RejectSaturated(q)
                  ELSE IF q.busy THEN AttemptSteer(PushCollected(q, m))
                  ELSE [q EXCEPT !.pending = Append(@, m), !.timer = TRUE]
           old == IF queues[c] = NoState THEN FreshState(c) ELSE st[s]
<1>1. /\ queues \in [Chats -> QStates \cup {NoState}]
      /\ st \in [QStates -> QueueState] /\ turn \in [QStates -> TurnRecord]
      /\ offered \in Nat /\ cleaned \in [Msgs -> Nat] /\ dropped \in [Msgs -> Nat]
      /\ taken \in [Msgs -> Nat] /\ Msgs \subseteq Nat
  <2>1. /\ queues \in [Chats -> QStates \cup {NoState}]
        /\ st \in [QStates -> QueueState] /\ turn \in [QStates -> TurnRecord]
        /\ cleaned \in [Msgs -> Nat] /\ dropped \in [Msgs -> Nat] /\ taken \in [Msgs -> Nat]
        /\ offered \in 0..NumMsgs
    BY DEF TypeOK
  <2>2. offered \in Nat /\ Msgs \subseteq Nat
    BY <2>1, MessageQueueAssumption DEF Msgs
  <2> QED
    BY <2>1, <2>2
<1>2. s \in QStates /\ (queues[c] = NoState => Unreferenced(s))
  BY <1>1 DEF Enqueue
<1>3. /\ queues' = [queues EXCEPT ![c] = s] /\ offered' = m
      /\ st' = [st EXCEPT ![s] = new] /\ turn' = turn
      /\ cleaned' = (IF full THEN Ran(cleaned, {m}) ELSE cleaned)
      /\ dropped' = (IF full THEN Ran(dropped, {m}) ELSE dropped)
      /\ taken' = taken /\ owned' = owned
  BY DEF Enqueue
<1>4. m \in Msgs
  BY <1>1, MessageQueueAssumption DEF Enqueue, Msgs
<1>5. /\ old \in QueueState
      /\ q = [old EXCEPT !.platform = TRUE, !.cooldownTimer = FALSE]
  <2>1. FreshState(c) \in QueueState
    BY FreshStateSized DEF SizedStates
  <2> QED
    BY <1>1, <1>2, <2>1 DEF TouchedState
<1>6. /\ ElementsOf(old.pending) \cup ElementsOf(old.collect) = W(s)
      /\ (queues[c] # NoState => Current(s)) /\ Injective(old.collect)
  <2>1. CASE queues[c] = NoState
    <3>1. s \notin CurrentStates /\ ~Current(s)
      BY <1>2, <2>1, CurrentIsMapped DEF Unreferenced
    <3>2. old.pending = <<>> /\ old.collect = <<>>
      BY <2>1 DEF FreshState
    <3> HIDE DEF old, s
    <3>3. W(s) = {}
      BY <3>1 DEF W
    <3>4. Injective(old.collect)
      BY <3>2 DEF Injective
    <3> QED
      BY <2>1, <3>2, <3>3, <3>4, EmptyElements
  <2>2. CASE queues[c] # NoState
    <3>1. Current(s)
      BY <1>1, <1>2, <2>2, CurrentIsMapped
    <3>2. Injective(st[s].collect)
      BY <1>2, <3>1 DEF InCustody, CollectedOnce
    <3>3. old = st[s]
      BY <2>2
    <3> HIDE DEF old, s
    <3> QED
      BY <3>1, <3>2, <3>3 DEF W, Undelivered
  <2> QED
    BY <2>1, <2>2
<1> HIDE DEF old, q
<1>7. /\ q \in QueueState /\ q.pending = old.pending /\ q.collect = old.collect
      /\ q.pending \in Seq(Msgs) /\ q.collect \in Seq(Msgs)
  BY <1>5 DEF QueueState
<1>8. \A x \in W(s) : x <= offered
  BY <1>2 DEF InCustody, WaitingUntouched
<1>9. \A x \in ElementsOf(q.collect) : x <= offered
  BY <1>6, <1>7, <1>8
<1>10. /\ full => ElementsOf(new.pending) \cup ElementsOf(new.collect) = W(s)
       /\ ~full => ElementsOf(new.pending) \cup ElementsOf(new.collect) = W(s) \cup {m}
       /\ Injective(new.collect)
  <2>1. CASE full
    <3>1. new.pending = q.pending /\ new.collect = q.collect
      BY <1>7, <2>1, RejectSaturatedType
    <3> QED
      BY <1>6, <1>7, <2>1, <3>1
  <2>2. CASE ~full /\ q.busy
    <3> DEFINE p == PushCollected(q, m)
    <3>1. Append(q.collect, m) \in Seq(Msgs)
      BY <1>4, <1>7, AppendProperties
    <3>2. p \in QueueState /\ p.pending = q.pending /\ p.collect = Append(q.collect, m)
      BY <1>7, <3>1 DEF PushCollected, QueueState
    <3> HIDE DEF p
    <3>3. AttemptSteer(p).pending = p.pending /\ AttemptSteer(p).collect = p.collect
      BY <3>2, AttemptSteerType DEF SteeringApart
    <3>4. new = AttemptSteer(p)
      BY <2>2 DEF p
    <3> HIDE DEF new
    <3>5. ElementsOf(Append(q.collect, m)) = ElementsOf(q.collect) \cup {m}
      BY <1>4, <1>7, AppendElements
    <3>6. Injective(Append(q.collect, m))
      <4> DEFINE a == Append(q.collect, m)
      <4>1. /\ Len(q.collect) \in Nat /\ DOMAIN q.collect = 1..Len(q.collect)
            /\ DOMAIN a = 1..(Len(q.collect) + 1)
            /\ \A i \in 1..Len(q.collect) : a[i] = q.collect[i]
            /\ a[Len(q.collect) + 1] = m
        BY <1>4, <1>7, <3>1, AppendProperties, LenProperties
      <4> HIDE DEF a
      <4>2. \A i \in 1..Len(q.collect) : q.collect[i] # m
        <5>1. \A i \in 1..Len(q.collect) : q.collect[i] \in ElementsOf(q.collect)
          BY <4>1 DEF ElementsOf
        <5> QED
          BY <1>1, <1>4, <1>7, <1>9, <5>1, ElementOfSeq
      <4>3. Injective(q.collect)
        BY <1>6, <1>7
      <4> SUFFICES ASSUME NEW i \in DOMAIN a, NEW j \in DOMAIN a, a[i] = a[j]
                   PROVE  i = j
        BY DEF Injective, a
      <4>4. CASE i \in 1..Len(q.collect) /\ j \in 1..Len(q.collect)
        BY <4>1, <4>3, <4>4 DEF Injective
      <4>5. CASE i = Len(q.collect) + 1 \/ j = Len(q.collect) + 1
        BY <4>1, <4>2, <4>5
      <4> QED
        BY <4>1, <4>4, <4>5
    <3> QED
      BY <1>6, <1>7, <2>2, <3>2, <3>3, <3>4, <3>5, <3>6
  <2>3. CASE ~full /\ ~q.busy
    <3>1. new = [q EXCEPT !.pending = Append(@, m), !.timer = TRUE]
      BY <2>3
    <3>2. new.pending = Append(q.pending, m) /\ new.collect = q.collect
      BY <1>7, <3>1 DEF QueueState
    <3>3. ElementsOf(Append(q.pending, m)) = ElementsOf(q.pending) \cup {m}
      BY <1>4, <1>7, AppendElements
    <3> QED
      BY <1>6, <1>7, <2>3, <3>2, <3>3
  <2> QED
    BY <2>1, <2>2, <2>3
<1> HIDE DEF new, s, full
<1>11. ASSUME NEW u \in QStates
       PROVE  /\ u # s => (Current(u)' => Current(u)) /\ st'[u] = st[u]
              /\ W(u)' = (IF u = s THEN IF full THEN W(s) ELSE W(s) \cup {m} ELSE W(u))
              /\ T(u)' = T(u)
  <2>1. CASE u = s
    <3>1. /\ st'[u] = new /\ queues'[c] = s /\ s # NoState
      BY <1>1, <1>2, <1>3, <2>1, MessageQueueAssumption
    <3>2. Current(u)'
      <4>1. st'[s].chat = c
        BY <1>2, <2>1, <3>1 DEF Linked
      <4> QED
        BY <2>1, <3>1, <4>1 DEF Current
    <3> QED
      BY <1>3, <1>10, <2>1, <3>1, <3>2 DEF W, T, Undelivered
  <2>2. CASE u # s
    <3>1. st'[u] = st[u] /\ st[u].chat \in Chats
      BY <1>1, <1>2, <1>3, <2>2, StructureTypes
    <3>2. Current(u)' <=> Current(u)
      <4>1. CASE st[u].chat # c
        BY <1>1, <1>3, <3>1, <4>1 DEF Current
      <4>2. CASE st[u].chat = c
        <5>1. ~Current(u)'
          BY <1>1, <1>3, <2>2, <3>1, <4>2 DEF Current
        <5>2. ~Current(u)
          <6>1. CASE queues[c] = NoState
            BY <4>2, <6>1, MessageQueueAssumption DEF Current
          <6>2. CASE queues[c] # NoState
            BY <2>2, <4>2, <6>2 DEF Current, s
          <6> QED
            BY <6>1, <6>2
        <5> QED
          BY <5>1, <5>2
      <4> QED
        BY <4>1, <4>2
    <3> QED
      BY <1>3, <2>2, <3>1, <3>2 DEF W, T, Undelivered
  <2> QED
    BY <2>1, <2>2
<1>12. m > offered /\ offered' = offered + 1
  BY <1>1, <1>3
<1>13. /\ cleaned[m] = 0 /\ dropped[m] = 0 /\ taken[m] = 0 /\ m \notin owned
       /\ \A x \in Msgs : x # m => cleaned'[x] = cleaned[x] /\ dropped'[x] = dropped[x]
       /\ cleaned'[m] = (IF full THEN 1 ELSE 0) /\ dropped'[m] = (IF full THEN 1 ELSE 0)
  <2>1. cleaned[m] = 0 /\ dropped[m] = 0 /\ taken[m] = 0 /\ m \notin owned
    BY <1>4, <1>12 DEF InCustody, UnseenUntouched
  <2>2. \A x \in Msgs : /\ Ran(cleaned, {m})[x] = (IF x = m THEN cleaned[x] + 1 ELSE cleaned[x])
                        /\ Ran(dropped, {m})[x] = (IF x = m THEN dropped[x] + 1 ELSE dropped[x])
    BY DEF Ran
  <2> HIDE DEF m
  <2> QED
    BY <1>3, <1>4, <2>1, <2>2
<1>14. \A u \in QStates : /\ W(u) \subseteq Msgs /\ T(u) \subseteq Msgs
                          /\ m \notin W(u) /\ m \notin T(u)
  <2> SUFFICES ASSUME NEW u \in QStates
               PROVE  /\ W(u) \subseteq Msgs /\ T(u) \subseteq Msgs
                      /\ m \notin W(u) /\ m \notin T(u)
    OBVIOUS
  <2>1. (m \in W(u) => m <= offered) /\ (m \in T(u) => m <= offered)
    BY DEF InCustody, WaitingUntouched, InTurnAccounted
  <2> QED
    BY <1>1, <2>1, StateFacts
<1> HIDE DEF m
<1>15. WaitingUntouched'
  <2> SUFFICES ASSUME NEW u \in QStates, NEW x \in W(u)'
               PROVE  /\ x <= offered' /\ cleaned'[x] = 0 /\ dropped'[x] = 0
                      /\ taken'[x] = 0 /\ x \notin owned'
    BY DEF WaitingUntouched
  <2>1. CASE x = m
    <3>1. ~full
      BY <1>2, <1>11, <1>14, <2>1
    <3> QED
      BY <1>1, <1>3, <1>12, <1>13, <2>1, <3>1 DEF m
  <2>2. CASE x # m
    <3>1. x \in W(u) /\ x \in Msgs
      BY <1>2, <1>11, <1>14, <2>2
    <3>2. x <= offered /\ cleaned[x] = 0 /\ dropped[x] = 0 /\ taken[x] = 0 /\ x \notin owned
      BY <3>1 DEF InCustody, WaitingUntouched
    <3> QED
      BY <1>1, <1>3, <1>12, <1>13, <2>2, <3>1, <3>2
  <2> QED
    BY <2>1, <2>2
<1>16. InTurnAccounted'
  <2> SUFFICES ASSUME NEW u \in QStates, NEW x \in T(u)'
               PROVE  /\ x <= offered' /\ cleaned'[x] = 0 /\ dropped'[x] = 0
                      /\ x \in owned' <=> ~turn'[u].live
                      /\ taken'[x] = (IF turn'[u].accepted THEN 1 ELSE 0)
    BY DEF InTurnAccounted
  <2>1. x \in T(u) /\ x \in Msgs /\ x # m
    BY <1>11, <1>14
  <2>2. /\ x <= offered /\ cleaned[x] = 0 /\ dropped[x] = 0
        /\ x \in owned <=> ~turn[u].live
        /\ taken[x] = (IF turn[u].accepted THEN 1 ELSE 0)
    BY <2>1 DEF InCustody, InTurnAccounted
  <2> QED
    BY <1>1, <1>3, <1>12, <1>13, <2>1, <2>2
<1>17. OnePlace'
  <2> SUFFICES ASSUME NEW u \in QStates, NEW v \in QStates
               PROVE  /\ W(u)' \cap T(v)' = {}
                      /\ u # v => W(u)' \cap W(v)' = {} /\ T(u)' \cap T(v)' = {}
    BY DEF OnePlace
  <2>1. /\ W(u) \cap T(v) = {}
        /\ u # v => W(u) \cap W(v) = {} /\ T(u) \cap T(v) = {}
    BY DEF InCustody, OnePlace
  <2>2. /\ W(u)' \subseteq W(u) \cup {m} /\ (u # s => W(u)' = W(u))
        /\ W(v)' \subseteq W(v) \cup {m} /\ (v # s => W(v)' = W(v))
        /\ T(u)' = T(u) /\ T(v)' = T(v)
    BY <1>2, <1>11
  <2>3. /\ m \notin W(u) /\ m \notin W(v) /\ m \notin T(u) /\ m \notin T(v)
    BY <1>14
  <2> QED
    BY <2>1, <2>2, <2>3
<1>18. UnseenUntouched'
  <2> SUFFICES ASSUME NEW x \in Msgs, x > offered'
               PROVE  cleaned'[x] = 0 /\ dropped'[x] = 0 /\ taken'[x] = 0 /\ x \notin owned'
    BY DEF UnseenUntouched
  <2>1. x > offered /\ x # m
    BY <1>1, <1>12 DEF m
  <2> QED
    BY <1>3, <1>13, <2>1 DEF InCustody, UnseenUntouched
<1>19. CollectedOnce'
  <2> SUFFICES ASSUME NEW u \in QStates, Current(u)'
               PROVE  Injective(st'[u].collect)
    BY DEF CollectedOnce
  <2>1. CASE u = s
    BY <1>1, <1>3, <1>10, <2>1
  <2>2. CASE u # s
    BY <1>11, <2>2 DEF InCustody, CollectedOnce
  <2> QED
    BY <2>1, <2>2
<1>20. MediaSettledOnce' /\ AgentSeesOnce'
  <2>1. ASSUME NEW x \in Msgs
        PROVE  /\ cleaned'[x] <= 1 /\ dropped'[x] <= 1
               /\ x \in owned' => dropped'[x] = 0
               /\ cleaned'[x] = 1 => (x \in owned' \/ dropped'[x] = 1)
    <3>1. CASE x = m
      BY <1>3, <1>13, <3>1
    <3>2. CASE x # m
      BY <1>3, <1>13, <3>2 DEF InCustody, MediaSettledOnce
    <3> QED
      BY <3>1, <3>2
  <2>2. AgentSeesOnce'
    BY <1>3 DEF InCustody, AgentSeesOnce
  <2> QED
    BY <2>1, <2>2 DEF MediaSettledOnce
<1>21. NothingLost'
  <2> SUFFICES ASSUME NEW x \in 1..offered', cleaned'[x] = 0
               PROVE  \E u \in QStates : x \in W(u)' \cup T(u)'
    BY DEF NothingLost
  <2>1. CASE x = m
    BY <1>2, <1>11, <1>13, <2>1
  <2>2. CASE x # m
    <3>1. x \in 1..offered /\ x \in Msgs
      <4>1. x \in Nat /\ 1 <= x /\ x <= offered /\ x # offered + 1 /\ offered + 1 <= NumMsgs
        BY <1>1, <1>3, <1>4, <1>12, <2>2, MessageQueueAssumption DEF m, Msgs
      <4> QED
        BY <1>1, <4>1, MessageQueueAssumption DEF Msgs
    <3>2. cleaned[x] = 0
      BY <1>13, <2>2, <3>1
    <3>3. PICK u \in QStates : x \in W(u) \cup T(u)
      BY <3>1, <3>2 DEF InCustody, NothingLost
    <3> QED
      BY <1>11, <3>3
  <2> QED
    BY <2>1, <2>2
<1> QED
  BY <1>15, <1>16, <1>17, <1>18, <1>19, <1>20, <1>21 DEF InCustody

-----------------------------------------------------------------------------
(* Turns *)

LEMMA DebounceCustody ==
  ASSUME TypeOK, Linked, IdleTurnsEmpty, InCustody, NEW c \in Chats, DebounceFires(c)
  PROVE  Handles
<1>0. PICK s : s = queues[c]
  OBVIOUS
<1> DEFINE q == Flushed(st[s])
           t == NewTurn(st[s], st[s].pending, FALSE)
<1>1. /\ s \in QStates /\ Current(s) /\ st[s].pending # <<>>
      /\ st[s] \in QueueState /\ Unstranded(st[s], turn[s])
  <2>1. s \in QStates /\ st[s].pending # <<>>
    BY <1>0, StructureTypes DEF DebounceFires
  <2>2. Current(s)
    BY <1>0, <2>1, CurrentIsMapped
  <2> QED
    BY <2>1, <2>2, StateFacts
<1>2. st[s].collect = <<>>
  BY <1>1 DEF Unstranded
<1>3. q.chat = st[s].chat /\ q.pending = <<>> /\ q.collect = <<>>
  <2>1. SteeringApart(q, [st[s] EXCEPT !.busy = TRUE, !.timer = FALSE, !.pending = <<>>])
    BY <1>1, FlushedType
  <2> HIDE DEF q
  <2> QED
    BY <1>1, <1>2, <2>1 DEF SteeringApart, QueueState
<1>4. t.batch = st[s].pending /\ t.live = TRUE /\ t.accepted = FALSE
  BY DEF NewTurn
<1>5. /\ st' = [st EXCEPT ![s] = q] /\ turn' = [turn EXCEPT ![s] = t]
      /\ UNCHANGED <<queues, offered, cleaned, dropped, taken, owned>>
  BY <1>0 DEF DebounceFires
<1> HIDE DEF q, t
<1>6. /\ st'[s] = q /\ turn'[s] = t
      /\ \A u \in QStates : /\ Current(u)' <=> Current(u)
                            /\ u # s => st'[u] = st[u] /\ turn'[u] = turn[u]
  BY <1>1, <1>3, <1>5, OneStateFrame
<1>7. CollectedOnce'
  <2>1. Injective(<<>>)
    BY DEF Injective
  <2> QED
    BY <1>3, <1>6, <2>1 DEF InCustody, CollectedOnce
<1>8. T(s)' = ElementsOf(st[s].pending) /\ W(s)' = {}
  <2>1. T(s)' = ElementsOf(turn'[s].batch)
    BY DEF T
  <2>2. Undelivered(st'[s]) = {}
    BY <1>3, <1>6, EmptyElements DEF Undelivered
  <2> QED
    BY <1>4, <1>6, <2>1, <2>2 DEF W
<1>9. ElementsOf(st[s].pending) = W(s) /\ T(s) = {}
  <2>1. turn[s].phase = "none"
    BY <1>1 DEF Unstranded
  <2>2. T(s) = {}
    BY <1>1, <2>1, EmptyElements DEF T, IdleTurnsEmpty
  <2> QED
    BY <1>1, <1>2, <2>2, EmptyElements DEF W, Undelivered
<1>10. \A u \in QStates : u # s => T(u)' = T(u) /\ W(u)' = W(u)
  BY <1>6 DEF T, W
<1> DEFINE moving == {s}
<1>11. /\ \A u \in QStates : u \in moving => /\ T(u)' = W(u) /\ W(u)' = {} /\ T(u) = {}
                                             /\ turn'[u].live = TRUE /\ turn'[u].accepted = FALSE
       /\ \A u \in QStates : u \notin moving =>
             /\ T(u)' = T(u) /\ W(u)' = W(u)
             /\ T(u)' # {} => /\ turn'[u].live = turn[u].live
                              /\ turn'[u].accepted = turn[u].accepted
  <2>1. /\ T(s)' = W(s) /\ W(s)' = {} /\ T(s) = {}
        /\ turn'[s].live = TRUE /\ turn'[s].accepted = FALSE
    BY <1>4, <1>6, <1>8, <1>9
  <2>2. ASSUME NEW u \in QStates, u # s
        PROVE  /\ T(u)' = T(u) /\ W(u)' = W(u)
               /\ turn'[u] = turn[u]
    BY <1>6, <1>10, <2>2
  <2> QED
    BY <2>1, <2>2
<1> HIDE DEF moving
<1> QED
  BY <1>5, <1>7, <1>11, QuietStep

(* A turn ends: its media is reclaimed if nobody took it, and what was     *)
(* collected may become the next turn.                                     *)
LEMMA EndTurnCustody ==
  ASSUME TypeOK, Linked, InCustody, NEW s \in QStates, NEW q \in QueueState,
         SteeringApart(q, st[s]), turn[s].phase # "none", EndTurn(s, q),
         UNCHANGED <<queues, offered, taken, owned>>
  PROVE  Handles
<1>a. PICK batch, lost : /\ batch = ElementsOf(turn[s].batch)
                         /\ lost = IF turn[s].live THEN batch ELSE {}
  OBVIOUS
<1> DEFINE next == Current(s) /\ q.collect # <<>>
<1>b. PICK moving : moving = IF next THEN {s} ELSE {}
  OBVIOUS
<1>1. /\ q.chat = st[s].chat /\ q.pending = st[s].pending /\ q.collect = st[s].collect
      /\ Current(s) => st[s].pending = <<>>
  BY StateFacts DEF SteeringApart, Unstranded
<1>2. /\ cleaned \in [Msgs -> Nat] /\ dropped \in [Msgs -> Nat] /\ taken \in [Msgs -> Nat]
      /\ batch \subseteq Msgs /\ batch = T(s)
  BY <1>a, StateFacts DEF TypeOK, T
<1>3. PICK p, t : /\ st' = [st EXCEPT ![s] = p] /\ turn' = [turn EXCEPT ![s] = t]
                  /\ p.chat = st[s].chat /\ p.pending = st[s].pending
                  /\ p.collect = IF next THEN <<>> ELSE st[s].collect
                  /\ t.batch = IF next THEN st[s].collect ELSE <<>>
                  /\ next => t.live = TRUE /\ t.accepted = FALSE
  <2>1. CASE ~Current(s)
    <3>1. st' = [st EXCEPT ![s] = q] /\ turn' = [turn EXCEPT ![s] = NoTurn]
      BY <2>1 DEF EndTurn
    <3>2. NoTurn.batch = <<>>
      BY DEF NoTurn
    <3> QED
      BY <1>1, <2>1, <3>1, <3>2
  <2>2. CASE Current(s) /\ q.collect # <<>>
    <3> DEFINE r == [q EXCEPT !.collect = <<>>]
               t == NewTurn(q, q.collect, TRUE)
    <3>1. st' = [st EXCEPT ![s] = StartBusy(r)] /\ turn' = [turn EXCEPT ![s] = t]
      BY <2>2 DEF EndTurn, DrainsNext
    <3>2. r \in QueueState /\ r.chat = q.chat /\ r.pending = q.pending /\ r.collect = <<>>
      BY EmptySeq DEF QueueState
    <3> HIDE DEF r
    <3>3. SteeringApart(StartBusy(r), [r EXCEPT !.busy = TRUE])
      BY <3>2, StartBusyType
    <3>4. /\ StartBusy(r).chat = q.chat /\ StartBusy(r).pending = q.pending
          /\ StartBusy(r).collect = <<>>
      BY <3>2, <3>3 DEF SteeringApart, QueueState
    <3>5. t.batch = q.collect /\ t.live = TRUE /\ t.accepted = FALSE
      BY DEF NewTurn
    <3> HIDE DEF t
    <3> QED
      BY <1>1, <2>2, <3>1, <3>4, <3>5
  <2>3. CASE Current(s) /\ q.collect = <<>>
    <3>1. st' = [st EXCEPT ![s] = [q EXCEPT !.busy = FALSE]]
          /\ turn' = [turn EXCEPT ![s] = NoTurn]
      BY <2>3 DEF EndTurn, DrainsNext
    <3>2. /\ [q EXCEPT !.busy = FALSE].chat = q.chat
          /\ [q EXCEPT !.busy = FALSE].pending = q.pending
          /\ [q EXCEPT !.busy = FALSE].collect = q.collect
      BY DEF QueueState
    <3>3. NoTurn.batch = <<>>
      BY DEF NoTurn
    <3> QED
      BY <1>1, <2>3, <3>1, <3>2, <3>3
  <2> QED
    BY <2>1, <2>2, <2>3
<1>4. /\ cleaned' = Ran(cleaned, batch) /\ dropped' = Ran(dropped, lost)
      /\ taken' = Ran(taken, {}) /\ owned' = owned \cup {}
  <2>1. cleaned' = Ran(cleaned, batch)
    BY <1>a DEF EndTurn
  <2>2. dropped' = Ran(dropped, lost)
    BY <1>2, <1>a, RanNone DEF EndTurn, Reclaims
  <2> QED
    BY <1>2, <2>1, <2>2, RanNone
<1>5. /\ st'[s] = p /\ turn'[s] = t
      /\ \A u \in QStates : /\ Current(u)' <=> Current(u)
                            /\ u # s => st'[u] = st[u] /\ turn'[u] = turn[u]
  BY <1>3, OneStateFrame
<1>6. /\ next => T(s)' = W(s) /\ W(s)' = {}
      /\ ~next => T(s)' = {} /\ W(s)' = W(s)
  <2>1. CASE next
    <3>1. T(s)' = ElementsOf(st[s].collect)
      BY <1>3, <1>5, <2>1 DEF T
    <3>2. W(s)' = {}
      BY <1>1, <1>3, <1>5, <2>1, EmptyElements DEF W, Undelivered
    <3> QED
      BY <1>1, <2>1, <3>1, <3>2, EmptyElements DEF W, Undelivered
  <2>2. CASE ~next
    <3>1. T(s)' = {}
      BY <1>3, <1>5, <2>2, EmptyElements DEF T
    <3> QED
      BY <1>3, <1>5, <2>2, <3>1 DEF W, Undelivered
  <2> QED
    BY <2>1, <2>2
<1>7. \A u \in QStates : u # s => T(u)' = T(u) /\ W(u)' = W(u)
  BY <1>5 DEF T, W
<1>8. \A u \in QStates : batch \cap (W(u)' \cup T(u)') = {}
  <2> SUFFICES ASSUME NEW u \in QStates
               PROVE  batch \cap (W(u)' \cup T(u)') = {}
    OBVIOUS
  <2>1. /\ W(u) \cap T(s) = {} /\ W(s) \cap T(s) = {}
        /\ u # s => T(u) \cap T(s) = {}
    BY DEF InCustody, OnePlace
  <2> QED
    BY <1>2, <1>6, <1>7, <2>1
<1>9. /\ \A m \in batch : m <= offered /\ cleaned[m] = 0 /\ dropped[m] = 0
      /\ \A m \in batch : m \in lost <=> m \notin owned
  BY <1>2, <1>a DEF InCustody, InTurnAccounted
<1>10. CollectedOnce'
  <2>1. Injective(<<>>)
    BY DEF Injective
  <2> QED
    BY <1>3, <1>5, <2>1 DEF InCustody, CollectedOnce
<1>11. TurnsMatch
  <2> SUFFICES ASSUME NEW u \in QStates, NEW m \in T(u)'
               PROVE  /\ m \in owned' <=> ~turn'[u].live
                      /\ taken'[m] = (IF turn'[u].accepted THEN 1 ELSE 0)
    BY DEF TurnsMatch
  <2>1. CASE u = s
    <3>1. next /\ m \in W(s)
      BY <1>6, <2>1
    <3> QED
      BY <1>3, <1>5, <2>1, <3>1 DEF InCustody, WaitingUntouched
  <2>2. CASE u # s
    BY <1>5, <1>7, <2>2 DEF InCustody, InTurnAccounted
  <2> QED
    BY <2>1, <2>2
<1>12. /\ lost \subseteq batch
       /\ \A u \in QStates : u \in moving <=> u = s /\ next
  BY <1>a, <1>b
<1> HIDE DEF next
<1>13. Moves(moving, batch, lost, {}, {})
  BY <1>4, <1>6, <1>7, <1>12 DEF Moves
<1>14. SettlesLeaving(batch, lost, {}, {})
  <2>1. owned' = owned
    OBVIOUS
  <2>2. \A m \in batch : m \in lost <=> m \notin owned'
    BY <1>9, <2>1
  <2>3. \A u \in QStates : /\ batch \cap (W(u)' \cup T(u)') = {}
                          /\ ({} \cup {}) \cap W(u)' = {}
    BY <1>8
  <2>4. \A u \in QStates : W(u) \cup T(u) \subseteq batch \cup W(u)' \cup T(u)'
    BY <1>2, <1>6, <1>7
  <2> QED
    BY <1>9, <1>12, <2>2, <2>3, <2>4 DEF SettlesLeaving
<1> QED
  BY <1>10, <1>11, <1>13, <1>14 DEF Handles

(* The agent takes a prompt: the media goes to the session unless the      *)
(* state was cleared.                                                      *)
LEMMA AgentTakesPromptCustody ==
  ASSUME TypeOK, Linked, InCustody, NEW s \in QStates, AgentTakesPrompt(s)
  PROVE  Handles
<1> DEFINE t == [turn[s] EXCEPT !.accepted = TRUE, !.live = @ /\ ~TransfersOwnership(s)]
<1>1. PICK batch, given : /\ batch = ElementsOf(turn[s].batch)
                          /\ given = IF Current(s) THEN batch ELSE {}
  OBVIOUS
<1>2. /\ st \in [QStates -> QueueState] /\ turn \in [QStates -> TurnRecord]
      /\ turn[s] \in TurnRecord /\ batch = T(s) /\ batch \subseteq Msgs
      /\ cleaned \in [Msgs -> Nat] /\ dropped \in [Msgs -> Nat] /\ owned \subseteq Msgs
  BY <1>1, StructureTypes, StateFacts DEF T, TypeOK
<1>3. /\ t.batch = turn[s].batch /\ t.accepted = TRUE
      /\ t.live <=> turn[s].live /\ ~Current(s)
  BY <1>2 DEF TurnRecord, TransfersOwnership
<1>4. /\ st' = [st EXCEPT ![s] = st[s]] /\ turn' = [turn EXCEPT ![s] = t]
      /\ UNCHANGED <<queues, offered, cleaned, dropped>>
      /\ taken' = Ran(taken, batch) /\ owned' = owned \cup given
      /\ turn[s].accepted = FALSE
  BY <1>1, <1>2 DEF AgentTakesPrompt, TransfersOwnership, TurnRecord
<1> HIDE DEF t
<1>5. /\ st'[s] = st[s] /\ turn'[s] = t
      /\ \A u \in QStates : /\ Current(u)' <=> Current(u)
                            /\ u # s => st'[u] = st[u] /\ turn'[u] = turn[u]
  BY <1>4, OneStateFrame
<1>6. \A u \in QStates : T(u)' = T(u) /\ W(u)' = W(u)
  BY <1>3, <1>5 DEF T, W
<1>7. CollectedOnce'
  BY <1>5 DEF InCustody, CollectedOnce
<1>8. /\ \A m \in batch : m <= offered /\ dropped[m] = 0 /\ taken[m] = 0
      /\ \A m \in batch : m \in owned <=> ~turn[s].live
  BY <1>2, <1>4 DEF InCustody, InTurnAccounted
<1>9. \A m \in Msgs : taken'[m] = (IF m \in batch THEN taken[m] + 1 ELSE taken[m])
  BY <1>4 DEF Ran
<1>10. TurnsMatch
  <2> SUFFICES ASSUME NEW u \in QStates, NEW m \in T(u)'
               PROVE  /\ m \in owned' <=> ~turn'[u].live
                      /\ taken'[m] = (IF turn'[u].accepted THEN 1 ELSE 0)
    BY DEF TurnsMatch
  <2>1. m \in T(u) /\ m \in Msgs
    BY <1>6, StateFacts
  <2>2. CASE u = s
    <3>1. m \in batch
      BY <1>2, <2>1, <2>2
    <3>2. taken'[m] = 1
      BY <1>8, <1>9, <2>1, <3>1
    <3>3. m \in owned' <=> ~turn[s].live \/ Current(s)
      BY <1>1, <1>4, <1>8, <3>1
    <3> QED
      BY <1>3, <1>5, <2>2, <3>2, <3>3
  <2>3. CASE u # s
    <3>1. m \notin batch /\ m \notin given
      BY <1>1, <1>2, <2>1, <2>3 DEF InCustody, OnePlace
    <3> QED
      BY <1>4, <1>5, <1>9, <2>1, <2>3, <3>1 DEF InCustody, InTurnAccounted
  <2> QED
    BY <2>2, <2>3
<1>11. Moves({}, {}, {}, given, batch)
  BY <1>2, <1>4, <1>6, RanNone DEF Moves
<1>12. SettlesLeaving({}, {}, given, batch)
  <2>1. given \subseteq batch /\ given \subseteq owned'
    BY <1>1, <1>4
  <2>2. \A u \in QStates : batch \cap W(u)' = {}
    BY <1>2, <1>6 DEF InCustody, OnePlace
  <2> QED
    BY <1>6, <1>8, <2>1, <2>2 DEF SettlesLeaving
<1> QED
  BY <1>7, <1>10, <1>11, <1>12 DEF Handles

LEMMA TurnCustody ==
  ASSUME TypeOK, Linked, InCustody, NEW s \in QStates, TurnStep(s)
  PROVE  Handles
<1>1. /\ st \in [QStates -> QueueState] /\ turn \in [QStates -> TurnRecord]
      /\ st[s] \in QueueState /\ turn[s] \in TurnRecord
  BY StructureTypes
<1>2. \A phase : LET t == [turn[s] EXCEPT !.phase = phase]
                 IN t.batch = turn[s].batch /\ t.live = turn[s].live
                    /\ t.accepted = turn[s].accepted
  BY <1>1 DEF TurnRecord
<1>3. ASSUME SessionPrepared(s) \/ NoticeDelivered(s)
      PROVE  Handles
  <2>1. PICK phase : turn' = [turn EXCEPT ![s] = [turn[s] EXCEPT !.phase = phase]]
    <3>1. CASE SessionPrepared(s)
      <4>1. turn' = [turn EXCEPT ![s] = [turn[s] EXCEPT !.phase = "notice"]]
        BY <1>1, <3>1 DEF SessionPrepared
      <4> QED
        BY <4>1
    <3>2. CASE NoticeDelivered(s)
      <4>1. turn' = [turn EXCEPT ![s] = [turn[s] EXCEPT !.phase = "process"]]
        BY <1>1, <3>2 DEF NoticeDelivered
      <4> QED
        BY <4>1
    <3> QED
      BY <1>3, <3>1, <3>2
  <2>2. /\ st' = [st EXCEPT ![s] = st[s]]
        /\ UNCHANGED <<queues, offered, cleaned, dropped, taken, owned>>
    BY <1>1, <1>3 DEF SessionPrepared, NoticeDelivered
  <2> QED
    BY <1>2, <2>1, <2>2, OneStateFlags
<1>4. /\ SettleBusyGeneration(st[s]) \in QueueState
      /\ SteeringApart(SettleBusyGeneration(st[s]), st[s])
      /\ SteeringApart(st[s], st[s])
  BY <1>1, SettleBusyType DEF SteeringApart
<1>5. CASE AgentTakesPrompt(s)
  BY <1>5, AgentTakesPromptCustody
<1>6. CASE TurnSucceeds(s)
  <2>1. turn[s].phase # "none" /\ EndTurn(s, SettleBusyGeneration(st[s]))
        /\ UNCHANGED <<queues, offered, taken, owned>>
    BY <1>6 DEF TurnSucceeds
  <2> QED
    BY <1>4, <2>1, EndTurnCustody
<1>7. CASE TurnThrows(s) /\ Current(s)
  <2>1. /\ st' = [st EXCEPT ![s] = SettleBusyGeneration(st[s])]
        /\ turn' = [turn EXCEPT ![s] = [turn[s] EXCEPT !.phase = "reply"]]
        /\ UNCHANGED <<queues, offered, cleaned, dropped, taken, owned>>
    BY <1>1, <1>7 DEF TurnThrows
  <2>2. /\ SettleBusyGeneration(st[s]).chat = st[s].chat
        /\ SettleBusyGeneration(st[s]).pending = st[s].pending
        /\ SettleBusyGeneration(st[s]).collect = st[s].collect
    BY <1>4 DEF SteeringApart
  <2> QED
    BY <1>2, <2>1, <2>2, OneStateFlags
<1>8. CASE TurnThrows(s) /\ ~Current(s)
  <2>1. turn[s].phase # "none" /\ EndTurn(s, SettleBusyGeneration(st[s]))
        /\ UNCHANGED <<queues, offered, taken, owned>>
    BY <1>8 DEF TurnThrows
  <2> QED
    BY <1>4, <2>1, EndTurnCustody
<1>9. CASE ErrorReplied(s)
  <2>1. turn[s].phase # "none" /\ EndTurn(s, st[s])
        /\ UNCHANGED <<queues, offered, taken, owned>>
    BY <1>9 DEF ErrorReplied
  <2> QED
    BY <1>1, <1>4, <2>1, EndTurnCustody
<1> QED
  BY <1>3, <1>5, <1>6, <1>7, <1>8, <1>9 DEF TurnStep

-----------------------------------------------------------------------------
(* Steering *)

(* Splicing a message out of an injective buffer takes it out for good.    *)
LEMMA WithoutInjective ==
  ASSUME NEW seq \in Seq(Msgs), NEW m \in ElementsOf(seq), Injective(seq)
  PROVE  m \notin ElementsOf(Without(seq, m)) /\ Injective(Without(seq, m))
<1> DEFINE rest == Without(seq, m)
<1>1. PICK i \in 1..Len(seq) :
        /\ seq[i] = m
        /\ DOMAIN rest = 1..(Len(seq) - 1)
        /\ \A k \in 1..(Len(seq) - 1) : rest[k] = IF k <= i - 1 THEN seq[k] ELSE seq[k + 1]
  BY WithoutShape
<1>2. Len(seq) \in Nat /\ DOMAIN seq = 1..Len(seq)
  BY LenProperties
<1> HIDE DEF rest
<1>3. \A k \in 1..Len(seq) : seq[k] = m => k = i
  BY <1>1, <1>2 DEF Injective
<1>4. \A k \in 1..(Len(seq) - 1) : rest[k] # m
  <2> SUFFICES ASSUME NEW k \in 1..(Len(seq) - 1), rest[k] = m
               PROVE  FALSE
    OBVIOUS
  <2>1. CASE k <= i - 1
    BY <1>2, <1>1, <1>3, <2>1
  <2>2. CASE ~ (k <= i - 1)
    BY <1>2, <1>1, <1>3, <2>2
  <2> QED
    BY <2>1, <2>2
<1>5. Injective(rest)
  <2> SUFFICES ASSUME NEW j \in 1..(Len(seq) - 1), NEW k \in 1..(Len(seq) - 1),
                      rest[j] = rest[k]
               PROVE  j = k
    BY <1>1 DEF Injective
  <2>1. PICK a \in 1..Len(seq) : a = (IF j <= i - 1 THEN j ELSE j + 1) /\ rest[j] = seq[a]
    BY <1>2, <1>1
  <2>2. PICK b \in 1..Len(seq) : b = (IF k <= i - 1 THEN k ELSE k + 1) /\ rest[k] = seq[b]
    BY <1>2, <1>1
  <2>3. a = b
    BY <1>2, <2>1, <2>2 DEF Injective
  <2> QED
    BY <1>2, <2>1, <2>2, <2>3
<1> QED
  BY <1>1, <1>4, <1>5 DEF ElementsOf, rest

(* Pi consumed a collected message: the session has it, the buffer has not. *)
LEMMA SteerConsumedCustody ==
  ASSUME TypeOK, Linked, InCustody, NEW s \in QStates, NEW m \in Msgs,
         SteerConsumed(s, m), m \in ElementsOf(st[s].collect)
  PROVE  Handles
<1> DEFINE q == SteerForgotten(st[s], m)
           left == Without(st[s].collect, m)
           r == [q EXCEPT !.collect = left]
<1>1. /\ st \in [QStates -> QueueState] /\ turn \in [QStates -> TurnRecord]
      /\ st[s] \in QueueState /\ st[s].collect \in Seq(Msgs) /\ dropped \in [Msgs -> Nat]
      /\ Current(s) /\ Injective(st[s].collect) /\ st[s].pending = <<>>
  <2>1. Current(s) /\ st[s].busy
    BY DEF SteerConsumed, SteerIsLive
  <2>2. st[s].pending = <<>>
    BY <2>1, StateFacts DEF Unstranded
  <2> QED
    BY <2>1, <2>2, StructureTypes, StateFacts DEF InCustody, CollectedOnce, TypeOK
<1>2. /\ left \in Seq(Msgs) /\ ElementsOf(left) \subseteq ElementsOf(st[s].collect)
      /\ ElementsOf(st[s].collect) \subseteq ElementsOf(left) \cup {m}
      /\ m \notin ElementsOf(left) /\ Injective(left)
  BY <1>1, WithoutType, WithoutInjective
<1> HIDE DEF left
<1>3. /\ q \in QueueState /\ q.chat = st[s].chat /\ q.pending = st[s].pending
      /\ q.collect = st[s].collect
  BY <1>1 DEF SteerForgotten, QueueState
<1>4. m \in ElementsOf(q.collect) /\ left = Without(q.collect, m)
  BY <1>3 DEF left
<1>5. /\ st' = [st EXCEPT ![s] = AttemptSteer([q EXCEPT !.collect = Without(@, m)])]
      /\ cleaned' = Ran(cleaned, {m}) /\ taken' = Ran(taken, {m})
      /\ owned' = owned \cup {m} /\ UNCHANGED <<queues, turn, offered, dropped>>
  BY <1>4 DEF SteerConsumed
<1> HIDE DEF q
<1>6. [q EXCEPT !.collect = Without(@, m)] = r
  BY <1>3, <1>4 DEF QueueState
<1>7. r \in QueueState /\ r.chat = st[s].chat /\ r.pending = <<>> /\ r.collect = left
  BY <1>1, <1>2, <1>3 DEF QueueState
<1> HIDE DEF r
<1>8. /\ AttemptSteer(r).chat = st[s].chat /\ AttemptSteer(r).pending = <<>>
      /\ AttemptSteer(r).collect = left
  BY <1>7, AttemptSteerType DEF SteeringApart
<1>9. /\ st' = [st EXCEPT ![s] = AttemptSteer(r)] /\ turn' = [turn EXCEPT ![s] = turn[s]]
      /\ UNCHANGED queues
  BY <1>1, <1>5, <1>6
<1>10. /\ st'[s] = AttemptSteer(r)
       /\ \A u \in QStates : /\ Current(u)' <=> Current(u)
                             /\ u # s => st'[u] = st[u] /\ turn'[u] = turn[u]
  BY <1>8, <1>9, OneStateFrame
<1>11. W(s)' \subseteq W(s) \ {m} /\ W(s) \subseteq W(s)' \cup {m} /\ m \in W(s)
  BY <1>1, <1>2, <1>8, <1>10, EmptyElements DEF W, Undelivered
<1>12. \A u \in QStates : T(u)' = T(u) /\ (u # s => W(u)' = W(u))
  BY <1>5, <1>10 DEF T, W
<1>13. \A u \in QStates : /\ m \notin W(u)' /\ m \notin T(u)'
                          /\ W(u)' \subseteq W(u)
  <2> SUFFICES ASSUME NEW u \in QStates
               PROVE  m \notin W(u)' /\ m \notin T(u)' /\ W(u)' \subseteq W(u)
    OBVIOUS
  <2>1. W(s) \cap T(u) = {} /\ (u # s => W(s) \cap W(u) = {})
    BY DEF InCustody, OnePlace
  <2> QED
    BY <1>11, <1>12, <2>1
<1>14. /\ m <= offered /\ cleaned[m] = 0 /\ dropped[m] = 0 /\ taken[m] = 0
       /\ m \notin owned
  BY <1>11 DEF InCustody, WaitingUntouched
<1>15. CollectedOnce'
  BY <1>2, <1>8, <1>10 DEF InCustody, CollectedOnce
<1>16. TurnsMatch
  <2> SUFFICES ASSUME NEW u \in QStates, NEW x \in T(u)'
               PROVE  /\ x \in owned' <=> ~turn'[u].live
                      /\ taken'[x] = (IF turn'[u].accepted THEN 1 ELSE 0)
    BY DEF TurnsMatch
  <2>1. x \in T(u) /\ x \in Msgs /\ x # m
    BY <1>12, <1>13, StateFacts
  <2>2. taken'[x] = taken[x]
    BY <1>5, <2>1 DEF Ran
  <2> QED
    BY <1>5, <2>1, <2>2 DEF InCustody, InTurnAccounted
<1>17. Moves({}, {m}, {}, {m}, {m})
  BY <1>1, <1>5, <1>12, <1>13, RanNone DEF Moves
<1>18. SettlesLeaving({m}, {}, {m}, {m})
  <2>1. \A u \in QStates : W(u) \cup T(u) \subseteq {m} \cup W(u)' \cup T(u)'
    BY <1>11, <1>12
  <2> QED
    BY <1>5, <1>13, <1>14, <2>1 DEF SettlesLeaving
<1> QED
  BY <1>15, <1>16, <1>17, <1>18 DEF Handles

LEMMA SteerCustody ==
  ASSUME TypeOK, Linked, InCustody, NEW s \in QStates, SteerStep(s)
  PROVE  Handles
<1>1. /\ st \in [QStates -> QueueState] /\ turn \in [QStates -> TurnRecord]
      /\ st[s] \in QueueState
  BY StructureTypes
<1>2. PICK m \in Msgs : \/ SteerEnqueued(s, m) \/ SteerConsumed(s, m)
                       \/ SteerRefused(s, m) \/ SteerSettlesLate(s, m)
  BY DEF SteerStep
<1>3. ASSUME NEW q, st' = [st EXCEPT ![s] = q], q.chat = st[s].chat,
             q.pending = st[s].pending, q.collect = st[s].collect,
             UNCHANGED <<queues, turn, offered, cleaned, dropped, taken, owned>>
      PROVE  Handles
  <2>1. turn' = [turn EXCEPT ![s] = turn[s]]
    BY <1>1, <1>3
  <2> QED
    BY <1>3, <2>1, OneStateFlags
<1>4. /\ SteerForgotten(st[s], m).chat = st[s].chat
      /\ SteerForgotten(st[s], m).pending = st[s].pending
      /\ SteerForgotten(st[s], m).collect = st[s].collect
      /\ SteerForgotten(st[s], m) \in QueueState
  BY <1>1 DEF SteerForgotten, QueueState
<1>5. CASE SteerEnqueued(s, m)
  <2> DEFINE r == [st[s] EXCEPT !.submitting = NoMsg]
  <2>1. /\ st' = [st EXCEPT ![s] = AttemptSteer(r)]
        /\ UNCHANGED <<queues, turn, offered, cleaned, dropped, taken, owned>>
    BY <1>5 DEF SteerEnqueued
  <2>2. /\ r \in QueueState /\ r.chat = st[s].chat /\ r.pending = st[s].pending
        /\ r.collect = st[s].collect
    BY <1>1 DEF QueueState
  <2> HIDE DEF r
  <2>3. /\ AttemptSteer(r).chat = st[s].chat /\ AttemptSteer(r).pending = st[s].pending
        /\ AttemptSteer(r).collect = st[s].collect
    BY <2>2, AttemptSteerType DEF SteeringApart
  <2> QED
    BY <1>3, <2>1, <2>3
<1>6. CASE SteerConsumed(s, m) /\ m \in ElementsOf(st[s].collect)
  BY <1>6, SteerConsumedCustody
<1>7. CASE SteerConsumed(s, m) /\ m \notin ElementsOf(st[s].collect)
  <2>1. /\ st' = [st EXCEPT ![s] = SteerForgotten(st[s], m)]
        /\ UNCHANGED <<queues, turn, offered, cleaned, dropped, taken, owned>>
    BY <1>4, <1>7 DEF SteerConsumed
  <2> QED
    BY <1>3, <1>4, <2>1
<1>8. CASE SteerRefused(s, m)
  <2> DEFINE r == [SteerForgotten(st[s], m) EXCEPT !.blocked = TRUE]
  <2>1. /\ st' = [st EXCEPT ![s] = r]
        /\ UNCHANGED <<queues, turn, offered, cleaned, dropped, taken, owned>>
    BY <1>1, <1>8 DEF SteerRefused
  <2>2. r.chat = st[s].chat /\ r.pending = st[s].pending /\ r.collect = st[s].collect
    BY <1>4 DEF QueueState
  <2> HIDE DEF r
  <2> QED
    BY <1>3, <2>1, <2>2
<1>9. CASE SteerSettlesLate(s, m)
  <2> DEFINE r == [st[s] EXCEPT !.calls = @ \ {m}]
  <2>1. /\ st' = [st EXCEPT ![s] = r]
        /\ UNCHANGED <<queues, turn, offered, cleaned, dropped, taken, owned>>
    BY <1>1, <1>9 DEF SteerSettlesLate
  <2>2. r.chat = st[s].chat /\ r.pending = st[s].pending /\ r.collect = st[s].collect
    BY <1>1 DEF QueueState
  <2> HIDE DEF r
  <2> QED
    BY <1>3, <2>1, <2>2
<1> QED
  BY <1>2, <1>5, <1>6, <1>7, <1>8, <1>9

-----------------------------------------------------------------------------
(* Eviction, clear and shutdown *)

(* Dropping what waits in the states K, whose map entries go.              *)
LEMMA DropCustody ==
  ASSUME TypeOK, InCustody, UNCHANGED <<turn, offered, taken, owned>>,
         NEW K \in SUBSET QStates, NEW lost,
         lost = UNION {W(s) : s \in K},
         cleaned' = Ran(cleaned, lost), dropped' = Ran(dropped, lost),
         \A s \in QStates : s \in K => ~Current(s)',
         \A s \in QStates : s \notin K => /\ Current(s)' <=> Current(s)
                                          /\ st'[s] = st[s]
  PROVE  Handles
<1>1. \A s \in QStates : /\ T(s)' = T(s) /\ W(s)' \subseteq W(s)
                         /\ s \in K => W(s)' = {}
                         /\ s \notin K => W(s)' = W(s)
  BY DEF T, W
<1>2. \A s \in QStates : lost \cap (W(s)' \cup T(s)') = {}
  <2> SUFFICES ASSUME NEW s \in QStates, NEW u \in QStates, u \in K
               PROVE  W(u) \cap (W(s)' \cup T(s)') = {}
    OBVIOUS
  <2>1. W(u) \cap T(s) = {} /\ (u # s => W(u) \cap W(s) = {})
    BY DEF InCustody, OnePlace
  <2> QED
    BY <1>1, <2>1
<1>3. /\ \A m \in lost : m <= offered /\ cleaned[m] = 0 /\ dropped[m] = 0
      /\ \A m \in lost : m \notin owned
  <2> SUFFICES ASSUME NEW u \in QStates, NEW m \in W(u)
               PROVE  /\ m <= offered /\ cleaned[m] = 0 /\ dropped[m] = 0
                      /\ m \notin owned
    OBVIOUS
  <2> QED
    BY DEF InCustody, WaitingUntouched
<1>4. CollectedOnce'
  BY DEF InCustody, CollectedOnce
<1>5. TurnsMatch
  <2> SUFFICES ASSUME NEW s \in QStates, NEW m \in T(s)'
               PROVE  /\ m \in owned' <=> ~turn'[s].live
                      /\ taken'[m] = (IF turn'[s].accepted THEN 1 ELSE 0)
    BY DEF TurnsMatch
  <2> QED
    BY <1>1 DEF InCustody, InTurnAccounted
<1>6. Moves({}, lost, lost, {}, {})
  BY <1>1, RanNone DEF Moves, TypeOK
<1>7. SettlesLeaving(lost, lost, {}, {})
  <2>1. \A s \in QStates : W(s) \cup T(s) \subseteq lost \cup W(s)' \cup T(s)'
    BY <1>1
  <2> QED
    BY <1>2, <1>3, <2>1 DEF SettlesLeaving
<1> QED
  BY <1>4, <1>5, <1>6, <1>7 DEF Handles

LEMMA ClearCustody ==
  ASSUME TypeOK, Linked, InCustody, NEW c \in Chats, Clear(c)
  PROVE  Handles
<1>1. PICK s \in QStates : s = queues[c]
  BY StructureTypes DEF Clear
<1>2. /\ st \in [QStates -> QueueState] /\ queues \in [Chats -> QStates \cup {NoState}]
      /\ Current(s) /\ st[s].chat = c
  BY <1>1, StructureTypes, CurrentIsMapped, MessageQueueAssumption DEF Linked
<1>3. /\ st' = [st EXCEPT ![s] = Detached(st[s])] /\ queues' = [queues EXCEPT ![c] = NoState]
      /\ cleaned' = Ran(cleaned, Undelivered(st[s]))
      /\ dropped' = Ran(dropped, Undelivered(st[s]))
      /\ UNCHANGED <<turn, offered, taken, owned>>
  BY <1>1 DEF Clear
<1>4. PICK K \in SUBSET QStates : K = {s}
  OBVIOUS
<1>5. PICK lost : lost = Undelivered(st[s])
  OBVIOUS
<1>6. lost = UNION {W(u) : u \in K}
  BY <1>2, <1>4, <1>5 DEF W
<1>7. cleaned' = Ran(cleaned, lost) /\ dropped' = Ran(dropped, lost)
  BY <1>3, <1>5
<1>8. \A u \in QStates : u \in K => ~Current(u)'
  <2>1. st'[s].chat = c
    BY <1>2, <1>3, DetachedType
  <2>2. ~Current(s)'
    BY <1>2, <1>3, <2>1, MessageQueueAssumption DEF Current
  <2> QED
    BY <1>4, <2>2
<1>9. \A u \in QStates : u \notin K => (Current(u)' <=> Current(u)) /\ st'[u] = st[u]
  <2> SUFFICES ASSUME NEW u \in QStates, u # s
               PROVE  (Current(u)' <=> Current(u)) /\ st'[u] = st[u]
    BY <1>4
  <2>1. st'[u] = st[u] /\ st[u].chat \in Chats
    BY <1>2, <1>3, StructureTypes
  <2>2. Current(u)' <=> queues[st[u].chat] = u
    BY <1>1, <1>2, <1>3, <2>1, MessageQueueAssumption DEF Current
  <2> QED
    BY <2>1, <2>2 DEF Current
<1> QED
  BY <1>3, <1>6, <1>7, <1>8, <1>9, DropCustody

LEMMA ClearAllCustody ==
  ASSUME TypeOK, Linked, InCustody, ClearAll, UNCHANGED <<turn, offered, taken, owned>>
  PROVE  Handles
<1>1. PICK K \in SUBSET QStates : K = CurrentStates
  BY StructureTypes DEF CurrentStates
<1>2. PICK lost : lost = UNION {Undelivered(st[s]) : s \in CurrentStates}
  OBVIOUS
<1>3. \A s \in K : Current(s)
  BY <1>1, CurrentIsMapped
<1>4. lost = UNION {W(s) : s \in K}
  BY <1>1, <1>2, <1>3 DEF W
<1>5. cleaned' = Ran(cleaned, lost) /\ dropped' = Ran(dropped, lost)
  BY <1>2 DEF ClearAll
<1>6. \A s \in QStates : st'[s].chat = st[s].chat /\ st[s].chat \in Chats
  BY StructureTypes, DetachedType DEF ClearAll
<1>7. \A s \in QStates : ~Current(s)'
  BY <1>6, MessageQueueAssumption DEF Current, ClearAll
<1>8. \A s \in QStates : s \notin K => st'[s] = st[s] /\ ~Current(s)
  BY <1>1, CurrentIsMapped DEF ClearAll
<1> QED
  BY <1>4, <1>5, <1>7, <1>8, DropCustody

(* evictIfIdle: st' keeps the buffers of every state, the map loses one.   *)
LEMMA EvictCustody ==
  ASSUME TypeOK, Linked, InCustody, NEW c \in Chats, NEW sts \in [QStates -> QueueState],
         \A s \in QStates : /\ sts[s].chat = st[s].chat /\ sts[s].pending = st[s].pending
                            /\ sts[s].collect = st[s].collect,
         EvictIfIdle(c, sts), UNCHANGED <<turn, offered, cleaned, dropped, taken, owned>>
  PROVE  Handles
<1>1. queues \in [Chats -> QStates \cup {NoState}]
  BY StructureTypes
<1>2. /\ queues' = queues \/ queues' = [queues EXCEPT ![c] = NoState]
      /\ \A s \in QStates : /\ st'[s].chat = st[s].chat /\ st'[s].pending = st[s].pending
                            /\ st'[s].collect = st[s].collect
  <2>1. CASE st' = sts
    BY <2>1 DEF EvictIfIdle
  <2>2. CASE st' = [sts EXCEPT ![queues[c]].platform = FALSE,
                               ![queues[c]].cooldownTimer = TRUE]
    <3>1. \A q \in QueueState :
            LET r == [[q EXCEPT !.platform = FALSE] EXCEPT !.cooldownTimer = TRUE]
            IN r.chat = q.chat /\ r.pending = q.pending /\ r.collect = q.collect
      BY DEF QueueState
    <3> QED
      BY <2>2, <3>1 DEF EvictIfIdle
  <2> QED
    BY <2>1, <2>2 DEF EvictIfIdle
<1>3. \A s \in QStates : Current(s)' => Current(s)
  <2> SUFFICES ASSUME NEW s \in QStates, Current(s)'
               PROVE  Current(s)
    OBVIOUS
  <2>1. queues'[st[s].chat] = s /\ st[s].chat \in Chats
    BY <1>2, StructureTypes DEF Current
  <2> QED
    BY <1>1, <1>2, <2>1, MessageQueueAssumption DEF Current
<1>4. \A s \in QStates : Current(s)' \/ W(s) = {}
  <2> SUFFICES ASSUME NEW s \in QStates, Current(s), ~Current(s)'
               PROVE  W(s) = {}
    BY DEF W
  <2>1. queues[st[s].chat] = s /\ queues'[st[s].chat] # s /\ st[s].chat \in Chats
    BY <1>2, StructureTypes DEF Current
  <2>2. queues[c] = s /\ queues' # queues
    BY <1>1, <1>2, <2>1
  <2>3. Idle(sts[s])
    BY <2>2 DEF EvictIfIdle
  <2>4. st[s].pending = <<>> /\ st[s].collect = <<>>
    BY <2>3 DEF Idle
  <2> QED
    BY <2>4, EmptyElements DEF W, Undelivered
<1> QED
  BY <1>2, <1>3, <1>4, FlagStep

(* beginShutdown and flushPending: what was debounced becomes turns.       *)
LEMMA BeginShutdownCustody ==
  ASSUME TypeOK, Linked, IdleTurnsEmpty, InCustody, BeginShutdown
  PROVE  Handles
<1>1. PICK moving : moving = {s \in QStates : Starts(s)}
  OBVIOUS
<1>2. /\ st \in [QStates -> QueueState] /\ turn \in [QStates -> TurnRecord]
      /\ UNCHANGED <<queues, offered, cleaned, dropped, taken, owned>>
  BY StructureTypes DEF BeginShutdown
<1>3. ASSUME NEW s \in QStates, Starts(s)
      PROVE  /\ st'[s].chat = st[s].chat /\ st'[s].collect = <<>>
             /\ T(s)' = W(s) /\ W(s)' = {} /\ T(s) = {}
             /\ turn'[s].live = TRUE /\ turn'[s].accepted = FALSE
  <2>1. Current(s) /\ st[s].collect = <<>> /\ st[s] \in QueueState /\ turn[s].phase = "none"
    <3>1. Current(s)
      BY <1>3, CurrentIsMapped DEF Starts
    <3>2. Unstranded(st[s], turn[s])
      BY <3>1, StateFacts
    <3> QED
      BY <1>2, <1>3, <3>1, <3>2 DEF Unstranded, Starts
  <2>2. st'[s] = Flushed(st[s]) /\ turn'[s] = NewTurn(st[s], st[s].pending, FALSE)
    BY <1>3 DEF BeginShutdown
  <2>3. /\ Flushed(st[s]).chat = st[s].chat /\ Flushed(st[s]).pending = <<>>
        /\ Flushed(st[s]).collect = <<>>
    <3>1. SteeringApart(Flushed(st[s]), [st[s] EXCEPT !.busy = TRUE, !.timer = FALSE,
                                                      !.pending = <<>>])
      BY <2>1, FlushedType
    <3> QED
      BY <2>1, <3>1 DEF SteeringApart, QueueState
  <2>4. W(s)' = {}
    BY <2>2, <2>3, EmptyElements DEF W, Undelivered
  <2>5. T(s)' = ElementsOf(st[s].pending)
    BY <2>2 DEF T, NewTurn
  <2>6. T(s)' = W(s) /\ T(s) = {}
    <3>1. T(s) = {}
      BY <2>1, EmptyElements DEF T, IdleTurnsEmpty
    <3> QED
      BY <2>1, <2>5, <3>1, EmptyElements DEF W, Undelivered
  <2> QED
    BY <2>2, <2>3, <2>4, <2>6 DEF NewTurn
<1>4. ASSUME NEW s \in QStates, ~Starts(s)
      PROVE  /\ st'[s].chat = st[s].chat /\ st'[s].collect = st[s].collect
             /\ st'[s].pending = st[s].pending /\ turn'[s] = turn[s]
  BY <1>2, <1>4 DEF BeginShutdown, QueueState
<1>5. \A s \in QStates : Current(s)' <=> Current(s)
  BY <1>2, <1>3, <1>4 DEF Current
<1>6. \A s \in QStates : ~Starts(s) => T(s)' = T(s) /\ W(s)' = W(s)
  BY <1>4, <1>5 DEF T, W, Undelivered
<1>7. CollectedOnce'
  <2>1. Injective(<<>>)
    BY DEF Injective
  <2> QED
    BY <1>3, <1>4, <1>5, <2>1 DEF InCustody, CollectedOnce
<1>8. /\ \A s \in QStates : s \in moving => /\ T(s)' = W(s) /\ W(s)' = {} /\ T(s) = {}
                                            /\ turn'[s].live = TRUE /\ turn'[s].accepted = FALSE
      /\ \A s \in QStates : s \notin moving =>
            /\ T(s)' = T(s) /\ W(s)' = W(s)
            /\ T(s)' # {} => /\ turn'[s].live = turn[s].live
                             /\ turn'[s].accepted = turn[s].accepted
  BY <1>1, <1>3, <1>4, <1>6
<1> QED
  BY <1>2, <1>7, <1>8, QuietStep

-----------------------------------------------------------------------------
(* Every step *)

(* A message refused after beginShutdown is settled on the spot.           *)
LEMMA RefuseCustody ==
  ASSUME TypeOK, InCustody, RefuseMessage
  PROVE  InCustody'
<1>1. PICK m : m = offered + 1
  OBVIOUS
<1>2. /\ offered \in Nat /\ m \in Msgs /\ m > offered /\ Msgs \subseteq Nat
      /\ cleaned \in [Msgs -> Nat] /\ dropped \in [Msgs -> Nat]
  <2>1. /\ offered \in 0..NumMsgs /\ offered < NumMsgs
        /\ cleaned \in [Msgs -> Nat] /\ dropped \in [Msgs -> Nat]
    BY DEF TypeOK, RefuseMessage
  <2> QED
    BY <1>1, <2>1, MessageQueueAssumption DEF Msgs
<1>3. /\ offered' = m /\ cleaned' = Ran(cleaned, {m}) /\ dropped' = Ran(dropped, {m})
      /\ UNCHANGED <<queues, st, turn, taken, owned>>
  BY <1>1 DEF RefuseMessage
<1>4. /\ cleaned[m] = 0 /\ dropped[m] = 0 /\ taken[m] = 0 /\ m \notin owned
  BY <1>2 DEF InCustody, UnseenUntouched
<1>5. /\ cleaned'[m] = 1 /\ dropped'[m] = 1
      /\ \A x \in Msgs : x # m => cleaned'[x] = cleaned[x] /\ dropped'[x] = dropped[x]
  BY <1>2, <1>3, <1>4 DEF Ran
<1>6. \A s \in QStates : W(s)' = W(s) /\ T(s)' = T(s)
  BY <1>3 DEF W, T, Current
<1>7. \A s \in QStates : \A x \in W(s) \cup T(s) : x \in Msgs
  <2>1. \A s \in QStates : W(s) \subseteq Msgs /\ T(s) \subseteq Msgs
    <3> SUFFICES ASSUME NEW s \in QStates
                 PROVE  W(s) \subseteq Msgs /\ T(s) \subseteq Msgs
      OBVIOUS
    <3>1. /\ st[s].pending \in Seq(Msgs) /\ st[s].collect \in Seq(Msgs)
          /\ turn[s].batch \in Seq(Msgs)
      BY DEF TypeOK, QueueState, TurnRecord
    <3>2. /\ ElementsOf(st[s].pending) \subseteq Msgs /\ ElementsOf(st[s].collect) \subseteq Msgs
          /\ ElementsOf(turn[s].batch) \subseteq Msgs
      BY <3>1, ElementsType
    <3> QED
      BY <3>2 DEF W, T, Undelivered
  <2> QED
    BY <2>1
<1>8. \A s \in QStates : \A x \in W(s) \cup T(s) : x # m /\ x <= offered'
  <2> SUFFICES ASSUME NEW s \in QStates, NEW x \in W(s) \cup T(s)
               PROVE  x # m /\ x <= offered'
    OBVIOUS
  <2>1. x <= offered
    BY DEF InCustody, WaitingUntouched, InTurnAccounted
  <2>2. x \in Nat
    BY <1>2, <1>7
  <2> QED
    BY <1>1, <1>2, <1>3, <2>1, <2>2
<1>9. WaitingUntouched'
  BY <1>3, <1>5, <1>6, <1>7, <1>8 DEF InCustody, WaitingUntouched
<1>10. InTurnAccounted'
  <2> SUFFICES ASSUME NEW s \in QStates, NEW x \in T(s)
               PROVE  /\ x <= offered' /\ cleaned'[x] = 0 /\ dropped'[x] = 0
                      /\ x \in owned' <=> ~turn'[s].live
                      /\ taken'[x] = (IF turn'[s].accepted THEN 1 ELSE 0)
    BY <1>6 DEF InTurnAccounted
  <2>1. x \in Msgs /\ x # m /\ x <= offered'
    BY <1>7, <1>8
  <2>2. /\ cleaned[x] = 0 /\ dropped[x] = 0
        /\ x \in owned <=> ~turn[s].live
        /\ taken[x] = (IF turn[s].accepted THEN 1 ELSE 0)
    BY DEF InCustody, InTurnAccounted
  <2> QED
    BY <1>3, <1>5, <2>1, <2>2
<1>11. OnePlace'
  BY <1>6 DEF InCustody, OnePlace
<1>12. UnseenUntouched'
  <2> SUFFICES ASSUME NEW x \in Msgs, x > offered'
               PROVE  cleaned'[x] = 0 /\ dropped'[x] = 0 /\ taken'[x] = 0 /\ x \notin owned'
    BY DEF UnseenUntouched
  <2>1. x > offered /\ x # m
    BY <1>1, <1>2, <1>3
  <2> QED
    BY <1>3, <1>5, <2>1 DEF InCustody, UnseenUntouched
<1>13. CollectedOnce'
  BY <1>3 DEF InCustody, CollectedOnce, Current
<1>14. MediaSettledOnce'
  <2> SUFFICES ASSUME NEW x \in Msgs
               PROVE  /\ cleaned'[x] <= 1 /\ dropped'[x] <= 1
                      /\ x \in owned' => dropped'[x] = 0
                      /\ cleaned'[x] = 1 => (x \in owned' \/ dropped'[x] = 1)
    BY DEF MediaSettledOnce
  <2>1. CASE x = m
    BY <1>3, <1>4, <1>5, <2>1
  <2>2. CASE x # m
    BY <1>3, <1>5, <2>2 DEF InCustody, MediaSettledOnce
  <2> QED
    BY <2>1, <2>2
<1>15. AgentSeesOnce'
  BY <1>3 DEF InCustody, AgentSeesOnce
<1>16. NothingLost'
  <2> SUFFICES ASSUME NEW x \in 1..offered', cleaned'[x] = 0
               PROVE  \E s \in QStates : x \in W(s) \cup T(s)
    BY <1>6 DEF NothingLost
  <2>1. x # m /\ x \in 1..offered
    BY <1>1, <1>2, <1>3, <1>5
  <2>2. x \in Msgs
    BY <1>2, <1>3, <2>1, MessageQueueAssumption DEF Msgs
  <2> QED
    BY <1>5, <2>1, <2>2 DEF InCustody, NothingLost
<1> QED
  BY <1>9, <1>10, <1>11, <1>12, <1>13, <1>14, <1>15, <1>16 DEF InCustody

(* Every step that offers no message. *)
LEMMA StepsHandle ==
  ASSUME TypeOK, Linked, IdleTurnsEmpty, InCustody, [Next]_vars,
         ~RefuseMessage, \A c \in Chats : ~Enqueue(c)
  PROVE  Handles
<1>0. /\ queues \in [Chats -> QStates \cup {NoState}]
      /\ st \in [QStates -> QueueState] /\ turn \in [QStates -> TurnRecord]
  BY StructureTypes
<1>1. ASSUME NEW c \in Chats, ChatStep(c)
      PROVE  Handles
  <2>1. CASE DebounceFires(c)
    BY <2>1, DebounceCustody
  <2>2. CASE FlushEvicts(c)
    <3>1. EvictIfIdle(c, st) /\ UNCHANGED <<turn, offered, cleaned, dropped, taken, owned>>
      BY <2>2 DEF FlushEvicts
    <3> QED
      BY <1>0, <3>1, EvictCustody
  <2>3. CASE Clear(c)
    BY <2>3, ClearCustody
  <2> QED
    BY <1>1, <2>1, <2>2, <2>3 DEF ChatStep
<1>2. ASSUME NEW s \in QStates, TurnStep(s)
      PROVE  Handles
  BY <1>2, TurnCustody
<1>3. ASSUME NEW s \in QStates, SteerStep(s)
      PROVE  Handles
  BY <1>3, SteerCustody
<1>4. ASSUME NEW s \in QStates, StateStep(s)
      PROVE  Handles
  <2>1. turn' = turn /\ turn = [turn EXCEPT ![s] = turn[s]] /\ st[s] \in QueueState
    BY <1>0, <1>4 DEF StateStep, SendRejectionNotice, CooldownElapses, CooldownTimerFires
  <2>2. CASE SendRejectionNotice(s)
    <3>1. /\ st' = [st EXCEPT ![s] = [st[s] EXCEPT !.noticeScheduled = FALSE]]
          /\ UNCHANGED <<queues, offered, cleaned, dropped, taken, owned>>
      BY <1>0, <2>2 DEF SendRejectionNotice
    <3>2. LET r == [st[s] EXCEPT !.noticeScheduled = FALSE]
          IN r.chat = st[s].chat /\ r.pending = st[s].pending /\ r.collect = st[s].collect
      BY <2>1 DEF QueueState
    <3> QED
      BY <2>1, <3>1, <3>2, OneStateFlags
  <2>3. CASE CooldownElapses(s)
    <3>1. /\ st' = [st EXCEPT ![s] = [st[s] EXCEPT !.cooling = FALSE]]
          /\ UNCHANGED <<queues, offered, cleaned, dropped, taken, owned>>
      BY <1>0, <2>3 DEF CooldownElapses
    <3>2. LET r == [st[s] EXCEPT !.cooling = FALSE]
          IN r.chat = st[s].chat /\ r.pending = st[s].pending /\ r.collect = st[s].collect
      BY <2>1 DEF QueueState
    <3> QED
      BY <2>1, <3>1, <3>2, OneStateFlags
  <2>4. CASE CooldownTimerFires(s)
    <3> DEFINE sts == [st EXCEPT ![s].cooldownTimer = FALSE]
    <3>1. /\ EvictIfIdle(st[s].chat, sts)
          /\ UNCHANGED <<turn, offered, cleaned, dropped, taken, owned>>
      BY <2>4 DEF CooldownTimerFires
    <3>2. /\ sts \in [QStates -> QueueState]
          /\ \A u \in QStates : /\ sts[u].chat = st[u].chat /\ sts[u].pending = st[u].pending
                                /\ sts[u].collect = st[u].collect
      <4>1. \A q \in QueueState :
              LET r == [q EXCEPT !.cooldownTimer = FALSE]
              IN /\ r \in QueueState /\ r.chat = q.chat /\ r.pending = q.pending
                 /\ r.collect = q.collect
        BY DEF QueueState
      <4> QED
        BY <1>0, <4>1
    <3>3. st[s].chat \in Chats
      BY StructureTypes
    <3> HIDE DEF sts
    <3> QED
      BY <3>1, <3>2, <3>3, EvictCustody
  <2> QED
    BY <1>4, <2>2, <2>3, <2>4 DEF StateStep
<1>5. CASE BeginShutdown
  BY <1>5, BeginShutdownCustody
<1>6. CASE FinishDrain
  BY <1>6, ClearAllCustody DEF FinishDrain
<1>7. CASE ForceShutdown
  BY <1>7, ClearAllCustody DEF ForceShutdown
<1>8. CASE UNCHANGED vars
  <2>1. /\ UNCHANGED <<offered, cleaned, dropped, taken, owned>>
        /\ queues' = queues /\ st' = st /\ turn' = turn
    BY <1>8 DEF vars
  <2>2. \A s \in QStates : (Current(s)' <=> Current(s)) /\ (Current(s)' \/ W(s) = {})
    BY <2>1 DEF Current, W
  <2> QED
    BY <2>1, <2>2, FlagStep
<1>9. CASE Stopped
  BY <1>8, <1>9 DEF Stopped
<1> QED
  BY <1>1, <1>2, <1>3, <1>4, <1>5, <1>6, <1>7, <1>8, <1>9 DEF Next

LEMMA NextCustody == TypeOK /\ TypeOK' /\ Linked /\ Linked' /\ IdleTurnsEmpty
                     /\ InCustody /\ [Next]_vars => InCustody'
<1> SUFFICES ASSUME TypeOK, TypeOK', Linked, Linked', IdleTurnsEmpty, InCustody, [Next]_vars
             PROVE  InCustody'
  OBVIOUS
<1>1. CASE RefuseMessage
  BY <1>1, RefuseCustody
<1>2. ASSUME NEW c \in Chats, Enqueue(c)
      PROVE  InCustody'
  BY <1>2, EnqueueCustody
<1>3. CASE ~RefuseMessage /\ \A c \in Chats : ~Enqueue(c)
  BY <1>3, StepsHandle, HandlesKeepsCustody
<1> QED
  BY <1>1, <1>2, <1>3

LEMMA InitCustody == Init => InCustody
<1> SUFFICES ASSUME Init
             PROVE  InCustody
  OBVIOUS
<1>1. /\ \A s \in QStates : st[s] = FreshState(CHOOSE c \in Chats : TRUE) /\ turn[s] = NoTurn
      /\ \A m \in Msgs : cleaned[m] = 0 /\ dropped[m] = 0 /\ taken[m] = 0
      /\ owned = {}
  BY DEF Init
<1>2. \A s \in QStates : st[s].pending = <<>> /\ st[s].collect = <<>> /\ turn[s].batch = <<>>
  <2>1. \A c : FreshState(c).pending = <<>> /\ FreshState(c).collect = <<>>
    BY DEF FreshState
  <2>2. NoTurn.batch = <<>>
    BY DEF NoTurn
  <2> QED
    BY <1>1, <2>1, <2>2
<1>3. \A s \in QStates : W(s) = {} /\ T(s) = {}
  BY <1>2, EmptyElements DEF W, T, Undelivered
<1>4. WaitingUntouched /\ InTurnAccounted /\ OnePlace
  BY <1>3 DEF WaitingUntouched, InTurnAccounted, OnePlace
<1>5. UnseenUntouched /\ MediaSettledOnce /\ AgentSeesOnce
  BY <1>1 DEF UnseenUntouched, MediaSettledOnce, AgentSeesOnce
<1>6. CollectedOnce
  BY <1>2 DEF CollectedOnce, Injective
<1>7. NothingLost
  BY DEF Init, NothingLost
<1> QED
  BY <1>4, <1>5, <1>6, <1>7 DEF InCustody

LEMMA AlwaysInCustody == Spec => []InCustody
BY NextCustody, InitCustody, TypeCorrect, AlwaysLinked, AlwaysIdleTurnsEmpty, PTL DEF Spec

(* For any number of chats and messages and any cap: the media of every    *)
(* message is settled at most once, and never both kept and reclaimed.     *)
THEOREM MediaIsSettledOnce == Spec => []MediaSettledOnce
<1>1. InCustody => MediaSettledOnce
  BY DEF InCustody
<1> QED
  BY <1>1, AlwaysInCustody, PTL

(* For any number of chats and messages: no message reaches the agent      *)
(* twice, by steering or in a batch.                                       *)
THEOREM AgentSeesMessagesOnce == Spec => []AgentSeesOnce
<1>1. InCustody => AgentSeesOnce
  BY DEF InCustody
<1> QED
  BY <1>1, AlwaysInCustody, PTL

-----------------------------------------------------------------------------
(* Order: a chat's messages wait and run in the order they were sent, and  *)
(* the steering bookkeeping refers to none that left the collect buffer.   *)

Before(a, b) == \A x \in ElementsOf(a), y \in ElementsOf(b) : x < y

Sorted(q, t) ==
  /\ Increasing(q.pending) /\ Increasing(q.collect) /\ Increasing(t.batch)
  /\ Before(t.batch, q.collect)

(* Steering never refers to an entry that left the buffer, and is off once *)
(* its busy generation is settled: replyError's await included.            *)
Steered(q, t) ==
  /\ q.submitting # NoMsg => q.submitting \in q.steerPending
  /\ q.steerPending \subseteq ElementsOf(q.collect) \cap q.calls
  /\ t.phase \in {"none", "reply"} => q.steerPending = {}
  /\ t.phase = "reply" => q.blocked

InOrder == \A s \in QStates :
             Current(s) => Sorted(st[s], turn[s]) /\ Steered(st[s], turn[s])

LEMMA EmptyInOrder ==
  /\ Increasing(<<>>)
  /\ \A a : Before(<<>>, a) /\ Before(a, <<>>)
<1>1. DOMAIN <<>> = {}
  OBVIOUS
<1> QED
  BY <1>1, EmptyElements DEF Increasing, Before

LEMMA AppendInOrder ==
  ASSUME NEW seq \in Seq(Msgs), NEW m \in Msgs, Increasing(seq),
         \A x \in ElementsOf(seq) : x < m
  PROVE  Increasing(Append(seq, m))
<1> DEFINE a == Append(seq, m)
<1>1. /\ a \in Seq(Msgs) /\ Len(a) = Len(seq) + 1
      /\ \A i \in 1..Len(seq) : a[i] = seq[i]
      /\ a[Len(seq) + 1] = m
  BY AppendProperties
<1>2. DOMAIN a = 1..(Len(seq) + 1) /\ DOMAIN seq = 1..Len(seq) /\ Len(seq) \in Nat
  BY <1>1, LenProperties
<1> HIDE DEF a
<1>3. \A i \in 1..Len(seq) : seq[i] < m
  BY <1>2 DEF ElementsOf
<1> SUFFICES ASSUME NEW i \in 1..(Len(seq) + 1), NEW j \in 1..(Len(seq) + 1), i < j
             PROVE  a[i] < a[j]
  BY <1>2 DEF Increasing, a
<1>4. i \in 1..Len(seq)
  BY <1>2
<1>5. CASE j \in 1..Len(seq)
  BY <1>1, <1>2, <1>4, <1>5 DEF Increasing
<1>6. CASE j = Len(seq) + 1
  BY <1>1, <1>3, <1>4, <1>6
<1> QED
  BY <1>2, <1>5, <1>6

LEMMA WithoutInOrder ==
  ASSUME NEW seq \in Seq(Msgs), NEW m \in ElementsOf(seq), Increasing(seq)
  PROVE  Increasing(Without(seq, m))
<1> DEFINE rest == Without(seq, m)
<1>1. PICK i \in 1..Len(seq) :
        /\ seq[i] = m
        /\ DOMAIN rest = 1..(Len(seq) - 1)
        /\ \A k \in 1..(Len(seq) - 1) : rest[k] = IF k <= i - 1 THEN seq[k] ELSE seq[k + 1]
  BY WithoutShape
<1>2. Len(seq) \in Nat /\ DOMAIN seq = 1..Len(seq)
  BY LenProperties
<1> HIDE DEF rest
<1> SUFFICES ASSUME NEW j \in 1..(Len(seq) - 1), NEW k \in 1..(Len(seq) - 1), j < k
             PROVE  rest[j] < rest[k]
  BY <1>1 DEF Increasing, rest
<1>3. PICK a \in 1..Len(seq) : a = (IF j <= i - 1 THEN j ELSE j + 1) /\ rest[j] = seq[a]
  BY <1>1, <1>2
<1>4. PICK b \in 1..Len(seq) : b = (IF k <= i - 1 THEN k ELSE k + 1) /\ rest[k] = seq[b]
  BY <1>1, <1>2
<1>5. a < b
  BY <1>2, <1>3, <1>4
<1> QED
  BY <1>2, <1>3, <1>4, <1>5 DEF Increasing

(* Steering offers an entry of the buffer, and only while the turn runs. *)
LEMMA AttemptSteerSteered ==
  ASSUME NEW q \in QueueState, NEW t, Steered(q, t), t.phase = "none" => ~q.busy
  PROVE  Steered(AttemptSteer(q), t)
<1>1. CASE q.busy /\ ~q.blocked /\ q.submitting = NoMsg /\ Fresh(q) # {}
  <2> DEFINE m == FirstFresh(q)
  <2>1. m \in Msgs /\ m \in ElementsOf(q.collect)
    BY <1>1, FirstFreshEntry
  <2>2. AttemptSteer(q) = [q EXCEPT !.submitting = m, !.steerPending = @ \cup {m},
                                    !.calls = @ \cup {m}]
    BY <1>1 DEF AttemptSteer
  <2> HIDE DEF m
  <2>3. PICK p : p = AttemptSteer(q)
    OBVIOUS
  <2>4. /\ p.submitting = m /\ p.steerPending = q.steerPending \cup {m}
        /\ p.calls = q.calls \cup {m} /\ p.collect = q.collect
    BY <2>2, <2>3 DEF QueueState
  <2>5. t.phase \notin {"none", "reply"}
    BY <1>1 DEF Steered
  <2>6. Steered(p, t)
    BY <2>1, <2>4, <2>5 DEF Steered
  <2> QED
    BY <2>3, <2>6
<1>2. CASE ~(q.busy /\ ~q.blocked /\ q.submitting = NoMsg /\ Fresh(q) # {})
  BY <1>2 DEF AttemptSteer
<1> QED
  BY <1>1, <1>2

LEMMA SettledSteered ==
  ASSUME NEW q \in QueueState, NEW t
  PROVE  Steered(SettleBusyGeneration(q), t)
BY DEF SettleBusyGeneration, QueueState, Steered

(* A turn starts with no steering, and with steering off when it has no    *)
(* platform to answer on.                                                  *)
LEMMA StartBusySteered ==
  ASSUME NEW q \in QueueState, NEW p, p.platform = q.platform, NEW batch, NEW drain
  PROVE  Steered(StartBusy(q), NewTurn(p, batch, drain))
<1>1. BeginBusyGeneration(q) \in QueueState
  BY DEF BeginBusyGeneration, QueueState
<1>2. CASE ~q.platform
  BY <1>1, <1>2, SettledSteered DEF StartBusy
<1>3. CASE q.platform
  <2>1. PICK r : r = BeginBusyGeneration(q)
    OBVIOUS
  <2>2. r.submitting = NoMsg /\ r.steerPending = {}
    BY <2>1 DEF BeginBusyGeneration, QueueState
  <2>3. NewTurn(p, batch, drain).phase = "prepare"
    BY <1>3 DEF NewTurn
  <2>4. Steered(r, NewTurn(p, batch, drain))
    BY <2>2, <2>3 DEF Steered
  <2> QED
    BY <1>3, <2>1, <2>4 DEF StartBusy
<1> QED
  BY <1>2, <1>3

(* A started turn runs what waited, in its order, and nothing waits.       *)
LEMMA StartedSorted ==
  ASSUME NEW q, NEW t, q.pending = <<>>, q.collect = <<>>, Increasing(t.batch)
  PROVE  Sorted(q, t)
BY EmptyInOrder DEF Sorted

LEMMA OneStateInOrder ==
  ASSUME TypeOK, InOrder, NEW s \in QStates, NEW q, NEW t,
         st' = [st EXCEPT ![s] = q], turn' = [turn EXCEPT ![s] = t],
         UNCHANGED queues, q.chat = st[s].chat,
         Current(s) => Sorted(q, t) /\ Steered(q, t)
  PROVE  InOrder'
<1>1. /\ st'[s] = q /\ turn'[s] = t
      /\ \A u \in QStates : /\ Current(u)' <=> Current(u)
                            /\ u # s => st'[u] = st[u] /\ turn'[u] = turn[u]
  BY OneStateFrame
<1> SUFFICES ASSUME NEW u \in QStates, Current(u)'
             PROVE  Sorted(st'[u], turn'[u]) /\ Steered(st'[u], turn'[u])
  BY DEF InOrder
<1> QED
  BY <1>1 DEF InOrder

(* What enqueue does to the state s it finds or makes, old before and new  *)
(* after, and to the others.                                               *)
Enqueued(c, s, old, q, new) ==
  /\ \/ old = FreshState(c) /\ turn[s].phase = "none"
     \/ old = st[s] /\ Current(s)
  /\ q = [old EXCEPT !.platform = TRUE, !.cooldownTimer = FALSE]
  /\ Unstranded(q, turn[s])
  /\ new = IF Full(q) THEN RejectSaturated(q)
           ELSE IF q.busy THEN AttemptSteer(PushCollected(q, offered + 1))
           ELSE [q EXCEPT !.pending = Append(@, offered + 1), !.timer = TRUE]
  /\ st'[s] = new /\ turn' = turn
  /\ \A u \in QStates : u # s => (Current(u)' => Current(u)) /\ st'[u] = st[u]

LEMMA EnqueueShape ==
  ASSUME TypeOK, TypeOK', Linked, Linked', NEW c \in Chats, Enqueue(c)
  PROVE  \E s \in QStates : \E old, q, new \in QueueState : Enqueued(c, s, old, q, new)
<1> DEFINE s == IF queues[c] # NoState THEN queues[c]
                ELSE CHOOSE u \in QStates : Unreferenced(u)
           q == TouchedState(c, s)
           new == IF Full(q) THEN RejectSaturated(q)
                  ELSE IF q.busy THEN AttemptSteer(PushCollected(q, offered + 1))
                  ELSE [q EXCEPT !.pending = Append(@, offered + 1), !.timer = TRUE]
           old == IF queues[c] = NoState THEN FreshState(c) ELSE st[s]
<1>1. /\ queues \in [Chats -> QStates \cup {NoState}]
      /\ st \in [QStates -> QueueState] /\ turn \in [QStates -> TurnRecord]
      /\ st' \in [QStates -> QueueState]
  BY StructureTypes DEF TypeOK
<1>2. s \in QStates /\ (queues[c] = NoState => Unreferenced(s))
  BY <1>1 DEF Enqueue
<1>3. queues' = [queues EXCEPT ![c] = s] /\ st' = [st EXCEPT ![s] = new] /\ turn' = turn
  BY DEF Enqueue
<1>4. /\ \/ old = FreshState(c) /\ turn[s].phase = "none"
         \/ old = st[s] /\ Current(s)
      /\ old \in QueueState /\ Unstranded(old, turn[s])
  <2>1. CASE queues[c] = NoState
    <3>1. old = FreshState(c) /\ turn[s].phase = "none"
      BY <1>2, <2>1 DEF Unreferenced
    <3>2. FreshState(c) \in QueueState
      BY FreshStateSized DEF SizedStates
    <3>3. Unstranded(FreshState(c), turn[s])
      BY <3>1 DEF FreshState, Unstranded
    <3> QED
      BY <3>1, <3>2, <3>3
  <2>2. CASE queues[c] # NoState
    <3>1. old = st[s] /\ s = queues[c]
      BY <2>2
    <3>2. Current(s)
      BY <1>2, <3>1, CurrentIsMapped
    <3> HIDE DEF old, s
    <3> QED
      BY <1>1, <1>2, <3>1, <3>2, StateFacts
  <2> QED
    BY <2>1, <2>2
<1>5. q = [old EXCEPT !.platform = TRUE, !.cooldownTimer = FALSE]
  BY DEF TouchedState
<1>6. st'[s] = new /\ new \in QueueState
  BY <1>1, <1>2, <1>3
<1>7. ASSUME NEW u \in QStates, u # s
      PROVE  (Current(u)' => Current(u)) /\ st'[u] = st[u]
  <2>1. st'[u] = st[u] /\ st[u].chat \in Chats
    BY <1>1, <1>2, <1>3, <1>7, StructureTypes
  <2>2. Current(u)' => Current(u)
    BY <1>1, <1>3, <1>7, <2>1 DEF Current
  <2> QED
    BY <2>1, <2>2
<1> HIDE DEF old, q, s
<1>8. q \in QueueState /\ Unstranded(q, turn[s])
  <2>1. /\ q \in QueueState /\ q.pending = old.pending
        /\ q.timer = old.timer /\ q.collect = old.collect /\ q.busy = old.busy
        /\ q.platform = TRUE
    BY <1>4, <1>5 DEF QueueState
  <2> QED
    BY <1>4, <2>1 DEF Unstranded
<1> HIDE DEF new
<1>9. /\ new = IF Full(q) THEN RejectSaturated(q)
               ELSE IF q.busy THEN AttemptSteer(PushCollected(q, offered + 1))
               ELSE [q EXCEPT !.pending = Append(@, offered + 1), !.timer = TRUE]
  BY DEF new
<1>10. \A u \in QStates : u # s => (Current(u)' => Current(u)) /\ st'[u] = st[u]
  BY <1>7
<1>11. Enqueued(c, s, old, q, new)
  BY <1>3, <1>4, <1>5, <1>6, <1>8, <1>9, <1>10 DEF Enqueued
<1> QED
  BY <1>2, <1>4, <1>6, <1>8, <1>11

(* The newest message goes last, in either buffer. *)
LEMMA EnqueueInOrder ==
  ASSUME TypeOK, TypeOK', Linked, Linked', IdleTurnsEmpty, InCustody, InOrder,
         NEW c \in Chats, Enqueue(c)
  PROVE  InOrder'
<1>0. PICK s \in QStates, old \in QueueState, q \in QueueState, new \in QueueState :
        Enqueued(c, s, old, q, new)
  BY EnqueueShape
<1>1. /\ \/ old = FreshState(c) /\ turn[s].phase = "none"
         \/ old = st[s] /\ Current(s)
      /\ q = [old EXCEPT !.platform = TRUE, !.cooldownTimer = FALSE]
      /\ Unstranded(q, turn[s])
      /\ new = IF Full(q) THEN RejectSaturated(q)
               ELSE IF q.busy THEN AttemptSteer(PushCollected(q, offered + 1))
               ELSE [q EXCEPT !.pending = Append(@, offered + 1), !.timer = TRUE]
      /\ st'[s] = new /\ turn' = turn
      /\ \A u \in QStates : u # s => (Current(u)' => Current(u)) /\ st'[u] = st[u]
  BY <1>0 DEF Enqueued
<1>2. PICK m : m = offered + 1
  OBVIOUS
<1>3. m \in Msgs /\ Msgs \subseteq Nat /\ offered \in Nat
  <2>1. offered \in 0..NumMsgs /\ offered < NumMsgs
    BY DEF TypeOK, Enqueue
  <2> QED
    BY <1>2, <2>1, MessageQueueAssumption DEF Msgs
<1>4. Sorted(old, turn[s]) /\ Steered(old, turn[s])
  <2>1. CASE old = FreshState(c) /\ turn[s].phase = "none"
    <3>1. turn[s].batch = <<>>
      BY <2>1 DEF IdleTurnsEmpty
    <3>2. /\ old.pending = <<>> /\ old.collect = <<>> /\ old.submitting = NoMsg
          /\ old.steerPending = {}
      BY <2>1 DEF FreshState
    <3> QED
      BY <2>1, <3>1, <3>2, EmptyInOrder DEF Sorted, Steered
  <2>2. CASE old = st[s] /\ Current(s)
    BY <2>2 DEF InOrder
  <2> QED
    BY <1>1, <2>1, <2>2
<1>5. /\ q.pending = old.pending /\ q.collect = old.collect /\ q.calls = old.calls
      /\ q.submitting = old.submitting /\ q.steerPending = old.steerPending
      /\ q.blocked = old.blocked
      /\ q.pending \in Seq(Msgs) /\ q.collect \in Seq(Msgs)
  BY <1>1 DEF QueueState
<1>6. Sorted(q, turn[s]) /\ Steered(q, turn[s])
  BY <1>4, <1>5 DEF Sorted, Steered
<1>7. \A x \in ElementsOf(q.pending) \cup ElementsOf(q.collect) \cup T(s) : x \in Msgs /\ x < m
  <2>1. \A x \in ElementsOf(q.pending) \cup ElementsOf(q.collect) : x \in Msgs /\ x <= offered
    <3>1. CASE old = FreshState(c)
      <4>1. old.pending = <<>> /\ old.collect = <<>>
        BY <3>1 DEF FreshState
      <4> QED
        BY <1>5, <4>1, EmptyElements
    <3>2. CASE old = st[s] /\ Current(s)
      <4>1. ElementsOf(q.pending) \cup ElementsOf(q.collect) = W(s)
        BY <1>5, <3>2 DEF W, Undelivered
      <4> QED
        BY <4>1, StateFacts DEF InCustody, WaitingUntouched
    <3> QED
      BY <1>1, <3>1, <3>2
  <2>2. \A x \in T(s) : x \in Msgs /\ x <= offered
    BY StateFacts DEF InCustody, InTurnAccounted
  <2>3. \A x \in Msgs : x <= offered => x < m
    BY <1>2, <1>3
  <2> QED
    BY <2>1, <2>2, <2>3
<1>8. Sorted(new, turn[s]) /\ Steered(new, turn[s])
  <2>1. CASE Full(q)
    <3>1. new = RejectSaturated(q)
      BY <1>1, <2>1
    <3>2. /\ new.pending = q.pending /\ new.collect = q.collect /\ new.calls = q.calls
          /\ new.submitting = q.submitting /\ new.steerPending = q.steerPending
          /\ new.blocked = q.blocked
      BY <3>1 DEF RejectSaturated, QueueState
    <3> QED
      BY <1>6, <3>2 DEF Sorted, Steered
  <2>2. CASE ~Full(q) /\ q.busy
    <3>1. PICK p : p = PushCollected(q, m)
      OBVIOUS
    <3>2. Append(q.collect, m) \in Seq(Msgs)
      BY <1>3, <1>5, AppendProperties
    <3>3. /\ p \in QueueState /\ p.pending = q.pending /\ p.collect = Append(q.collect, m)
          /\ p.calls = q.calls /\ p.submitting = q.submitting /\ p.busy = q.busy
          /\ p.steerPending = q.steerPending /\ p.blocked = q.blocked
      BY <3>1, <3>2 DEF PushCollected, QueueState
    <3>4. ElementsOf(p.collect) = ElementsOf(q.collect) \cup {m}
      BY <1>3, <1>5, <3>3, AppendElements
    <3>5. Increasing(p.collect)
      BY <1>3, <1>5, <1>6, <1>7, <3>3, AppendInOrder DEF Sorted
    <3>6. Before(turn[s].batch, p.collect)
      BY <1>6, <1>7, <3>4 DEF Sorted, Before, T
    <3>7. Sorted(p, turn[s])
      BY <1>6, <3>3, <3>5, <3>6 DEF Sorted
    <3>8. Steered(p, turn[s])
      BY <1>6, <3>3, <3>4 DEF Steered
    <3>9. turn[s].phase = "none" => ~p.busy
      BY <1>1, <3>3 DEF Unstranded
    <3>10. new = AttemptSteer(p)
      BY <1>1, <1>2, <2>2, <3>1
    <3>11. Steered(new, turn[s])
      BY <3>3, <3>8, <3>9, <3>10, AttemptSteerSteered
    <3>12. new.pending = p.pending /\ new.collect = p.collect
      BY <3>3, <3>10, AttemptSteerType DEF SteeringApart
    <3> QED
      BY <3>7, <3>11, <3>12 DEF Sorted
  <2>3. CASE ~Full(q) /\ ~q.busy
    <3>1. new = [q EXCEPT !.pending = Append(@, m), !.timer = TRUE]
      BY <1>1, <1>2, <2>3
    <3>2. /\ new.pending = Append(q.pending, m) /\ new.collect = q.collect
          /\ new.calls = q.calls /\ new.submitting = q.submitting
          /\ new.steerPending = q.steerPending /\ new.blocked = q.blocked
      BY <3>1 DEF QueueState
    <3>3. Increasing(new.pending)
      BY <1>3, <1>5, <1>6, <1>7, <3>2, AppendInOrder DEF Sorted
    <3> QED
      BY <1>6, <3>2, <3>3 DEF Sorted, Steered
  <2> QED
    BY <2>1, <2>2, <2>3
<1> SUFFICES ASSUME NEW u \in QStates, Current(u)'
             PROVE  Sorted(st'[u], turn'[u]) /\ Steered(st'[u], turn'[u])
  BY DEF InOrder
<1> QED
  BY <1>1, <1>8 DEF InOrder

LEMMA FlushedSteered ==
  ASSUME NEW q \in QueueState, NEW batch, NEW drain
  PROVE  Steered(Flushed(q), NewTurn(q, batch, drain))
<1>1. PICK r : r = [q EXCEPT !.pending = <<>>, !.timer = FALSE]
  OBVIOUS
<1>2. r \in QueueState /\ r.platform = q.platform
  BY <1>1, EmptySeq DEF QueueState
<1>3. Steered(StartBusy(r), NewTurn(q, batch, drain))
  BY <1>2, StartBusySteered
<1> QED
  BY <1>1, <1>3 DEF Flushed

LEMMA DebounceInOrder ==
  ASSUME TypeOK, Linked, InOrder, NEW c \in Chats, DebounceFires(c)
  PROVE  InOrder'
<1>1. PICK s \in QStates : s = queues[c]
  BY StructureTypes DEF DebounceFires
<1>2. /\ Current(s) /\ st[s].pending # <<>> /\ st[s] \in QueueState
      /\ Unstranded(st[s], turn[s])
  <2>1. Current(s)
    BY <1>1, CurrentIsMapped
  <2> QED
    BY <1>1, <2>1, StateFacts DEF DebounceFires
<1>3. PICK q, t : /\ q = Flushed(st[s]) /\ t = NewTurn(st[s], st[s].pending, FALSE)
                  /\ st' = [st EXCEPT ![s] = q] /\ turn' = [turn EXCEPT ![s] = t]
                  /\ UNCHANGED queues
  BY <1>1 DEF DebounceFires
<1>4. q.chat = st[s].chat /\ q.pending = <<>> /\ q.collect = <<>>
  <2>1. PICK p \in QueueState : p = st[s]
    BY <1>2
  <2>2. SteeringApart(Flushed(p), [p EXCEPT !.busy = TRUE, !.timer = FALSE,
                                            !.pending = <<>>])
    BY FlushedType
  <2>3. p.collect = <<>>
    BY <1>2, <2>1 DEF Unstranded
  <2>4. /\ Flushed(p).chat = p.chat /\ Flushed(p).pending = <<>>
        /\ Flushed(p).collect = <<>>
    BY <2>2, <2>3 DEF SteeringApart, QueueState
  <2> QED
    BY <1>3, <2>1, <2>4
<1>5. Sorted(q, t)
  <2>1. t.batch = st[s].pending
    BY <1>3 DEF NewTurn
  <2> QED
    BY <1>2, <1>4, <2>1, StartedSorted DEF InOrder, Sorted
<1>6. Steered(q, t)
  BY <1>2, <1>3, FlushedSteered
<1> QED
  BY <1>3, <1>4, <1>5, <1>6, OneStateInOrder

(* The end of a turn whose steering is settled. *)
LEMMA EndTurnInOrder ==
  ASSUME TypeOK, Linked, InOrder, NEW s \in QStates, NEW q \in QueueState,
         SteeringApart(q, st[s]), turn[s].phase # "none", EndTurn(s, q), UNCHANGED queues,
         Current(s) => q.submitting = NoMsg /\ q.steerPending = {}
  PROVE  InOrder'
<1>1. q.chat = st[s].chat /\ q.pending = st[s].pending /\ q.collect = st[s].collect
  BY DEF SteeringApart
<1>2. CASE ~Current(s)
  <2>1. st' = [st EXCEPT ![s] = q] /\ turn' = [turn EXCEPT ![s] = NoTurn]
    BY <1>2 DEF EndTurn
  <2> QED
    BY <1>1, <1>2, <2>1, OneStateInOrder
<1>3. CASE Current(s)
  <2>1. st[s].pending = <<>> /\ Increasing(st[s].collect)
    BY <1>3, StateFacts DEF Unstranded, InOrder, Sorted
  <2>2. CASE DrainsNext(q)
    <3>1. PICK r : r = [q EXCEPT !.collect = <<>>]
      OBVIOUS
    <3>2. /\ r \in QueueState /\ r.chat = q.chat /\ r.pending = q.pending /\ r.collect = <<>>
          /\ r.platform = q.platform
      BY <3>1, EmptySeq DEF QueueState
    <3>3. PICK p, t : /\ p = StartBusy(r) /\ t = NewTurn(q, q.collect, TRUE)
                      /\ st' = [st EXCEPT ![s] = p] /\ turn' = [turn EXCEPT ![s] = t]
      BY <1>3, <2>2, <3>1 DEF EndTurn
    <3>4. p.chat = q.chat /\ p.pending = q.pending /\ p.collect = <<>>
      BY <3>2, <3>3, StartBusyType DEF SteeringApart, QueueState
    <3>5. t.batch = q.collect
      BY <3>3 DEF NewTurn
    <3>6. Sorted(p, t)
      BY <1>1, <2>1, <3>4, <3>5, StartedSorted
    <3>7. Steered(p, t)
      BY <3>2, <3>3, StartBusySteered
    <3> QED
      BY <1>1, <3>3, <3>4, <3>6, <3>7, OneStateInOrder
  <2>3. CASE ~DrainsNext(q)
    <3>1. PICK r : r = [q EXCEPT !.busy = FALSE]
      OBVIOUS
    <3>2. /\ r.chat = q.chat /\ r.pending = q.pending /\ r.collect = q.collect
          /\ r.submitting = q.submitting /\ r.steerPending = q.steerPending
      BY <3>1 DEF QueueState
    <3>3. st' = [st EXCEPT ![s] = r] /\ turn' = [turn EXCEPT ![s] = NoTurn]
      BY <1>3, <2>3, <3>1 DEF EndTurn
    <3>4. r.pending = <<>> /\ r.collect = <<>> /\ NoTurn.batch = <<>> /\ NoTurn.phase = "none"
      BY <1>1, <2>1, <2>3, <3>2 DEF DrainsNext, NoTurn
    <3>5. Sorted(r, NoTurn)
      BY <3>4, StartedSorted, EmptyInOrder
    <3>6. Steered(r, NoTurn)
      BY <1>3, <3>2, <3>4 DEF Steered
    <3> QED
      BY <1>1, <3>2, <3>3, <3>5, <3>6, OneStateInOrder
  <2> QED
    BY <2>2, <2>3
<1> QED
  BY <1>2, <1>3

LEMMA TurnInOrder ==
  ASSUME TypeOK, Linked, InOrder, NEW s \in QStates, TurnStep(s)
  PROVE  InOrder'
<1>1. /\ st \in [QStates -> QueueState] /\ turn \in [QStates -> TurnRecord]
      /\ st[s] \in QueueState /\ turn[s] \in TurnRecord
  BY StructureTypes
<1>2. PICK q : q = SettleBusyGeneration(st[s])
  OBVIOUS
<1>3. /\ q \in QueueState /\ SteeringApart(q, st[s]) /\ SteeringApart(st[s], st[s])
      /\ q.submitting = NoMsg /\ q.steerPending = {} /\ q.chat = st[s].chat
      /\ q.pending = st[s].pending /\ q.collect = st[s].collect
  <2>1. q \in QueueState /\ SteeringApart(q, st[s])
    BY <1>1, <1>2, SettleBusyType
  <2>2. q.submitting = NoMsg /\ q.steerPending = {}
    BY <1>1, <1>2 DEF SettleBusyGeneration, QueueState
  <2> QED
    BY <2>1, <2>2 DEF SteeringApart
<1>4. ASSUME NEW t, turn' = [turn EXCEPT ![s] = t], UNCHANGED <<st, queues>>,
             t.batch = turn[s].batch, t.phase \notin {"none", "reply"}
      PROVE  InOrder'
  <2>1. st' = [st EXCEPT ![s] = st[s]]
    BY <1>1, <1>4
  <2>2. Current(s) => Sorted(st[s], t) /\ Steered(st[s], t)
    BY <1>4 DEF InOrder, Sorted, Steered
  <2> QED
    BY <1>4, <2>1, <2>2, OneStateInOrder
<1>5. CASE SessionPrepared(s)
  <2>1. PICK t : t = [turn[s] EXCEPT !.phase = "notice"]
    OBVIOUS
  <2>2. t.batch = turn[s].batch /\ t.phase = "notice"
    BY <1>1, <2>1 DEF TurnRecord
  <2>3. turn' = [turn EXCEPT ![s] = t] /\ UNCHANGED <<st, queues>>
    BY <1>5, <2>1 DEF SessionPrepared
  <2> QED
    BY <1>4, <2>2, <2>3
<1>6. CASE NoticeDelivered(s)
  <2>1. PICK t : t = [turn[s] EXCEPT !.phase = "process"]
    OBVIOUS
  <2>2. t.batch = turn[s].batch /\ t.phase = "process"
    BY <1>1, <2>1 DEF TurnRecord
  <2>3. turn' = [turn EXCEPT ![s] = t] /\ UNCHANGED <<st, queues>>
    BY <1>6, <2>1 DEF NoticeDelivered
  <2> QED
    BY <1>4, <2>2, <2>3
<1>7. CASE AgentTakesPrompt(s)
  <2>1. PICK t : t = [turn[s] EXCEPT !.accepted = TRUE, !.live = @ /\ ~TransfersOwnership(s)]
    OBVIOUS
  <2>2. turn' = [turn EXCEPT ![s] = t] /\ UNCHANGED <<st, queues>> /\ turn[s].phase = "process"
    BY <1>1, <1>7, <2>1 DEF AgentTakesPrompt
  <2>3. t.batch = turn[s].batch /\ t.phase = "process"
    BY <1>1, <2>1, <2>2 DEF TurnRecord
  <2> QED
    BY <1>4, <2>2, <2>3
<1>8. ASSUME EndTurn(s, q), turn[s].phase # "none", UNCHANGED queues
      PROVE  InOrder'
  BY <1>3, <1>8, EndTurnInOrder
<1>9. CASE TurnSucceeds(s)
  BY <1>2, <1>8, <1>9 DEF TurnSucceeds
<1>10. CASE TurnThrows(s) /\ ~Current(s)
  BY <1>2, <1>8, <1>10 DEF TurnThrows
<1>11. CASE TurnThrows(s) /\ Current(s)
  <2>1. PICK t : t = [turn[s] EXCEPT !.phase = "reply"]
    OBVIOUS
  <2>2. /\ st' = [st EXCEPT ![s] = q] /\ turn' = [turn EXCEPT ![s] = t] /\ UNCHANGED queues
    BY <1>2, <1>11, <2>1 DEF TurnThrows
  <2>3. t.batch = turn[s].batch
    BY <1>1, <2>1 DEF TurnRecord
  <2>4. Sorted(q, t)
    BY <1>3, <1>11, <2>3 DEF InOrder, Sorted
  <2>5. Steered(q, t)
    BY <1>1, <1>2, SettledSteered
  <2> QED
    BY <1>3, <2>2, <2>4, <2>5, OneStateInOrder
<1>12. CASE ErrorReplied(s)
  <2>1. turn[s].phase = "reply" /\ EndTurn(s, st[s]) /\ UNCHANGED queues
    BY <1>12 DEF ErrorReplied
  <2>2. Current(s) => st[s].submitting = NoMsg /\ st[s].steerPending = {}
    BY <2>1 DEF InOrder, Steered
  <2> QED
    BY <1>1, <1>3, <2>1, <2>2, EndTurnInOrder
<1> QED
  BY <1>5, <1>6, <1>7, <1>9, <1>10, <1>11, <1>12 DEF TurnStep

(* Steering moves no message but the one Pi consumed, which leaves.        *)
LEMMA SteerInOrder ==
  ASSUME TypeOK, Linked, InOrder, NEW s \in QStates, SteerStep(s)
  PROVE  InOrder'
<1>1. /\ st \in [QStates -> QueueState] /\ turn \in [QStates -> TurnRecord]
      /\ st[s] \in QueueState /\ st[s].collect \in Seq(Msgs)
  BY StructureTypes, StateFacts
<1>2. PICK m \in Msgs : \/ SteerEnqueued(s, m) \/ SteerConsumed(s, m)
                       \/ SteerRefused(s, m) \/ SteerSettlesLate(s, m)
  BY DEF SteerStep
<1>3. turn' = [turn EXCEPT ![s] = turn[s]] /\ UNCHANGED queues
  BY <1>1, <1>2 DEF SteerEnqueued, SteerConsumed, SteerRefused, SteerSettlesLate
<1>4. /\ Current(s) => Sorted(st[s], turn[s]) /\ Steered(st[s], turn[s])
      /\ Current(s) => Unstranded(st[s], turn[s])
  BY StateFacts DEF InOrder
<1>5. PICK q : q = SteerForgotten(st[s], m)
  OBVIOUS
<1>6. /\ q \in QueueState /\ q.chat = st[s].chat /\ q.pending = st[s].pending
      /\ q.collect = st[s].collect /\ q.busy = st[s].busy /\ q.blocked = st[s].blocked
      /\ q.steerPending = st[s].steerPending \ {m} /\ q.calls = st[s].calls \ {m}
      /\ q.submitting = IF st[s].submitting = m THEN NoMsg ELSE st[s].submitting
  BY <1>1, <1>5 DEF SteerForgotten, QueueState
<1>7. CASE SteerEnqueued(s, m)
  <2>1. PICK r : r = [st[s] EXCEPT !.submitting = NoMsg]
    OBVIOUS
  <2>2. /\ r \in QueueState /\ r.chat = st[s].chat /\ r.pending = st[s].pending
        /\ r.collect = st[s].collect /\ r.busy = st[s].busy /\ r.blocked = st[s].blocked
        /\ r.steerPending = st[s].steerPending /\ r.calls = st[s].calls
        /\ r.submitting = NoMsg
    BY <1>1, <2>1 DEF QueueState
  <2>3. Current(s) /\ st' = [st EXCEPT ![s] = AttemptSteer(r)]
    BY <1>7, <2>1 DEF SteerEnqueued
  <2>4. Steered(r, turn[s]) /\ (turn[s].phase = "none" => ~r.busy)
    BY <1>4, <2>2, <2>3 DEF Steered, Unstranded
  <2>5. Steered(AttemptSteer(r), turn[s])
    BY <2>2, <2>4, AttemptSteerSteered
  <2>6. /\ AttemptSteer(r).chat = st[s].chat /\ AttemptSteer(r).pending = st[s].pending
        /\ AttemptSteer(r).collect = st[s].collect
    BY <2>2, AttemptSteerType DEF SteeringApart
  <2>7. Sorted(AttemptSteer(r), turn[s])
    BY <1>4, <2>3, <2>6 DEF Sorted
  <2> QED
    BY <1>3, <2>3, <2>5, <2>6, <2>7, OneStateInOrder
<1>8. CASE SteerConsumed(s, m) /\ m \in ElementsOf(q.collect)
  <2>1. PICK left : left = Without(q.collect, m)
    OBVIOUS
  <2>2. /\ left \in Seq(Msgs) /\ ElementsOf(left) \subseteq ElementsOf(q.collect)
        /\ ElementsOf(q.collect) \subseteq ElementsOf(left) \cup {m}
    BY <1>1, <1>6, <1>8, <2>1, WithoutType
  <2>3. PICK r : r = [q EXCEPT !.collect = left]
    OBVIOUS
  <2>4. /\ r \in QueueState /\ r.chat = q.chat /\ r.pending = q.pending
        /\ r.collect = left /\ r.busy = q.busy /\ r.blocked = q.blocked
        /\ r.steerPending = q.steerPending /\ r.calls = q.calls
        /\ r.submitting = q.submitting
    BY <1>6, <2>2, <2>3 DEF QueueState
  <2>5. Current(s) /\ st' = [st EXCEPT ![s] = AttemptSteer(r)]
    <3>1. [q EXCEPT !.collect = Without(@, m)] = r
      BY <1>6, <2>1, <2>3 DEF QueueState
    <3>2. Current(s)
      BY <1>8 DEF SteerConsumed, SteerIsLive
    <3>3. st' = [st EXCEPT ![s] = AttemptSteer([q EXCEPT !.collect = Without(@, m)])]
      BY <1>5, <1>8 DEF SteerConsumed
    <3> QED
      BY <3>1, <3>2, <3>3
  <2>6. Steered(r, turn[s]) /\ (turn[s].phase = "none" => ~r.busy)
    <3>1. r.submitting # NoMsg => r.submitting \in r.steerPending
      BY <1>4, <1>6, <2>4, <2>5 DEF Steered
    <3>2. r.steerPending \subseteq ElementsOf(r.collect) \cap r.calls
      BY <1>4, <1>6, <2>2, <2>4, <2>5 DEF Steered
    <3>3. /\ turn[s].phase \in {"none", "reply"} => r.steerPending = {}
          /\ turn[s].phase = "reply" => r.blocked
          /\ turn[s].phase = "none" => ~r.busy
      BY <1>4, <1>6, <2>4, <2>5 DEF Steered, Unstranded
    <3> QED
      BY <3>1, <3>2, <3>3 DEF Steered
  <2>7. Steered(AttemptSteer(r), turn[s])
    BY <2>4, <2>6, AttemptSteerSteered
  <2>8. /\ AttemptSteer(r).chat = st[s].chat /\ AttemptSteer(r).pending = st[s].pending
        /\ AttemptSteer(r).collect = left
    BY <1>6, <2>4, AttemptSteerType DEF SteeringApart
  <2>9. Increasing(left)
    <3>1. Increasing(q.collect) /\ q.collect \in Seq(Msgs)
      BY <1>1, <1>4, <1>6, <2>5 DEF Sorted
    <3> QED
      BY <1>8, <2>1, <3>1, WithoutInOrder
  <2>10. Sorted(AttemptSteer(r), turn[s])
    BY <1>4, <1>6, <2>2, <2>5, <2>8, <2>9 DEF Sorted, Before
  <2> QED
    BY <1>3, <2>5, <2>7, <2>8, <2>10, OneStateInOrder
<1>9. CASE SteerConsumed(s, m) /\ m \notin ElementsOf(q.collect)
  <2>1. st' = [st EXCEPT ![s] = q]
    BY <1>5, <1>9 DEF SteerConsumed
  <2>2. Current(s) => Sorted(q, turn[s]) /\ Steered(q, turn[s])
    BY <1>4, <1>6 DEF Sorted, Steered
  <2> QED
    BY <1>3, <1>6, <2>1, <2>2, OneStateInOrder
<1>10. CASE SteerRefused(s, m)
  <2>1. PICK r : r = [q EXCEPT !.blocked = TRUE]
    OBVIOUS
  <2>2. /\ r.chat = q.chat /\ r.pending = q.pending /\ r.collect = q.collect
        /\ r.steerPending = q.steerPending /\ r.calls = q.calls
        /\ r.submitting = q.submitting /\ r.blocked = TRUE
    BY <1>6, <2>1 DEF QueueState
  <2>3. st' = [st EXCEPT ![s] = r]
    BY <1>5, <1>10, <2>1 DEF SteerRefused
  <2>4. Current(s) => Sorted(r, turn[s]) /\ Steered(r, turn[s])
    BY <1>4, <1>6, <2>2 DEF Sorted, Steered
  <2> QED
    BY <1>3, <1>6, <2>2, <2>3, <2>4, OneStateInOrder
<1>11. CASE SteerSettlesLate(s, m)
  <2>1. PICK r : r = [st[s] EXCEPT !.calls = @ \ {m}]
    OBVIOUS
  <2>2. /\ r.chat = st[s].chat /\ r.pending = st[s].pending /\ r.collect = st[s].collect
        /\ r.steerPending = st[s].steerPending /\ r.calls = st[s].calls \ {m}
        /\ r.submitting = st[s].submitting /\ r.blocked = st[s].blocked
    BY <1>1, <2>1 DEF QueueState
  <2>3. st' = [st EXCEPT ![s] = r]
    BY <1>1, <1>11, <2>1 DEF SteerSettlesLate
  <2>4. Current(s) => m \notin st[s].steerPending
    <3>1. Current(s) => ~st[s].busy \/ m \notin st[s].steerPending
      BY <1>11 DEF SteerSettlesLate, SteerIsLive
    <3>2. Current(s) /\ ~st[s].busy => st[s].steerPending = {}
      BY <1>4 DEF Unstranded, Steered
    <3> QED
      BY <3>1, <3>2
  <2>5. Current(s) => Sorted(r, turn[s]) /\ Steered(r, turn[s])
    BY <1>4, <2>2, <2>4 DEF Sorted, Steered
  <2> QED
    BY <1>3, <2>2, <2>3, <2>5, OneStateInOrder
<1> QED
  BY <1>2, <1>7, <1>8, <1>9, <1>10, <1>11

(* A step that sorts nothing anew: states leave the map or keep all that   *)
(* order and steering are about, and turns go on as they were.             *)
LEMMA KeptInOrder ==
  ASSUME InOrder, UNCHANGED turn,
         \A s \in QStates : Current(s)' =>
           /\ Current(s) /\ st'[s].pending = st[s].pending /\ st'[s].collect = st[s].collect
           /\ st'[s].submitting = st[s].submitting
           /\ st'[s].steerPending = st[s].steerPending /\ st'[s].calls = st[s].calls
           /\ st'[s].blocked = st[s].blocked
  PROVE  InOrder'
<1> SUFFICES ASSUME NEW s \in QStates, Current(s)'
             PROVE  Sorted(st'[s], turn'[s]) /\ Steered(st'[s], turn'[s])
  BY DEF InOrder
<1>1. Sorted(st[s], turn[s]) /\ Steered(st[s], turn[s])
  BY DEF InOrder
<1> QED
  BY <1>1 DEF Sorted, Steered

(* p and q agree on all that order and steering are about. *)
SameWaiting(p, q) ==
  /\ p.chat = q.chat /\ p.pending = q.pending /\ p.collect = q.collect
  /\ p.submitting = q.submitting /\ p.steerPending = q.steerPending
  /\ p.calls = q.calls /\ p.blocked = q.blocked

LEMMA FlagsSameWaiting ==
  ASSUME NEW q \in QueueState
  PROVE  /\ SameWaiting([q EXCEPT !.noticeScheduled = FALSE], q)
         /\ SameWaiting([q EXCEPT !.cooling = FALSE], q)
         /\ SameWaiting([q EXCEPT !.cooldownTimer = FALSE], q)
         /\ SameWaiting([q EXCEPT !.timer = FALSE], q)
         /\ SameWaiting([[q EXCEPT !.platform = FALSE] EXCEPT !.cooldownTimer = TRUE], q)
         /\ [q EXCEPT !.cooldownTimer = FALSE] \in QueueState
BY DEF SameWaiting, QueueState

LEMMA EvictInOrder ==
  ASSUME TypeOK, InOrder, NEW c \in Chats, NEW sts \in [QStates -> QueueState],
         \A s \in QStates : SameWaiting(sts[s], st[s]),
         EvictIfIdle(c, sts), UNCHANGED turn
  PROVE  InOrder'
<1>1. queues \in [Chats -> QStates \cup {NoState}]
  BY StructureTypes
<1>2. \A s \in QStates : SameWaiting(st'[s], st[s])
  <2>1. CASE st' = sts
    BY <2>1
  <2>2. CASE st' = [sts EXCEPT ![queues[c]].platform = FALSE,
                               ![queues[c]].cooldownTimer = TRUE]
    <3> SUFFICES ASSUME NEW s \in QStates
                 PROVE  SameWaiting(st'[s], st[s])
      OBVIOUS
    <3>1. \/ st'[s] = sts[s]
          \/ st'[s] = [[sts[s] EXCEPT !.platform = FALSE] EXCEPT !.cooldownTimer = TRUE]
      BY <2>2
    <3>2. SameWaiting(st'[s], sts[s])
      <4>1. CASE st'[s] = sts[s]
        BY <4>1 DEF SameWaiting
      <4>2. PICK q \in QueueState : q = sts[s]
        OBVIOUS
      <4>3. CASE st'[s] = [[q EXCEPT !.platform = FALSE] EXCEPT !.cooldownTimer = TRUE]
        BY <4>2, <4>3, FlagsSameWaiting
      <4> QED
        BY <3>1, <4>1, <4>2, <4>3
    <3> QED
      BY <3>2 DEF SameWaiting
  <2> QED
    BY <2>1, <2>2 DEF EvictIfIdle
<1>3. ASSUME NEW s \in QStates, Current(s)'
      PROVE  Current(s)
  <2>1. queues'[st[s].chat] = s /\ st[s].chat \in Chats
    BY <1>2, <1>3, StructureTypes DEF Current, SameWaiting
  <2>2. queues' = queues \/ queues' = [queues EXCEPT ![c] = NoState]
    BY DEF EvictIfIdle
  <2> QED
    BY <1>1, <2>1, <2>2, MessageQueueAssumption DEF Current
<1> QED
  BY <1>2, <1>3, KeptInOrder DEF SameWaiting

LEMMA StateStepInOrder ==
  ASSUME TypeOK, InOrder, NEW s \in QStates, StateStep(s)
  PROVE  InOrder'
<1>1. /\ st \in [QStates -> QueueState] /\ turn \in [QStates -> TurnRecord]
      /\ st[s] \in QueueState /\ st[s].chat \in Chats
  BY StructureTypes
<1>2. ASSUME NEW q, SameWaiting(q, st[s]), st' = [st EXCEPT ![s] = q],
             UNCHANGED <<turn, queues>>
      PROVE  InOrder'
  <2>1. turn' = [turn EXCEPT ![s] = turn[s]]
    BY <1>1, <1>2
  <2>2. Current(s) => Sorted(q, turn[s]) /\ Steered(q, turn[s])
    BY <1>2 DEF InOrder, Sorted, Steered, SameWaiting
  <2>3. q.chat = st[s].chat
    BY <1>2 DEF SameWaiting
  <2> QED
    BY <1>2, <2>1, <2>2, <2>3, OneStateInOrder
<1>3. CASE SendRejectionNotice(s)
  <2>1. /\ st' = [st EXCEPT ![s] = [st[s] EXCEPT !.noticeScheduled = FALSE]]
        /\ UNCHANGED <<turn, queues>>
    BY <1>1, <1>3 DEF SendRejectionNotice
  <2> QED
    BY <1>1, <1>2, <2>1, FlagsSameWaiting
<1>4. CASE CooldownElapses(s)
  <2>1. /\ st' = [st EXCEPT ![s] = [st[s] EXCEPT !.cooling = FALSE]]
        /\ UNCHANGED <<turn, queues>>
    BY <1>1, <1>4 DEF CooldownElapses
  <2> QED
    BY <1>1, <1>2, <2>1, FlagsSameWaiting
<1>5. CASE CooldownTimerFires(s)
  <2>1. PICK sts : sts = [st EXCEPT ![s] = [st[s] EXCEPT !.cooldownTimer = FALSE]]
    OBVIOUS
  <2>2. EvictIfIdle(st[s].chat, sts) /\ UNCHANGED turn
    BY <1>1, <1>5, <2>1 DEF CooldownTimerFires
  <2>3. sts \in [QStates -> QueueState]
    BY <1>1, <2>1, FlagsSameWaiting
  <2>4. ASSUME NEW u \in QStates
        PROVE  SameWaiting(sts[u], st[u])
    <3>1. SameWaiting(st[u], st[u])
      BY DEF SameWaiting
    <3>2. u # s => sts[u] = st[u]
      BY <1>1, <2>1
    <3>3. sts[s] = [st[s] EXCEPT !.cooldownTimer = FALSE]
      BY <1>1, <2>1
    <3>4. SameWaiting(sts[s], st[s])
      BY <1>1, <3>3, FlagsSameWaiting
    <3> QED
      BY <3>1, <3>2, <3>4
  <2> QED
    BY <1>1, <2>2, <2>3, <2>4, EvictInOrder
<1> QED
  BY <1>3, <1>4, <1>5 DEF StateStep

(* flushPending starts turns as the debounce timers would have.            *)
LEMMA BeginShutdownInOrder ==
  ASSUME TypeOK, Linked, InOrder, BeginShutdown
  PROVE  InOrder'
<1>1. st \in [QStates -> QueueState] /\ UNCHANGED queues
  BY StructureTypes DEF BeginShutdown
<1> SUFFICES ASSUME NEW s \in QStates, Current(s)'
             PROVE  Sorted(st'[s], turn'[s]) /\ Steered(st'[s], turn'[s])
  BY DEF InOrder
<1>2. PICK p \in QueueState : p = st[s]
  BY <1>1
<1>3. CASE Starts(s)
  <2>1. st'[s] = Flushed(p) /\ turn'[s] = NewTurn(p, p.pending, FALSE)
    BY <1>2, <1>3 DEF BeginShutdown
  <2>2. Current(s) /\ Unstranded(p, turn[s]) /\ p.pending # <<>>
    BY <1>2, <1>3, CurrentIsMapped, StateFacts DEF Starts
  <2>3. Increasing(p.pending) /\ p.collect = <<>>
    BY <1>2, <2>2 DEF InOrder, Sorted, Unstranded
  <2>4. SteeringApart(Flushed(p), [p EXCEPT !.busy = TRUE, !.timer = FALSE,
                                            !.pending = <<>>])
    BY FlushedType
  <2>5. Flushed(p).pending = <<>> /\ Flushed(p).collect = <<>>
    BY <2>3, <2>4 DEF SteeringApart, QueueState
  <2>6. NewTurn(p, p.pending, FALSE).batch = p.pending
    BY DEF NewTurn
  <2>7. Sorted(Flushed(p), NewTurn(p, p.pending, FALSE))
    BY <2>3, <2>5, <2>6, StartedSorted
  <2>8. Steered(Flushed(p), NewTurn(p, p.pending, FALSE))
    BY FlushedSteered
  <2> QED
    BY <2>1, <2>7, <2>8
<1>4. CASE ~Starts(s)
  <2>1. /\ st'[s] = p \/ st'[s] = [p EXCEPT !.timer = FALSE]
        /\ turn'[s] = turn[s]
    BY <1>2, <1>4 DEF BeginShutdown
  <2>2. SameWaiting(st'[s], p)
    BY <2>1, FlagsSameWaiting DEF SameWaiting
  <2>3. Current(s)
    BY <1>1, <1>2, <2>2 DEF Current, SameWaiting
  <2>4. Sorted(p, turn[s]) /\ Steered(p, turn[s])
    BY <1>2, <2>3 DEF InOrder
  <2> QED
    BY <2>1, <2>2, <2>4 DEF Sorted, Steered, SameWaiting
<1> QED
  BY <1>3, <1>4

LEMMA NextInOrder ==
  TypeOK /\ TypeOK' /\ Linked /\ Linked' /\ IdleTurnsEmpty /\ InCustody /\ InOrder
  /\ [Next]_vars => InOrder'
<1> SUFFICES ASSUME TypeOK, TypeOK', Linked, Linked', IdleTurnsEmpty, InCustody, InOrder,
                    [Next]_vars
             PROVE  InOrder'
  OBVIOUS
<1>1. st \in [QStates -> QueueState] /\ queues \in [Chats -> QStates \cup {NoState}]
  BY StructureTypes
<1>2. CASE RefuseMessage \/ Stopped \/ UNCHANGED vars
  <2>1. UNCHANGED <<queues, st, turn>>
    BY <1>2 DEF RefuseMessage, Stopped, vars
  <2> QED
    BY <2>1, KeptInOrder DEF Current
<1>3. ASSUME NEW c \in Chats, ChatStep(c)
      PROVE  InOrder'
  <2>1. CASE Enqueue(c)
    BY <2>1, EnqueueInOrder
  <2>2. CASE DebounceFires(c)
    BY <2>2, DebounceInOrder
  <2>3. CASE FlushEvicts(c)
    <3>1. EvictIfIdle(c, st) /\ UNCHANGED turn
      BY <2>3 DEF FlushEvicts
    <3>2. \A s \in QStates : SameWaiting(st[s], st[s])
      BY DEF SameWaiting
    <3> QED
      BY <1>1, <3>1, <3>2, EvictInOrder
  <2>4. CASE Clear(c)
    <3>1. /\ UNCHANGED turn /\ queues' = [queues EXCEPT ![c] = NoState]
          /\ st' = [st EXCEPT ![queues[c]] = Detached(st[queues[c]])]
          /\ queues[c] \in QStates
      BY <1>1, <2>4 DEF Clear
    <3>2. ASSUME NEW s \in QStates, Current(s)'
          PROVE  Current(s) /\ st'[s] = st[s]
      <4>1. \A u \in QStates : st'[u].chat = st[u].chat /\ st[u].chat \in Chats
        <5>1. Detached(st[queues[c]]).chat = st[queues[c]].chat
          BY <1>1, <3>1, DetachedType
        <5> QED
          BY <1>1, <3>1, <5>1, StructureTypes
      <4>2. queues'[st[s].chat] = s
        BY <3>2, <4>1 DEF Current
      <4>3. Current(s) /\ st[s].chat # c
        BY <1>1, <3>1, <4>1, <4>2, MessageQueueAssumption DEF Current
      <4>4. queues[c] # s
        BY <1>1, <3>1, <4>3, MessageQueueAssumption DEF Linked
      <4> QED
        BY <1>1, <3>1, <4>3, <4>4
    <3> QED
      BY <3>1, <3>2, KeptInOrder
  <2> QED
    BY <1>3, <2>1, <2>2, <2>3, <2>4 DEF ChatStep
<1>4. ASSUME NEW s \in QStates, TurnStep(s) \/ SteerStep(s) \/ StateStep(s)
      PROVE  InOrder'
  BY <1>4, TurnInOrder, SteerInOrder, StateStepInOrder
<1>5. CASE BeginShutdown
  BY <1>5, BeginShutdownInOrder
<1>6. CASE FinishDrain \/ ForceShutdown
  <2>1. ClearAll /\ UNCHANGED turn
    BY <1>6 DEF FinishDrain, ForceShutdown
  <2>2. \A s \in QStates : st'[s].chat = st[s].chat /\ st[s].chat \in Chats
    BY <2>1, StructureTypes, DetachedType DEF ClearAll
  <2>3. \A s \in QStates : ~Current(s)'
    BY <2>1, <2>2, MessageQueueAssumption DEF Current, ClearAll
  <2> QED
    BY <2>1, <2>3, KeptInOrder
<1> QED
  BY <1>2, <1>3, <1>4, <1>5, <1>6 DEF Next

LEMMA AlwaysInOrder == Spec => []InOrder
<1>1. Init => InOrder
  <2> SUFFICES ASSUME Init, NEW s \in QStates
               PROVE  Sorted(st[s], turn[s]) /\ Steered(st[s], turn[s])
    BY DEF InOrder
  <2>1. /\ st[s].pending = <<>> /\ st[s].collect = <<>> /\ st[s].submitting = NoMsg
        /\ st[s].steerPending = {} /\ turn[s].batch = <<>> /\ turn[s].phase = "none"
    BY DEF Init, FreshState, NoTurn
  <2> QED
    BY <2>1, EmptyInOrder DEF Sorted, Steered
<1> QED
  BY <1>1, NextInOrder, TypeCorrect, AlwaysLinked, AlwaysIdleTurnsEmpty, AlwaysInCustody, PTL
  DEF Spec

LEMMA ConcatInOrder ==
  ASSUME NEW a \in Seq(Msgs), NEW b \in Seq(Msgs), Increasing(a), Increasing(b), Before(a, b)
  PROVE  Increasing(a \o b)
<1> SUFFICES ASSUME NEW i \in DOMAIN (a \o b), NEW j \in DOMAIN (a \o b), i < j
             PROVE  (a \o b)[i] < (a \o b)[j]
  BY DEF Increasing
<1>1. /\ Len(a) \in Nat /\ Len(b) \in Nat
      /\ DOMAIN a = 1..Len(a) /\ DOMAIN b = 1..Len(b)
      /\ DOMAIN (a \o b) = 1..(Len(a) + Len(b))
      /\ \A k \in 1..(Len(a) + Len(b)) :
           (a \o b)[k] = IF k <= Len(a) THEN a[k] ELSE b[k - Len(a)]
  BY LenProperties, ConcatProperties
<1>2. CASE j <= Len(a)
  <2>1. /\ (a \o b)[i] = a[i] /\ (a \o b)[j] = a[j]
        /\ i \in DOMAIN a /\ j \in DOMAIN a
    BY <1>1, <1>2
  <2> QED
    BY <2>1 DEF Increasing
<1>3. CASE i <= Len(a) /\ ~(j <= Len(a))
  <2>1. /\ (a \o b)[i] = a[i] /\ (a \o b)[j] = b[j - Len(a)]
        /\ i \in DOMAIN a /\ j - Len(a) \in DOMAIN b
    BY <1>1, <1>3
  <2>2. a[i] \in ElementsOf(a) /\ b[j - Len(a)] \in ElementsOf(b)
    BY <2>1 DEF ElementsOf
  <2> QED
    BY <2>1, <2>2 DEF Before
<1>4. CASE ~(i <= Len(a))
  <2>1. /\ (a \o b)[i] = b[i - Len(a)] /\ (a \o b)[j] = b[j - Len(a)]
        /\ i - Len(a) \in DOMAIN b /\ j - Len(a) \in DOMAIN b
        /\ i - Len(a) < j - Len(a)
    BY <1>1, <1>4
  <2> QED
    BY <2>1 DEF Increasing
<1> QED
  BY <1>1, <1>2, <1>3, <1>4

LEMMA MappedIsCurrent ==
  ASSUME TypeOK, Linked, NEW s \in CurrentStates
  PROVE  s \in QStates /\ Current(s)
<1>1. s \in QStates
  BY StructureTypes DEF CurrentStates
<1> QED
  BY <1>1, CurrentIsMapped

LEMMA KeptInOneOrder == TypeOK /\ Linked /\ InOrder => OrderKept /\ SteerConsistent
<1> SUFFICES ASSUME TypeOK, Linked, InOrder, NEW s \in CurrentStates
             PROVE  /\ Increasing(st[s].pending)
                    /\ Increasing(turn[s].batch \o st[s].collect)
                    /\ Steered(st[s], turn[s])
  BY Zenon DEF OrderKept, SteerConsistent, Steered
<1>1. s \in QStates /\ Sorted(st[s], turn[s]) /\ Steered(st[s], turn[s])
  BY MappedIsCurrent DEF InOrder
<1>2. st[s].collect \in Seq(Msgs) /\ turn[s].batch \in Seq(Msgs)
  BY <1>1, StructureTypes DEF QueueState, TurnRecord
<1> QED
  BY <1>1, <1>2, ConcatInOrder DEF Sorted

(* The queue state's buffer, or the turn, that holds a message until its   *)
(* cleanup ran.                                                            *)
LEMMA HeldOnce ==
  ASSUME TypeOK, Linked, InCustody, NEW m \in 1..offered, cleaned[m] = 0
  PROVE  \E h : Holders(m) = {h}
<1>1. PICK s \in QStates : m \in W(s) \cup T(s)
  BY DEF InCustody, NothingLost
<1>2. /\ W(s) \cap T(s) = {}
      /\ \A u \in QStates : /\ m \in W(u) => m \in W(s) /\ u = s
                            /\ m \in T(u) => m \in T(s) /\ u = s
  BY <1>1 DEF InCustody, OnePlace
<1>3. \A u \in CurrentStates : u \in QStates /\ Current(u)
  BY MappedIsCurrent
<1>4. CASE m \in T(s)
  <2>1. \A u \in CurrentStates : m \notin ElementsOf(st[u].pending) /\ m \notin ElementsOf(st[u].collect)
    BY <1>2, <1>3, <1>4 DEF W, Undelivered
  <2>2. Holders(m) = {<<"batch", s>>}
    BY <1>2, <1>4, <2>1 DEF Holders, T
  <2> QED
    BY <2>2
<1>5. CASE m \in W(s)
  <2>1. \A u \in QStates : m \notin ElementsOf(turn[u].batch)
    BY <1>2, <1>5 DEF T
  <2>2. \A u \in CurrentStates :
          m \in ElementsOf(st[u].pending) \/ m \in ElementsOf(st[u].collect) => u = s
    BY <1>2, <1>3 DEF W, Undelivered
  <2>3. Current(s) /\ s \in CurrentStates
    BY <1>5, CurrentIsMapped DEF W
  <2>4. m \in ElementsOf(st[s].pending) \/ m \in ElementsOf(st[s].collect)
    BY <1>5, <2>3 DEF W, Undelivered
  <2>5. ~ (m \in ElementsOf(st[s].pending) /\ m \in ElementsOf(st[s].collect))
    <3>1. st[s].pending # <<>> => st[s].collect = <<>>
      BY <2>3 DEF CurrentStates, Linked, Unstranded
    <3> QED
      BY <3>1, EmptyElements
  <2>6. Holders(m) = {<<"pending", s>>} \/ Holders(m) = {<<"collect", s>>}
    BY <2>1, <2>2, <2>3, <2>4, <2>5 DEF Holders
  <2> QED
    BY <2>6
<1> QED
  BY <1>1, <1>4, <1>5

LEMMA SettledIsReleased ==
  ASSUME TypeOK, Linked, InCustody, NEW m \in 1..offered, cleaned[m] # 0
  PROVE  Holders(m) = {}
<1>1. \A s \in QStates : m \notin W(s) /\ m \notin T(s)
  BY DEF InCustody, WaitingUntouched, InTurnAccounted
<1>2. \A u \in CurrentStates : u \in QStates /\ Current(u)
  BY MappedIsCurrent
<1> QED
  BY <1>1, <1>2 DEF Holders, W, T, Undelivered

(* For any number of chats, state objects and messages and any cap: until  *)
(* its cleanup ran an offered message is in exactly one of the buffers and *)
(* batches and afterwards in none, a chat's messages stay in the order in  *)
(* which they came, and steering refers to no entry that left the collect  *)
(* buffer (enqueue, flushState, drainCollectBuffer and clear of            *)
(* message-queue.ts together).                                             *)
THEOREM MessagesAccountedInOrder == Spec => []AccountedInOrder
<1>1. TypeOK /\ Linked /\ InCustody => CustodyAccounted
  <2> SUFFICES ASSUME TypeOK, Linked, InCustody, NEW m \in 1..offered
               PROVE  Cardinality(Holders(m)) = (IF cleaned[m] = 0 THEN 1 ELSE 0)
    BY DEF CustodyAccounted
  <2>1. CASE cleaned[m] = 0
    BY <2>1, HeldOnce, FS_Singleton
  <2>2. CASE cleaned[m] # 0
    BY <2>2, SettledIsReleased, FS_EmptySet
  <2> QED
    BY <2>1, <2>2
<1>2. TypeOK /\ Linked /\ InCustody /\ InOrder => AccountedInOrder
  BY <1>1, KeptInOneOrder DEF AccountedInOrder
<1> QED
  BY <1>2, TypeCorrect, AlwaysLinked, AlwaysInCustody, AlwaysInOrder, PTL

-----------------------------------------------------------------------------
(* Refinement *)

Mapped == [m \in Msgs |-> CustodyOf(m)]

LEMMA MappedMove ==
  ASSUME NEW ms \in SUBSET Msgs, NEW from, NEW to, ms # {},
         \A m \in ms : CustodyOf(m) = from /\ CustodyOf(m)' = to,
         \A m \in Msgs : m \notin ms => CustodyOf(m)' = CustodyOf(m)
  PROVE  Custody!Move(ms, from, to)
BY DEF Custody!Move

(* A step that offers no message hands over or reclaims, or changes no     *)
(* message's custody.                                                      *)
LEMMA HandlesRefines ==
  ASSUME TypeOK, Handles
  PROVE  Custody!Next \/ UNCHANGED Mapped
<1>1. PICK S, X, D, O, A : /\ Moves(S, X, D, O, A) /\ SettlesLeaving(X, D, O, A)
                           /\ O = {} \/ D = {}
  BY DEF Handles
<1>2. offered' = offered /\ offered \in Nat /\ owned' = owned \cup O /\ Msgs \subseteq Nat
  <2>1. offered \in 0..NumMsgs
    BY DEF TypeOK
  <2> QED
    BY <1>1, <2>1, MessageQueueAssumption DEF Moves, Msgs
<1>3. /\ \A m \in Msgs : dropped[m] \in Nat
      /\ \A m \in Msgs : dropped'[m] = (IF m \in D THEN dropped[m] + 1 ELSE dropped[m])
  BY <1>1 DEF Moves, Ran, TypeOK
<1>4. /\ \A m \in D : m \notin owned'
      /\ \A m \in D : m <= offered /\ dropped[m] = 0
      /\ \A m \in O : m <= offered /\ dropped[m] = 0
  BY <1>1 DEF SettlesLeaving
<1>5. PICK left \in SUBSET Msgs : left = {m \in Msgs : CustodyOf(m)' # CustodyOf(m)}
  OBVIOUS
<1>6. CASE left = {}
  BY <1>5, <1>6 DEF Mapped
<1>7. CASE left # {} /\ D = {}
  <2>1. \A m \in left : CustodyOf(m) = "queued" /\ CustodyOf(m)' = "session"
    <3> SUFFICES ASSUME NEW m \in left
                 PROVE  CustodyOf(m) = "queued" /\ CustodyOf(m)' = "session"
      OBVIOUS
    <3>1. dropped'[m] = dropped[m]
      BY <1>3, <1>7
    <3>2. m \in O /\ m \notin owned
      BY <1>2, <1>5, <3>1 DEF CustodyOf
    <3>3. ~ (m > offered) /\ ~ (dropped[m] > 0)
      BY <1>2, <1>3, <1>4, <3>2
    <3> QED
      BY <1>2, <3>2, <3>3 DEF CustodyOf
  <2>2. Custody!Move(left, "queued", "session")
    BY <1>5, <1>7, <2>1, MappedMove
  <2> QED
    BY <2>2 DEF Custody!Next, Custody!HandOver
<1>8. CASE left # {} /\ O = {}
  <2>1. \A m \in left : CustodyOf(m) = "queued" /\ CustodyOf(m)' = "reclaimed"
    <3> SUFFICES ASSUME NEW m \in left
                 PROVE  CustodyOf(m) = "queued" /\ CustodyOf(m)' = "reclaimed"
      OBVIOUS
    <3>1. owned' = owned
      BY <1>2, <1>8
    <3>2. m \in D
      BY <1>2, <1>3, <1>5, <3>1 DEF CustodyOf
    <3>3. m \notin owned /\ ~ (m > offered) /\ ~ (dropped[m] > 0) /\ dropped'[m] > 0
      <4>1. m \notin owned
        BY <1>4, <3>1, <3>2
      <4>2. m <= offered /\ dropped[m] = 0 /\ m \in Nat
        BY <1>2, <1>4, <3>2
      <4>3. dropped'[m] = dropped[m] + 1
        BY <1>3, <3>2
      <4> QED
        BY <1>2, <4>1, <4>2, <4>3
    <3> QED
      BY <1>2, <3>1, <3>3 DEF CustodyOf
  <2>2. Custody!Move(left, "queued", "reclaimed")
    BY <1>5, <1>8, <2>1, MappedMove
  <2> QED
    BY <2>2 DEF Custody!Next, Custody!Reclaim
<1> QED
  BY <1>1, <1>6, <1>7, <1>8

(* The message a step offers is accepted or rejected. *)
LEMMA OfferRefines ==
  ASSUME TypeOK, InCustody, RefuseMessage \/ \E c \in Chats : Enqueue(c)
  PROVE  Custody!Next
<1>1. PICK m : m = offered + 1
  OBVIOUS
<1>2. /\ offered \in Nat /\ m \in Msgs /\ m > offered /\ Msgs \subseteq Nat
      /\ dropped \in [Msgs -> Nat]
  <2>1. offered \in 0..NumMsgs /\ offered < NumMsgs /\ dropped \in [Msgs -> Nat]
    BY DEF TypeOK, RefuseMessage, Enqueue
  <2> QED
    BY <1>1, <2>1, MessageQueueAssumption DEF Msgs
<1>3. /\ offered' = m /\ owned' = owned
      /\ dropped' = Ran(dropped, {m}) \/ dropped' = dropped
  BY <1>1 DEF RefuseMessage, Enqueue
<1>4. dropped[m] = 0 /\ m \notin owned
  BY <1>2 DEF InCustody, UnseenUntouched
<1>5. \A x \in Msgs : x # m => dropped'[x] = dropped[x]
  BY <1>3 DEF Ran
<1>6. CustodyOf(m) = "unseen"
  BY <1>2 DEF CustodyOf
<1>7. \A x \in Msgs : x \notin {m} => CustodyOf(x)' = CustodyOf(x)
  <2> SUFFICES ASSUME NEW x \in Msgs, x # m
               PROVE  CustodyOf(x)' = CustodyOf(x)
    OBVIOUS
  <2>1. x > offered' <=> x > offered
    BY <1>1, <1>2, <1>3
  <2> QED
    BY <1>3, <1>5, <2>1 DEF CustodyOf
<1>8. ~ (m > offered')
  BY <1>2, <1>3
<1>9. CASE dropped' = Ran(dropped, {m})
  <2>1. dropped'[m] = 1
    BY <1>2, <1>4, <1>9 DEF Ran
  <2>2. CustodyOf(m)' = "reclaimed"
    BY <1>3, <1>4, <1>8, <2>1 DEF CustodyOf
  <2>3. Custody!Move({m}, "unseen", "reclaimed")
    BY <1>2, <1>6, <1>7, <2>2, MappedMove
  <2> QED
    BY <1>2, <2>3 DEF Custody!Next, Custody!Reject
<1>10. CASE dropped' = dropped
  <2>1. CustodyOf(m)' = "queued"
    BY <1>3, <1>4, <1>8, <1>10 DEF CustodyOf
  <2>2. Custody!Move({m}, "unseen", "queued")
    BY <1>2, <1>6, <1>7, <2>1, MappedMove
  <2> QED
    BY <1>2, <2>2 DEF Custody!Next, Custody!Accept
<1> QED
  BY <1>3, <1>9, <1>10

(* A message is dealt with once, by the agent and by its media's owner. *)
THEOREM MessagesHandledOnce == Spec => []HandledOnce
<1>1. InCustody => HandledOnce
  BY DEF InCustody, HandledOnce
<1> QED
  BY <1>1, AlwaysInCustody, PTL

(* The queue implements MessageCustody: every accepted message leaves the  *)
(* queue at most once, for the session or by having its media reclaimed,   *)
(* and never changes hands again.                                          *)
THEOREM QueueImplementsCustody == Spec => Custody!SafeSpec
<1>1. Init => Custody!Init
  <2> SUFFICES ASSUME Init
               PROVE  Custody!Init
    OBVIOUS
  <2>1. offered = 0
    BY DEF Init
  <2>2. \A m \in Msgs : m > offered
    BY <2>1, MessageQueueAssumption DEF Msgs
  <2> QED
    BY <2>2 DEF Custody!Init, CustodyOf
<1>2. ASSUME TypeOK, Linked, IdleTurnsEmpty, InCustody, [Next]_vars
      PROVE  Custody!Next \/ UNCHANGED Mapped
  <2>1. CASE RefuseMessage \/ \E c \in Chats : Enqueue(c)
    BY <1>2, <2>1, OfferRefines
  <2>2. CASE ~RefuseMessage /\ \A c \in Chats : ~Enqueue(c)
    BY <1>2, <2>2, StepsHandle, HandlesRefines
  <2> QED
    BY <2>1, <2>2
<1>3. TypeOK /\ Linked /\ IdleTurnsEmpty /\ InCustody /\ [Next]_vars
      => [Custody!Next]_([m \in Msgs |-> CustodyOf(m)])
  BY <1>2 DEF Mapped
<1> QED
  BY <1>1, <1>3, TypeCorrect, AlwaysLinked, AlwaysIdleTurnsEmpty, AlwaysInCustody, PTL
  DEF Spec, Custody!SafeSpec

-----------------------------------------------------------------------------
(* A shutdown that drains loses nothing. *)

(* After beginShutdown nothing is accepted, and no debounce timer is armed *)
(* while the queues drain.                                                 *)
Unarmed ==
  /\ stage # "serving" => ~accepting
  /\ stage = "draining" => \A s \in CurrentStates : ~st[s].timer

(* A step that arms no timer and puts no state into the map. *)
ArmsNone ==
  /\ CurrentStates' \subseteq CurrentStates
  /\ \A s \in QStates : st'[s].timer => st[s].timer

LEMMA OneStateArmsNone ==
  ASSUME TypeOK, NEW s \in QStates, NEW q, st' = [st EXCEPT ![s] = q],
         q.timer => st[s].timer, UNCHANGED queues
  PROVE  ArmsNone
<1>1. st \in [QStates -> QueueState]
  BY StructureTypes
<1> QED
  BY <1>1 DEF ArmsNone, CurrentStates

LEMMA FlagsKeepTimer ==
  ASSUME NEW q \in QueueState, NEW m, NEW ms
  PROVE  /\ [q EXCEPT !.noticeScheduled = FALSE].timer = q.timer
         /\ [q EXCEPT !.cooling = FALSE].timer = q.timer
         /\ [q EXCEPT !.cooldownTimer = FALSE].timer = q.timer
         /\ [q EXCEPT !.calls = ms].timer = q.timer
         /\ [q EXCEPT !.busy = FALSE].timer = q.timer
         /\ [[q EXCEPT !.platform = FALSE] EXCEPT !.cooldownTimer = TRUE].timer = q.timer
         /\ SettleBusyGeneration(q).timer = q.timer
         /\ ~Detached(q).timer /\ ~Flushed(q).timer
         /\ [SteerForgotten(q, m) EXCEPT !.blocked = TRUE].timer = q.timer
         /\ SteerForgotten(q, m).timer = q.timer
         /\ [q EXCEPT !.cooldownTimer = FALSE] \in QueueState
<1>1. ~Detached(q).timer
  BY DEF QueueState, Detached, DropCollectEntries, SettleBusyGeneration
<1>2. ~Flushed(q).timer
  BY FlushedType DEF QueueState, SteeringApart
<1> QED
  BY <1>1, <1>2 DEF QueueState, SettleBusyGeneration, SteerForgotten

LEMMA EvictArmsNone ==
  ASSUME TypeOK, NEW c \in Chats, NEW sts \in [QStates -> QueueState],
         \A s \in QStates : sts[s].timer = st[s].timer, EvictIfIdle(c, sts)
  PROVE  ArmsNone
<1>1. queues \in [Chats -> QStates \cup {NoState}]
  BY StructureTypes
<1>2. CurrentStates' \subseteq CurrentStates
  BY <1>1 DEF EvictIfIdle, CurrentStates
<1>3. CASE st' = sts
  BY <1>2, <1>3 DEF ArmsNone
<1>4. CASE st' = [sts EXCEPT ![queues[c]].platform = FALSE, ![queues[c]].cooldownTimer = TRUE]
  <2>1. ASSUME NEW s \in QStates
        PROVE  st'[s].timer = st[s].timer
    <3>1. \/ st'[s] = sts[s]
          \/ st'[s] = [[sts[s] EXCEPT !.platform = FALSE] EXCEPT !.cooldownTimer = TRUE]
      BY <1>4
    <3>2. sts[s] \in QueueState
      OBVIOUS
    <3> QED
      BY <3>1, <3>2, FlagsKeepTimer
  <2> QED
    BY <1>2, <2>1 DEF ArmsNone
<1> QED
  BY <1>3, <1>4 DEF EvictIfIdle

LEMMA EndTurnArmsNone ==
  ASSUME TypeOK, NEW s \in QStates, NEW q \in QueueState, q.timer = st[s].timer,
         EndTurn(s, q), UNCHANGED queues
  PROVE  ArmsNone
<1>1. PICK r : st' = [st EXCEPT ![s] = r] /\ r \in {q, StartBusy([q EXCEPT !.collect = <<>>]), [q EXCEPT !.busy = FALSE]}
  BY DEF EndTurn
<1>2. r.timer = q.timer
  <2>1. PICK b \in QueueState : b = [q EXCEPT !.collect = <<>>] /\ b.timer = q.timer
    <3>1. [q EXCEPT !.collect = <<>>] \in QueueState
      BY EmptySeq DEF QueueState
    <3> QED
      BY <3>1 DEF QueueState
  <2>2. StartBusy(b).timer = b.timer
    BY StartBusyType DEF SteeringApart, QueueState
  <2> QED
    BY <1>1, <2>1, <2>2, FlagsKeepTimer
<1> QED
  BY <1>1, <1>2, OneStateArmsNone

LEMMA ChatArmsNone ==
  ASSUME TypeOK, NEW c \in Chats, DebounceFires(c) \/ FlushEvicts(c) \/ Clear(c)
  PROVE  ArmsNone
<1>1. st \in [QStates -> QueueState] /\ queues \in [Chats -> QStates \cup {NoState}]
  BY StructureTypes
<1>2. CASE DebounceFires(c)
  <2>1. /\ queues[c] \in QStates /\ st' = [st EXCEPT ![queues[c]] = Flushed(st[queues[c]])]
        /\ UNCHANGED queues
    BY <1>1, <1>2 DEF DebounceFires
  <2>2. ~Flushed(st[queues[c]]).timer
    BY <1>1, <2>1, FlagsKeepTimer
  <2> QED
    BY <2>1, <2>2, OneStateArmsNone
<1>3. CASE FlushEvicts(c)
  BY <1>1, <1>3, EvictArmsNone DEF FlushEvicts
<1>4. CASE Clear(c)
  <2>1. /\ queues[c] \in QStates /\ st' = [st EXCEPT ![queues[c]] = Detached(st[queues[c]])]
        /\ queues' = [queues EXCEPT ![c] = NoState]
    BY <1>1, <1>4 DEF Clear
  <2>2. ~Detached(st[queues[c]]).timer
    BY <1>1, <2>1, FlagsKeepTimer
  <2>3. CurrentStates' \subseteq CurrentStates
    BY <1>1, <2>1 DEF CurrentStates
  <2> QED
    BY <1>1, <2>1, <2>2, <2>3 DEF ArmsNone
<1> QED
  BY <1>2, <1>3, <1>4

LEMMA TurnArmsNone ==
  ASSUME TypeOK, NEW s \in QStates, TurnStep(s)
  PROVE  ArmsNone
<1>1. st \in [QStates -> QueueState] /\ st[s] \in QueueState
  BY StructureTypes
<1>2. /\ SettleBusyGeneration(st[s]) \in QueueState
      /\ SettleBusyGeneration(st[s]).timer = st[s].timer
  BY <1>1, SettleBusyType, FlagsKeepTimer
<1>3. CASE SessionPrepared(s) \/ NoticeDelivered(s) \/ AgentTakesPrompt(s)
  BY <1>3 DEF SessionPrepared, NoticeDelivered, AgentTakesPrompt, ArmsNone, CurrentStates
<1>4. CASE TurnSucceeds(s) \/ TurnThrows(s)
  <2>1. UNCHANGED queues
    BY <1>4 DEF TurnSucceeds, TurnThrows
  <2>2. \/ EndTurn(s, SettleBusyGeneration(st[s]))
        \/ st' = [st EXCEPT ![s] = SettleBusyGeneration(st[s])]
    BY <1>4 DEF TurnSucceeds, TurnThrows
  <2> QED
    BY <1>2, <2>1, <2>2, OneStateArmsNone, EndTurnArmsNone
<1>5. CASE ErrorReplied(s)
  <2>1. EndTurn(s, st[s]) /\ UNCHANGED queues
    BY <1>5 DEF ErrorReplied
  <2> QED
    BY <1>1, <2>1, EndTurnArmsNone
<1> QED
  BY <1>3, <1>4, <1>5 DEF TurnStep

LEMMA SteerArmsNone ==
  ASSUME TypeOK, NEW s \in QStates, NEW m \in Msgs,
         SteerEnqueued(s, m) \/ SteerConsumed(s, m) \/ SteerRefused(s, m) \/ SteerSettlesLate(s, m)
  PROVE  ArmsNone
<1>1. st \in [QStates -> QueueState] /\ st[s] \in QueueState
  BY StructureTypes
<1>2. PICK f : f = SteerForgotten(st[s], m) /\ f.timer = st[s].timer
  BY <1>1, FlagsKeepTimer
<1>3. f \in QueueState
  BY <1>1, <1>2 DEF QueueState, SteerForgotten
<1>4. CASE SteerEnqueued(s, m)
  <2>1. PICK q : q = [st[s] EXCEPT !.submitting = NoMsg]
    OBVIOUS
  <2>2. q \in QueueState /\ q.timer = st[s].timer
    BY <1>1, <2>1 DEF QueueState
  <2>3. AttemptSteer(q).timer = st[s].timer
    BY <2>2, AttemptSteerType DEF SteeringApart
  <2>4. st' = [st EXCEPT ![s] = AttemptSteer(q)] /\ UNCHANGED queues
    BY <1>4, <2>1 DEF SteerEnqueued
  <2> QED
    BY <2>3, <2>4, OneStateArmsNone
<1>5. CASE SteerConsumed(s, m)
  <2>1. UNCHANGED queues /\
        (st' = [st EXCEPT ![s] = f] \/
         (m \in ElementsOf(f.collect) /\
          st' = [st EXCEPT ![s] = AttemptSteer([f EXCEPT !.collect = Without(f.collect, m)])]))
    BY <1>2, <1>5 DEF SteerConsumed
  <2>2. CASE m \in ElementsOf(f.collect) /\
          st' = [st EXCEPT ![s] = AttemptSteer([f EXCEPT !.collect = Without(f.collect, m)])]
    <3>1. f.collect \in Seq(Msgs)
      BY <1>3 DEF QueueState
    <3>2. Without(f.collect, m) \in Seq(Msgs)
      BY <2>2, <3>1, WithoutType
    <3>3. PICK q : q = [f EXCEPT !.collect = Without(f.collect, m)]
      OBVIOUS
    <3>4. q \in QueueState /\ q.timer = f.timer
      BY <1>3, <3>2, <3>3 DEF QueueState
    <3>5. AttemptSteer(q).timer = st[s].timer
      BY <1>2, <3>4, AttemptSteerType DEF SteeringApart
    <3> QED
      BY <2>1, <2>2, <3>3, <3>5, OneStateArmsNone
  <2> QED
    BY <1>2, <2>1, <2>2, OneStateArmsNone
<1>6. CASE SteerRefused(s, m)
  <2>1. PICK q : /\ q = [SteerForgotten(st[s], m) EXCEPT !.blocked = TRUE]
                 /\ st' = [st EXCEPT ![s] = q] /\ UNCHANGED queues
    BY <1>6 DEF SteerRefused
  <2>2. q.timer = st[s].timer
    BY <1>1, <2>1, FlagsKeepTimer
  <2> QED
    BY <2>1, <2>2, OneStateArmsNone
<1>7. CASE SteerSettlesLate(s, m)
  <2>1. PICK q : /\ q = [st[s] EXCEPT !.calls = st[s].calls \ {m}]
                 /\ st' = [st EXCEPT ![s] = q] /\ UNCHANGED queues
    BY <1>7 DEF SteerSettlesLate
  <2>2. q.timer = st[s].timer
    BY <1>1, <2>1, FlagsKeepTimer
  <2> QED
    BY <2>1, <2>2, OneStateArmsNone
<1> QED
  BY <1>4, <1>5, <1>6, <1>7

LEMMA StateArmsNone ==
  ASSUME TypeOK, NEW s \in QStates, StateStep(s)
  PROVE  ArmsNone
<1>1. st \in [QStates -> QueueState] /\ st[s] \in QueueState
  BY StructureTypes
<1>2. CASE SendRejectionNotice(s)
  <2>1. st' = [st EXCEPT ![s] = [st[s] EXCEPT !.noticeScheduled = FALSE]] /\ UNCHANGED queues
    BY <1>2 DEF SendRejectionNotice
  <2> QED
    BY <1>1, <2>1, FlagsKeepTimer, OneStateArmsNone
<1>3. CASE CooldownElapses(s)
  <2>1. st' = [st EXCEPT ![s] = [st[s] EXCEPT !.cooling = FALSE]] /\ UNCHANGED queues
    BY <1>3 DEF CooldownElapses
  <2> QED
    BY <1>1, <2>1, FlagsKeepTimer, OneStateArmsNone
<1>4. CASE CooldownTimerFires(s)
  <2>1. PICK sts : sts = [st EXCEPT ![s] = [st[s] EXCEPT !.cooldownTimer = FALSE]]
    OBVIOUS
  <2>2. EvictIfIdle(st[s].chat, sts)
    BY <1>4, <2>1 DEF CooldownTimerFires
  <2>3. st[s].chat \in Chats
    BY StructureTypes
  <2>4. /\ sts \in [QStates -> QueueState]
        /\ \A u \in QStates : sts[u].timer = st[u].timer
    BY <1>1, <2>1, FlagsKeepTimer
  <2> QED
    BY <2>2, <2>3, <2>4, EvictArmsNone
<1> QED
  BY <1>2, <1>3, <1>4 DEF StateStep

LEMMA NextUnarmed == TypeOK /\ Unarmed /\ [Next]_vars => Unarmed'
<1> SUFFICES ASSUME TypeOK, Unarmed, [Next]_vars
             PROVE  Unarmed'
  OBVIOUS
<1>1. st \in [QStates -> QueueState] /\ queues \in [Chats -> QStates \cup {NoState}]
  BY StructureTypes
<1>2. ASSUME UNCHANGED <<stage, accepting>>, ArmsNone
      PROVE  Unarmed'
  <2>1. CurrentStates \subseteq QStates
    BY <1>1 DEF CurrentStates
  <2> QED
    BY <1>2, <2>1 DEF Unarmed, ArmsNone
<1>3. CASE RefuseMessage \/ Stopped \/ UNCHANGED vars
  <2>1. UNCHANGED <<stage, accepting, st, queues>>
    BY <1>3 DEF RefuseMessage, Stopped, vars
  <2> QED
    BY <1>2, <2>1 DEF ArmsNone, CurrentStates
<1>4. ASSUME NEW c \in Chats, ChatStep(c)
      PROVE  Unarmed'
  <2>1. UNCHANGED <<stage, accepting>>
    BY <1>4 DEF ChatStep, Enqueue, DebounceFires, FlushEvicts, Clear
  <2>2. CASE Enqueue(c)
    BY <2>1, <2>2 DEF Enqueue, Unarmed
  <2>3. CASE ~Enqueue(c)
    BY <1>2, <1>4, <2>1, <2>3, ChatArmsNone DEF ChatStep
  <2> QED
    BY <2>2, <2>3
<1>5. ASSUME NEW s \in QStates, TurnStep(s) \/ SteerStep(s) \/ StateStep(s)
      PROVE  Unarmed'
  <2>1. CASE TurnStep(s)
    <3>1. UNCHANGED <<stage, accepting>>
      BY <2>1 DEF TurnStep, SessionPrepared, NoticeDelivered, AgentTakesPrompt, TurnSucceeds,
                  TurnThrows, ErrorReplied
    <3> QED
      BY <1>2, <2>1, <3>1, TurnArmsNone
  <2>2. CASE SteerStep(s)
    <3>1. UNCHANGED <<stage, accepting>>
      BY <2>2 DEF SteerStep, SteerEnqueued, SteerConsumed, SteerRefused, SteerSettlesLate
    <3> QED
      BY <1>2, <2>2, <3>1, SteerArmsNone DEF SteerStep
  <2>3. CASE StateStep(s)
    <3>1. UNCHANGED <<stage, accepting>>
      BY <2>3 DEF StateStep, SendRejectionNotice, CooldownElapses, CooldownTimerFires
    <3> QED
      BY <1>2, <2>3, <3>1, StateArmsNone
  <2> QED
    BY <1>5, <2>1, <2>2, <2>3
<1>6. CASE BeginShutdown
  <2>1. accepting' = FALSE /\ CurrentStates' = CurrentStates
    BY <1>6 DEF BeginShutdown, CurrentStates
  <2>2. ASSUME NEW s \in CurrentStates
        PROVE  ~st'[s].timer
    <3>1. s \in QStates /\ st[s] \in QueueState
      BY <1>1 DEF CurrentStates
    <3>2. st'[s] = Flushed(st[s]) \/ st'[s] = [st[s] EXCEPT !.timer = FALSE]
      BY <1>6, <3>1 DEF BeginShutdown
    <3>3. ~[st[s] EXCEPT !.timer = FALSE].timer
      BY <3>1 DEF QueueState
    <3>4. ~Flushed(st[s]).timer
      BY <3>1, FlagsKeepTimer
    <3> QED
      BY <3>2, <3>3, <3>4
  <2> QED
    BY <2>1, <2>2 DEF Unarmed
<1>7. CASE FinishDrain \/ ForceShutdown
  BY <1>7 DEF FinishDrain, ForceShutdown, Unarmed
<1> QED
  BY <1>3, <1>4, <1>5, <1>6, <1>7 DEF Next

LEMMA AlwaysUnarmed == Spec => []Unarmed
<1>1. Init => Unarmed
  BY DEF Init, Unarmed
<1> QED
  BY <1>1, NextUnarmed, TypeCorrect, PTL DEF Spec

(* A shutdown that drains within its deadline drops nothing: once no flush *)
(* is active, clearAll finds every buffer empty.                           *)
THEOREM DrainsLoseNothing == Spec => DrainLosesNothing
<1>1. ASSUME TypeOK, Linked, Unarmed, [Next]_vars,
             stage = "draining", stage' = "stopped", NoActiveFlush
      PROVE  dropped' = dropped /\ cleaned' = cleaned
  <2>1. PICK lost : /\ lost = UNION {Undelivered(st[s]) : s \in CurrentStates}
                    /\ cleaned' = Ran(cleaned, lost) /\ dropped' = Ran(dropped, lost)
    <3>1. ClearAll
      BY <1>1 DEF Next, RefuseMessage, ChatStep, Enqueue, DebounceFires, FlushEvicts, Clear,
                  TurnStep, SessionPrepared, NoticeDelivered, AgentTakesPrompt, TurnSucceeds,
                  TurnThrows, ErrorReplied, SteerStep, SteerEnqueued, SteerConsumed, SteerRefused,
                  SteerSettlesLate, StateStep, SendRejectionNotice, CooldownElapses,
                  CooldownTimerFires, BeginShutdown, FinishDrain, ForceShutdown, Stopped, vars
    <3> QED
      BY <3>1 DEF ClearAll
  <2>2. ASSUME NEW s \in CurrentStates
        PROVE  Undelivered(st[s]) = {}
    <3>1. NothingStranded /\ s \in QStates
      BY <1>1, StructureTypes, LinkedImpliesNothingStranded DEF CurrentStates
    <3>2. ~st[s].timer /\ turn[s].phase = "none"
      BY <1>1, <3>1 DEF Unarmed, NoActiveFlush
    <3>3. st[s].pending = <<>> /\ st[s].collect = <<>>
      BY <3>1, <3>2 DEF NothingStranded
    <3> QED
      BY <3>3, EmptyElements DEF Undelivered
  <2>3. lost = {}
    BY <2>1, <2>2
  <2>4. cleaned \in [Msgs -> Nat] /\ dropped \in [Msgs -> Nat]
    BY <1>1 DEF TypeOK
  <2> QED
    BY <2>1, <2>3, <2>4, RanNone
<1>2. TypeOK /\ Linked /\ Unarmed /\ [Next]_vars
      => [stage = "draining" /\ stage' = "stopped" /\ NoActiveFlush
            => dropped' = dropped /\ cleaned' = cleaned]_vars
  BY <1>1
<1> QED
  BY <1>2, TypeCorrect, AlwaysLinked, AlwaysUnarmed, PTL DEF Spec, DrainLosesNothing
=============================================================================
