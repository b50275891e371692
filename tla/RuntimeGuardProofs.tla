-------------------------- MODULE RuntimeGuardProofs --------------------------
(* Type correctness, mutual exclusion and the readiness marker, for any      *)
(* number of processes and locks; and below, the supervision of the process  *)
(* that serves (ServingRuntime), for any number of generations.              *)
EXTENDS RuntimeGuard, ServingRuntime, TLAPS, SequenceTheorems, WellFoundedInduction

(* A process that holds locks has a last one. *)
LEMMA LastIsHeld ==
  ASSUME NEW p \in Procs, held[p] \in SUBSET Locks, held[p] # {}
  PROVE  LastHeld(p) \in held[p] /\ \A m \in held[p] : m <= LastHeld(p)
<1> DEFINE fromTop == {NumLocks - l : l \in held[p]}
<1>1. NumLocks \in Nat /\ \A l \in held[p] : l \in Nat /\ l <= NumLocks
  BY RuntimeGuardAssumption DEF Locks
<1>2. fromTop \subseteq Nat /\ fromTop # {}
  BY <1>1
<1>3. PICK i \in fromTop : \A j \in fromTop : ~ (<<j, i>> \in OpToRel(<, Nat))
  BY <1>2, NatLessThanWellFounded, WFMin
<1>4. PICK l \in held[p] : i = NumLocks - l
  BY <1>3
<1>5. ASSUME NEW m \in held[p]
      PROVE  m <= l
  <2>1. NumLocks - m \in fromTop
    OBVIOUS
  <2>2. ~ (NumLocks - m < i)
    BY <1>2, <1>3, <2>1 DEF OpToRel
  <2>. QED BY <1>1, <1>4, <2>2
<1>. QED BY <1>5 DEF LastHeld

(* UnlinkOrder lists some of the entries it is given. *)
LEMMA UnlinkOrderLists ==
  ASSUME NEW names \in SUBSET EntryNames
  PROVE  /\ UnlinkOrder(names) \in Seq(EntryNames)
         /\ \A i \in DOMAIN UnlinkOrder(names) : UnlinkOrder(names)[i] \in names
<1> DEFINE last(kind) == {n \in names : n[1] = kind}
           seq(S) == IF S = {} THEN <<>> ELSE <<CHOOSE n \in S : TRUE>>
<1>1. ASSUME NEW S \in SUBSET names
      PROVE  /\ seq(S) \in Seq(names) /\ Len(seq(S)) \in 0..1
  <2>1. CASE S = {}
    BY <2>1
  <2>2. CASE S # {}
    <3>1. (CHOOSE n \in S : TRUE) \in names
      BY <2>2
    <3>. QED BY <2>2, <3>1
  <2>. QED BY <2>1, <2>2
<1>2. seq(last("owner")) \in Seq(names) /\ seq(last("claim")) \in Seq(names)
  BY <1>1
<1>3. UnlinkOrder(names) = seq(last("owner")) \o seq(last("claim"))
  BY DEF UnlinkOrder
<1> HIDE DEF last, seq
<1>4. UnlinkOrder(names) \in Seq(names)
  BY <1>2, <1>3
<1>. QED BY <1>4

(* Every reachable state is well typed. *)
LEMMA InitTyped == Init => TypeOK
<1> SUFFICES ASSUME Init PROVE TypeOK
  OBVIOUS
<1>1. NoSnap \in DirStamp /\ 1 \in Locks /\ 0 \in 0..MaxClock
  BY RuntimeGuardAssumption DEF NoSnap, DirStamp, Locks
<1>2. <<>> \in Seq(EntryNames)
  OBVIOUS
<1>3. NoDir \in LockDir
  BY <1>1 DEF NoDir, LockDir
<1>. QED BY <1>1, <1>2, <1>3 DEF Init, TypeOK, Steps

(* What a snapshot, an entry or a removal puts into the variables.         *)
LEMMA SnapshotTyped ==
  ASSUME NEW d \in LockDir
  PROVE  SnapshotOf(d) \in DirStamp
BY DEF LockDir, DirStamp, SnapshotOf

LEMMA EntriesTyped ==
  ASSUME NEW p \in Procs
  PROVE  Claim(p) \in EntryNames /\ Owner(p) \in EntryNames
BY DEF Claim, Owner, EntryNames

(* What the writes of an entry and its removal make of a directory.        *)
LEMMA ChangesTyped ==
  ASSUME NEW d \in LockDir, NEW entry \in EntryNames, clock \in 0..MaxClock
  PROVE  /\ WithEntry(d, entry) \in LockDir
         /\ WithContents(d, entry) \in LockDir
         /\ WithoutEntry(d, entry) \in LockDir
BY DEF LockDir, WithEntry, WithContents, WithoutEntry

LEMMA DirTyped ==
  ASSUME dir \in [Locks -> LockDir], NEW l \in Locks, NEW d \in LockDir,
         dir' = [dir EXCEPT ![l] = d] \/ dir' = dir
  PROVE  dir' \in [Locks -> LockDir]
OBVIOUS

LEMMA AcquireTyped ==
  ASSUME TypeOK, NEW p \in Procs, Acquire(p)
  PROVE  TypeOK'
<1> USE DEF TypeOK, Goto, Steps
<1>1. CASE Start(p)
  BY <1>1 DEF Start
<1>2. CASE Mkdir(p)
  <2>1. ASSUME NEW i \in FreeInodes
        PROVE  [ino |-> i, mtime |-> clock, names |-> {}, full |-> {}] \in LockDir
    BY DEF FreeInodes, LockDir
  <2>2. dir' \in [Locks -> LockDir]
    <3>1. CASE UNCHANGED dir
      BY <3>1
    <3>2. CASE dir' # dir
      <4>1. PICK i \in FreeInodes :
              dir' = [dir EXCEPT ![lock[p]] =
                        [ino |-> i, mtime |-> clock, names |-> {}, full |-> {}]]
        BY <1>2, <3>2 DEF Mkdir
      <4>2. lock[p] \in Locks /\ dir \in [Locks -> LockDir]
        OBVIOUS
      <4>. QED BY ONLY <2>1, <4>1, <4>2, DirTyped
    <3>. QED BY <3>1, <3>2
  <2>3. pc' \in [Procs -> Steps]
    BY <1>2 DEF Mkdir
  <2>. QED BY <1>2, <2>2, <2>3 DEF Mkdir
<1>3. CASE Inspect(p)
  <2>1. dir[lock[p]].ino \in Inodes \cup {0}
    BY DEF LockDir
  <2>. QED BY <1>3, <2>1 DEF Inspect
<1>4. ASSUME NEW step, NEW entry \in EntryNames, CreateEntry(p, step, entry)
      PROVE  TypeOK'
  <2>1. WithEntry(dir[lock[p]], entry) \in LockDir
    BY ChangesTyped
  <2>2. dir' \in [Locks -> LockDir]
    <3>1. \/ dir' = [dir EXCEPT ![lock[p]] = WithEntry(dir[lock[p]], entry)]
          \/ dir' = dir
      BY <1>4 DEF CreateEntry
    <3>2. lock[p] \in Locks /\ dir \in [Locks -> LockDir]
      OBVIOUS
    <3>. QED BY ONLY <2>1, <3>1, <3>2, DirTyped
  <2>3. pc' \in [Procs -> Steps]
    BY <1>4 DEF CreateEntry
  <2>. QED BY <1>4, <2>2, <2>3 DEF CreateEntry
<1>5. ASSUME NEW step, NEW entry \in EntryNames, FillEntry(p, step, entry)
      PROVE  TypeOK'
  <2>1. WithContents(dir[lock[p]], entry) \in LockDir
    BY ChangesTyped
  <2>2. dir' \in [Locks -> LockDir]
    <3>1. \/ dir' = [dir EXCEPT ![lock[p]] = WithContents(dir[lock[p]], entry)]
          \/ dir' = dir
      BY <1>5 DEF FillEntry
    <3>2. lock[p] \in Locks /\ dir \in [Locks -> LockDir]
      OBVIOUS
    <3>. QED BY ONLY <2>1, <3>1, <3>2, DirTyped
  <2>3. pc' \in [Procs -> Steps]
    BY <1>5 DEF FillEntry
  <2>. QED BY <1>5, <2>2, <2>3 DEF FillEntry
<1>6. CASE Check(p)
  <2>1. SnapshotOf(dir[lock[p]]) \in DirStamp
    BY SnapshotTyped
  <2>2. lock[p] < NumLocks => lock[p] + 1 \in Locks
    BY RuntimeGuardAssumption DEF Locks
  <2>. QED BY <1>6, <2>1, <2>2 DEF Check, MoreLocks
<1>7. CASE RemovePartial(p)
  <2>1. UnlinkOrder(dir[lock[p]].names) \in Seq(EntryNames)
    BY UnlinkOrderLists DEF LockDir
  <2>. QED BY <1>7, <2>1 DEF RemovePartial
<1>. QED BY <1>1, <1>2, <1>3, <1>4, <1>5, <1>6, <1>7, EntriesTyped DEF Acquire

LEMMA RemoveTyped ==
  ASSUME TypeOK, NEW p \in Procs, Remove(p)
  PROVE  TypeOK'
<1> USE DEF TypeOK, Goto, Steps
<1>1. NoSnap \in DirStamp /\ NoDir \in LockDir
  BY RuntimeGuardAssumption DEF NoSnap, DirStamp, NoDir, LockDir
<1>2. ASSUME NEW removed, AfterRemoval(p, removed)
      PROVE  /\ todo' \in [Procs -> Seq(EntryNames)] /\ snap' \in [Procs -> DirStamp]
             /\ pc' \in [Procs -> Steps] /\ attempt' \in [Procs -> 1..3]
  <2>1. <<>> \in Seq(EntryNames)
    OBVIOUS
  <2>2. attempt[p] < 3 => attempt[p] + 1 \in 1..3
    <3>1. attempt[p] \in 1..3
      OBVIOUS
    <3>. QED BY ONLY <3>1
  <2>3. todo' \in [Procs -> Seq(EntryNames)] /\ snap' \in [Procs -> DirStamp]
    BY <1>1, <1>2, <2>1 DEF AfterRemoval
  <2>4. CASE pc[p] = "recover" /\ removed /\ attempt[p] < 3
    BY <1>2, <2>2, <2>3, <2>4 DEF AfterRemoval
  <2>5. CASE ~(pc[p] = "recover" /\ removed /\ attempt[p] < 3)
    BY <1>2, <2>3, <2>5 DEF AfterRemoval
  <2>. QED BY <2>4, <2>5
<1>3. CASE TakeSnapshot(p)
  <2>1. SnapshotOf(dir[lock[p]]) \in DirStamp
    BY SnapshotTyped
  <2>. QED BY <1>3, <2>1 DEF TakeSnapshot
<1>4. CASE Judge(p)
  <2>1. UnlinkOrder(dir[lock[p]].names) \in Seq(EntryNames)
    BY UnlinkOrderLists DEF LockDir
  <2>. QED BY <1>1, <1>4, <2>1 DEF Judge
<1>5. CASE Unlink(p)
  <2> DEFINE entry == Head(todo[p])
  <2>1. todo[p] # <<>> /\ todo[p] \in Seq(EntryNames)
    BY <1>5 DEF Unlink
  <2>2. Tail(todo[p]) \in Seq(EntryNames) /\ entry \in EntryNames
    BY <2>1
  <2>3. WithoutEntry(dir[lock[p]], entry) \in LockDir
    BY <2>2, ChangesTyped
  <2>4. CASE entry \in dir[lock[p]].names
    <3>1. dir' = [dir EXCEPT ![lock[p]] = WithoutEntry(dir[lock[p]], entry)]
      BY <1>5, <2>4 DEF Unlink
    <3>2. lock[p] \in Locks /\ dir \in [Locks -> LockDir]
      OBVIOUS
    <3>3. dir' \in [Locks -> LockDir]
      BY ONLY <2>3, <3>1, <3>2, DirTyped
    <3>4. todo' \in [Procs -> Seq(EntryNames)]
      BY <1>5, <2>2, <2>4 DEF Unlink
    <3>. QED BY <1>5, <2>4, <3>3, <3>4 DEF Unlink
  <2>5. CASE entry \notin dir[lock[p]].names
    <3>1. AfterRemoval(p, FALSE) /\ UNCHANGED dir
      BY <1>5, <2>5 DEF Unlink
    <3>. QED BY <1>2, <1>5, <3>1 DEF Unlink
  <2>. QED BY <2>4, <2>5
<1>6. CASE Rmdir(p)
  BY <1>1, <1>2, <1>6 DEF Rmdir
<1>. QED BY <1>3, <1>4, <1>5, <1>6 DEF Remove

LEMMA LeaveTyped ==
  ASSUME TypeOK, NEW p \in Procs, Leave(p)
  PROVE  TypeOK'
<1> USE DEF TypeOK, Goto, Steps
<1>1. CASE Publish(p)
  BY <1>1 DEF Publish
<1>2. CASE Shutdown(p)
  BY <1>2 DEF Shutdown, ClearFirst
<1>3. CASE Unpublish(p)
  BY <1>3 DEF Unpublish
<1>4. CASE Drop(p)
  <2>1. LastHeld(p) \in Locks
    BY <1>4, LastIsHeld DEF Drop
  <2>2. UnlinkOrder(dir[LastHeld(p)].names) \in Seq(EntryNames)
    BY <2>1, UnlinkOrderLists DEF LockDir
  <2>. QED BY <1>4, <2>1, <2>2 DEF Drop
<1>5. CASE Exit(p)
  BY <1>5 DEF Exit
<1>6. CASE Crash(p)
  BY <1>6, RuntimeGuardAssumption DEF Crash, NoSnap, DirStamp
<1>. QED BY <1>1, <1>2, <1>3, <1>4, <1>5, <1>6 DEF Leave

LEMMA NextTyped == TypeOK /\ [Next]_vars => TypeOK'
<1> SUFFICES ASSUME TypeOK, [Next]_vars PROVE TypeOK'
  OBVIOUS
<1>1. CASE UNCHANGED vars
  BY <1>1 DEF vars, TypeOK
<1>2. CASE TimePasses
  BY <1>2, RuntimeGuardAssumption DEF TimePasses, TypeOK
<1>. QED BY <1>1, <1>2, AcquireTyped, RemoveTyped, LeaveTyped DEF Next

(* Every reachable state is well typed: in particular no process locks     *)
(* past the last resource, and every removal works on lock entries.        *)
THEOREM GuardTypeCorrect == Spec => []TypeOK
BY InitTyped, NextTyped, PTL DEF Spec

-----------------------------------------------------------------------------
(* The inductive invariant of mutual exclusion and of the marker.            *)

Gone == {"exited", "crashed"}

Acquiring ==
  {"mkdir", "exists", "judge", "recover", "created", "claim", "fillClaim",
   "owner", "fillOwner", "check", "partial", "remove"}

(* A process runs from its start to its end, and writes no entry before.   *)
AliveInBetween ==
  \A p \in Procs : alive[p] <=> pc[p] \notin {"down"} \cup Gone

EntriesOfStarted ==
  \A l \in Locks : \A entry \in dir[l].names : pc[entry[2]] # "down"

AbsentIsEmpty == \A l \in Locks : ~Present(dir[l]) => dir[l].names = {}

(* The locks are taken in order, and all of them by whoever serves; the    *)
(* marker comes after.                                                     *)
HeldInOrder ==
  \A p \in Procs :
    /\ pc[p] = "down" => held[p] = {} /\ lock[p] = 1
    /\ pc[p] \in Acquiring => held[p] = 1..(lock[p] - 1)
    /\ pc[p] \in {"serving", "unpublish"} => held[p] = Locks
    /\ pc[p] \in Acquiring \cup {"down"} => ~published[p]

HeldAsOwn ==
  \A p \in Procs : \A l \in held[p] : heldDir[p][l].names = Entries(p)

(* A removal in progress concerns the process's own entries, or those of a *)
(* process that is gone for good (pc is given: a theorem needs it before and after a step). *)
RemovesOnly(at, p, entry) ==
  \/ entry \in Entries(p) /\ at[p] \in {"remove", "release"}
  \/ at[entry[2]] \in Gone

RemovalsAreSafe ==
  \A p \in Procs :
    pc[p] \notin Gone => \A i \in DOMAIN todo[p] : RemovesOnly(pc, p, todo[p][i])

(* A lock that is held is still marked in its directory. *)
HeldIsMarked ==
  \A p \in Procs, l \in Locks : Has(p, l) => Entries(p) \subseteq dir[l].names

GuardInv ==
  /\ TypeOK
  /\ AliveInBetween
  /\ EntriesOfStarted
  /\ AbsentIsEmpty
  /\ HeldInOrder
  /\ HeldAsOwn
  /\ RemovalsAreSafe
  /\ HeldIsMarked
  /\ MutualExclusion
  /\ ReadyNamesServer

Step(p) == Acquire(p) \/ Remove(p) \/ Leave(p)

LEMMA InitGuard == Init => GuardInv
<1> SUFFICES ASSUME Init PROVE GuardInv
  OBVIOUS
<1>1. TypeOK
  BY InitTyped
<1>2. NoDir.names = {} /\ \A l \in Locks : dir[l] = NoDir
  BY DEF Init, NoDir
<1>3. AliveInBetween /\ EntriesOfStarted /\ AbsentIsEmpty
  BY <1>2 DEF Init, AliveInBetween, EntriesOfStarted, AbsentIsEmpty
<1>4. HeldInOrder /\ HeldAsOwn
  BY DEF Init, HeldInOrder, HeldAsOwn, Acquiring
<1>5. RemovalsAreSafe /\ HeldIsMarked /\ MutualExclusion /\ ReadyNamesServer
  BY DEF Init, RemovalsAreSafe, HeldIsMarked, MutualExclusion, ReadyNamesServer, Has
<1>. QED BY <1>1, <1>3, <1>4, <1>5 DEF GuardInv

(* A step of one process leaves what belongs to the others alone. *)
LEMMA OthersUntouched ==
  ASSUME TypeOK, NEW p \in Procs, Step(p), NEW q \in Procs, q # p
  PROVE  /\ pc'[q] = pc[q] /\ alive'[q] = alive[q] /\ lock'[q] = lock[q]
         /\ todo'[q] = todo[q] /\ held'[q] = held[q] /\ heldDir'[q] = heldDir[q]
         /\ published'[q] = published[q]
<1> USE DEF TypeOK, Goto
<1>1. CASE Acquire(p)
  <2>1. CASE Start(p) \/ Mkdir(p) \/ Inspect(p)
    BY <2>1 DEF Start, Mkdir, Inspect
  <2>2. ASSUME NEW step, NEW entry, CreateEntry(p, step, entry) \/ FillEntry(p, step, entry)
        PROVE  /\ pc'[q] = pc[q]
               /\ UNCHANGED <<alive, lock, todo, held, heldDir, published>>
    BY <2>2 DEF CreateEntry, FillEntry
  <2>3. CASE Check(p)
    BY <2>3 DEF Check
  <2>4. CASE RemovePartial(p)
    BY <2>4 DEF RemovePartial
  <2>. QED BY <1>1, <2>1, <2>2, <2>3, <2>4 DEF Acquire
<1>2. CASE Remove(p)
  <2>1. ASSUME NEW removed, AfterRemoval(p, removed)
        PROVE  pc'[q] = pc[q] /\ todo'[q] = todo[q]
    BY <2>1 DEF AfterRemoval
  <2>2. CASE TakeSnapshot(p) \/ Judge(p)
    BY <2>2 DEF TakeSnapshot, Judge
  <2>3. CASE Unlink(p) \/ Rmdir(p)
    BY <2>1, <2>3 DEF Unlink, Rmdir
  <2>. QED BY <1>2, <2>2, <2>3 DEF Remove
<1>3. CASE Leave(p)
  <2>1. CASE Drop(p)
    BY <2>1 DEF Drop
  <2>2. CASE Publish(p) \/ Shutdown(p) \/ Unpublish(p) \/ Exit(p) \/ Crash(p)
    BY <2>2 DEF Publish, Shutdown, Unpublish, Exit, Crash
  <2>. QED BY <1>3, <2>1, <2>2 DEF Leave
<1>. QED BY <1>1, <1>2, <1>3 DEF Step

(* How a step changes a lock directory's entries: it adds its own, or      *)
(* removes the next one of a removal.                                      *)
LEMMA EntriesStep ==
  ASSUME TypeOK, AliveInBetween, AbsentIsEmpty,
         NEW p \in Procs, Step(p), NEW l \in Locks
  PROVE  /\ \A entry \in dir'[l].names \ dir[l].names :
              entry \in Entries(p) /\ pc[p] \in {"claim", "owner"}
         /\ \A entry \in dir[l].names \ dir'[l].names :
              /\ l = lock[p] /\ alive[p] /\ pc[p] \in {"remove", "recover", "release"}
              /\ todo[p] # <<>> /\ entry = Head(todo[p])
<1> USE DEF TypeOK
<1>1. CASE Acquire(p)
  <2>1. CASE Start(p) \/ Inspect(p) \/ Check(p) \/ RemovePartial(p)
    BY <2>1 DEF Start, Inspect, Check, RemovePartial
  <2>2. CASE Mkdir(p)
    <3>1. CASE Present(dir[lock[p]])
      BY <2>2, <3>1 DEF Mkdir
    <3>2. CASE UNCHANGED dir
      BY <3>2
    <3>3. CASE dir' # dir
      <4>1. PICK i \in FreeInodes :
              dir' = [dir EXCEPT ![lock[p]] =
                        [ino |-> i, mtime |-> clock, names |-> {}, full |-> {}]]
        BY <2>2, <3>3 DEF Mkdir
      <4>2. ~Present(dir[lock[p]])
        BY <2>2, <3>3 DEF Mkdir
      <4>3. dir[lock[p]].names = {}
        BY <4>2 DEF AbsentIsEmpty
      <4>. QED BY <4>1, <4>3
    <3>. QED BY <3>1, <3>2, <3>3
  <2>3. ASSUME NEW step \in {"claim", "owner"}, NEW entry \in Entries(p),
               CreateEntry(p, step, entry)
        PROVE  /\ \A e \in dir'[l].names \ dir[l].names :
                    e \in Entries(p) /\ pc[p] \in {"claim", "owner"}
               /\ dir[l].names \subseteq dir'[l].names
    <3>1. WithEntry(dir[l], entry).names = dir[l].names \cup {entry}
      BY DEF WithEntry, LockDir
    <3>. QED BY <2>3, <3>1 DEF CreateEntry
  <2>4. ASSUME NEW step, NEW entry, FillEntry(p, step, entry)
        PROVE  dir'[l].names = dir[l].names
    <3>1. WithContents(dir[l], entry).names = dir[l].names
      BY DEF WithContents, LockDir
    <3>. QED BY <2>4, <3>1 DEF FillEntry
  <2>. QED BY <1>1, <2>1, <2>2, <2>3, <2>4 DEF Acquire, Entries
<1>2. CASE Remove(p)
  <2>1. CASE TakeSnapshot(p) \/ Judge(p)
    BY <2>1 DEF TakeSnapshot, Judge
  <2>2. CASE Unlink(p)
    <3>1. alive[p]
      BY <2>2 DEF Unlink, AliveInBetween, Gone
    <3>2. WithoutEntry(dir[l], Head(todo[p])).names = dir[l].names \ {Head(todo[p])}
      BY DEF WithoutEntry, LockDir
    <3>3. \/ dir' = dir
          \/ dir' = [dir EXCEPT ![lock[p]] = WithoutEntry(dir[lock[p]], Head(todo[p]))]
      BY <2>2 DEF Unlink
    <3>4. pc[p] \in {"remove", "recover", "release"} /\ todo[p] # <<>>
      BY <2>2 DEF Unlink
    <3>5. CASE dir' = dir
      BY <3>5
    <3>6. CASE dir' = [dir EXCEPT ![lock[p]] = WithoutEntry(dir[lock[p]], Head(todo[p]))]
      BY <3>1, <3>2, <3>4, <3>6
    <3>. QED BY <3>3, <3>5, <3>6
  <2>3. CASE Rmdir(p)
    BY <2>3 DEF Rmdir, NoDir, LockDir
  <2>. QED BY <1>2, <2>1, <2>2, <2>3 DEF Remove
<1>3. CASE Leave(p)
  BY <1>3 DEF Leave, Publish, Shutdown, Unpublish, Drop, Exit, Crash
<1>. QED BY <1>1, <1>2, <1>3 DEF Step

(* A process goes from its start to its end, and no further. *)
LEMMA LifeStep ==
  ASSUME TypeOK, AliveInBetween, NEW p \in Procs, Step(p)
  PROVE  /\ alive'[p] <=> pc'[p] \notin {"down"} \cup Gone
         /\ pc[p] \notin Gone /\ pc'[p] # "down"
<1> USE DEF TypeOK, Goto, Gone
<1>0. alive[p] <=> pc[p] \notin {"down", "exited", "crashed"}
  BY DEF AliveInBetween
<1>1. CASE Acquire(p)
  <2>1. CASE Start(p)
    BY <1>0, <2>1 DEF Start
  <2>2. CASE Mkdir(p) \/ Inspect(p) \/ RemovePartial(p)
    BY <1>0, <2>2 DEF Mkdir, Inspect, RemovePartial
  <2>3. ASSUME NEW step \in {"claim", "owner", "fillClaim", "fillOwner"}, NEW entry,
               CreateEntry(p, step, entry) \/ FillEntry(p, step, entry)
        PROVE  /\ alive'[p] /\ pc'[p] \notin {"down", "exited", "crashed"}
               /\ pc[p] \notin Gone
    BY <1>0, <2>3 DEF CreateEntry, FillEntry
  <2>4. CASE Check(p)
    BY <1>0, <2>4 DEF Check
  <2>. QED BY <1>1, <2>1, <2>2, <2>3, <2>4 DEF Acquire
<1>2. CASE Remove(p)
  <2>1. ASSUME NEW removed, AfterRemoval(p, removed)
        PROVE  pc'[p] \in {"mkdir", "drop"}
    BY <2>1 DEF AfterRemoval
  <2>2. CASE TakeSnapshot(p) \/ Judge(p)
    BY <1>0, <2>2 DEF TakeSnapshot, Judge
  <2>3. CASE Unlink(p) \/ Rmdir(p)
    BY <1>0, <2>1, <2>3 DEF Unlink, Rmdir
  <2>. QED BY <1>2, <2>2, <2>3 DEF Remove
<1>3. CASE Leave(p)
  <2>1. CASE Publish(p) \/ Shutdown(p) \/ Unpublish(p)
    BY <1>0, <2>1 DEF Publish, Shutdown, ClearFirst, Unpublish
  <2>2. CASE Drop(p)
    BY <1>0, <2>2 DEF Drop
  <2>3. CASE Exit(p) \/ Crash(p)
    BY <1>0, <2>3 DEF Exit, Crash
  <2>. QED BY <1>3, <2>1, <2>2, <2>3 DEF Leave
<1>. QED BY <1>1, <1>2, <1>3 DEF Step

(* Whoever is gone stays gone, whoever started stays started. *)
LEMMA GoneForGood ==
  ASSUME TypeOK, AliveInBetween, NEW p \in Procs, Step(p), NEW q \in Procs
  PROVE  /\ pc[q] \in Gone => pc'[q] \in Gone
         /\ pc[q] # "down" => pc'[q] # "down"
<1>1. CASE q = p
  BY <1>1, LifeStep
<1>2. CASE q # p
  BY <1>2, OthersUntouched
<1>. QED BY <1>1, <1>2

LEMMA AliveStep ==
  ASSUME TypeOK, AliveInBetween, NEW p \in Procs, Step(p)
  PROVE  AliveInBetween'
<1>1. ASSUME NEW q \in Procs
      PROVE  alive'[q] <=> pc'[q] \notin {"down"} \cup Gone
  <2>1. CASE q = p
    BY <2>1, LifeStep
  <2>2. CASE q # p
    BY <2>2, OthersUntouched DEF AliveInBetween
  <2>. QED BY <2>1, <2>2
<1>. QED BY <1>1 DEF AliveInBetween, Gone

LEMMA EntriesOfStartedStep ==
  ASSUME TypeOK, AliveInBetween, AbsentIsEmpty, EntriesOfStarted,
         NEW p \in Procs, Step(p)
  PROVE  EntriesOfStarted'
<1> SUFFICES ASSUME NEW l \in Locks, NEW entry \in dir'[l].names
             PROVE  pc'[entry[2]] # "down"
  BY DEF EntriesOfStarted
<1>1. CASE entry \in dir[l].names
  <2>1. entry[2] \in Procs
    BY <1>1 DEF TypeOK, LockDir, EntryNames
  <2>2. pc[entry[2]] # "down"
    BY <1>1 DEF EntriesOfStarted
  <2>. QED BY <2>1, <2>2, GoneForGood
<1>2. CASE entry \notin dir[l].names
  <2>1. entry \in Entries(p)
    BY <1>2, EntriesStep
  <2>2. entry[2] = p
    BY <2>1 DEF Entries, Claim, Owner
  <2>. QED BY <2>2, LifeStep
<1>. QED BY <1>1, <1>2

LEMMA AbsentStep ==
  ASSUME TypeOK, AbsentIsEmpty, NEW p \in Procs, Step(p)
  PROVE  AbsentIsEmpty'
<1> SUFFICES ASSUME NEW l \in Locks, ~Present(dir'[l])
             PROVE  dir'[l].names = {}
  BY DEF AbsentIsEmpty, Present
<1> USE DEF TypeOK, Present
<1>0. ~Present(dir[l]) => dir[l].names = {}
  BY DEF AbsentIsEmpty
<1>1. CASE Acquire(p)
  <2>1. CASE UNCHANGED dir
    BY <1>0, <2>1
  <2>2. CASE Mkdir(p)
    <3>1. CASE dir' # dir
      <4>1. PICK i \in FreeInodes :
              dir' = [dir EXCEPT ![lock[p]] =
                        [ino |-> i, mtime |-> clock, names |-> {}, full |-> {}]]
        BY <2>2, <3>1 DEF Mkdir
      <4>. QED BY <1>0, <4>1
    <3>. QED BY <2>1, <3>1
  <2>3. ASSUME NEW step, NEW entry, CreateEntry(p, step, entry)
        PROVE  dir'[l].names = {}
    <3>1. WithEntry(dir[l], entry).ino = dir[l].ino
      BY DEF WithEntry, LockDir
    <3>2. CASE dir' # dir
      <4>1. /\ Present(dir[lock[p]])
            /\ dir' = [dir EXCEPT ![lock[p]] = WithEntry(dir[lock[p]], entry)]
        BY <2>3, <3>2 DEF CreateEntry
      <4>2. l # lock[p]
        BY <3>1, <4>1
      <4>. QED BY <1>0, <4>1, <4>2
    <3>. QED BY <2>1, <3>2
  <2>4. ASSUME NEW step, NEW entry, FillEntry(p, step, entry)
        PROVE  dir'[l].names = {}
    <3>1. /\ WithContents(dir[l], entry).ino = dir[l].ino
          /\ WithContents(dir[l], entry).names = dir[l].names
      BY DEF WithContents, LockDir
    <3>2. CASE dir' # dir
      <4>1. dir' = [dir EXCEPT ![lock[p]] = WithContents(dir[lock[p]], entry)]
        BY <2>4, <3>2 DEF FillEntry
      <4>. QED BY <1>0, <3>1, <4>1
    <3>. QED BY <2>1, <3>2
  <2>5. CASE Start(p) \/ Inspect(p) \/ Check(p) \/ RemovePartial(p)
    BY <2>1, <2>5 DEF Start, Inspect, Check, RemovePartial
  <2>. QED BY <1>1, <2>2, <2>3, <2>4, <2>5 DEF Acquire
<1>2. CASE Remove(p)
  <2>1. CASE TakeSnapshot(p) \/ Judge(p)
    BY <1>0, <2>1 DEF TakeSnapshot, Judge
  <2>2. CASE Unlink(p)
    <3>1. /\ WithoutEntry(dir[l], Head(todo[p])).ino = dir[l].ino
          /\ WithoutEntry(dir[l], Head(todo[p])).names \subseteq dir[l].names
      BY DEF WithoutEntry, LockDir
    <3>2. \/ dir' = dir
          \/ dir' = [dir EXCEPT ![lock[p]] = WithoutEntry(dir[lock[p]], Head(todo[p]))]
      BY <2>2 DEF Unlink
    <3>. QED BY <1>0, <3>1, <3>2
  <2>3. CASE Rmdir(p)
    BY <1>0, <2>3 DEF Rmdir, NoDir
  <2>. QED BY <1>2, <2>1, <2>2, <2>3 DEF Remove
<1>3. CASE Leave(p)
  BY <1>0, <1>3 DEF Leave, Publish, Shutdown, Unpublish, Drop, Exit, Crash
<1>. QED BY <1>1, <1>2, <1>3 DEF Step

(* The conjuncts of HeldInOrder, of one process. *)
InOrder(p) ==
  /\ pc[p] = "down" => held[p] = {} /\ lock[p] = 1
  /\ pc[p] \in Acquiring => held[p] = 1..(lock[p] - 1)
  /\ pc[p] \in {"serving", "unpublish"} => held[p] = Locks
  /\ pc[p] \in Acquiring \cup {"down"} => ~published[p]

LEMMA InOrderStep ==
  ASSUME TypeOK, NEW p \in Procs, InOrder(p), Step(p)
  PROVE  InOrder(p)'
<1> USE DEF TypeOK, Goto, InOrder, Acquiring
<1>1. CASE Acquire(p)
  <2>1. CASE Start(p)
    <3>1. 1..(1 - 1) = {}
      OBVIOUS
    <3>. QED BY <2>1, <3>1 DEF Start
  <2>2. CASE Mkdir(p) \/ Inspect(p)
    BY <2>2 DEF Mkdir, Inspect
  <2>3. CASE CreateEntry(p, "claim", Claim(p)) \/ CreateEntry(p, "owner", Owner(p))
    BY <2>3 DEF CreateEntry
  <2>4. CASE FillEntry(p, "fillClaim", Claim(p)) \/ FillEntry(p, "fillOwner", Owner(p))
    BY <2>4 DEF FillEntry
  <2>5. CASE Check(p)
    <3>1. /\ 1..(lock[p] - 1) \cup {lock[p]} = 1..((lock[p] + 1) - 1)
          /\ ~(lock[p] < NumLocks) => 1..(lock[p] - 1) \cup {lock[p]} = Locks
      BY RuntimeGuardAssumption DEF Locks
    <3>2. /\ held[p] = 1..(lock[p] - 1) /\ ~published[p]
          /\ published' = published
      BY <2>5 DEF Check
    <3>3. CASE pc'[p] = "drop"
      BY <3>3
    <3>4. CASE pc'[p] # "drop"
      <4>1. /\ held'[p] = held[p] \cup {lock[p]}
            /\ MoreLocks(lock[p]) => pc'[p] = "mkdir" /\ lock'[p] = lock[p] + 1
            /\ ~MoreLocks(lock[p]) => pc'[p] = "serving"
        BY <2>5, <3>4 DEF Check
      <4>2. CASE MoreLocks(lock[p])
        BY ONLY <3>1, <3>2, <4>1, <4>2 DEF InOrder, Acquiring
      <4>3. CASE ~MoreLocks(lock[p])
        <5>1. held'[p] = Locks
          BY ONLY <3>1, <3>2, <4>1, <4>3 DEF MoreLocks
        <5>. QED BY ONLY <4>1, <4>3, <5>1 DEF InOrder, Acquiring
      <4>. QED BY ONLY <4>2, <4>3
    <3>. QED BY <3>3, <3>4
  <2>6. CASE RemovePartial(p)
    BY <2>6 DEF RemovePartial
  <2>. QED BY <1>1, <2>1, <2>2, <2>3, <2>4, <2>5, <2>6 DEF Acquire
<1>2. CASE Remove(p)
  <2>1. ASSUME NEW removed, AfterRemoval(p, removed)
        PROVE  pc'[p] = "drop" \/ (pc[p] = "recover" /\ pc'[p] = "mkdir")
    BY <2>1 DEF AfterRemoval
  <2>2. CASE TakeSnapshot(p) \/ Judge(p)
    BY <2>2 DEF TakeSnapshot, Judge
  <2>3. CASE Unlink(p) \/ Rmdir(p)
    <3>1. UNCHANGED <<lock, held, published>>
      BY <2>3 DEF Unlink, Rmdir
    <3>2. \/ pc'[p] = pc[p] \/ pc'[p] = "drop"
          \/ pc[p] = "recover" /\ pc'[p] = "mkdir"
      BY <2>1, <2>3 DEF Unlink, Rmdir
    <3>. QED BY <3>1, <3>2
  <2>. QED BY <1>2, <2>2, <2>3 DEF Remove
<1>3. CASE Leave(p)
  <2>1. CASE Publish(p) \/ Shutdown(p) \/ Unpublish(p)
    BY <2>1 DEF Publish, Shutdown, ClearFirst, Unpublish
  <2>2. CASE Drop(p)
    BY <2>2 DEF Drop
  <2>3. CASE Exit(p) \/ Crash(p)
    BY <2>3 DEF Exit, Crash
  <2>. QED BY <1>3, <2>1, <2>2, <2>3 DEF Leave
<1>. QED BY <1>1, <1>2, <1>3 DEF Step

LEMMA HeldInOrderStep ==
  ASSUME TypeOK, HeldInOrder, NEW p \in Procs, Step(p)
  PROVE  HeldInOrder'
<1>1. ASSUME NEW q \in Procs
      PROVE  InOrder(q)'
  <2>1. InOrder(q)
    BY DEF HeldInOrder, InOrder
  <2>2. CASE q = p
    BY <2>1, <2>2, InOrderStep
  <2>3. CASE q # p
    BY <2>1, <2>3, OthersUntouched DEF InOrder
  <2>. QED BY <2>2, <2>3
<1>. QED BY <1>1 DEF HeldInOrder, InOrder

(* Of the steps, only the final check adds a lock, and only a drop leaves  *)
(* one.                                                                    *)
LEMMA HeldStep ==
  ASSUME TypeOK, NEW p \in Procs, Step(p)
  PROVE  \/ held'[p] = held[p] /\ heldDir'[p] = heldDir[p]
         \/ /\ pc[p] = "check" /\ dir[lock[p]].names = Entries(p) /\ dir' = dir
            /\ held'[p] = held[p] \cup {lock[p]}
            /\ heldDir'[p] = [heldDir[p] EXCEPT ![lock[p]] = SnapshotOf(dir[lock[p]])]
         \/ /\ pc[p] = "drop" /\ pc'[p] \in {"drop", "release"}
            /\ held'[p] \subseteq held[p] /\ heldDir' = heldDir
<1> USE DEF TypeOK
<1>1. CASE Acquire(p)
  <2>1. CASE Check(p)
    <3> DEFINE ok == dir[lock[p]].ino = inode[p] /\ ExactlyOwn(p, dir[lock[p]])
    <3>1. CASE ~ok
      BY <2>1, <3>1 DEF Check
    <3>2. CASE ok
      <4>1. /\ pc[p] = "check" /\ dir' = dir /\ dir[lock[p]].names = Entries(p)
            /\ held' = [held EXCEPT ![p] = @ \cup {lock[p]}]
            /\ heldDir' = [heldDir EXCEPT ![p][lock[p]] = SnapshotOf(dir[lock[p]])]
        BY <2>1, <3>2 DEF Check, ExactlyOwn
      <4>. QED BY <4>1
    <3>. QED BY <3>1, <3>2
  <2>2. CASE ~Check(p)
    BY <1>1, <2>2 DEF Acquire, Start, Mkdir, Inspect, CreateEntry, FillEntry, RemovePartial
  <2>. QED BY <2>1, <2>2
<1>2. CASE Remove(p)
  BY <1>2 DEF Remove, TakeSnapshot, Judge, Unlink, Rmdir
<1>3. CASE Leave(p)
  <2>1. CASE Drop(p)
    BY <2>1 DEF Drop, Goto
  <2>2. CASE ~Drop(p)
    BY <1>3, <2>2 DEF Leave, Publish, Shutdown, Unpublish, Exit, Crash
  <2>. QED BY <2>1, <2>2
<1>. QED BY <1>1, <1>2, <1>3 DEF Step

LEMMA HeldAsOwnStep ==
  ASSUME TypeOK, HeldAsOwn, NEW p \in Procs, Step(p)
  PROVE  HeldAsOwn'
<1> SUFFICES ASSUME NEW q \in Procs, NEW l \in held'[q]
             PROVE  heldDir'[q][l].names = Entries(q)
  BY DEF HeldAsOwn, Entries, Claim, Owner
<1>1. CASE l \in held[q] /\ heldDir'[q][l] = heldDir[q][l]
  BY <1>1 DEF HeldAsOwn
<1>2. CASE q # p
  BY <1>1, <1>2, OthersUntouched
<1>3. CASE q = p /\ ~(l \in held[q] /\ heldDir'[q][l] = heldDir[q][l])
  <2>1. /\ dir[lock[p]].names = Entries(p)
        /\ held'[p] = held[p] \cup {lock[p]}
        /\ heldDir'[p] = [heldDir[p] EXCEPT ![lock[p]] = SnapshotOf(dir[lock[p]])]
    BY <1>3, HeldStep
  <2>2. l = lock[p] \/ l \in held[p]
    BY <1>3, <2>1
  <2>3. SnapshotOf(dir[lock[p]]).names = Entries(p)
    BY <2>1 DEF SnapshotOf
  <2>4. heldDir[p] \in [Locks -> DirStamp] /\ lock[p] \in Locks
    BY DEF TypeOK
  <2>5. l = lock[p]
    BY <1>3, <2>1, <2>2, <2>4
  <2>. QED BY <1>3, <2>1, <2>3, <2>4, <2>5
<1>. QED BY <1>1, <1>2, <1>3

(* What a step makes of its process's list of entries to remove. *)
LEMMA TodoStep ==
  ASSUME TypeOK, HeldAsOwn, NEW p \in Procs, Step(p)
  PROVE  \/ todo'[p] = <<>> \/ ~alive'[p]
         \/ todo[p] # <<>> /\ todo'[p] = Tail(todo[p]) /\ pc'[p] = pc[p]
         \/ todo'[p] = todo[p] /\ pc[p] \notin {"remove", "release"}
         \/ /\ pc'[p] \in {"remove", "release"}
            /\ \A i \in DOMAIN todo'[p] : todo'[p][i] \in Entries(p)
         \/ \E q \in Procs :
              /\ ~alive[q]
              /\ \A i \in DOMAIN todo'[p] :
                   todo'[p][i] \in Entries(q) \cap dir[lock[p]].names
<1> USE DEF TypeOK, Goto
<1>0. ASSUME NEW l \in Locks
      PROVE  /\ UnlinkOrder(dir[l].names) \in Seq(EntryNames)
             /\ \A i \in DOMAIN UnlinkOrder(dir[l].names) :
                  UnlinkOrder(dir[l].names)[i] \in dir[l].names
  BY UnlinkOrderLists DEF LockDir
<1>1. CASE Acquire(p)
  <2>1. CASE RemovePartial(p)
    <3>1. CASE UNCHANGED todo
      BY <2>1, <3>1 DEF RemovePartial
    <3>2. CASE todo' # todo
      <4>1. /\ todo'[p] = UnlinkOrder(dir[lock[p]].names) /\ pc'[p] = "remove"
            /\ dir[lock[p]].names \subseteq Entries(p)
        BY <2>1, <3>2 DEF RemovePartial
      <4>. QED BY <1>0, <4>1
    <3>. QED BY <3>1, <3>2
  <2>2. CASE ~RemovePartial(p)
    <3>1. todo' = todo /\ pc[p] \notin {"remove", "release"}
      BY <1>1, <2>2
         DEF Acquire, Start, Mkdir, Inspect, CreateEntry, FillEntry, Check
    <3>. QED BY <3>1
  <2>. QED BY <2>1, <2>2
<1>2. CASE Remove(p)
  <2>1. CASE TakeSnapshot(p)
    BY <2>1 DEF TakeSnapshot
  <2>2. CASE Judge(p)
    <3>1. CASE todo' = todo
      BY <2>2, <3>1 DEF Judge
    <3>2. CASE todo' # todo
      <4>1. todo'[p] = UnlinkOrder(dir[lock[p]].names) /\ Stale(dir[lock[p]])
        BY <2>2, <3>2 DEF Judge
      <4>2. \A i \in DOMAIN todo'[p] : todo'[p][i] \in dir[lock[p]].names
        BY <1>0, <4>1
      <4>3. CASE dir[lock[p]].names = {}
        <5>1. DOMAIN todo'[p] = {}
          BY <4>2, <4>3
        <5>2. todo'[p] \in Seq(EntryNames)
          BY <1>0, <4>1
        <5>3. ASSUME NEW s \in Seq(EntryNames), DOMAIN s = {}
              PROVE  s = <<>>
          <6>1. Len(s) \in Nat /\ DOMAIN s = 1..Len(s)
            OBVIOUS
          <6>2. ~ (1 \in 1..Len(s))
            BY <5>3, <6>1
          <6>3. Len(s) = 0
            BY ONLY <6>1, <6>2
          <6>. QED BY <6>3, EmptySeq
        <5>. QED BY <5>1, <5>2, <5>3
      <4>4. CASE dir[lock[p]].names # {}
        <5>1. PICK q \in Procs :
                ~alive[q] /\ (dir[lock[p]].names = {Claim(q)} \/ dir[lock[p]].names = Entries(q))
          BY <4>1, <4>4 DEF Stale, Dead
        <5>. QED BY <4>2, <5>1 DEF Entries
      <4>. QED BY <4>3, <4>4
    <3>. QED BY <3>1, <3>2
  <2>3. ASSUME NEW removed, AfterRemoval(p, removed)
        PROVE  todo'[p] = <<>>
    BY <2>3 DEF AfterRemoval
  <2>4. CASE Unlink(p)
    BY <2>3, <2>4 DEF Unlink
  <2>5. CASE Rmdir(p)
    BY <2>3, <2>5 DEF Rmdir
  <2>. QED BY <1>2, <2>1, <2>2, <2>4, <2>5 DEF Remove
<1>3. CASE Leave(p)
  <2>1. CASE Drop(p)
    <3> DEFINE l == LastHeld(p)
    <3>1. l \in held[p] /\ l \in Locks
      BY <2>1, LastIsHeld DEF Drop
    <3>2. CASE UNCHANGED todo
      BY <2>1, <3>2 DEF Drop
    <3>3. CASE todo' # todo
      <4>1. /\ SnapshotOf(dir[l]) = heldDir[p][l] /\ pc'[p] = "release"
            /\ todo'[p] = UnlinkOrder(dir[l].names)
        BY <2>1, <3>3 DEF Drop
      <4>2. dir[l].names = Entries(p)
        BY <3>1, <4>1 DEF HeldAsOwn, SnapshotOf
      <4>. QED BY <1>0, <3>1, <4>1, <4>2
    <3>. QED BY <3>2, <3>3
  <2>2. CASE Crash(p)
    BY <2>2 DEF Crash
  <2>3. CASE Publish(p) \/ Shutdown(p) \/ Unpublish(p) \/ Exit(p)
    BY <2>3 DEF Publish, Shutdown, Unpublish, Exit
  <2>. QED BY <1>3, <2>1, <2>2, <2>3 DEF Leave
<1>. QED BY <1>1, <1>2, <1>3 DEF Step

LEMMA RemovalsStep ==
  ASSUME TypeOK, AliveInBetween, AbsentIsEmpty, EntriesOfStarted, HeldAsOwn,
         RemovalsAreSafe, NEW p \in Procs, Step(p)
  PROVE  RemovalsAreSafe'
<1>0. TypeOK'
  BY AcquireTyped, RemoveTyped, LeaveTyped DEF Step
<1>1. ASSUME NEW q \in Procs, NEW entry \in EntryNames, RemovesOnly(pc, q, entry),
             \/ pc'[q] = pc[q] \/ pc[q] \notin {"remove", "release"}
      PROVE  RemovesOnly(pc', q, entry)
  <2>1. entry[2] \in Procs
    BY DEF EntryNames
  <2>. QED BY <1>1, <2>1, GoneForGood DEF RemovesOnly
<1> SUFFICES ASSUME NEW q \in Procs, pc'[q] \notin Gone, NEW i \in DOMAIN todo'[q]
             PROVE  RemovesOnly(pc', q, todo'[q][i])
  BY DEF RemovalsAreSafe
<1>2. todo[q] \in Seq(EntryNames) /\ todo'[q] \in Seq(EntryNames)
  BY <1>0 DEF TypeOK
<1>3. CASE q # p
  <2>1. todo'[q] = todo[q] /\ pc'[q] = pc[q]
    BY <1>3, OthersUntouched
  <2>2. RemovesOnly(pc, q, todo[q][i]) /\ todo[q][i] \in EntryNames
    BY <1>2, <2>1 DEF RemovalsAreSafe
  <2>3. RemovesOnly(pc', q, todo[q][i])
    BY <1>1, <2>1, <2>2
  <2>. QED BY <2>1, <2>3 DEF RemovesOnly
<1>4. CASE q = p
  <2>1. pc[p] \notin Gone /\ alive'[p]
    BY <1>4, LifeStep
  <2>2. \A j \in DOMAIN todo[p] : RemovesOnly(pc, p, todo[p][j]) /\ todo[p][j] \in EntryNames
    BY <1>2, <1>4, <2>1 DEF RemovalsAreSafe
  <2>3. CASE todo'[p] = <<>>
    BY <1>4, <2>3
  <2>4. CASE todo[p] # <<>> /\ todo'[p] = Tail(todo[p]) /\ pc'[p] = pc[p]
    <3>1. i + 1 \in DOMAIN todo[p] /\ todo'[p][i] = todo[p][i + 1]
      BY <1>2, <1>4, <2>4
    <3>2. RemovesOnly(pc', p, todo[p][i + 1])
      BY <1>1, <2>2, <2>4, <3>1
    <3>. QED BY <1>4, <3>1, <3>2 DEF RemovesOnly
  <2>5. CASE todo'[p] = todo[p] /\ pc[p] \notin {"remove", "release"}
    <3>1. RemovesOnly(pc', p, todo[p][i])
      BY <1>1, <1>4, <2>2, <2>5
    <3>. QED BY <1>4, <2>5, <3>1 DEF RemovesOnly
  <2>6. CASE /\ pc'[p] \in {"remove", "release"}
             /\ \A j \in DOMAIN todo'[p] : todo'[p][j] \in Entries(p)
    BY <1>4, <2>6 DEF RemovesOnly, Entries, Claim, Owner
  <2>7. CASE \E r \in Procs :
               /\ ~alive[r]
               /\ \A j \in DOMAIN todo'[p] :
                    todo'[p][j] \in Entries(r) \cap dir[lock[p]].names
    <3>1. PICK r \in Procs :
            /\ ~alive[r]
            /\ \A j \in DOMAIN todo'[p] :
                 todo'[p][j] \in Entries(r) \cap dir[lock[p]].names
      BY <2>7
    <3>2. todo'[p][i][2] = r
      BY <1>4, <3>1 DEF Entries, Claim, Owner
    <3>3. pc[r] # "down"
      BY <1>4, <3>1, <3>2 DEF EntriesOfStarted, TypeOK
    <3>4. pc[r] \in Gone
      BY <3>1, <3>3 DEF AliveInBetween
    <3>5. pc'[r] \in Gone
      BY <3>4, GoneForGood
    <3>. QED BY <1>4, <3>2, <3>5 DEF RemovesOnly
  <2>. QED BY <2>1, <2>3, <2>4, <2>5, <2>6, <2>7, TodoStep
<1>. QED BY <1>3, <1>4

(* Whoever drops its locks does nothing else until it is gone. *)
LEMMA DroppingStays ==
  ASSUME TypeOK, NEW p \in Procs, Step(p), pc[p] \in {"drop", "release"}
  PROVE  pc'[p] \in {"drop", "release"} \cup Gone
<1> USE DEF TypeOK, Goto, Gone
<1>1. ~Acquire(p)
  BY DEF Acquire, Start, Mkdir, Inspect, CreateEntry, FillEntry, Check, RemovePartial
<1>2. CASE Remove(p)
  <2>1. ASSUME NEW removed, AfterRemoval(p, removed)
        PROVE  pc'[p] = "drop"
    BY <2>1 DEF AfterRemoval
  <2>2. ~TakeSnapshot(p) /\ ~Judge(p)
    BY DEF TakeSnapshot, Judge
  <2>3. CASE Unlink(p) \/ Rmdir(p)
    BY <2>1, <2>3 DEF Unlink, Rmdir
  <2>. QED BY <1>2, <2>2, <2>3 DEF Remove
<1>3. CASE Leave(p)
  <2>1. CASE Drop(p)
    BY <2>1 DEF Drop
  <2>2. CASE Exit(p) \/ Crash(p)
    BY <2>2 DEF Exit, Crash
  <2>3. ~Publish(p) /\ ~Shutdown(p) /\ ~Unpublish(p)
    BY DEF Publish, Shutdown, Unpublish
  <2>. QED BY <1>3, <2>1, <2>2, <2>3 DEF Leave
<1>. QED BY <1>1, <1>2, <1>3 DEF Step

(* A lock is acquired by the final check only. *)
LEMMA HasStep ==
  ASSUME TypeOK, AliveInBetween, HeldInOrder, NEW p \in Procs, Step(p),
         NEW q \in Procs, NEW l \in Locks, Has(q, l)'
  PROVE  \/ Has(q, l)
         \/ q = p /\ l = lock[p] /\ dir[l].names = Entries(p) /\ dir' = dir
<1>1. CASE q # p
  BY <1>1, OthersUntouched DEF Has
<1>2. CASE q = p
  <2>1. pc'[p] \notin {"drop", "release"} \cup Gone /\ l \in held'[p]
    BY <1>2, LifeStep DEF Has, Gone
  <2>2. pc[p] \notin {"drop", "release"}
    BY <2>1, DroppingStays
  <2>3. l \in held[p] => pc[p] # "down"
    BY DEF HeldInOrder
  <2>4. l \in held[p] => alive[p]
    BY <2>3, LifeStep DEF AliveInBetween
  <2>5. l \in held[p] => Has(p, l)
    BY <2>2, <2>4 DEF Has
  <2>6. l \notin held[p] =>
          l = lock[p] /\ dir[l].names = Entries(p) /\ dir' = dir
    BY <2>1, HeldStep
  <2>. QED BY <1>2, <2>5, <2>6
<1>. QED BY <1>1, <1>2

(* No step removes an entry of a lock that is held. *)
LEMMA HeldIsMarkedStep ==
  ASSUME TypeOK, AliveInBetween, AbsentIsEmpty, HeldInOrder, RemovalsAreSafe,
         HeldIsMarked, NEW p \in Procs, Step(p)
  PROVE  HeldIsMarked'
<1> SUFFICES ASSUME NEW q \in Procs, NEW l \in Locks, Has(q, l)', NEW entry \in Entries(q)
             PROVE  entry \in dir'[l].names
  BY DEF HeldIsMarked, Entries, Claim, Owner
<1>1. CASE ~Has(q, l)
  BY <1>1, HasStep
<1>2. CASE Has(q, l)
  <2>1. entry \in dir[l].names
    BY <1>2 DEF HeldIsMarked
  <2>2. SUFFICES ASSUME entry \notin dir'[l].names PROVE FALSE
    OBVIOUS
  <2>3. /\ l = lock[p] /\ alive[p] /\ pc[p] \in {"remove", "recover", "release"}
        /\ todo[p] # <<>> /\ entry = Head(todo[p])
    BY <2>1, <2>2, EntriesStep
  <2>4. RemovesOnly(pc, p, entry)
    <3>1. 1 \in DOMAIN todo[p] /\ entry = todo[p][1]
      BY <2>3 DEF TypeOK
    <3>2. pc[p] \notin Gone
      BY LifeStep
    <3>. QED BY <3>1, <3>2 DEF RemovalsAreSafe
  <2>5. entry[2] = q
    BY DEF Entries, Claim, Owner
  <2>6. pc[q] \notin Gone
    BY <1>2 DEF Has, AliveInBetween
  <2>7. q = p
    BY <2>4, <2>5, <2>6 DEF RemovesOnly, Entries, Claim, Owner
  <2>8. pc[p] = "remove"
    BY <1>2, <2>3, <2>4, <2>5, <2>6, <2>7 DEF RemovesOnly, Has
  <2>9. held[p] = 1..(lock[p] - 1)
    BY <2>8 DEF HeldInOrder, Acquiring
  <2>10. lock[p] \in held[p]
    BY <1>2, <2>3, <2>7 DEF Has
  <2>11. lock[p] \in Int
    BY DEF TypeOK, Locks
  <2>. QED BY ONLY <2>9, <2>10, <2>11
<1>. QED BY <1>1, <1>2

LEMMA ExclusionStep ==
  ASSUME TypeOK, AliveInBetween, HeldInOrder, HeldIsMarked, MutualExclusion,
         NEW p \in Procs, Step(p)
  PROVE  MutualExclusion'
<1>1. ASSUME NEW q \in Procs, NEW r \in Procs, NEW l \in Locks,
             dir[l].names = Entries(q), Has(r, l)
      PROVE  q = r
  BY <1>1 DEF HeldIsMarked, Entries, Claim, Owner
<1> SUFFICES ASSUME NEW q \in Procs, NEW r \in Procs, NEW l \in Locks,
                    Has(q, l)', Has(r, l)'
             PROVE  q = r
  BY DEF MutualExclusion
<1>2. CASE Has(q, l) /\ Has(r, l)
  BY <1>2 DEF MutualExclusion
<1>3. CASE ~Has(q, l)
  BY <1>1, <1>3, HasStep
<1>4. CASE ~Has(r, l)
  BY <1>1, <1>4, HasStep
<1>. QED BY <1>2, <1>3, <1>4

(* Only a process that serves or leaves moves the marker. *)
LEMMA MarkerStep ==
  ASSUME TypeOK, HeldInOrder, NEW p \in Procs, Step(p)
  PROVE  /\ marker' # marker => pc[p] \in {"serving", "unpublish"}
         /\ pc'[p] = "serving" /\ published'[p] =>
              \/ marker' = p
              \/ pc[p] = "serving" /\ published[p] /\ marker' = marker
<1> USE DEF TypeOK, Goto
<1>0. pc[p] = "check" => ~published[p]
  BY DEF HeldInOrder, Acquiring
<1>1. CASE Acquire(p)
  <2>1. published' = published /\ marker' = marker
    BY <1>1
       DEF Acquire, Start, Mkdir, Inspect, CreateEntry, FillEntry, Check, RemovePartial
  <2>2. pc'[p] = "serving" => Check(p)
    BY <1>1 DEF Acquire, Start, Mkdir, Inspect, CreateEntry, FillEntry, RemovePartial
  <2>. QED BY <1>0, <2>1, <2>2 DEF Check
<1>2. CASE Remove(p)
  <2>1. ASSUME NEW removed, AfterRemoval(p, removed)
        PROVE  pc'[p] # "serving"
    BY <2>1 DEF AfterRemoval
  <2>2. CASE TakeSnapshot(p) \/ Judge(p)
    BY <2>2 DEF TakeSnapshot, Judge
  <2>3. CASE Unlink(p) \/ Rmdir(p)
    BY <2>1, <2>3 DEF Unlink, Rmdir
  <2>. QED BY <1>2, <2>2, <2>3 DEF Remove
<1>3. CASE Leave(p)
  <2>1. CASE Publish(p)
    BY <2>1 DEF Publish
  <2>2. CASE Shutdown(p) \/ Unpublish(p)
    BY <2>2 DEF Shutdown, ClearFirst, Unpublish
  <2>3. CASE Drop(p)
    BY <2>3 DEF Drop
  <2>4. CASE Exit(p) \/ Crash(p)
    BY <2>4 DEF Exit, Crash
  <2>. QED BY <1>3, <2>1, <2>2, <2>3, <2>4 DEF Leave
<1>. QED BY <1>1, <1>2, <1>3 DEF Step

LEMMA ReadyStep ==
  ASSUME TypeOK, AliveInBetween, HeldInOrder, MutualExclusion, ReadyNamesServer,
         NEW p \in Procs, Step(p)
  PROVE  ReadyNamesServer'
<1> SUFFICES ASSUME NEW q \in Procs, pc'[q] = "serving", published'[q]
             PROVE  marker' = q
  BY DEF ReadyNamesServer
<1>1. CASE q = p
  BY <1>1, MarkerStep DEF ReadyNamesServer
<1>2. CASE q # p
  <2>1. pc[q] = "serving" /\ published[q]
    BY <1>2, OthersUntouched
  <2>2. 1 \in Locks
    BY RuntimeGuardAssumption DEF Locks
  <2>3. ASSUME NEW r \in Procs, pc[r] \in {"serving", "unpublish"}
        PROVE  Has(r, 1)
    BY <2>2, <2>3 DEF Has, HeldInOrder, AliveInBetween, Gone
  <2>4. marker' = marker
    BY <1>2, <2>1, <2>2, <2>3, MarkerStep DEF MutualExclusion
  <2>. QED BY <2>1, <2>4 DEF ReadyNamesServer
<1>. QED BY <1>1, <1>2

LEMMA NextGuard == GuardInv /\ [Next]_vars => GuardInv'
<1> SUFFICES ASSUME GuardInv, [Next]_vars PROVE GuardInv'
  OBVIOUS
<1> USE DEF GuardInv
<1>1. CASE UNCHANGED vars
  BY <1>1, NextTyped
     DEF vars, AliveInBetween, EntriesOfStarted, AbsentIsEmpty, HeldInOrder, HeldAsOwn,
         RemovalsAreSafe, RemovesOnly, HeldIsMarked, Has, MutualExclusion, ReadyNamesServer
<1>2. CASE TimePasses
  BY <1>2, NextTyped
     DEF TimePasses, AliveInBetween, EntriesOfStarted, AbsentIsEmpty, HeldInOrder,
         HeldAsOwn, RemovalsAreSafe, RemovesOnly, HeldIsMarked, Has, MutualExclusion,
         ReadyNamesServer
<1>3. ASSUME NEW p \in Procs, Step(p)
      PROVE  GuardInv'
  <2>1. TypeOK'
    BY <1>3, AcquireTyped, RemoveTyped, LeaveTyped DEF Step
  <2>2. AliveInBetween' /\ EntriesOfStarted' /\ AbsentIsEmpty'
    BY <1>3, AliveStep, EntriesOfStartedStep, AbsentStep
  <2>3. HeldInOrder' /\ HeldAsOwn' /\ RemovalsAreSafe'
    BY <1>3, HeldInOrderStep, HeldAsOwnStep, RemovalsStep
  <2>4. HeldIsMarked' /\ MutualExclusion' /\ ReadyNamesServer'
    BY <1>3, HeldIsMarkedStep, ExclusionStep, ReadyStep
  <2>. QED BY <2>1, <2>2, <2>3, <2>4
<1>. QED BY <1>1, <1>2, <1>3 DEF Next, Step

(* Serving ownership is exclusive, for any number of processes and locks:  *)
(* no interleaving of acquisition, recovery of a stale lock, rollback,     *)
(* release and crash lets two running processes hold one lock.             *)
THEOREM GuardIsExclusive == Spec => []MutualExclusion
<1>1. GuardInv => MutualExclusion
  BY DEF GuardInv
<1>. QED BY <1>1, InitGuard, NextGuard, PTL DEF Spec

(* The readiness marker always names the process that serves: the read of  *)
(* its owner and its unlink, two calls, cannot hit a replacement's marker, *)
(* because the locks are released after the marker is cleared.             *)
THEOREM ReadinessNamesServer == Spec => []ReadyNamesServer
<1>1. GuardInv => ReadyNamesServer
  BY DEF GuardInv
<1>. QED BY <1>1, InitGuard, NextGuard, PTL DEF Spec

(* No recovery, however its reads and its unlinks interleave with others,  *)
(* removes an entry of a running process.                                  *)
THEOREM RecoveryRespectsLiving == Spec => LiveEntriesUntouched
<1> DEFINE Respects(p, l) ==
             \A entry \in (Entries(p) \cap dir[l].names) \ dir'[l].names :
               alive[p] => pc[p] \in {"remove", "release"}
<1>1. ASSUME GuardInv, NEW p \in Procs, Step(p), NEW q \in Procs, NEW l \in Locks
      PROVE  Respects(q, l)
  <2> SUFFICES ASSUME NEW entry \in Entries(q) \cap dir[l].names,
                      entry \notin dir'[l].names, alive[q]
               PROVE  pc[q] \in {"remove", "release"}
    OBVIOUS
  <2> USE DEF GuardInv
  <2>1. todo[p] # <<>> /\ entry = Head(todo[p])
    BY <1>1, EntriesStep
  <2>2. 1 \in DOMAIN todo[p] /\ entry = todo[p][1]
    BY <1>1, <2>1 DEF TypeOK
  <2>3. RemovesOnly(pc, p, entry)
    BY <1>1, <2>2, LifeStep DEF RemovalsAreSafe
  <2>4. entry[2] = q /\ pc[q] \notin Gone
    BY <1>1 DEF Entries, Claim, Owner, AliveInBetween
  <2>. QED BY <2>3, <2>4 DEF RemovesOnly, Entries, Claim, Owner
<1>2. GuardInv /\ [Next]_vars => [\A q \in Procs, l \in Locks : Respects(q, l)]_vars
  BY <1>1 DEF Next, Step, TimePasses, vars
<1>3. (\A q \in Procs, l \in Locks : Respects(q, l)) <=>
        \A p \in Procs, l \in Locks :
          \A entry \in (Entries(p) \cap dir[l].names) \ dir'[l].names :
            alive[p] => pc[p] \in {"remove", "release"}
  OBVIOUS
<1> HIDE DEF Respects
<1>. QED BY <1>2, <1>3, InitGuard, NextGuard, PTL DEF Spec, LiveEntriesUntouched

(* For any number of processes and locks, one process serves and readiness *)
(* names it.                                                               *)
THEOREM OneServes == Spec => []ServesAlone
<1>1. GuardInv => ServesAlone
  BY DEF GuardInv, ServesAlone
<1>. QED BY <1>1, InitGuard, NextGuard, PTL DEF Spec

----------------------------------------------------------------------------
(* The process that the guard lets serve: one recovery at a time, and none
   once the shutdown began, for any number of generations, attempts and
   disturbances. *)

Phases == {"serving", "intake", "transport", "sessions", "queues", "close",
           "metrics", "forced", "exited"}
Loops == {"none", "start", "setup", "polling", "handling", "leaving",
          "hung", "stuck", "pause", "done"}

(* A generation that is still to come has done nothing. *)
ComingUntouched == \A g \in Generations : g > gen => loop[g] = "none"

(* A loop that is about to start again has attempts left. *)
AttemptsLeft ==
    \A g \in Generations :
        loop[g] \in {"none", "start", "pause"} => tries[g] < MaxRetries

(* The startup timeout is armed only while its generation does not poll yet. *)
TimeoutBeforePolling == startup => loop[gen] \notin {"polling", "handling", "hung", "stuck"}

(* A shutdown disarms the restart timer for good. *)
NoRestartLate == ShuttingDown => ~restart

(* The exit record keeps its shape. *)
ExitShape == exit = [phase |-> exit.phase, code |-> exit.code]

(* The parts of the type invariant. *)
PlatformTyped ==
    /\ bound \in BOOLEAN /\ decided \in BOOLEAN /\ ready \in BOOLEAN
    /\ discord \in {"off", "connecting", "up", "failed", "stopped"}
LoopsTyped ==
    /\ gen \in Generations /\ loop \in [Generations -> Loops]
    /\ tries \in [Generations -> 0 .. MaxRetries] /\ bot \in {0} \union Generations
RecoveryTyped ==
    /\ handled \in BOOLEAN /\ startup \in BOOLEAN /\ restart \in BOOLEAN
    /\ failures \in [waiting : Nat, stopping : Nat]
DogTyped == dog \in [on : BOOLEAN, probing : BOOLEAN, await : BOOLEAN, grace : 0 .. Stall + 1]
PollTyped ==
    /\ poll \in [age : 0 .. Stall, failed : BOOLEAN, handler : 0 .. HandlerLimit]
    /\ api \in BOOLEAN /\ disturbances \in 0 .. MaxDisturbances
ExitTyped == exit.phase \in Phases
Typed ==
    /\ PlatformTyped /\ LoopsTyped /\ RecoveryTyped /\ DogTyped /\ PollTyped /\ ExitTyped

(* The inductive invariant: how many recoveries are under way is settled by the
   state alone, what a report may say of a generation by its timer and loop. *)
SupervisionInv ==
    /\ Typed /\ ExitShape /\ ComingUntouched /\ AttemptsLeft /\ TimeoutBeforePolling
    /\ NoRestartLate /\ RecoveryPending

(* They are TypeOK. *)
LEMMA TypeParts == ServingTypeOK <=> Typed
BY DEF ServingTypeOK, Typed, PlatformTyped, LoopsTyped, RecoveryTyped, DogTyped, PollTyped,
       ExitTyped,
       Loops, Phases

(* The stopped watchdog and a poll that just succeeded are well typed. *)
LEMMA SleepingTyped ==
  Sleeping \in [on : BOOLEAN, probing : BOOLEAN, await : BOOLEAN, grace : 0 .. Stall + 1]
<1>1. 0 \in 0 .. Stall + 1
  BY RuntimeAssumption DEF RuntimeAssumption
<1>. QED BY <1>1 DEF Sleeping

LEMMA FreshPollTyped ==
  [age |-> 0, failed |-> FALSE, handler |-> 0]
             \in [age : 0 .. Stall, failed : BOOLEAN, handler : 0 .. HandlerLimit]
<1>1. 0 \in 0 .. Stall /\ 0 \in 0 .. HandlerLimit
  BY RuntimeAssumption DEF RuntimeAssumption
<1>. QED BY <1>1

(* What a report of generation g does, whoever makes it. *)
LEMMA FailFacts ==
  ASSUME Typed, NoRestartLate, RecoveryPending, NEW g, Fail(g)
  PROVE  /\ gen' = gen /\ restart' = restart /\ (startup' => startup)
         /\ handled' \in BOOLEAN /\ startup' \in BOOLEAN /\ dog' \in {dog, Sleeping}
         /\ failures' \in [waiting : Nat, stopping : Nat]
         /\ (handled' /\ ~handled) => g = gen /\ ~ShuttingDown
         /\ exit' = exit => RecoveryPending'
<1>1. CASE Concerns(g)
  <2>1. /\ handled' = TRUE /\ startup' = FALSE /\ dog' = Sleeping
        /\ failures' = [failures EXCEPT !.waiting = @ + 1]
        /\ gen' = gen /\ restart' = restart
    BY <1>1 DEF Fail
  <2>2. failures' \in [waiting : Nat, stopping : Nat]
    BY <2>1 DEF Typed, RecoveryTyped
  <2>3. failures'.waiting = failures.waiting + 1 /\ failures'.stopping = failures.stopping
    BY <2>1 DEF Typed, RecoveryTyped
  <2>4. g = gen /\ ~handled /\ ~ShuttingDown
    BY <1>1 DEF Concerns
  <2>5. failures.waiting \in Nat /\ failures.stopping \in Nat
    BY DEF Typed, RecoveryTyped
  <2>6. failures'.waiting + failures'.stopping + (IF restart' THEN 1 ELSE 0) = 1
    BY <2>1, <2>3, <2>4, <2>5 DEF RecoveryPending
  <2>. QED BY <2>1, <2>2, <2>4, <2>6 DEF RecoveryPending
<1>2. CASE ~Concerns(g)
  BY <1>2 DEF Fail, Typed, RecoveryTyped, DogTyped, RecoveryPending, ShuttingDown, supervision
<1>. QED BY <1>1, <1>2

(* The shutdown begins, or its exit code grows. *)
LEMMA BeginExitFacts ==
  ASSUME Typed, ExitShape, NoRestartLate, NEW code, BeginExit(code)
  PROVE  /\ ShuttingDown' /\ restart' = FALSE /\ (startup' => startup) /\ startup' \in BOOLEAN
         /\ ready' \in BOOLEAN /\ (ready' => ready)
         /\ exit'.phase \in Phases /\ ExitShape'
         /\ exit'.phase \in {"intake", exit.phase}
<1>1. CASE ShuttingDown
  <2>1. /\ exit' = [exit EXCEPT !.code = IF code > @ THEN code ELSE @]
        /\ ready' = ready /\ startup' = startup /\ restart' = restart
    BY <1>1 DEF BeginExit
  <2>2. PICK c : c = IF code > exit.code THEN code ELSE exit.code
    OBVIOUS
  <2>3. exit' = [phase |-> exit.phase, code |-> c]
    BY <2>1, <2>2 DEF ExitShape
  <2>4. exit'.phase = exit.phase /\ exit'.code = c
    BY <2>3
  <2>. QED BY <1>1, <2>1, <2>3, <2>4 DEF ShuttingDown, ExitShape, NoRestartLate, Typed,
       PlatformTyped, RecoveryTyped, ExitTyped, Phases
<1>2. CASE ~ShuttingDown
  <2>1. /\ exit' = [exit EXCEPT !.phase = "intake", !.code = code]
        /\ ready' = FALSE /\ startup' = FALSE /\ restart' = FALSE
    BY <1>2 DEF BeginExit
  <2>2. exit' = [phase |-> "intake", code |-> code]
    BY <2>1 DEF ExitShape
  <2>3. exit'.phase = "intake" /\ exit'.code = code
    BY <2>2
  <2>. QED BY <2>1, <2>2, <2>3 DEF ShuttingDown, ExitShape, Phases
<1>. QED BY <1>1, <1>2

(* What a step does to the loops while generations stay: each remains, or goes
   where it is not about to start, unless it was pausing, and polls only if it
   was at work. *)
LoopsGoOn ==
    /\ loop' \in [Generations -> Loops]
    /\ \A g \in Generations :
          \/ loop'[g] = loop[g]
          \/ loop[g] # "none" /\ loop'[g] \notin {"none", "start", "pause"}
    /\ \A g \in Generations : loop'[g] \in {"polling", "handling", "hung", "stuck"}
                                  => loop[g] \in {"polling", "handling", "hung", "stuck"}
    /\ \A g \in Generations : loop'[g] = "polling" => loop[g] \in {"polling", "handling"}

LEMMA LoopsStay ==
  ASSUME Typed, loop' = loop
  PROVE  LoopsGoOn
BY DEF Typed, LoopsTyped, LoopsGoOn, Loops

LEMMA BotStopsFacts ==
  ASSUME Typed, BotStops
  PROVE  LoopsGoOn /\ bot' = 0
<1>1. \A g \in Generations : loop'[g] = IF g = bot /\ loop[g] = "polling" THEN "done"
                                       ELSE IF g = bot /\ loop[g] = "handling" THEN "leaving"
                                       ELSE loop[g]
  BY DEF BotStops
<1>2. loop' \in [Generations -> Loops]
  <2>1. loop \in [Generations -> Loops]
    BY DEF Typed, LoopsTyped, Loops
  <2>. QED BY <2>1 DEF BotStops, Loops
<1>. QED BY <1>1, <1>2 DEF BotStops, LoopsGoOn

(* One loop goes on. *)
LEMMA OneLoopGoesOn ==
  ASSUME Typed, NEW g \in Generations, NEW stage \in Loops \ {"none", "start", "pause"},
         loop' = [loop EXCEPT ![g] = stage], loop[g] # "none",
         stage \in {"polling", "handling", "hung", "stuck"}
             => loop[g] \in {"polling", "handling", "hung", "stuck"},
         stage = "polling" => loop[g] \in {"polling", "handling"}
  PROVE  LoopsGoOn
<1>1. loop \in [Generations -> Loops]
  BY DEF Typed, LoopsTyped, Loops
<1>2. loop' \in [Generations -> Loops]
  BY <1>1
<1>3. \A h \in Generations : loop'[h] = IF h = g THEN stage ELSE loop[h]
  BY <1>1
<1>. QED BY <1>2, <1>3 DEF LoopsGoOn

(* Such a step keeps what the invariant says of the loops. *)
LEMMA LoopsGoOnKeeps ==
  ASSUME Typed, ComingUntouched, AttemptsLeft, TimeoutBeforePolling,
         LoopsGoOn, gen' = gen, tries' = tries, startup' => startup
  PROVE  ComingUntouched' /\ AttemptsLeft' /\ TimeoutBeforePolling'
<1>1. ComingUntouched'
  BY DEF ComingUntouched, LoopsGoOn
<1>2. AttemptsLeft'
  BY DEF AttemptsLeft, LoopsGoOn
<1>3. TimeoutBeforePolling'
  <2>1. gen \in Generations
    BY DEF Typed, LoopsTyped
  <2>. QED BY <2>1 DEF TimeoutBeforePolling, LoopsGoOn
<1>. QED BY <1>1, <1>2, <1>3

(* The step of an action keeps the invariant and the two action properties. *)
Kept == SupervisionInv' /\ HealthyPollingKept /\ NothingStartsLate

(* A step that gives nothing up and starts nothing. *)
Calm ==
    /\ handled' = handled /\ gen' = gen /\ ready' \in BOOLEAN
    /\ ShuttingDown => (ready' => ready) /\ (dog'.on => dog.on)

(* Such a step can neither give up a polling generation nor start one. *)
LEMMA CalmIsJustified ==
  ASSUME Calm, LoopsGoOn
  PROVE  HealthyPollingKept /\ NothingStartsLate
BY DEF Calm, LoopsGoOn, HealthyPollingKept, NothingStartsLate

(* A step that concerns neither the recovery nor a generation's start. *)
Aside ==
    /\ UNCHANGED <<handled, gen, startup, restart, failures, tries>>
    /\ PlatformTyped' /\ DogTyped' /\ PollTyped' /\ ExitTyped' /\ ExitShape'
    /\ bot' \in {0} \union Generations
    /\ ShuttingDown => (ready' => ready) /\ (dog'.on => dog.on)
    /\ ShuttingDown' = ShuttingDown

LEMMA AsideKeeps ==
  ASSUME SupervisionInv, Aside, LoopsGoOn
  PROVE  Kept
<1> USE DEF SupervisionInv
<1>1. LoopsTyped' /\ RecoveryTyped'
  BY DEF Aside, Typed, LoopsTyped, RecoveryTyped, LoopsGoOn
<1>2. Typed'
  BY <1>1 DEF Aside, Typed
<1>3. ComingUntouched' /\ AttemptsLeft' /\ TimeoutBeforePolling'
  BY LoopsGoOnKeeps DEF Aside
<1>4. NoRestartLate' /\ RecoveryPending' /\ ExitShape'
  BY DEF Aside, NoRestartLate, RecoveryPending
<1>5. Calm
  BY DEF Aside, Calm, PlatformTyped
<1>. QED BY <1>2, <1>3, <1>4, <1>5, CalmIsJustified DEF Kept

(* A waiting failure handler leaves, exits the process or goes on to stop the
   bot: it is counted once. *)
LEMMA HandleFailureKeeps ==
  ASSUME SupervisionInv, HandleFailure
  PROVE  Kept
<1> USE DEF SupervisionInv
<1>0. /\ failures.waiting \in Nat /\ failures.stopping \in Nat /\ failures.waiting > 0
      /\ failures = [waiting |-> failures.waiting, stopping |-> failures.stopping]
      /\ UNCHANGED <<tries, dog, poll, api, disturbances>>
  BY DEF HandleFailure, Typed, RecoveryTyped
<1>1. CASE /\ ShuttingDown
           /\ failures' = [failures EXCEPT !.waiting = @ - 1]
           /\ UNCHANGED <<platform, gen, handled, startup, restart, loop, bot, exit>>
  <2>1. failures' \in [waiting : Nat, stopping : Nat]
    BY <1>0, <1>1
  <2>2. Typed'
    <3>1. PlatformTyped'
      BY <1>0, <1>1, <2>1 DEF Typed, PlatformTyped, platform
    <3>2. LoopsTyped'
      BY <1>0, <1>1, <2>1 DEF Typed, LoopsTyped, LoopsGoOn, supervision
    <3>3. RecoveryTyped'
      BY <1>0, <1>1, <2>1 DEF Typed, RecoveryTyped, supervision
    <3>4. DogTyped'
      BY <1>0, <1>1, <2>1 DEF Typed, DogTyped
    <3>5. PollTyped'
      BY <1>0, <1>1, <2>1 DEF Typed, PollTyped
    <3>6. ExitTyped'
      BY <1>0, <1>1, <2>1 DEF Typed, ExitTyped
    <3>. QED BY <3>1, <3>2, <3>3, <3>4, <3>5, <3>6 DEF Typed
  <2>3. LoopsGoOn
    BY <1>1, LoopsStay
  <2>4. ComingUntouched' /\ AttemptsLeft' /\ TimeoutBeforePolling'
    BY <1>0, <1>1, <2>3, LoopsGoOnKeeps
  <2>5. Calm
    BY <1>0, <1>1 DEF Calm, Typed, PlatformTyped, platform
  <2>6. ShuttingDown' /\ NoRestartLate' /\ ExitShape'
    BY <1>1 DEF ShuttingDown, NoRestartLate, ExitShape
  <2>. QED BY <2>2, <2>3, <2>4, <2>5, <2>6, CalmIsJustified DEF Kept, RecoveryPending
<1>2. CASE /\ ~ShuttingDown /\ RestartRequired
           /\ failures' = [failures EXCEPT !.waiting = @ - 1]
           /\ BeginExit(1)
           /\ UNCHANGED <<bound, discord, decided, gen, handled, loop, bot>>
  <2>1. failures' \in [waiting : Nat, stopping : Nat]
    BY <1>0, <1>2
  <2>b. /\ ShuttingDown' /\ restart' = FALSE /\ (startup' => startup) /\ startup' \in BOOLEAN
        /\ ready' \in BOOLEAN /\ (ready' => ready)
        /\ exit'.phase \in Phases /\ ExitShape'
    BY <1>2, BeginExitFacts
  <2>2. Typed'
    <3>1. PlatformTyped'
      BY <1>0, <1>2, <2>1, <2>b DEF Typed, PlatformTyped, platform
    <3>2. LoopsTyped'
      BY <1>0, <1>2, <2>1, <2>b DEF Typed, LoopsTyped, LoopsGoOn, supervision
    <3>3. RecoveryTyped'
      BY <1>0, <1>2, <2>1, <2>b DEF Typed, RecoveryTyped, supervision
    <3>4. DogTyped'
      BY <1>0, <1>2, <2>1, <2>b DEF Typed, DogTyped
    <3>5. PollTyped'
      BY <1>0, <1>2, <2>1, <2>b DEF Typed, PollTyped
    <3>6. ExitTyped'
      BY <1>0, <1>2, <2>1, <2>b DEF Typed, ExitTyped
    <3>. QED BY <3>1, <3>2, <3>3, <3>4, <3>5, <3>6 DEF Typed
  <2>3. LoopsGoOn
    BY <1>2, LoopsStay
  <2>4. ComingUntouched' /\ AttemptsLeft' /\ TimeoutBeforePolling'
    BY <1>0, <1>2, <2>b, <2>3, LoopsGoOnKeeps
  <2>5. Calm
    BY <1>0, <1>2, <2>b DEF Calm
  <2>. QED BY <2>2, <2>3, <2>4, <2>5, <2>b, CalmIsJustified
           DEF Kept, RecoveryPending, NoRestartLate
<1>3. CASE /\ ~ShuttingDown /\ ~RestartRequired
           /\ failures' = [waiting |-> failures.waiting - 1, stopping |-> failures.stopping + 1]
           /\ BotStops
           /\ UNCHANGED <<platform, gen, handled, startup, restart, exit>>
  <2>1. /\ failures' \in [waiting : Nat, stopping : Nat]
        /\ failures'.waiting = failures.waiting - 1 /\ failures'.stopping = failures.stopping + 1
    BY <1>0, <1>3
  <2>b. LoopsGoOn /\ bot' = 0
    BY <1>3, BotStopsFacts
  <2>2. Typed'
    <3>1. PlatformTyped'
      BY <1>0, <1>3, <2>1, <2>b DEF Typed, PlatformTyped, platform
    <3>2. LoopsTyped'
      BY <1>0, <1>3, <2>1, <2>b DEF Typed, LoopsTyped, LoopsGoOn, supervision
    <3>3. RecoveryTyped'
      BY <1>0, <1>3, <2>1, <2>b DEF Typed, RecoveryTyped, supervision
    <3>4. DogTyped'
      BY <1>0, <1>3, <2>1, <2>b DEF Typed, DogTyped
    <3>5. PollTyped'
      BY <1>0, <1>3, <2>1, <2>b DEF Typed, PollTyped
    <3>6. ExitTyped'
      BY <1>0, <1>3, <2>1, <2>b DEF Typed, ExitTyped
    <3>. QED BY <3>1, <3>2, <3>3, <3>4, <3>5, <3>6 DEF Typed
  <2>4. ComingUntouched' /\ AttemptsLeft' /\ TimeoutBeforePolling'
    BY <1>0, <1>3, <2>b, LoopsGoOnKeeps
  <2>5. Calm
    BY <1>0, <1>3 DEF Calm, Typed, PlatformTyped, platform
  <2>6. ~ShuttingDown' /\ NoRestartLate' /\ ExitShape'
    BY <1>3 DEF ShuttingDown, NoRestartLate, ExitShape
  <2>7. RecoveryPending'
    BY <1>0, <1>3, <2>1 DEF RecoveryPending
  <2>. QED BY <2>2, <2>b, <2>4, <2>5, <2>6, <2>7, CalmIsJustified DEF Kept
<1>. QED BY <1>1, <1>2, <1>3 DEF HandleFailure

(* The stopping handler hands its recovery to the restart timer. *)
LEMMA ScheduleRestartKeeps ==
  ASSUME SupervisionInv, ScheduleRestart
  PROVE  Kept
<1> USE DEF SupervisionInv
<1>0. /\ failures.waiting \in Nat /\ failures.stopping \in Nat /\ failures.stopping > 0
      /\ failures = [waiting |-> failures.waiting, stopping |-> failures.stopping]
      /\ failures' = [failures EXCEPT !.stopping = @ - 1]
      /\ restart' = (restart \/ ~ShuttingDown)
      /\ UNCHANGED <<platform, gen, handled, startup, loop, tries, bot, dog, poll, api,
                     disturbances, exit>>
  BY DEF ScheduleRestart, Typed, RecoveryTyped
<1>1. /\ failures' \in [waiting : Nat, stopping : Nat]
      /\ failures'.waiting = failures.waiting /\ failures'.stopping = failures.stopping - 1
  BY <1>0
<1>2. Typed'
  <2>1. PlatformTyped'
    BY <1>0, <1>1 DEF Typed, PlatformTyped, platform
  <2>2. LoopsTyped'
    BY <1>0, <1>1 DEF Typed, LoopsTyped, LoopsGoOn, supervision
  <2>3. RecoveryTyped'
    BY <1>0, <1>1 DEF Typed, RecoveryTyped, supervision
  <2>4. DogTyped'
    BY <1>0, <1>1 DEF Typed, DogTyped
  <2>5. PollTyped'
    BY <1>0, <1>1 DEF Typed, PollTyped
  <2>6. ExitTyped'
    BY <1>0, <1>1 DEF Typed, ExitTyped
  <2>. QED BY <2>1, <2>2, <2>3, <2>4, <2>5, <2>6 DEF Typed
<1>3. LoopsGoOn
  BY <1>0, LoopsStay
<1>4. ComingUntouched' /\ AttemptsLeft' /\ TimeoutBeforePolling'
  BY <1>0, <1>3, LoopsGoOnKeeps
<1>5. Calm
  BY <1>0 DEF Calm, Typed, PlatformTyped, platform
<1>6. NoRestartLate' /\ ExitShape' /\ ShuttingDown' = ShuttingDown
  BY <1>0 DEF ShuttingDown, NoRestartLate, ExitShape
<1>7. CASE ~ShuttingDown
  <2>1. restart' = TRUE /\ restart = FALSE
    BY <1>0, <1>7 DEF RecoveryPending, Typed, RecoveryTyped
  <2>2. RecoveryPending'
    BY <1>0, <1>1, <1>7, <2>1 DEF RecoveryPending
  <2>. QED BY <1>2, <1>3, <1>4, <1>5, <1>6, <2>2, CalmIsJustified DEF Kept
<1>8. CASE ShuttingDown
  <2>1. RecoveryPending'
    BY <1>8, <1>6 DEF RecoveryPending
  <2>. QED BY <1>2, <1>3, <1>4, <1>5, <1>6, <2>1, CalmIsJustified DEF Kept
<1>. QED BY <1>7, <1>8

(* The recovery ends where the next generation starts, which was untouched. *)
LEMMA RestartDueKeeps ==
  ASSUME SupervisionInv, RestartDue
  PROVE  Kept
<1> USE DEF SupervisionInv
<1>0. /\ restart /\ gen < MaxGenerations /\ gen \in Generations
      /\ restart' = FALSE /\ gen' = gen + 1 /\ handled' = FALSE /\ startup' = TRUE
      /\ loop' = [loop EXCEPT ![gen + 1] = "start"]
      /\ loop \in [Generations -> Loops]
      /\ UNCHANGED <<platform, failures, tries, bot, dog, poll, api, disturbances, exit>>
  BY DEF RestartDue, Typed, LoopsTyped
<1>1. gen + 1 \in Generations /\ gen \in Nat
  BY <1>0, RuntimeAssumption DEF Generations, RuntimeAssumption
<1>2. /\ loop' \in [Generations -> Loops] /\ loop'[gen + 1] = "start"
      /\ \A g \in Generations : g # gen + 1 => loop'[g] = loop[g]
  BY <1>0, <1>1 DEF Loops
<1>3. Typed'
  <2>1. PlatformTyped'
    BY <1>0, <1>1, <1>2 DEF Typed, PlatformTyped, platform
  <2>2. LoopsTyped'
    BY <1>0, <1>1, <1>2 DEF Typed, LoopsTyped, LoopsGoOn, supervision
  <2>3. RecoveryTyped'
    BY <1>0, <1>1, <1>2 DEF Typed, RecoveryTyped, supervision
  <2>4. DogTyped'
    BY <1>0, <1>1, <1>2 DEF Typed, DogTyped
  <2>5. PollTyped'
    BY <1>0, <1>1, <1>2 DEF Typed, PollTyped
  <2>6. ExitTyped'
    BY <1>0, <1>1, <1>2 DEF Typed, ExitTyped
  <2>. QED BY <2>1, <2>2, <2>3, <2>4, <2>5, <2>6 DEF Typed
<1>4. \A g \in Generations : g \in Nat
  BY DEF Generations
<1>5. loop[gen + 1] = "none"
  BY <1>1, <1>4 DEF ComingUntouched
<1>6. ComingUntouched'
  BY <1>0, <1>1, <1>2, <1>4 DEF ComingUntouched
<1>7. AttemptsLeft'
  <2> SUFFICES ASSUME NEW g \in Generations, loop'[g] \in {"none", "start", "pause"}
               PROVE  tries'[g] < MaxRetries
    BY DEF AttemptsLeft
  <2>1. loop[g] \in {"none", "start", "pause"}
    BY <1>2, <1>5
  <2>. QED BY <1>0, <2>1 DEF AttemptsLeft
<1>8. TimeoutBeforePolling'
  BY <1>0, <1>2 DEF TimeoutBeforePolling
<1>9. ~ShuttingDown
  BY <1>0 DEF NoRestartLate
<1>10. ~ShuttingDown' /\ NoRestartLate' /\ ExitShape'
  BY <1>0, <1>9 DEF ShuttingDown, NoRestartLate, ExitShape
<1>11. RecoveryPending'
  <2>1. failures.waiting \in Nat /\ failures.stopping \in Nat
    BY DEF Typed, RecoveryTyped
  <2>. QED BY <1>0, <1>9, <2>1 DEF RecoveryPending
<1>. QED BY <1>0, <1>3, <1>6, <1>7, <1>8, <1>9, <1>10, <1>11
         DEF Kept, HealthyPollingKept, NothingStartsLate

(* The platforms are decided, or the process leaves. *)
LEMMA DecideKeeps ==
  ASSUME SupervisionInv, Decide
  PROVE  Kept
<1> USE DEF SupervisionInv
<1>0. UNCHANGED <<bound, discord, gen, handled, failures, loop, tries, bot, dog, poll, api,
                  disturbances>>
  BY DEF Decide
<1>1. LoopsGoOn
  BY <1>0, LoopsStay
<1>2. CASE BeginExit(1) /\ UNCHANGED decided
  <2>b. /\ ShuttingDown' /\ restart' = FALSE /\ (startup' => startup) /\ startup' \in BOOLEAN
        /\ ready' \in BOOLEAN /\ (ready' => ready)
        /\ exit'.phase \in Phases /\ ExitShape'
    BY <1>2, BeginExitFacts
  <2>2. Typed'
    <3>1. PlatformTyped'
      BY <1>0, <1>2, <2>b DEF Typed, PlatformTyped, platform
    <3>2. LoopsTyped'
      BY <1>0, <1>2, <2>b DEF Typed, LoopsTyped, LoopsGoOn, supervision
    <3>3. RecoveryTyped'
      BY <1>0, <1>2, <2>b DEF Typed, RecoveryTyped, supervision
    <3>4. DogTyped'
      BY <1>0, <1>2, <2>b DEF Typed, DogTyped
    <3>5. PollTyped'
      BY <1>0, <1>2, <2>b DEF Typed, PollTyped
    <3>6. ExitTyped'
      BY <1>0, <1>2, <2>b DEF Typed, ExitTyped
    <3>. QED BY <3>1, <3>2, <3>3, <3>4, <3>5, <3>6 DEF Typed
  <2>4. ComingUntouched' /\ AttemptsLeft' /\ TimeoutBeforePolling'
    BY <1>0, <1>1, <2>b, LoopsGoOnKeeps
  <2>5. Calm
    BY <1>0, <2>b DEF Calm
  <2>. QED BY <2>2, <1>1, <2>4, <2>5, <2>b, CalmIsJustified
           DEF Kept, RecoveryPending, NoRestartLate
<1>3. CASE decided' = TRUE /\ UNCHANGED <<ready, startup, restart, exit>>
  <2>2. Typed'
    <3>1. PlatformTyped'
      BY <1>0, <1>3 DEF Typed, PlatformTyped, platform
    <3>2. LoopsTyped'
      BY <1>0, <1>3 DEF Typed, LoopsTyped, LoopsGoOn, supervision
    <3>3. RecoveryTyped'
      BY <1>0, <1>3 DEF Typed, RecoveryTyped, supervision
    <3>4. DogTyped'
      BY <1>0, <1>3 DEF Typed, DogTyped
    <3>5. PollTyped'
      BY <1>0, <1>3 DEF Typed, PollTyped
    <3>6. ExitTyped'
      BY <1>0, <1>3 DEF Typed, ExitTyped
    <3>. QED BY <3>1, <3>2, <3>3, <3>4, <3>5, <3>6 DEF Typed
  <2>4. ComingUntouched' /\ AttemptsLeft' /\ TimeoutBeforePolling'
    BY <1>0, <1>1, <1>3, LoopsGoOnKeeps
  <2>5. Calm
    BY <1>0, <1>3 DEF Calm, Typed, PlatformTyped
  <2>6. NoRestartLate' /\ ExitShape' /\ RecoveryPending'
    BY <1>0, <1>3 DEF ShuttingDown, NoRestartLate, ExitShape, RecoveryPending
  <2>. QED BY <2>2, <1>1, <2>4, <2>5, <2>6, CalmIsJustified DEF Kept
<1>. QED BY <1>2, <1>3 DEF Decide

(* A generation that polls keeps its loop where the report of it comes from
   elsewhere; the report itself is about a generation that does not poll, or
   has not polled for long. *)
LEMMA StartupTimeoutKeeps ==
  ASSUME SupervisionInv, StartupTimeout
  PROVE  Kept
<1> USE DEF SupervisionInv
<1>0. /\ startup /\ Fail(gen) /\ UNCHANGED <<platform, loop, tries, bot, poll, api, exit>>
      /\ disturbances' \in 0 .. MaxDisturbances
  <2>1. MaxDisturbances \in Nat /\ disturbances \in 0 .. MaxDisturbances
    BY RuntimeAssumption DEF RuntimeAssumption, Typed, PollTyped
  <2>. QED BY <2>1 DEF StartupTimeout, Faulty
<1>1. /\ gen' = gen /\ restart' = restart /\ (startup' => startup)
      /\ handled' \in BOOLEAN /\ startup' \in BOOLEAN /\ dog' \in {dog, Sleeping}
      /\ failures' \in [waiting : Nat, stopping : Nat]
      /\ RecoveryPending'
  BY <1>0, FailFacts
<1>2. LoopsGoOn
  BY <1>0, LoopsStay
<1>3. Typed'
  <2>1. PlatformTyped'
    BY <1>0, <1>1, <1>2, SleepingTyped DEF Typed, PlatformTyped, platform
  <2>2. LoopsTyped'
    BY <1>0, <1>1, <1>2, SleepingTyped DEF Typed, LoopsTyped, LoopsGoOn, supervision
  <2>3. RecoveryTyped'
    BY <1>0, <1>1, <1>2, SleepingTyped DEF Typed, RecoveryTyped, supervision
  <2>4. DogTyped'
    BY <1>0, <1>1, <1>2, SleepingTyped DEF Typed, DogTyped
  <2>5. PollTyped'
    BY <1>0, <1>1, <1>2, SleepingTyped DEF Typed, PollTyped
  <2>6. ExitTyped'
    BY <1>0, <1>1, <1>2, SleepingTyped DEF Typed, ExitTyped
  <2>. QED BY <2>1, <2>2, <2>3, <2>4, <2>5, <2>6 DEF Typed
<1>4. ComingUntouched' /\ AttemptsLeft' /\ TimeoutBeforePolling'
  BY <1>0, <1>1, <1>2, LoopsGoOnKeeps
<1>5. NoRestartLate' /\ ExitShape'
  BY <1>0, <1>1 DEF ShuttingDown, NoRestartLate, ExitShape
<1>6. HealthyPollingKept
  BY <1>0 DEF HealthyPollingKept, TimeoutBeforePolling
<1>7. NothingStartsLate
  BY <1>0, <1>1 DEF NothingStartsLate, platform, Sleeping
<1>. QED BY <1>1, <1>3, <1>4, <1>5, <1>6, <1>7 DEF Kept

(* A heartbeat reports its generation only when no poll succeeded meanwhile. *)
LEMMA HeartbeatKeeps ==
  ASSUME SupervisionInv, NEW reachable \in BOOLEAN, Heartbeat(reachable)
  PROVE  Kept
<1> USE DEF SupervisionInv
<1>0. /\ UNCHANGED <<platform, loop, tries, bot, poll, api, exit>>
      /\ dog.on /\ dog.probing /\ disturbances' \in 0 .. MaxDisturbances
  <2>1. MaxDisturbances \in Nat /\ disturbances \in 0 .. MaxDisturbances
    BY RuntimeAssumption DEF RuntimeAssumption, Typed, PollTyped
  <2>. QED BY <2>1 DEF Heartbeat, Faulty
<1>1. LoopsGoOn
  BY <1>0, LoopsStay
<1>2. ExitShape'
  BY <1>0 DEF ExitShape
<1>3. CASE UNCHANGED supervision /\ DogTyped'
  <2>1. PollTyped'
    BY <1>0 DEF Typed, PollTyped
  <2>2. Aside
    BY <1>0, <1>2, <1>3, <2>1
       DEF Aside, platform, supervision, ShuttingDown, Typed, PlatformTyped, LoopsTyped, ExitTyped
  <2>. QED BY <1>1, <2>2, AsideKeeps
<1>4. CASE ~Resumed /\ Fail(gen)
  <2>1. /\ gen' = gen /\ restart' = restart /\ (startup' => startup)
        /\ handled' \in BOOLEAN /\ startup' \in BOOLEAN /\ dog' \in {dog, Sleeping}
        /\ failures' \in [waiting : Nat, stopping : Nat]
        /\ RecoveryPending'
    BY <1>0, <1>4, FailFacts
  <2>2. Typed'
    <3>1. PlatformTyped'
      BY <1>0, <1>1, <2>1, SleepingTyped DEF Typed, PlatformTyped, platform
    <3>2. LoopsTyped'
      BY <1>0, <1>1, <2>1, SleepingTyped DEF Typed, LoopsTyped, LoopsGoOn, supervision
    <3>3. RecoveryTyped'
      BY <1>0, <1>1, <2>1, SleepingTyped DEF Typed, RecoveryTyped, supervision
    <3>4. DogTyped'
      BY <1>0, <1>1, <2>1, SleepingTyped DEF Typed, DogTyped
    <3>5. PollTyped'
      BY <1>0, <1>1, <2>1, SleepingTyped DEF Typed, PollTyped
    <3>6. ExitTyped'
      BY <1>0, <1>1, <2>1, SleepingTyped DEF Typed, ExitTyped
    <3>. QED BY <3>1, <3>2, <3>3, <3>4, <3>5, <3>6 DEF Typed
  <2>3. ComingUntouched' /\ AttemptsLeft' /\ TimeoutBeforePolling'
    BY <1>0, <1>1, <2>1, LoopsGoOnKeeps
  <2>4. NoRestartLate'
    BY <1>0, <2>1 DEF ShuttingDown, NoRestartLate
  <2>5. HealthyPollingKept
    BY <1>4 DEF HealthyPollingKept, Resumed
  <2>6. NothingStartsLate
    BY <1>0, <2>1 DEF NothingStartsLate, platform, Sleeping
  <2>. QED BY <1>2, <2>1, <2>2, <2>3, <2>4, <2>5, <2>6 DEF Kept
<1>5. PICK age : age = IF dog.grace = 0 THEN 1 ELSE dog.grace
  OBVIOUS
<1>6. CASE /\ UNCHANGED supervision
           /\ \/ dog' = Recovered(dog)
              \/ dog' = [dog EXCEPT !.probing = FALSE, !.await = TRUE, !.grace = 0]
              \/ dog' = [dog EXCEPT !.probing = FALSE, !.await = TRUE, !.grace = age]
  <2>1. age \in 0 .. Stall + 1 /\ 0 \in 0 .. Stall + 1
    BY <1>5, RuntimeAssumption DEF RuntimeAssumption, Typed, DogTyped
  <2>2. DogTyped'
    BY <1>6, <2>1 DEF Recovered, Typed, DogTyped
  <2>. QED BY <1>3, <1>6, <2>2
<1>. QED BY <1>4, <1>5, <1>6 DEF Heartbeat

(* Ages grow up to their caps. *)
LEMMA TickKeeps ==
  ASSUME SupervisionInv, Tick
  PROVE  Kept
<1> USE DEF SupervisionInv
<1>0. /\ UNCHANGED <<platform, supervision, loop, tries, bot, api, exit>>
      /\ disturbances' \in 0 .. MaxDisturbances
  <2>1. MaxDisturbances \in Nat /\ disturbances \in 0 .. MaxDisturbances
    BY RuntimeAssumption DEF RuntimeAssumption, Typed, PollTyped
  <2>. QED BY <2>1 DEF Tick
<1>1. /\ Stall \in Nat /\ HandlerLimit \in Nat
      /\ poll.age \in 0 .. Stall /\ poll.handler \in 0 .. HandlerLimit /\ dog.grace \in 0 .. Stall + 1
  BY RuntimeAssumption DEF RuntimeAssumption, Typed, PollTyped, DogTyped
<1>2. ASSUME NEW limit \in Nat, NEW n \in 0 .. limit
      PROVE  Older(n, limit) \in 0 .. limit
  BY DEF Older
<1>3. PICK age : age = Older(poll.age, Stall)
  OBVIOUS
<1>4. PICK slow : slow = IF Handling THEN Older(poll.handler, HandlerLimit) ELSE poll.handler
  OBVIOUS
<1>5. PICK grace : grace = IF dog.grace = 0 THEN 0 ELSE Older(dog.grace, Stall + 1)
  OBVIOUS
<1>6. age \in 0 .. Stall /\ slow \in 0 .. HandlerLimit
  BY <1>1, <1>2, <1>3, <1>4
<1>7. grace \in 0 .. Stall + 1
  <2>1. Stall + 1 \in Nat
    BY <1>1
  <2>. QED BY <1>1, <1>2, <1>5, <2>1
<1>8. poll' = [poll EXCEPT !.age = age, !.handler = slow] /\ dog' = [dog EXCEPT !.grace = grace]
  BY <1>3, <1>4, <1>5 DEF Tick
<1>9. DogTyped' /\ dog'.on = dog.on
  BY <1>7, <1>8 DEF Typed, DogTyped
<1>10. PollTyped'
  BY <1>0, <1>6, <1>8 DEF Typed, PollTyped
<1>11. LoopsGoOn
  BY <1>0, LoopsStay
<1>12. Aside
  BY <1>0, <1>9, <1>10
     DEF Aside, platform, supervision, ShuttingDown, ExitShape, Typed, PlatformTyped, LoopsTyped,
         ExitTyped
<1>. QED BY <1>11, <1>12, AsideKeeps

(* The watchdog recovers or sends a heartbeat. *)
LEMMA CheckKeeps ==
  ASSUME SupervisionInv, WatchdogCheck
  PROVE  Kept
<1> USE DEF SupervisionInv
<1>1. /\ UNCHANGED <<platform, supervision, loop, tries, bot, poll, api, disturbances, exit>>
      /\ dog' \in {Recovered(dog), [dog EXCEPT !.probing = TRUE]}
  BY DEF WatchdogCheck
<1>2. DogTyped' /\ dog'.on = dog.on
  <2>1. 0 \in 0 .. Stall + 1
    BY RuntimeAssumption DEF RuntimeAssumption
  <2>. QED BY <1>1, <2>1 DEF Recovered, Typed, DogTyped
<1>3. PollTyped'
  BY <1>1 DEF Typed, PollTyped
<1>4. Aside
  BY <1>1, <1>2, <1>3
     DEF Aside, platform, supervision, ShuttingDown, ExitShape, Typed, PlatformTyped, LoopsTyped,
         ExitTyped
<1>. QED BY <1>1, <1>4, LoopsStay, AsideKeeps

(* Polls that succeed or fail, and a change of the API. *)
LEMMA PollingKeeps ==
  ASSUME SupervisionInv,
         ApiChanges \/ \E g \in Generations : PollOk(g) \/ PollError(g)
  PROVE  Kept
<1> USE DEF SupervisionInv
<1>0. /\ UNCHANGED <<platform, supervision, loop, tries, bot, dog, exit>>
      /\ api' \in BOOLEAN /\ disturbances' \in 0 .. MaxDisturbances
      /\ poll' \in {poll, [age |-> 0, failed |-> FALSE, handler |-> 0], [poll EXCEPT !.failed = TRUE]}
  <2>1. MaxDisturbances \in Nat /\ disturbances \in 0 .. MaxDisturbances /\ api \in BOOLEAN
    BY RuntimeAssumption DEF RuntimeAssumption, Typed, PollTyped
  <2>2. CASE ApiChanges
    <3>1. disturbances' \in 0 .. MaxDisturbances
      BY <2>1, <2>2 DEF ApiChanges
    <3>2. api' \in BOOLEAN
      BY <2>2 DEF ApiChanges
    <3>. QED BY <2>2, <3>1, <3>2 DEF ApiChanges
  <2>3. CASE \E g \in Generations : PollOk(g) \/ PollError(g)
    BY <2>1, <2>3 DEF PollOk, PollError
  <2>. QED BY <2>2, <2>3
<1>1. PollTyped'
  <2>1. poll' \in [age : 0 .. Stall, failed : BOOLEAN, handler : 0 .. HandlerLimit]
    BY <1>0, FreshPollTyped DEF Typed, PollTyped
  <2>. QED BY <1>0, <2>1 DEF PollTyped
<1>2. DogTyped'
  BY <1>0 DEF Typed, DogTyped
<1>3. Aside
  BY <1>0, <1>1, <1>2
     DEF Aside, platform, supervision, ShuttingDown, ExitShape, Typed, PlatformTyped, LoopsTyped,
         ExitTyped
<1>. QED BY <1>0, <1>3, LoopsStay, AsideKeeps

(* Discord is up, failed or stopped; readiness is published only while serving. *)
LEMMA DiscordKeeps ==
  ASSUME SupervisionInv, Connects
  PROVE  Kept
<1> USE DEF SupervisionInv
<1>0. /\ UNCHANGED <<bound, decided, supervision, loop, tries, bot, dog, poll, api, disturbances,
                     exit>>
      /\ discord' \in {"up", "stopped", "failed"}
      /\ ready' \in {ready, (ready \/ ~ShuttingDown)}
  BY DEF Connects, DiscordReady, DiscordFails
<1>1. PlatformTyped' /\ (ShuttingDown => (ready' => ready))
  BY <1>0 DEF Typed, PlatformTyped
<1>2. DogTyped' /\ PollTyped'
  BY <1>0 DEF Typed, DogTyped, PollTyped
<1>3. Aside
  BY <1>0, <1>1, <1>2 DEF Aside, supervision, ShuttingDown, ExitShape, Typed, LoopsTyped,
       ExitTyped
<1>. QED BY <1>0, <1>3, LoopsStay, AsideKeeps

(* A handler takes an update, returns from it or hangs. *)
LEMMA HandlerKeeps ==
  ASSUME SupervisionInv, NEW g \in Generations,
         HandlesUpdate(g) \/ HandlerReturns(g) \/ LoopSticks(g)
  PROVE  Kept
<1> USE DEF SupervisionInv
<1>0. /\ UNCHANGED <<platform, supervision, tries, bot, dog, api, exit>>
      /\ disturbances' \in 0 .. MaxDisturbances
      /\ poll' \in {poll, [age |-> 0, failed |-> FALSE, handler |-> 0]}
  <2>1. MaxDisturbances \in Nat /\ disturbances \in 0 .. MaxDisturbances
    BY RuntimeAssumption DEF RuntimeAssumption, Typed, PollTyped
  <2>. QED BY <2>1 DEF HandlesUpdate, HandlerReturns, LoopSticks, Faulty
<1>1. DogTyped' /\ PollTyped'
  <2>1. poll' \in [age : 0 .. Stall, failed : BOOLEAN, handler : 0 .. HandlerLimit]
    BY <1>0, FreshPollTyped DEF Typed, PollTyped
  <2>2. PollTyped'
    BY <1>0, <2>1 DEF Typed, PollTyped
  <2>3. DogTyped'
    BY <1>0 DEF Typed, DogTyped
  <2>. QED BY <2>2, <2>3
<1>2. Aside
  BY <1>0, <1>1
     DEF Aside, platform, supervision, ShuttingDown, ExitShape, Typed, PlatformTyped, LoopsTyped,
         ExitTyped
<1>3. CASE HandlesUpdate(g)
  <2>1. loop[g] = "polling" /\ loop' = [loop EXCEPT ![g] = "handling"]
    BY <1>3 DEF HandlesUpdate
  <2>2. LoopsGoOn
    BY <2>1, OneLoopGoesOn DEF Loops
  <2>. QED BY <1>2, <2>2, AsideKeeps
<1>4. CASE HandlerReturns(g)
  <2>1. PICK stage : stage = IF loop[g] = "handling" THEN "polling" ELSE "done"
    OBVIOUS
  <2>2. loop[g] \in {"handling", "leaving"} /\ loop' = [loop EXCEPT ![g] = stage]
    BY <1>4, <2>1 DEF HandlerReturns
  <2>3. LoopsGoOn
    BY <2>1, <2>2, OneLoopGoesOn DEF Loops
  <2>. QED BY <1>2, <2>3, AsideKeeps
<1>5. CASE LoopSticks(g)
  <2>1. PICK stage : stage = IF loop[g] = "handling" THEN "hung" ELSE "stuck"
    OBVIOUS
  <2>2. loop[g] \in {"polling", "handling"} /\ loop' = [loop EXCEPT ![g] = stage]
    BY <1>5, <2>1 DEF LoopSticks
  <2>3. LoopsGoOn
    BY <2>1, <2>2, OneLoopGoesOn DEF Loops
  <2>. QED BY <1>2, <2>3, AsideKeeps
<1>. QED BY <1>3, <1>4, <1>5

(* An attempt is counted, and there was one left. *)
LEMMA BotStartKeeps ==
  ASSUME SupervisionInv, NEW g \in Generations, BotStart(g)
  PROVE  Kept
<1> USE DEF SupervisionInv
<1>0. /\ loop[g] = "start" /\ tries' = [tries EXCEPT ![g] = @ + 1]
      /\ UNCHANGED <<platform, supervision, dog, poll, api, disturbances, exit>>
  BY DEF BotStart
<1>1. PICK stage \in {"setup", "done"} : loop' = [loop EXCEPT ![g] = stage]
  BY DEF BotStart
<1>2. bot' \in {0} \union Generations
  BY DEF BotStart, Typed, LoopsTyped
<1>3. LoopsGoOn
  BY <1>0, <1>1, OneLoopGoesOn DEF Loops
<1>4. loop'[g] = stage /\ \A h \in Generations : h # g => loop'[h] = loop[h]
  BY <1>1 DEF Typed, LoopsTyped
<1>5. /\ tries' \in [Generations -> 0 .. MaxRetries]
      /\ \A h \in Generations : h # g => tries'[h] = tries[h]
  <2>1. tries[g] < MaxRetries /\ tries[g] \in 0 .. MaxRetries /\ MaxRetries \in Nat
    BY <1>0, RuntimeAssumption DEF AttemptsLeft, Typed, LoopsTyped, RuntimeAssumption
  <2>2. tries[g] + 1 \in 0 .. MaxRetries
    BY <2>1
  <2>. QED BY <1>0, <2>2 DEF Typed, LoopsTyped
<1>6. Typed'
  <2>1. PlatformTyped'
    BY <1>0, <1>2, <1>3, <1>5 DEF Typed, PlatformTyped, platform
  <2>2. LoopsTyped'
    BY <1>0, <1>2, <1>3, <1>5 DEF Typed, LoopsTyped, LoopsGoOn, supervision
  <2>3. RecoveryTyped'
    BY <1>0, <1>2, <1>3, <1>5 DEF Typed, RecoveryTyped, supervision
  <2>4. DogTyped'
    BY <1>0, <1>2, <1>3, <1>5 DEF Typed, DogTyped
  <2>5. PollTyped'
    BY <1>0, <1>2, <1>3, <1>5 DEF Typed, PollTyped
  <2>6. ExitTyped'
    BY <1>0, <1>2, <1>3, <1>5 DEF Typed, ExitTyped
  <2>. QED BY <2>1, <2>2, <2>3, <2>4, <2>5, <2>6 DEF Typed
<1>7. gen' = gen /\ startup' = startup /\ handled' = handled /\ failures' = failures /\ restart' = restart
  BY <1>0 DEF supervision
<1>8. ComingUntouched'
  BY <1>3, <1>7 DEF ComingUntouched, LoopsGoOn
<1>9. AttemptsLeft'
  BY <1>4, <1>5 DEF AttemptsLeft
<1>10. TimeoutBeforePolling'
  <2>1. gen \in Generations
    BY DEF Typed, LoopsTyped
  <2>. QED BY <1>3, <1>7, <2>1 DEF TimeoutBeforePolling, LoopsGoOn
<1>11. NoRestartLate' /\ RecoveryPending' /\ ExitShape'
  BY <1>0, <1>7 DEF ShuttingDown, NoRestartLate, RecoveryPending, ExitShape
<1>12. Calm
  BY <1>0, <1>7 DEF Calm, platform, Typed, PlatformTyped
<1>. QED BY <1>3, <1>6, <1>8, <1>9, <1>10, <1>11, <1>12, CalmIsJustified DEF Kept

(* A loop with attempts left pauses, or starts again after its pause. *)
LEMMA RestingKeeps ==
  ASSUME SupervisionInv, Aside, NEW g \in Generations, NEW stage \in {"pause", "start"},
         loop' = [loop EXCEPT ![g] = stage], loop[g] # "none", tries[g] < MaxRetries
  PROVE  Kept
<1> USE DEF SupervisionInv
<1>0. loop \in [Generations -> Loops] /\ gen \in Generations
  BY DEF Typed, LoopsTyped
<1>1. /\ loop' \in [Generations -> Loops] /\ loop'[g] = stage
      /\ \A h \in Generations : h # g => loop'[h] = loop[h]
  BY <1>0 DEF Loops
<1>2. gen' = gen /\ startup' = startup /\ tries' = tries
  BY DEF Aside
<1>3. LoopsTyped' /\ RecoveryTyped'
  BY <1>1 DEF Aside, Typed, LoopsTyped, RecoveryTyped
<1>4. Typed'
  BY <1>3 DEF Aside, Typed
<1>5. ComingUntouched'
  BY <1>1, <1>2 DEF ComingUntouched
<1>6. AttemptsLeft'
  BY <1>1, <1>2 DEF AttemptsLeft
<1>7. TimeoutBeforePolling'
  BY <1>0, <1>1, <1>2 DEF TimeoutBeforePolling
<1>8. NoRestartLate' /\ RecoveryPending' /\ ExitShape'
  BY DEF Aside, NoRestartLate, RecoveryPending
<1>9. HealthyPollingKept
  BY DEF Aside, HealthyPollingKept
<1>10. NothingStartsLate
  BY <1>1 DEF Aside, NothingStartsLate
<1>. QED BY <1>4, <1>5, <1>6, <1>7, <1>8, <1>9, <1>10 DEF Kept

(* The pause of a conflict is over. *)
LEMMA RetryDueKeeps ==
  ASSUME SupervisionInv, NEW g \in Generations, RetryDue(g)
  PROVE  Kept
<1> USE DEF SupervisionInv
<1>0. /\ loop[g] = "pause" /\ loop' = [loop EXCEPT ![g] = "start"]
      /\ UNCHANGED <<platform, supervision, tries, bot, dog, poll, api, disturbances, exit>>
      /\ loop \in [Generations -> Loops] /\ gen \in Generations
  BY DEF RetryDue, Typed, LoopsTyped
<1>1. PollTyped' /\ DogTyped'
  BY <1>0 DEF Typed, PollTyped, DogTyped
<1>2. Aside
  BY <1>0, <1>1
     DEF Aside, platform, supervision, ShuttingDown, ExitShape, Typed, PlatformTyped, LoopsTyped,
         ExitTyped
<1>3. tries[g] < MaxRetries
  BY <1>0 DEF AttemptsLeft
<1>. QED BY <1>0, <1>2, <1>3, RestingKeeps

(* A start that fails is retried, or its generation is reported: its loop is
   done then. *)
LEMMA StartFailsKeeps ==
  ASSUME SupervisionInv,
         NEW g \in Generations, NEW conflict \in BOOLEAN, StartFails(g, conflict)
  PROVE  Kept
<1> USE DEF SupervisionInv
<1>0. /\ loop[g] \in {"setup", "polling"}
      /\ UNCHANGED <<platform, tries, api, exit>>
      /\ bot' \in {0} \union Generations
  BY DEF StartFails, Typed, LoopsTyped
<1>1. PollTyped'
  <2>1. MaxDisturbances \in Nat /\ disturbances \in 0 .. MaxDisturbances
    BY RuntimeAssumption DEF RuntimeAssumption, Typed, PollTyped
  <2>2. disturbances' \in 0 .. MaxDisturbances
    BY <2>1 DEF StartFails, Faulty
  <2>3. PICK f \in BOOLEAN : f = (poll.failed \/ loop[g] = "polling")
    OBVIOUS
  <2>4. poll' = [poll EXCEPT !.failed = f]
    BY <2>3 DEF StartFails
  <2>5. poll' \in [age : 0 .. Stall, failed : BOOLEAN, handler : 0 .. HandlerLimit]
    BY <2>4 DEF Typed, PollTyped
  <2>. QED BY <1>0, <2>2, <2>5 DEF Typed, PollTyped
<1>2. CASE /\ tries[g] < MaxRetries
           /\ loop' = [loop EXCEPT ![g] = "pause"] /\ UNCHANGED <<supervision, dog>>
  <2>1. DogTyped'
    BY <1>2 DEF Typed, DogTyped
  <2>2. Aside
    BY <1>0, <1>1, <1>2, <2>1
       DEF Aside, platform, supervision, ShuttingDown, ExitShape, Typed, PlatformTyped, ExitTyped
  <2>. QED BY <1>0, <1>2, <2>2, RestingKeeps
<1>3. CASE loop' = [loop EXCEPT ![g] = "done"] /\ Fail(g)
  <2>1. /\ gen' = gen /\ restart' = restart /\ (startup' => startup)
        /\ handled' \in BOOLEAN /\ startup' \in BOOLEAN /\ dog' \in {dog, Sleeping}
        /\ failures' \in [waiting : Nat, stopping : Nat]
        /\ (handled' /\ ~handled) => g = gen /\ ~ShuttingDown
        /\ RecoveryPending'
    BY <1>0, <1>3, FailFacts
  <2>2. LoopsGoOn
    BY <1>0, <1>3, OneLoopGoesOn DEF Loops
  <2>3. loop'[g] = "done"
    BY <1>3 DEF Typed, LoopsTyped
  <2>4. Typed'
    <3>1. PlatformTyped'
      BY <1>0, <1>1, <2>1, <2>2, SleepingTyped DEF Typed, PlatformTyped, platform
    <3>2. LoopsTyped'
      BY <1>0, <1>1, <2>1, <2>2, SleepingTyped DEF Typed, LoopsTyped, LoopsGoOn, supervision
    <3>3. RecoveryTyped'
      BY <1>0, <1>1, <2>1, <2>2, SleepingTyped DEF Typed, RecoveryTyped, supervision
    <3>4. DogTyped'
      BY <1>0, <1>1, <2>1, <2>2, SleepingTyped DEF Typed, DogTyped
    <3>5. PollTyped'
      BY <1>0, <1>1, <2>1, <2>2, SleepingTyped DEF Typed, PollTyped
    <3>6. ExitTyped'
      BY <1>0, <1>1, <2>1, <2>2, SleepingTyped DEF Typed, ExitTyped
    <3>. QED BY <3>1, <3>2, <3>3, <3>4, <3>5, <3>6 DEF Typed
  <2>5. ComingUntouched' /\ AttemptsLeft' /\ TimeoutBeforePolling'
    BY <1>0, <2>1, <2>2, LoopsGoOnKeeps
  <2>6. NoRestartLate' /\ ExitShape'
    BY <1>0, <2>1 DEF ShuttingDown, NoRestartLate, ExitShape
  <2>7. HealthyPollingKept
    BY <2>1, <2>3 DEF HealthyPollingKept
  <2>8. NothingStartsLate
    BY <1>0, <2>1, <2>2 DEF NothingStartsLate, platform, Sleeping, LoopsGoOn
  <2>. QED BY <2>1, <2>4, <2>5, <2>6, <2>7, <2>8 DEF Kept
<1>. QED BY <1>2, <1>3 DEF StartFails

(* Only a generation that is concerned comes to poll, which disarms its timeout. *)
LEMMA OnStartKeeps ==
  ASSUME SupervisionInv, NEW g \in Generations, OnStart(g)
  PROVE  Kept
<1> USE DEF SupervisionInv
<1>0. /\ loop[g] = "setup"
      /\ UNCHANGED <<bound, discord, decided, gen, handled, failures, restart, tries, api,
                     disturbances, exit>>
      /\ loop \in [Generations -> Loops] /\ gen \in Generations
  BY DEF OnStart, Typed, LoopsTyped
<1>1. CASE /\ Concerns(g) /\ bot = g
           /\ loop' = [loop EXCEPT ![g] = "polling"]
           /\ startup' = FALSE /\ ready' = (ready \/ bound)
           /\ dog' = IF dog.on THEN dog ELSE [Sleeping EXCEPT !.on = TRUE]
           /\ poll' = [poll EXCEPT !.age = IF dog.on THEN @ ELSE 0]
           /\ UNCHANGED bot
  <2>0. /\ loop' \in [Generations -> Loops] /\ loop'[g] = "polling"
        /\ \A h \in Generations : h # g => loop'[h] = loop[h]
    BY <1>0, <1>1 DEF Loops
  <2>1. DogTyped'
    <3>1. 0 \in 0 .. Stall + 1
      BY RuntimeAssumption DEF RuntimeAssumption
    <3>. QED BY <1>1, <3>1 DEF Typed, DogTyped, Sleeping
  <2>2. PollTyped'
    <3>1. PICK age : age = IF dog.on THEN poll.age ELSE 0
      OBVIOUS
    <3>2. age \in 0 .. Stall
      BY <3>1, RuntimeAssumption DEF RuntimeAssumption, Typed, PollTyped
    <3>3. poll' = [poll EXCEPT !.age = age]
      BY <1>1, <3>1
    <3>4. poll' \in [age : 0 .. Stall, failed : BOOLEAN, handler : 0 .. HandlerLimit]
      BY <3>2, <3>3 DEF Typed, PollTyped
    <3>. QED BY <1>0, <3>4 DEF Typed, PollTyped
  <2>3. LoopsTyped'
    BY <1>0, <1>1, <2>0 DEF Typed, LoopsTyped
  <2>4. Typed'
    <3>1. PlatformTyped'
      BY <1>0, <1>1, <2>1, <2>2, <2>3 DEF Typed, PlatformTyped, platform
    <3>2. LoopsTyped'
      BY <1>0, <1>1, <2>1, <2>2, <2>3 DEF Typed, LoopsTyped, LoopsGoOn, supervision
    <3>3. RecoveryTyped'
      BY <1>0, <1>1, <2>1, <2>2, <2>3 DEF Typed, RecoveryTyped, supervision
    <3>4. DogTyped'
      BY <1>0, <1>1, <2>1, <2>2, <2>3 DEF Typed, DogTyped
    <3>5. PollTyped'
      BY <1>0, <1>1, <2>1, <2>2, <2>3 DEF Typed, PollTyped
    <3>6. ExitTyped'
      BY <1>0, <1>1, <2>1, <2>2, <2>3 DEF Typed, ExitTyped
    <3>. QED BY <3>1, <3>2, <3>3, <3>4, <3>5, <3>6 DEF Typed
  <2>5. ComingUntouched'
    BY <1>0, <2>0 DEF ComingUntouched
  <2>6. AttemptsLeft'
    BY <1>0, <2>0 DEF AttemptsLeft
  <2>7. TimeoutBeforePolling'
    BY <1>1 DEF TimeoutBeforePolling
  <2>8. NoRestartLate' /\ RecoveryPending' /\ ExitShape'
    BY <1>0 DEF ShuttingDown, NoRestartLate, RecoveryPending, ExitShape
  <2>9. HealthyPollingKept /\ NothingStartsLate
    BY <1>0, <1>1 DEF HealthyPollingKept, NothingStartsLate, Concerns
  <2>. QED BY <2>4, <2>5, <2>6, <2>7, <2>8, <2>9 DEF Kept
<1>2. CASE /\ loop' = [loop EXCEPT ![g] = "done"]
           /\ bot' = IF bot = g THEN 0 ELSE bot
           /\ UNCHANGED <<startup, ready, dog, poll>>
  <2>1. LoopsGoOn
    BY <1>0, <1>2, OneLoopGoesOn DEF Loops
  <2>2. DogTyped' /\ PollTyped'
    BY <1>0, <1>2 DEF Typed, DogTyped, PollTyped
  <2>3. bot' \in {0} \union Generations
    BY <1>2 DEF Typed, LoopsTyped
  <2>4. Aside
    BY <1>0, <1>2, <2>2, <2>3 DEF Aside, ShuttingDown, ExitShape, Typed, PlatformTyped, ExitTyped
  <2>. QED BY <2>1, <2>4, AsideKeeps
<1>. QED BY <1>1, <1>2 DEF OnStart

(* A signal begins the shutdown or raises its code. *)
LEMMA SignalKeeps ==
  ASSUME SupervisionInv, NEW code, Signal(code)
  PROVE  Kept
<1> USE DEF SupervisionInv
<1>0. UNCHANGED <<bound, discord, decided, gen, handled, failures, loop, tries, bot, dog, poll,
                  api, disturbances>>
  BY DEF Signal
<1>1. /\ ShuttingDown' /\ restart' = FALSE /\ (startup' => startup) /\ startup' \in BOOLEAN
      /\ ready' \in BOOLEAN /\ (ready' => ready)
      /\ exit'.phase \in Phases /\ ExitShape'
  BY BeginExitFacts DEF Signal
<1>2. LoopsGoOn
  BY <1>0, LoopsStay
<1>3. Typed'
  <2>1. PlatformTyped'
    BY <1>0, <1>1, <1>2 DEF Typed, PlatformTyped, platform
  <2>2. LoopsTyped'
    BY <1>0, <1>1, <1>2 DEF Typed, LoopsTyped, LoopsGoOn, supervision
  <2>3. RecoveryTyped'
    BY <1>0, <1>1, <1>2 DEF Typed, RecoveryTyped, supervision
  <2>4. DogTyped'
    BY <1>0, <1>1, <1>2 DEF Typed, DogTyped
  <2>5. PollTyped'
    BY <1>0, <1>1, <1>2 DEF Typed, PollTyped
  <2>6. ExitTyped'
    BY <1>0, <1>1, <1>2 DEF Typed, ExitTyped
  <2>. QED BY <2>1, <2>2, <2>3, <2>4, <2>5, <2>6 DEF Typed
<1>4. ComingUntouched' /\ AttemptsLeft' /\ TimeoutBeforePolling'
  BY <1>0, <1>1, <1>2, LoopsGoOnKeeps
<1>5. Calm
  BY <1>0, <1>1 DEF Calm
<1>. QED BY <1>1, <1>2, <1>3, <1>4, <1>5, CalmIsJustified DEF Kept, RecoveryPending, NoRestartLate

(* The watchdog and the bot are stopped, the retry of the current loop is given up. *)
LEMMA StopTransportsKeeps ==
  ASSUME SupervisionInv, StopTransports
  PROVE  Kept
<1> USE DEF SupervisionInv
<1>0. /\ exit.phase = "intake" /\ exit' = [exit EXCEPT !.phase = "transport"]
      /\ dog' = Sleeping /\ bot' = 0
      /\ UNCHANGED <<platform, supervision, tries, poll, api, disturbances>>
  BY DEF StopTransports
<1>1. exit' = [phase |-> "transport", code |-> exit.code]
  BY <1>0 DEF ExitShape
<1>2. exit'.phase = "transport" /\ ExitShape'
  BY <1>1 DEF ExitShape
<1>3. ShuttingDown' = ShuttingDown /\ ExitTyped'
  BY <1>0, <1>2 DEF ShuttingDown, ExitTyped, Phases
<1>4. DogTyped' /\ ~dog'.on
  BY <1>0, SleepingTyped DEF DogTyped, Sleeping
<1>5. PollTyped'
  BY <1>0 DEF Typed, PollTyped
<1>6. Aside
  BY <1>0, <1>2, <1>3, <1>4, <1>5 DEF Aside, platform, supervision, Typed, PlatformTyped
<1>7. LoopsGoOn
  <2>1. loop \in [Generations -> Loops]
    BY DEF Typed, LoopsTyped
  <2>2. \A g \in Generations :
          loop'[g] = IF g = gen /\ loop[g] \in {"pause", "start"} THEN "done"
                     ELSE IF g = bot /\ loop[g] = "polling" THEN "done"
                     ELSE IF g = bot /\ loop[g] = "handling" THEN "leaving"
                     ELSE loop[g]
    BY DEF StopTransports
  <2>3. loop' \in [Generations -> Loops]
    BY <2>1 DEF StopTransports, Loops
  <2>. QED BY <2>2, <2>3 DEF LoopsGoOn
<1>. QED BY <1>6, <1>7, AsideKeeps

(* The phases of the shutdown leave everything else to the drains. *)
LEMMA ExitStepKeeps ==
  ASSUME SupervisionInv, ShuttingDown, ExitUnchanged,
         exit'.phase \in Phases \ {"serving"}, ExitShape'
  PROVE  Kept
<1> USE DEF SupervisionInv
<1>1. UNCHANGED <<platform, supervision, loop, tries, bot, dog, poll, api, disturbances>>
  BY DEF ExitUnchanged
<1>2. ShuttingDown' = ShuttingDown /\ ExitTyped'
  BY DEF ShuttingDown, ExitTyped
<1>3. DogTyped' /\ PollTyped'
  BY <1>1 DEF Typed, DogTyped, PollTyped
<1>4. Aside
  BY <1>1, <1>2, <1>3 DEF Aside, platform, supervision, Typed, PlatformTyped, LoopsTyped
<1>. QED BY <1>1, <1>4, LoopsStay, AsideKeeps

(* One phase follows another, or the forced cleanup is entered. *)
LEMMA EnterKeeps ==
  ASSUME SupervisionInv, NEW from \in Phases \ {"serving"}, NEW to \in Phases \ {"serving"},
         Enter(from, to)
  PROVE  Kept
<1>1. exit' = [phase |-> to, code |-> exit.code]
  BY DEF Enter, SupervisionInv, ExitShape
<1>2. exit'.phase = to /\ ExitShape'
  BY <1>1 DEF ExitShape
<1>. QED BY <1>2, ExitStepKeeps DEF Enter, ShuttingDown

LEMMA ExitsKeep ==
  ASSUME SupervisionInv, Exits \/ Abort
  PROVE  Kept
<1>1. CASE StopTransports
  BY <1>1, StopTransportsKeeps
<1>2. CASE ForcedCleanup
  <2>1. exit'.phase = "exited" /\ ExitShape'
    BY <1>2 DEF ForcedCleanup, ExitShape
  <2>. QED BY <1>2, <2>1, ExitStepKeeps DEF ForcedCleanup, ShuttingDown, Phases
<1>3. CASE TransportsDrained \/ SessionsDrained \/ QueuesIdle \/ SessionsClosed \/ GuardReleased
  BY <1>3, EnterKeeps
     DEF TransportsDrained, SessionsDrained, QueuesIdle, SessionsClosed, GuardReleased, Phases
<1>4. CASE Abort
  BY <1>4, EnterKeeps DEF Abort, Phases
<1>. QED BY <1>1, <1>2, <1>3, <1>4 DEF Exits

(* Every step keeps the invariant and both action properties. *)
LEMMA NextKeeps ==
  ASSUME SupervisionInv, ServingNext
  PROVE  Kept
<1>1. CASE Supervise
  BY <1>1, HandleFailureKeeps, ScheduleRestartKeeps, RestartDueKeeps, StartupTimeoutKeeps,
     DecideKeeps DEF Supervise
<1>2. CASE Watch
  BY <1>2, TickKeeps, CheckKeeps, HeartbeatKeeps DEF Watch
<1>3. CASE Connects
  BY <1>3, DiscordKeeps
<1>4. CASE ApiChanges \/ \E g \in Generations : PollOk(g) \/ PollError(g)
  BY <1>4, PollingKeeps
<1>5. CASE Exits \/ Abort
  BY <1>5, ExitsKeep
<1>6. CASE \E g \in Generations : HandlesUpdate(g) \/ HandlerReturns(g) \/ LoopSticks(g)
  BY <1>6, HandlerKeeps
<1>7. CASE \E g \in Generations : BotStart(g) \/ OnStart(g) \/ RetryDue(g)
  BY <1>7, BotStartKeeps, OnStartKeeps, RetryDueKeeps
<1>8. CASE \E g \in Generations, conflict \in BOOLEAN : StartFails(g, conflict)
  BY <1>8, StartFailsKeeps
<1>9. CASE \E code \in {0, 1} : Signal(code)
  BY <1>9, SignalKeeps
<1>. QED BY <1>1, <1>2, <1>3, <1>4, <1>5, <1>6, <1>7, <1>8, <1>9 DEF ServingNext, Polls, Disturbs

LEMMA StutterKeeps ==
  ASSUME SupervisionInv, UNCHANGED servingVars
  PROVE  Kept
<1> USE DEF SupervisionInv
<1>0. UNCHANGED <<platform, supervision, loop, tries, bot, dog, poll, api, disturbances, exit>>
  BY DEF servingVars
<1>1. DogTyped' /\ PollTyped'
  BY <1>0 DEF Typed, DogTyped, PollTyped
<1>2. Aside
  BY <1>0, <1>1
     DEF Aside, platform, supervision, ShuttingDown, ExitShape, Typed, PlatformTyped, LoopsTyped,
         ExitTyped
<1>. QED BY <1>0, <1>2, LoopsStay, AsideKeeps

(* The first generation starts with all of its attempts. *)
LEMMA InitSupervises ==
  ASSUME ServingInit
  PROVE  SupervisionInv
<1>0. /\ 1 \in Generations /\ \A g \in Generations : g \in Nat /\ g >= 1
      /\ 0 \in 0 .. MaxRetries /\ 0 < MaxRetries /\ 0 \in 0 .. MaxDisturbances
  BY RuntimeAssumption DEF RuntimeAssumption, Generations
<1>1. /\ loop = [g \in Generations |-> IF g = 1 THEN "start" ELSE "none"]
      /\ tries = [g \in Generations |-> 0] /\ gen = 1 /\ bot = 0
  BY DEF ServingInit
<1>2. LoopsTyped
  BY <1>0, <1>1 DEF LoopsTyped, Loops
<1>3. RecoveryTyped /\ PlatformTyped
  BY DEF ServingInit, RecoveryTyped, PlatformTyped
<1>4. DogTyped
  BY SleepingTyped DEF ServingInit, DogTyped
<1>5. PollTyped
  BY <1>0, FreshPollTyped DEF ServingInit, PollTyped
<1>6. ExitTyped /\ ExitShape /\ ~ShuttingDown
  BY DEF ServingInit, ExitTyped, ExitShape, NoExit, ShuttingDown, Phases
<1>7. ComingUntouched /\ AttemptsLeft
  BY <1>0, <1>1 DEF ComingUntouched, AttemptsLeft
<1>8. TimeoutBeforePolling
  BY <1>0, <1>1 DEF TimeoutBeforePolling
<1>9. NoRestartLate /\ RecoveryPending
  BY <1>6 DEF ServingInit, NoRestartLate, RecoveryPending
<1>. QED BY <1>2, <1>3, <1>4, <1>5, <1>6, <1>7, <1>8, <1>9 DEF Typed, SupervisionInv

LEMMA SupervisionHolds ==
  ServingSpec => []SupervisionInv
<1>1. ServingInit => SupervisionInv
  BY InitSupervises
<1>2. SupervisionInv /\ [ServingNext]_servingVars => SupervisionInv'
  BY NextKeeps, StutterKeeps DEF Kept
<1>. QED BY <1>1, <1>2, PTL DEF ServingSpec

(* The supervision, the polling loops, the watchdog and the shutdown are well
   typed in every reachable state: attempts stay within MaxRetries, ages within
   their caps. *)
THEOREM SupervisionTypeCorrect ==
  ServingSpec => []ServingTypeOK
<1>1. SupervisionInv => ServingTypeOK
  BY TypeParts DEF SupervisionInv
<1>. QED BY <1>1, SupervisionHolds, PTL

(* However many of the watchdog, the startup timeout and the polling promise
   report a generation, one recovery is under way for it, and none for a
   generation that is served (handleTelegramPollingFailure). *)
THEOREM RecoveryIsPending ==
  ServingSpec => []RecoveryPending
<1>1. SupervisionInv => RecoveryPending
  BY DEF SupervisionInv
<1>. QED BY <1>1, SupervisionHolds, PTL

(* A generation that polls and succeeded recently is never given up, and once
   the shutdown began nothing starts: no generation, no polling loop, no
   watchdog, no readiness. *)
THEOREM RestartsAreJustified ==
  ServingSpec => RestartsJustified
<1>1. SupervisionInv /\ [ServingNext]_servingVars
        => [HealthyPollingKept /\ NothingStartsLate]_servingVars
  BY NextKeeps, StutterKeeps DEF Kept
<1>. QED BY <1>1, SupervisionHolds, PTL DEF ServingSpec, RestartsJustified
=============================================================================
