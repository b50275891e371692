------------------------- MODULE KnowledgeLockProofs -------------------------
(* One process at a time holds a workspace, for any number of processes,   *)
(* inodes, crashes and stalls, as long as nobody removed, as expired, the  *)
(* claim of a process that runs; and what the requests and the maintenance *)
(* run do to the workspace under that lock.                                *)
EXTENDS KnowledgeLock, KnowledgeUpdate, FiniteSetTheorems, TLAPS

(* Steps of a process between the creation of its lock and its removal. *)
OwningSteps == {"write", "unwrite", "confirm", "dropClaim", "withdraw"} \union Held

(* The lock at the path is the one its process created, and it is written  *)
(* before anything is done under it.                                       *)
LockBelongs ==
    \A p \in Procs :
        /\ pc[p] \in OwningSteps => lock.owner = p
        /\ lock.owner = p => pc[p] \in OwningSteps \union {"dead"}
        /\ pc[p] \in OwningSteps \ {"write", "unwrite"} => lock.written

(* What is old and was never written has lost its owner. *)
OldIsAbandoned == lock.old /\ ~lock.written => Dead(lock.owner)

(* A reclaimer about to remove the lock is about to remove a dead one. *)
CondemnedIsDead ==
    \A p \in Procs : pc[p] = "unlinkLock" => lock # NoFile /\ Dead(lock.owner)

(* The claim at the path was made by the process that relies on it. *)
ClaimingSteps == {"verify", "recheck", "unlinkLock", "dropLink", "dropClaim", "unclaim"}
Claiming(p) == pc[p] \in ClaimingSteps \/ (mine[p] # 0 /\ pc[p] \notin Ended)

ClaimBelongs == \A p \in Procs : Claiming(p) => claimer = p /\ claim # NoFile

(* Who is about to remove an expired claim relies on none. *)
DropperClaimsNothing == \A p \in Procs : pc[p] = "dropOld" => mine[p] = 0

(* Two names of one inode are one file. *)
OneFile == claim # NoFile /\ claim.ino = lock.ino => claim = lock

ReclaimInv ==
    /\ TypeOK /\ LockBelongs /\ OldIsAbandoned /\ CondemnedIsDead
    /\ ClaimBelongs /\ DropperClaimsNothing /\ OneFile

(* All of it, until the claim of a process that runs is removed as expired. *)
LockInv == TypeOK /\ (~overtaken => ReclaimInv)

-----------------------------------------------------------------------------
(* Files and types. *)

(* A path names a file or nothing; nothing has no inode and no live owner. *)
LEMMA FileShape ==
    ASSUME NEW f \in Files \union {NoFile}
    PROVE  /\ f = [owner |-> f.owner, ino |-> f.ino, written |-> f.written, old |-> f.old]
           /\ f.owner \in Owners /\ f.written \in BOOLEAN /\ f.old \in BOOLEAN
           /\ f # NoFile => f.ino \in Inodes /\ f.ino # 0
           /\ f = NoFile => f.ino = 0
           /\ f.owner \in Procs => f # NoFile
<1>1. NoFile.ino = 0 /\ NoFile.owner = Ghost /\ ~NoFile.written /\ ~NoFile.old
      /\ NoFile = [owner |-> NoFile.owner, ino |-> NoFile.ino, written |-> NoFile.written,
                   old |-> NoFile.old]
      /\ NoFile.written \in BOOLEAN /\ NoFile.old \in BOOLEAN
  BY DEF NoFile
<1> QED
  BY <1>1, KnowledgeLockAssumption DEF Files, Owners

LEMMA NothingShape ==
    NoFile.ino = 0 /\ NoFile.owner = Ghost /\ ~NoFile.written /\ ~NoFile.old /\ Ghost \notin Procs
BY KnowledgeLockAssumption DEF NoFile

LEMMA LeftShape == Left \in Files /\ Left.owner = Ghost /\ Left.written /\ Left.old
<1>1. (CHOOSE i \in Inodes : TRUE) \in Inodes
  BY KnowledgeLockAssumption
<1> QED
  BY <1>1 DEF Left, Files, Owners

(* A change of one field leaves the other fields as they were. *)
LEMMA WrittenShape ==
    ASSUME NEW f \in Files, NEW g, g = [f EXCEPT !.written = TRUE]
    PROVE  g = [owner |-> f.owner, ino |-> f.ino, written |-> TRUE, old |-> f.old]
BY DEF Files

LEMMA AgedShape ==
    ASSUME NEW f \in Files, NEW g, g = [f EXCEPT !.old = TRUE]
    PROVE  g = [owner |-> f.owner, ino |-> f.ino, written |-> f.written, old |-> TRUE]
BY DEF Files

(* Writing changes the contents of the file of its process only. *)
LEMMA FilledShape ==
    ASSUME NEW f \in Files \union {NoFile}, NEW p \in Procs
    PROVE  /\ Filled(f, p) \in Files \union {NoFile}
           /\ Filled(f, p) = NoFile <=> f = NoFile
           /\ Filled(f, p).owner = f.owner /\ Filled(f, p).ino = f.ino
           /\ Filled(f, p).old = f.old
           /\ f.owner = p => Filled(f, p).written
           /\ f.owner # p => Filled(f, p) = f
<1>1. CASE f.owner # p
  BY <1>1 DEF Filled
<1>2. CASE f.owner = p
  <2>1. f \in Files /\ f # NoFile
    BY <1>2, NothingShape
  <2>2. Filled(f, p) = [owner |-> f.owner, ino |-> f.ino, written |-> TRUE, old |-> f.old]
    BY <1>2, <2>1, WrittenShape DEF Filled
  <2> QED
    BY <1>2, <2>1, <2>2, NothingShape DEF Files
<1> QED
  BY <1>1, <1>2

(* Removing a name changes the change time of its inode. *)
LEMMA TouchType ==
    ASSUME TypeOK, NEW i, Touch(i)
    PROVE  steady' \in [Procs -> BOOLEAN]
BY DEF TypeOK, Touch

LEMMA AgainType ==
    ASSUME TypeOK, NEW p \in Procs, Again(p)
    PROVE  /\ pc' \in [Procs -> Steps] /\ attempt' \in [Procs -> 0..2]
           /\ Goes(p, "begin") \/ Goes(p, "yieldClaim")
BY DEF TypeOK, Again, Goes, Steps

(* Steps of a process that only moves. *)
Moving(p) ==
    \/ Begin(p) \/ OpenExists(p) \/ WriteFails(p) \/ Confirm(p) \/ Withdraw(p) \/ Release(p)
    \/ Finish(p) \/ Judge(p) \/ LinkFails(p) \/ Verify(p) \/ YieldClaim(p) \/ Crash(p)

LEMMA MovesTyped == ASSUME TypeOK, NEW p \in Procs, Moving(p) PROVE TypeOK'
<1> USE DEF TypeOK, Goes, Steps, Held, Ended, files, sight
<1>1. CASE Begin(p)
  <2>1. \E s \in {"open", "dropOld", "failed"} : Goes(p, s)
    BY <1>1 DEF Begin
  <2> QED
    BY <1>1, <2>1 DEF Begin
<1>2. CASE OpenExists(p) \/ WriteFails(p) \/ Finish(p) \/ Crash(p)
  BY <1>2 DEF OpenExists, WriteFails, Finish, Crash
<1>3. CASE Confirm(p)
  <2>1. \E s \in {"held", "dropClaim", "withdraw"} : Goes(p, s)
    BY <1>3, FileShape DEF Confirm
  <2> QED
    BY <1>3, <2>1 DEF Confirm
<1>4. CASE Withdraw(p) \/ Release(p)
  BY <1>4 DEF Withdraw, Release, ReadToken
<1>5. CASE Judge(p)
  BY <1>5, AgainType, FileShape DEF Judge
<1>6. CASE LinkFails(p)
  BY <1>6, AgainType DEF LinkFails
<1>7. CASE Verify(p) \/ YieldClaim(p)
  BY <1>7 DEF Verify, YieldClaim
<1> QED
  BY <1>1, <1>2, <1>3, <1>4, <1>5, <1>6, <1>7 DEF Moving

LEMMA ChangesTyped ==
    ASSUME TypeOK, NEW p \in Procs,
           DropOld(p) \/ DropClaim(p) \/ DropLink(p) \/ Unclaim(p) \/ Open(p) \/ Write(p)
           \/ Unwrite(p) \/ Unlock(p) \/ Link(p) \/ Recheck(p)
    PROVE  TypeOK'
<1> USE DEF TypeOK, Goes, Steps, Held, Ended, files, sight
<1>1. CASE DropOld(p) \/ DropClaim(p) \/ DropLink(p) \/ Unclaim(p)
  <2>1. overtaken' \in BOOLEAN
    BY <1>1, Zenon DEF DropOld, DropClaim, DropLink, Unclaim, Overtakes
  <2> QED
    BY <1>1, <2>1, TouchType DEF DropOld, DropClaim, DropLink, Unclaim, RemoveClaim
<1>2. CASE Open(p)
  BY <1>2 DEF Open, FreeInodes, Files, Owners
<1>3. CASE Write(p)
  BY <1>3, FilledShape DEF Write
<1>4. CASE Unwrite(p) \/ Unlock(p)
  BY <1>4, TouchType DEF Unwrite, Unlock, RemoveLock
<1>5. CASE Link(p)
  BY <1>5, TouchType DEF Link, Owners
<1>6. CASE Recheck(p)
  BY <1>6 DEF Recheck
<1> QED
  BY <1>1, <1>2, <1>3, <1>4, <1>5, <1>6

LEMMA UnlinkTyped == ASSUME TypeOK, NEW p \in Procs, UnlinkLock(p) PROVE TypeOK'
<1> USE DEF TypeOK, Goes, Steps, Held, Ended, files, sight
<1>1. CASE lock = NoFile
  BY <1>1 DEF UnlinkLock
<1>2. CASE lock # NoFile
  <2>1. RemoveLock /\ Again(p) /\ UNCHANGED overtaken
        /\ mine' = [mine EXCEPT ![p] = IF claim = NoFile THEN seen[p] ELSE claim.ino]
    BY <1>2 DEF UnlinkLock
  <2>2. (IF claim = NoFile THEN seen[p] ELSE claim.ino) \in Inodes \union {0}
    BY FileShape
  <2>3. mine' \in [Procs -> Inodes \union {0}]
    BY <2>1, <2>2
  <2> QED
    BY <2>1, <2>3, AgainType, TouchType DEF RemoveLock
<1> QED
  BY <1>1, <1>2

LEMMA NextTyped == ASSUME TypeOK, [Next]_vars PROVE TypeOK'
<1>1. CASE UNCHANGED vars
  BY <1>1 DEF vars, TypeOK
<1>2. CASE AgeLock
  <2>1. lock' = [owner |-> lock.owner, ino |-> lock.ino, written |-> lock.written, old |-> TRUE]
    BY <1>2, AgedShape DEF AgeLock, TypeOK
  <2>2. lock' \in Files
    BY <1>2, <2>1, FileShape DEF AgeLock, TypeOK, Files
  <2> QED
    BY <1>2, <2>2 DEF AgeLock, TypeOK, sight
<1>3. CASE AgeClaim
  BY <1>3 DEF AgeClaim, TypeOK, sight
<1> QED
  BY <1>1, <1>2, <1>3, MovesTyped, ChangesTyped, UnlinkTyped
     DEF Next, Acquire, Reclaim, Moving

-----------------------------------------------------------------------------
(* Steps. *)

(* p goes to s and only its own reliance on a claim may change. *)
StepOf(p, s) ==
    /\ pc[p] \notin Ended /\ Goes(p, s)
    /\ \A q \in Procs \ {p} : mine'[q] = mine[q]

LEMMA OthersStay ==
    ASSUME TypeOK, NEW p \in Procs, NEW s, StepOf(p, s)
    PROVE  /\ pc'[p] = s
           /\ \A q \in Procs \ {p} : pc'[q] = pc[q] /\ mine'[q] = mine[q]
           /\ \A o \in Owners : Dead(o) => Dead(o)'
           /\ \A o \in Owners : Gone(o) => Gone(o)'
<1>1. pc \in [Procs -> Steps]
  BY DEF TypeOK
<1>2. pc'[p] = s /\ \A q \in Procs \ {p} : pc'[q] = pc[q]
  BY <1>1 DEF StepOf, Goes
<1>3. pc[p] # "dead"
  BY DEF StepOf, Ended
<1>4. \A o \in Owners : Dead(o) => Dead(o)'
  BY <1>2, <1>3 DEF Dead, Alive, Owners
<1>5. \A o \in Owners : Gone(o) => Gone(o)'
  BY <1>2 DEF Gone, Owners, StepOf, Ended
<1> QED
  BY <1>2, <1>4, <1>5 DEF StepOf

(* The claim's part, which a step that leaves claim and claimer keeps. *)
LEMMA ClaimPart ==
    ASSUME ReclaimInv, NEW p \in Procs, NEW s, StepOf(p, s),
           UNCHANGED claimer, claim' # NoFile <=> claim # NoFile,
           s = "dropOld" => mine'[p] = 0,
           Claiming(p)' => claimer = p /\ claim # NoFile
    PROVE  ClaimBelongs' /\ DropperClaimsNothing'
<1>1. TypeOK /\ ClaimBelongs /\ DropperClaimsNothing
  BY DEF ReclaimInv
<1>2. \A q \in Procs \ {p} : pc'[q] = pc[q] /\ mine'[q] = mine[q]
  BY <1>1, OthersStay
<1>3. ClaimBelongs'
  <2> SUFFICES ASSUME NEW q \in Procs, Claiming(q)'
               PROVE  claimer' = q /\ claim' # NoFile
    BY DEF ClaimBelongs
  <2>1. CASE q = p
    BY <2>1
  <2>2. CASE q # p
    <3>1. Claiming(q)
      BY <1>2, <2>2 DEF Claiming, Ended, ClaimingSteps
    <3> QED
      BY <1>1, <3>1 DEF ClaimBelongs
  <2> QED
    BY <2>1, <2>2
<1>4. pc'[p] = s
  BY <1>1, OthersStay
<1> QED
  BY <1>1, <1>2, <1>3, <1>4 DEF DropperClaimsNothing

(* The claim is removed by the one process that relies on it, or when      *)
(* nobody does.                                                            *)
LEMMA RemovalPart ==
    ASSUME ReclaimInv, NEW p \in Procs, NEW s, StepOf(p, s),
           RemoveClaim, Claiming(p) \/ ~Overtakes, ~Claiming(p)', s # "dropOld"
    PROVE  ClaimBelongs' /\ DropperClaimsNothing'
<1>1. TypeOK /\ ClaimBelongs /\ DropperClaimsNothing
  BY DEF ReclaimInv
<1>2. \A q \in Procs \ {p} : pc'[q] = pc[q] /\ mine'[q] = mine[q]
  BY <1>1, OthersStay
<1>3. ASSUME NEW q \in Procs \ {p}
      PROVE  ~Claiming(q)'
  <2> SUFFICES ASSUME Claiming(q)
               PROVE  FALSE
    BY <1>2 DEF Claiming, Ended, ClaimingSteps
  <2>1. claimer = q
    BY <1>1 DEF ClaimBelongs
  <2>2. CASE Claiming(p)
    BY <1>1, <2>1, <2>2, <1>3 DEF ClaimBelongs
  <2>3. CASE ~Overtakes
    <3>1. Gone(q) /\ q # Ghost
      BY <1>1, <2>1, <2>3, KnowledgeLockAssumption DEF ClaimBelongs, Overtakes
    <3> QED
      BY <3>1 DEF Gone, Claiming, ClaimingSteps, Ended
  <2> QED
    BY <2>2, <2>3
<1>4. pc'[p] = s
  BY <1>1, OthersStay
<1> QED
  BY <1>1, <1>2, <1>3, <1>4 DEF ClaimBelongs, DropperClaimsNothing

(* The lock's part, which a step that leaves the lock keeps. *)
LEMMA LockPart ==
    ASSUME ReclaimInv, NEW p \in Procs, NEW s, StepOf(p, s), UNCHANGED lock,
           s \in OwningSteps => pc[p] \in OwningSteps
                                /\ (lock.written \/ s \in {"write", "unwrite"}),
           pc[p] \in OwningSteps => s \in OwningSteps \union {"dead"} \/ lock.owner # p,
           s = "unlinkLock" => lock # NoFile /\ Dead(lock.owner)
    PROVE  LockBelongs' /\ OldIsAbandoned' /\ CondemnedIsDead'
<1>1. TypeOK /\ LockBelongs /\ OldIsAbandoned /\ CondemnedIsDead
  BY DEF ReclaimInv
<1>2. pc'[p] = s /\ \A q \in Procs \ {p} : pc'[q] = pc[q]
  BY <1>1, OthersStay
<1>3. lock.owner \in Owners
  BY <1>1, FileShape DEF TypeOK
<1>4. Dead(lock.owner) => Dead(lock.owner)'
  BY <1>1, <1>3, OthersStay
<1>5. LockBelongs'
  <2> SUFFICES ASSUME NEW q \in Procs
               PROVE  /\ pc'[q] \in OwningSteps => lock.owner = q
                      /\ lock.owner = q => pc'[q] \in OwningSteps \union {"dead"}
                      /\ pc'[q] \in OwningSteps \ {"write", "unwrite"} => lock.written
    BY DEF LockBelongs, OwningSteps, Held
  <2>1. CASE q # p
    BY <1>1, <1>2, <2>1 DEF LockBelongs
  <2>2. CASE q = p
    <3>1. lock.owner = p => pc[p] \in OwningSteps
      BY <1>1 DEF LockBelongs, StepOf, Ended
    <3> QED
      BY <1>1, <1>2, <2>2, <3>1 DEF LockBelongs
  <2> QED
    BY <2>1, <2>2
<1>6. OldIsAbandoned'
  BY <1>1, <1>4 DEF OldIsAbandoned
<1>7. CondemnedIsDead'
  BY <1>1, <1>2, <1>4 DEF CondemnedIsDead
<1> QED
  BY <1>5, <1>6, <1>7

(* The lock is removed by its own process or by a reclaimer when it is     *)
(* dead; nobody else is about to remove it.                                *)
LEMMA UnlockPart ==
    ASSUME ReclaimInv, NEW p \in Procs, NEW s, StepOf(p, s), RemoveLock,
           pc[p] \in {"unwrite", "unlock", "unlinkLock"}, s \notin OwningSteps, s # "unlinkLock"
    PROVE  LockBelongs' /\ OldIsAbandoned' /\ CondemnedIsDead'
<1>1. TypeOK /\ LockBelongs /\ OldIsAbandoned /\ CondemnedIsDead /\ ClaimBelongs
  BY DEF ReclaimInv
<1>2. pc'[p] = s /\ \A q \in Procs \ {p} : pc'[q] = pc[q]
  BY <1>1, OthersStay
<1>3. lock' = NoFile
  BY DEF RemoveLock
<1>4. \A q \in Procs \ {p} : pc[q] \notin OwningSteps
  <2> SUFFICES ASSUME NEW q \in Procs \ {p}, pc[q] \in OwningSteps
               PROVE  FALSE
    OBVIOUS
  <2>1. lock.owner = q /\ pc[q] # "dead" /\ q # Ghost
    BY <1>1, KnowledgeLockAssumption DEF LockBelongs, OwningSteps, Held
  <2>2. CASE pc[p] \in {"unwrite", "unlock"}
    BY <1>1, <2>1, <2>2 DEF LockBelongs, OwningSteps, Held
  <2>3. CASE pc[p] = "unlinkLock"
    BY <1>1, <2>1, <2>3 DEF CondemnedIsDead, Dead, Alive
  <2> QED
    BY <2>2, <2>3
<1>5. \A q \in Procs \ {p} : pc[q] # "unlinkLock"
  <2> SUFFICES ASSUME NEW q \in Procs \ {p}, pc[q] = "unlinkLock"
               PROVE  FALSE
    OBVIOUS
  <2>1. Dead(lock.owner) /\ claimer = q
    BY <1>1 DEF CondemnedIsDead, ClaimBelongs, Claiming, ClaimingSteps
  <2>2. CASE pc[p] \in {"unwrite", "unlock"}
    BY <1>1, <2>1, <2>2, KnowledgeLockAssumption
       DEF LockBelongs, OwningSteps, Held, Dead, Alive
  <2>3. CASE pc[p] = "unlinkLock"
    BY <1>1, <2>1, <2>3 DEF ClaimBelongs, Claiming, ClaimingSteps
  <2> QED
    BY <2>2, <2>3
<1>6. \A q \in Procs : pc'[q] \notin OwningSteps /\ pc'[q] # "unlinkLock"
  BY <1>2, <1>4, <1>5
<1>7. LockBelongs'
  BY <1>3, <1>6, NothingShape DEF LockBelongs, OwningSteps, Held
<1> QED
  BY <1>3, <1>6, <1>7, NothingShape DEF OldIsAbandoned, CondemnedIsDead

(* A step that leaves both files alone. *)
LEMMA MoveInv ==
    ASSUME ReclaimInv, TypeOK', NEW p \in Procs, NEW s, StepOf(p, s), UNCHANGED files,
           s = "dropOld" => mine'[p] = 0,
           Claiming(p)' => Claiming(p),
           s \in OwningSteps => pc[p] \in OwningSteps
                                /\ (lock.written \/ s \in {"write", "unwrite"}),
           pc[p] \in OwningSteps => s \in OwningSteps \union {"dead"} \/ lock.owner # p,
           s = "unlinkLock" => lock # NoFile /\ Dead(lock.owner)
    PROVE  ReclaimInv'
<1>1. UNCHANGED <<lock, claim, claimer, claimOld>>
  BY DEF files
<1>2. Claiming(p) => claimer = p /\ claim # NoFile
  BY DEF ReclaimInv, ClaimBelongs
<1>4. ClaimBelongs' /\ DropperClaimsNothing'
  BY <1>1, <1>2, ClaimPart
<1>5. LockBelongs' /\ OldIsAbandoned' /\ CondemnedIsDead'
  BY <1>1, LockPart
<1>6. OneFile'
  BY <1>1 DEF ReclaimInv, OneFile
<1> QED
  BY <1>4, <1>5, <1>6 DEF ReclaimInv

(* The claim's and the lock's shapes agree on what a path with no file is. *)
LEMMA PathShapes ==
    ASSUME TypeOK
    PROVE  /\ claim # NoFile <=> claim.ino # 0
           /\ lock # NoFile <=> lock.ino # 0
BY FileShape DEF TypeOK

LEMMA AcquiringMoves ==
    ASSUME ReclaimInv, NEW p \in Procs,
           Begin(p) \/ OpenExists(p) \/ WriteFails(p) \/ Confirm(p) \/ Withdraw(p) \/ Release(p)
           \/ Finish(p) \/ YieldClaim(p) \/ Crash(p)
    PROVE  ReclaimInv'
<1> USE DEF Held, Ended, OwningSteps, ClaimingSteps
<1>1. TypeOK /\ TypeOK' /\ pc \in [Procs -> Steps] /\ mine \in [Procs -> Inodes \union {0}]
  BY MovesTyped DEF ReclaimInv, Moving, TypeOK
<1>2. LockBelongs
  BY DEF ReclaimInv
<1>3. ASSUME NEW s, Goes(p, s), UNCHANGED mine
      PROVE  pc'[p] = s /\ (Claiming(p)' <=> s \in ClaimingSteps \/ (mine[p] # 0 /\ s \notin Ended))
  BY <1>1, <1>3 DEF Goes, Claiming
<1>4. CASE Begin(p)
  <2> DEFINE s == CASE mine[p] # 0 \/ claim = NoFile -> "open"
                    [] mine[p] = 0 /\ claim # NoFile /\ claimOld -> "dropOld"
                    [] mine[p] = 0 /\ claim # NoFile /\ ~claimOld -> "failed"
  <2>1. pc[p] = "begin" /\ Goes(p, s) /\ UNCHANGED <<files, mine>>
    BY <1>4 DEF Begin
  <2>2. s \in {"open", "dropOld", "failed"} /\ (s = "dropOld" => mine[p] = 0)
    OBVIOUS
  <2> HIDE DEF s
  <2>3. StepOf(p, s) /\ (Claiming(p)' => Claiming(p))
    BY <1>3, <2>1, <2>2 DEF StepOf, Claiming
  <2> QED
    BY <1>1, <2>1, <2>2, <2>3, MoveInv
<1>5. CASE OpenExists(p)
  <2>1. StepOf(p, "judge") /\ (Claiming(p)' => Claiming(p)) /\ pc[p] = "open" /\ UNCHANGED files
    BY <1>3, <1>5 DEF OpenExists, StepOf, Claiming
  <2> QED
    BY <1>1, <2>1, MoveInv
<1>6. CASE WriteFails(p)
  <2>1. StepOf(p, "unwrite") /\ (Claiming(p)' => Claiming(p)) /\ pc[p] = "write" /\ UNCHANGED files
    BY <1>3, <1>6 DEF WriteFails, StepOf, Claiming
  <2> QED
    BY <1>1, <2>1, MoveInv
<1>7. CASE Confirm(p)
  <2> DEFINE s == CASE mine[p] = 0 /\ claim = NoFile -> "held"
                    [] mine[p] # 0 /\ claim.ino = mine[p] -> "dropClaim"
                    [] claim.ino # mine[p] -> "withdraw"
  <2>1. pc[p] = "confirm" /\ Goes(p, s) /\ UNCHANGED <<files, mine>>
    BY <1>7 DEF Confirm
  <2>2. s \in {"held", "dropClaim", "withdraw"} /\ (s = "dropClaim" => mine[p] # 0)
    BY <1>1, PathShapes
  <2> HIDE DEF s
  <2>3. StepOf(p, s) /\ (Claiming(p)' => Claiming(p)) /\ lock.written
    BY <1>2, <1>3, <2>1, <2>2 DEF StepOf, Claiming, LockBelongs
  <2> QED
    BY <1>1, <2>1, <2>2, <2>3, MoveInv
<1>8. CASE Withdraw(p) \/ Release(p)
  <2>1. pc[p] \in {"withdraw", "release"} /\ UNCHANGED <<files, mine>>
        /\ lock.owner = p /\ lock.written /\ Goes(p, "unlock")
    BY <1>2, <1>8 DEF Withdraw, Release, ReadToken, LockBelongs
  <2>2. StepOf(p, "unlock") /\ (Claiming(p)' => Claiming(p))
    BY <1>3, <2>1 DEF StepOf, Claiming
  <2> QED
    BY <1>1, <2>1, <2>2, MoveInv
<1>9. CASE Finish(p)
  <2>1. StepOf(p, "release") /\ (Claiming(p)' => Claiming(p)) /\ pc[p] = "held" /\ UNCHANGED files
        /\ lock.written
    BY <1>2, <1>3, <1>9 DEF Finish, StepOf, Claiming, LockBelongs
  <2> QED
    BY <1>1, <2>1, MoveInv
<1>10. CASE YieldClaim(p)
  <2>1. PICK s \in {"unclaim", "failed"} :
            Goes(p, s) /\ (s = "unclaim" => mine[p] # 0)
    BY <1>10 DEF YieldClaim
  <2>2. StepOf(p, s) /\ (Claiming(p)' => Claiming(p)) /\ pc[p] = "yieldClaim" /\ UNCHANGED files
    BY <1>3, <1>10, <2>1 DEF YieldClaim, StepOf, Claiming
  <2> QED
    BY <1>1, <2>1, <2>2, MoveInv
<1>11. CASE Crash(p)
  <2>1. StepOf(p, "dead") /\ ~Claiming(p)' /\ UNCHANGED files
    BY <1>3, <1>11 DEF Crash, StepOf, Claiming
  <2> QED
    BY <1>1, <2>1, MoveInv
<1> QED
  BY <1>4, <1>5, <1>6, <1>7, <1>8, <1>9, <1>10, <1>11

LEMMA ReclaimingMoves ==
    ASSUME ReclaimInv, NEW p \in Procs,
           Judge(p) \/ LinkFails(p) \/ Verify(p) \/ Recheck(p)
    PROVE  ReclaimInv'
<1> USE DEF Held, Ended, OwningSteps, ClaimingSteps
<1>1. TypeOK /\ TypeOK' /\ pc \in [Procs -> Steps] /\ mine \in [Procs -> Inodes \union {0}]
  BY MovesTyped, ChangesTyped DEF ReclaimInv, Moving, TypeOK
<1>2. ASSUME NEW s, Goes(p, s)
      PROVE  pc'[p] = s /\ (Claiming(p)' <=> s \in ClaimingSteps \/ (mine'[p] # 0 /\ s \notin Ended))
  BY <1>1, <1>2 DEF Goes, Claiming
<1>3. CASE Judge(p) \/ LinkFails(p)
  <2>1. PICK s \in {"begin", "yieldClaim", "link", "failed"} : Goes(p, s)
    BY <1>1, <1>3, AgainType DEF Judge, LinkFails
  <2>2. pc[p] \in {"judge", "link"} /\ UNCHANGED <<files, mine>>
    BY <1>3 DEF Judge, LinkFails
  <2>3. StepOf(p, s) /\ (Claiming(p)' => Claiming(p))
    BY <1>2, <2>1, <2>2 DEF StepOf, Claiming
  <2> QED
    BY <1>1, <2>1, <2>2, <2>3, MoveInv DEF files
<1>4. CASE Verify(p)
  <2>1. PICK s \in {"recheck", "dropLink"} : Goes(p, s)
    BY <1>4 DEF Verify
  <2>2. StepOf(p, s) /\ Claiming(p) /\ pc[p] = "verify" /\ UNCHANGED files
    BY <1>4, <2>1 DEF Verify, StepOf, Claiming
  <2> QED
    BY <1>1, <2>1, <2>2, MoveInv
<1>5. CASE Recheck(p)
  <2>1. PICK s \in {"unlinkLock", "yieldClaim"} :
            /\ Goes(p, s)
            /\ s = "unlinkLock" => lock.ino = claim.ino /\ Stale(claim)
    BY <1>5 DEF Recheck
  <2>2. StepOf(p, s) /\ Claiming(p) /\ pc[p] = "recheck" /\ UNCHANGED files
    BY <1>1, <1>5, <2>1 DEF Recheck, StepOf, Claiming
  <2>3. ASSUME s = "unlinkLock"
        PROVE  lock # NoFile /\ Dead(lock.owner)
    <3>1. claim # NoFile /\ claim = lock
      BY <2>1, <2>2, <2>3 DEF ReclaimInv, ClaimBelongs, OneFile
    <3> QED
      BY <2>1, <2>3, <3>1 DEF ReclaimInv, OldIsAbandoned, Stale
  <2> QED
    BY <1>1, <2>1, <2>2, <2>3, MoveInv
<1> QED
  BY <1>3, <1>4, <1>5

LEMMA ClaimRemovals ==
    ASSUME ReclaimInv, ~overtaken', NEW p \in Procs,
           DropOld(p) \/ DropClaim(p) \/ DropLink(p) \/ Unclaim(p)
    PROVE  ReclaimInv'
<1> USE DEF Held, Ended, OwningSteps, ClaimingSteps
<1>1. TypeOK /\ TypeOK' /\ pc \in [Procs -> Steps] /\ mine \in [Procs -> Inodes \union {0}]
  BY ChangesTyped DEF ReclaimInv, TypeOK
<1>2. RemoveClaim /\ claim' = NoFile /\ lock' = lock
  BY DEF DropOld, DropClaim, DropLink, Unclaim, RemoveClaim
<1>3. ASSUME NEW s, StepOf(p, s), s # "dropOld", s # "unlinkLock",
             Claiming(p) \/ ~Overtakes, ~Claiming(p)',
             s \in OwningSteps => pc[p] \in OwningSteps /\ lock.written,
             pc[p] \in OwningSteps => s \in OwningSteps
      PROVE  ReclaimInv'
  <2>1. ClaimBelongs' /\ DropperClaimsNothing'
    BY <1>2, <1>3, RemovalPart
  <2>2. LockBelongs' /\ OldIsAbandoned' /\ CondemnedIsDead'
    BY <1>2, <1>3, LockPart
  <2> QED
    BY <1>1, <1>2, <2>1, <2>2 DEF ReclaimInv, OneFile
<1>4. CASE DropOld(p)
  <2>1. pc[p] = "dropOld" /\ StepOf(p, "open") /\ UNCHANGED mine /\ pc'[p] = "open"
    BY <1>1, <1>4 DEF DropOld, StepOf, Goes
  <2>2. mine[p] = 0 /\ ~Overtakes
    BY <1>4, <2>1 DEF ReclaimInv, DropperClaimsNothing, DropOld
  <2> QED
    BY <1>3, <2>1, <2>2 DEF Claiming
<1>5. CASE DropClaim(p)
  <2>1. PICK s \in {"withdraw", "held"} : Goes(p, s)
    BY <1>5 DEF DropClaim
  <2>2. pc[p] = "dropClaim" /\ mine'[p] = 0 /\ StepOf(p, s) /\ pc'[p] = s
    BY <1>1, <1>5, <2>1 DEF DropClaim, StepOf, Goes
  <2>3. lock.written
    BY <2>2 DEF ReclaimInv, LockBelongs
  <2> QED
    BY <1>3, <2>1, <2>2, <2>3 DEF Claiming
<1>6. CASE DropLink(p) \/ Unclaim(p)
  <2>1. pc[p] \in {"dropLink", "unclaim"} /\ StepOf(p, "failed") /\ pc'[p] = "failed"
    BY <1>1, <1>6 DEF DropLink, Unclaim, StepOf, Goes
  <2> QED
    BY <1>3, <2>1 DEF Claiming
<1> QED
  BY <1>4, <1>5, <1>6

LEMMA LockRemovals ==
    ASSUME ReclaimInv, NEW p \in Procs,
           Unwrite(p) \/ Unlock(p) \/ UnlinkLock(p)
    PROVE  ReclaimInv'
<1> USE DEF Held, Ended, OwningSteps, ClaimingSteps
<1>1. TypeOK /\ TypeOK' /\ pc \in [Procs -> Steps] /\ mine \in [Procs -> Inodes \union {0}]
  BY ChangesTyped, UnlinkTyped DEF ReclaimInv, TypeOK
<1>2. UnlinkLock(p) => lock # NoFile
  BY DEF ReclaimInv, CondemnedIsDead, UnlinkLock
<1>3. RemoveLock /\ lock' = NoFile /\ UNCHANGED <<claim, claimer>> /\ (claimOld' => claimOld)
  BY <1>2 DEF Unwrite, Unlock, UnlinkLock, RemoveLock
<1>5. PICK s \in {"yieldClaim", "begin", "done"} : Goes(p, s)
  BY <1>1, <1>2, AgainType DEF Unwrite, Unlock, UnlinkLock
<1>6. pc[p] \in {"unwrite", "unlock", "unlinkLock"} /\ pc'[p] = s
  BY <1>1, <1>5 DEF Unwrite, Unlock, UnlinkLock, Goes
<1>7. StepOf(p, s)
  BY <1>1, <1>2, <1>5, <1>6 DEF StepOf, Unwrite, Unlock, UnlinkLock
<1>8. Claiming(p)' => claimer = p /\ claim # NoFile
  <2>1. Claiming(p)' => Claiming(p)
    BY <1>1, <1>5, <1>6 DEF Claiming, Unwrite, Unlock, UnlinkLock
  <2> QED
    BY <2>1 DEF ReclaimInv, ClaimBelongs
<1>9. ClaimBelongs' /\ DropperClaimsNothing'
  BY <1>3, <1>5, <1>7, <1>8, ClaimPart
<1>10. LockBelongs' /\ OldIsAbandoned' /\ CondemnedIsDead'
  BY <1>3, <1>5, <1>6, <1>7, UnlockPart
<1>11. OneFile'
  BY <1>1, <1>3, PathShapes, NothingShape DEF OneFile
<1> QED
  BY <1>1, <1>9, <1>10, <1>11 DEF ReclaimInv

LEMMA OpenInv ==
    ASSUME ReclaimInv, NEW p \in Procs, Open(p)
    PROVE  ReclaimInv'
<1> USE DEF Held, Ended, OwningSteps, ClaimingSteps
<1>1. TypeOK /\ TypeOK' /\ pc \in [Procs -> Steps] /\ LockBelongs /\ DropperClaimsNothing
  BY ChangesTyped DEF ReclaimInv, TypeOK
<1>2. PICK i \in FreeInodes : lock' = [owner |-> p, ino |-> i, written |-> FALSE, old |-> FALSE]
  BY DEF Open
<1>3. lock = NoFile /\ pc[p] = "open" /\ pc'[p] = "write" /\ UNCHANGED <<claim, claimer, claimOld, mine>>
  BY <1>1 DEF Open, Goes
<1>4. StepOf(p, "write") /\ (Claiming(p)' => Claiming(p))
  BY <1>3 DEF Open, StepOf, Claiming
<1>5. Claiming(p) => claimer = p /\ claim # NoFile
  BY DEF ReclaimInv, ClaimBelongs
<1>7. ClaimBelongs' /\ DropperClaimsNothing'
  BY <1>3, <1>4, <1>5, ClaimPart
<1>8. \A q \in Procs \ {p} : pc'[q] \notin OwningSteps /\ pc'[q] # "unlinkLock"
  <2>1. \A q \in Procs : pc[q] \notin OwningSteps /\ pc[q] # "unlinkLock"
    BY <1>1, <1>3, NothingShape DEF LockBelongs, ReclaimInv, CondemnedIsDead
  <2>2. \A q \in Procs \ {p} : pc'[q] = pc[q]
    BY <1>1, <1>4, OthersStay
  <2> QED
    BY <2>1, <2>2
<1>9. LockBelongs' /\ OldIsAbandoned' /\ CondemnedIsDead'
  BY <1>2, <1>3, <1>8 DEF LockBelongs, OldIsAbandoned, CondemnedIsDead
<1>10. OneFile'
  BY <1>2, <1>3 DEF OneFile, FreeInodes
<1> QED
  BY <1>1, <1>7, <1>9, <1>10 DEF ReclaimInv

LEMMA WriteInv ==
    ASSUME ReclaimInv, NEW p \in Procs, Write(p)
    PROVE  ReclaimInv'
<1> USE DEF Held, Ended, OwningSteps, ClaimingSteps
<1>1. TypeOK /\ TypeOK' /\ pc \in [Procs -> Steps] /\ LockBelongs /\ DropperClaimsNothing
      /\ lock \in Files \union {NoFile} /\ claim \in Files \union {NoFile}
  BY ChangesTyped DEF ReclaimInv, TypeOK
<1>2. /\ pc[p] = "write" /\ pc'[p] = "confirm" /\ lock.owner = p
      /\ lock' = Filled(lock, p) /\ claim' = Filled(claim, p) /\ UNCHANGED <<claimer, claimOld, mine>>
  BY <1>1 DEF Write, Goes, LockBelongs
<1>3. StepOf(p, "confirm") /\ (Claiming(p)' => Claiming(p))
  BY <1>2 DEF Write, StepOf, Claiming
<1>4. Claiming(p) => claimer = p /\ claim # NoFile
  BY DEF ReclaimInv, ClaimBelongs
<1>6. claim' # NoFile <=> claim # NoFile
  BY <1>1, <1>2, FilledShape
<1>7. ClaimBelongs' /\ DropperClaimsNothing'
  BY <1>2, <1>3, <1>4, <1>6, ClaimPart
<1>8. \A q \in Procs \ {p} : pc'[q] = pc[q]
  BY <1>1, <1>3, OthersStay
<1>9. lock'.owner = p /\ lock'.written
  BY <1>1, <1>2, FilledShape
<1>10. LockBelongs' /\ OldIsAbandoned'
  BY <1>1, <1>2, <1>8, <1>9 DEF LockBelongs, OldIsAbandoned
<1>11. CondemnedIsDead'
  <2>1. ~Dead(lock.owner)
    BY <1>2, KnowledgeLockAssumption DEF Dead, Alive
  <2> QED
    BY <1>2, <1>8, <2>1 DEF CondemnedIsDead, ReclaimInv
<1>12. OneFile'
  BY <1>1, <1>2, <1>6, FilledShape DEF OneFile, ReclaimInv
<1> QED
  BY <1>1, <1>7, <1>10, <1>11, <1>12 DEF ReclaimInv

LEMMA LinkInv ==
    ASSUME ReclaimInv, NEW p \in Procs, Link(p)
    PROVE  ReclaimInv'
<1> USE DEF Held, Ended, OwningSteps, ClaimingSteps
<1>1. TypeOK /\ TypeOK' /\ pc \in [Procs -> Steps]
  BY ChangesTyped DEF ReclaimInv, TypeOK
<1>2. /\ pc[p] = "link" /\ pc'[p] = "verify" /\ claim = NoFile /\ lock # NoFile
      /\ claim' = lock /\ claimer' = p /\ claimOld' = FALSE /\ UNCHANGED <<lock, mine>>
  BY <1>1 DEF Link, Goes
<1>3. StepOf(p, "verify")
  BY <1>2 DEF Link, StepOf
<1>4. \A q \in Procs \ {p} : pc'[q] = pc[q] /\ ~Claiming(q)'
  <2>1. \A q \in Procs : ~Claiming(q)
    BY <1>2 DEF ReclaimInv, ClaimBelongs
  <2>2. \A q \in Procs \ {p} : pc'[q] = pc[q]
    BY <1>1, <1>3, OthersStay
  <2> QED
    BY <1>2, <2>1, <2>2 DEF Claiming
<1>5. ClaimBelongs' /\ DropperClaimsNothing'
  BY <1>2, <1>4 DEF ClaimBelongs, DropperClaimsNothing, ReclaimInv
<1>6. LockBelongs' /\ OldIsAbandoned' /\ CondemnedIsDead'
  BY <1>2, <1>3, LockPart
<1> QED
  BY <1>1, <1>2, <1>5, <1>6 DEF ReclaimInv, OneFile

(* Time passes for the lock of a process that died or wrote it. *)
LEMMA AgeInv ==
    ASSUME ReclaimInv, AgeLock \/ AgeClaim \/ UNCHANGED vars
    PROVE  ReclaimInv'
<1>1. TypeOK /\ TypeOK'
  <2>1. [Next]_vars
    BY DEF Next
  <2> QED
    BY <2>1, NextTyped DEF ReclaimInv
<1>2. CASE UNCHANGED vars
  BY <1>2 DEF vars, ReclaimInv, TypeOK, LockBelongs, OldIsAbandoned, CondemnedIsDead, ClaimBelongs,
              DropperClaimsNothing, OneFile, Claiming, Dead, Alive, Gone
<1>3. CASE AgeClaim
  <2>1. UNCHANGED <<pc, lock, claim, claimer, mine>> /\ claim # NoFile
    BY <1>3 DEF AgeClaim
  <2> QED
    BY <1>1, <1>3, <2>1 DEF AgeClaim, ReclaimInv, LockBelongs, OldIsAbandoned, CondemnedIsDead,
       ClaimBelongs, DropperClaimsNothing, OneFile, Claiming, Dead, Alive, Gone
<1>4. CASE AgeLock
  <2>1. lock' = [owner |-> lock.owner, ino |-> lock.ino, written |-> lock.written, old |-> TRUE]
    BY <1>1, <1>4, AgedShape DEF AgeLock, TypeOK
  <2>2. /\ UNCHANGED <<pc, claimer, claimOld, mine>>
        /\ claim' = IF claim.ino = lock.ino THEN lock' ELSE claim
        /\ lock # NoFile /\ (lock.written \/ Dead(lock.owner))
    BY <1>4 DEF AgeLock
  <2>3. lock'.owner = lock.owner /\ lock'.written = lock.written /\ lock'.ino = lock.ino
        /\ lock' # NoFile
    BY <1>1, <2>1, <2>2, PathShapes, NothingShape
  <2>4. claim' # NoFile <=> claim # NoFile
    BY <1>1, <2>2, <2>3, PathShapes
  <2>5. LockBelongs' /\ OldIsAbandoned' /\ CondemnedIsDead'
    BY <2>2, <2>3 DEF ReclaimInv, LockBelongs, OldIsAbandoned, CondemnedIsDead, Dead, Alive
  <2>6. ClaimBelongs' /\ DropperClaimsNothing'
    BY <2>2, <2>4 DEF ReclaimInv, ClaimBelongs, DropperClaimsNothing, Claiming, Gone
  <2>7. OneFile'
    BY <2>2, <2>3 DEF OneFile
  <2> QED
    BY <1>1, <2>5, <2>6, <2>7 DEF ReclaimInv
<1> QED
  BY <1>2, <1>3, <1>4

LEMMA InitInv == Init => ReclaimInv
<1> SUFFICES ASSUME Init
             PROVE  ReclaimInv
  OBVIOUS
<1>1. TypeOK
  <2>1. lock \in Files \union {NoFile} /\ claim \in Files \union {NoFile}
    BY LeftShape DEF Init
  <2>2. pc \in [Procs -> Steps] /\ attempt \in [Procs -> 0..2]
    BY DEF Init, Steps
  <2> QED
    BY <2>1, <2>2 DEF Init, TypeOK, Owners
<1>2. \A p \in Procs : pc[p] = "begin" /\ mine[p] = 0
  BY DEF Init
<1>3. lock.owner = Ghost /\ (lock.written \/ ~lock.old) /\ claimOld = FALSE
  BY LeftShape, NothingShape DEF Init
<1>4. LockBelongs /\ OldIsAbandoned /\ CondemnedIsDead
  BY <1>2, <1>3, NothingShape DEF LockBelongs, OldIsAbandoned, CondemnedIsDead, OwningSteps, Held
<1>5. ClaimBelongs /\ DropperClaimsNothing
  BY <1>2, <1>3 DEF ClaimBelongs, DropperClaimsNothing, Claiming, ClaimingSteps
<1>6. OneFile
  BY <1>1, PathShapes DEF Init, OneFile
<1> QED
  BY <1>1, <1>4, <1>5, <1>6 DEF ReclaimInv

LEMMA NextInv ==
    ASSUME ReclaimInv, ~overtaken', [Next]_vars
    PROVE  ReclaimInv'
<1>1. ASSUME NEW p \in Procs,
             Acquire(p) \/ Reclaim(p) \/ Finish(p) \/ Release(p) \/ Unlock(p) \/ Crash(p)
      PROVE  ReclaimInv'
  BY <1>1, AcquiringMoves, ReclaimingMoves, ClaimRemovals, LockRemovals, OpenInv, WriteInv, LinkInv
     DEF Acquire, Reclaim
<1> QED
  BY <1>1, AgeInv DEF Next

(* What was overtaken stays so. *)
LEMMA OvertakenStays == ASSUME [Next]_vars, overtaken PROVE overtaken'
BY DEF Next, vars, files, AgeLock, AgeClaim, Acquire, Reclaim, Begin, DropOld, Open, OpenExists, Write,
       WriteFails, Unwrite, Confirm, DropClaim, Withdraw, Release, ReadToken, YieldClaim, Unclaim,
       Judge, Link, LinkFails, Verify, DropLink, Recheck, UnlinkLock, Finish, Unlock, Crash

(* The variables have their types. *)
THEOREM KnowledgeLockTypeCorrect == Spec => []TypeOK
<1>1. Init => TypeOK
  BY InitInv DEF ReclaimInv
<1>2. TypeOK /\ [Next]_vars => TypeOK'
  BY NextTyped
<1> QED
  BY <1>1, <1>2, PTL DEF Spec

LEMMA LockInvariant == Spec => []LockInv
<1>1. Init => LockInv
  BY InitInv DEF LockInv, ReclaimInv
<1>2. LockInv /\ [Next]_vars => LockInv'
  BY NextInv, NextTyped, OvertakenStays DEF LockInv
<1> QED
  BY <1>1, <1>2, PTL DEF Spec

(* One process at a time holds the workspace, and one that ended without   *)
(* dying left no lock that names it, as long as nobody removed, as         *)
(* expired, the claim of a process that runs.                              *)
THEOREM WorkspaceLockIsSound == Spec => []LockSound
<1>1. LockInv => LockSound
  BY DEF LockInv, ReclaimInv, LockBelongs, OwningSteps, Held, LockSound, MutualExclusion,
         NoLockOutlivesItsUse
<1> QED
  BY <1>1, LockInvariant, PTL

(* No reclaim takes the lock of a process that holds it and runs, as long  *)
(* as nobody removed, as expired, the claim of a process that runs.        *)
THEOREM RunningOwnersKeepTheirLock == Spec => LiveLockKept
<1> DEFINE A == ~overtaken' => RemovesNoHeldLock
<1>1. LockInv' => A
  BY DEF LockInv, ReclaimInv, LockBelongs, OwningSteps, Held, RemovesNoHeldLock
<1>2. LockInv /\ LockInv' /\ [Next]_vars => [A]_vars
  BY <1>1
<1> QED
  BY <1>2, LockInvariant, PTL DEF Spec, LiveLockKept

-----------------------------------------------------------------------------
(* The workspace under the lock: transactions, their rollback and the         *)
(* maintenance run of KnowledgeUpdate.                                         *)

Versions == 0 .. MaxVersion
Logs == Seq({"create", "update", "archive", "restore"} \X Pages)
Phases == {"link", "unlink", "collect", "write", "verify", "undo", "relink", "redrop", "failed"}
Befores == [active : Versions, archived : Versions, index : Corpora, log : Logs]
Txs == [pc : Phases, by : {"user", "maintenance"}, op : {"create", "update", "archive", "restore"},
        page : Pages, version : Versions \ {None}, index : Corpora, written : 0 .. 3,
        before : Befores, clean : BOOLEAN]
Restings == [pc : {"idle"}, stop : {"none", "below-high", "low", "exhausted", "unsafe"},
             count : Nat, moved : Nat, harmed : BOOLEAN]
Snapshots == [index : Corpora, coherent : BOOLEAN, log : Logs,
              active : Versions, archived : Versions]
Entries == [page : Dated, version : Versions \ {None}]
Runs == [pc : {"next", "archive", "waiting", "verify"}, stop : {"none"}, count : Nat, moved : Nat,
         harmed : BOOLEAN, answer : {"none", "ok", "error", "low", "changed", "rejected", "locked"},
         before : {<<>>} \cup Snapshots, todo : Seq(Entries)]

Busy == tx.pc # "idle"

(* The parts of the type invariant. *)
PagesTyped == active \in Corpora /\ archived \in Corpora /\ index \in Corpora /\ log \in Logs
CountsTyped == bad \subseteq 1 .. MaxVersion /\ aged \in Versions /\ version \in Versions \ {None}
TxTyped == tx = Idle \/ tx \in Txs
MaintTyped == maint \in Restings \cup Runs

Wrote(file) == \E i \in 1 .. tx.written : Writing(tx.op)[i] = file

(* How far the files of a transaction are. *)
Progress ==
    Busy =>
      /\ tx.written <= Len(Writing(tx.op))
      /\ ~Moves => tx.pc \in {"write", "verify", "undo", "failed"}
      /\ tx.pc \in {"link", "unlink", "collect", "relink", "redrop", "failed"} => tx.written = 0
      /\ tx.pc \in {"link", "unlink", "collect", "write", "verify"} => tx.clean
      /\ tx.pc = "write" => tx.written < Len(Writing(tx.op))
      /\ tx.pc = "verify" => tx.written = Len(Writing(tx.op))

(* Where the page of a move is. *)
Lies(source, target) == Source(tx.op)[tx.page] = source /\ Target(tx.op)[tx.page] = target
Placed ==
    Busy /\ Moves =>
      /\ tx.before.active = (IF tx.op = "archive" THEN tx.version ELSE None)
      /\ tx.before.archived = (IF tx.op = "archive" THEN None ELSE tx.version)
      /\ tx.pc = "link" => Lies(tx.version, None)
      /\ tx.pc \in {"unlink", "redrop"} => Lies(tx.version, tx.version)
      /\ tx.pc \in {"collect", "write", "verify", "undo", "relink"} => Lies(None, tx.version)
      /\ tx.pc = "failed" /\ tx.clean => Lies(tx.version, None)

(* What a write has made of its page. *)
Overwritten ==
    Busy /\ ~Moves =>
      /\ archived[tx.page] = tx.before.archived
      /\ tx.clean => active[tx.page] = IF Wrote("page") THEN tx.version ELSE tx.before.active

(* What a transaction has made of the index and the log. *)
Traced ==
    Busy /\ tx.clean =>
      /\ index = IF Wrote("index") THEN tx.index ELSE tx.before.index
      /\ log = IF Wrote("log") THEN Append(tx.before.log, <<tx.op, tx.page>>) ELSE tx.before.log

(* Unless something came between, a transaction found the index of the pages. *)
Found == Busy /\ ~stale => tx.before.index = [active EXCEPT ![tx.page] = tx.before.active]

(* A transaction of the maintenance run is waited for. *)
Waited == Busy /\ tx.by = "maintenance" => maint.pc = "waiting"

(* What a run has in hand, and what it has counted. *)
RunSound ==
    ~InMaint("idle") =>
      /\ maint.pc \in {"archive", "waiting", "verify"} => maint.todo # <<>>
      /\ \A i \in DOMAIN maint.todo : maint.todo[i].version <= aged
      /\ maint.pc \in {"next", "archive", "waiting"} => maint.count = maint.moved /\ ~maint.harmed
      /\ InMaint("verify") /\ maint.answer = "ok" => maint.moved = maint.count + 1 /\ ~maint.harmed
      /\ InMaint("verify") /\ maint.answer \in {"low", "changed", "rejected", "locked"} =>
             maint.count = maint.moved /\ ~maint.harmed

UpdateInv ==
    /\ PagesTyped /\ CountsTyped /\ TxTyped /\ MaintTyped /\ Progress /\ Placed /\ Overwritten
    /\ Traced /\ Found /\ Waited /\ RunSound /\ IndexCurrent /\ ManifestHonest

(* The steps that the action properties speak of. *)
NothingHalf ==
    /\ tx.pc = "verify" /\ tx'.pc = "idle" /\ ~stale' => Done
    /\ tx.pc = "failed" /\ tx.clean => Untouched
CopiesKept ==
    \A p \in Pages : Copies(p) \subseteq Copies(p)' \/
        (tx.pc \in {"write", "undo"} /\ ~Moves /\ tx.page = p) \/ version' > version
Evaluated ==
    (tx'.pc = "link" /\ tx.pc = "idle" /\ tx'.by = "maintenance") =>
        /\ tx'.version = Candidate.version /\ tx'.version <= aged
        /\ tx'.page \in Dated /\ Size > Low
Kept == UpdateInv' /\ NothingHalf /\ CopiesKept /\ Evaluated

LEMMA WritingIs ==
  ASSUME NEW op
  PROVE  /\ op \in {"archive", "restore"} =>
              Len(Writing(op)) = 2 /\ Writing(op)[1] = "index" /\ Writing(op)[2] = "log"
         /\ op \notin {"archive", "restore"} =>
              /\ Len(Writing(op)) = 3 /\ Writing(op)[1] = "page"
              /\ Writing(op)[2] = "index" /\ Writing(op)[3] = "log"
BY DEF Writing

LEMMA IdleIs == Idle.pc = "idle" /\ Idle \notin Txs
<1>1. Idle.pc = "idle"
  BY DEF Idle
<1>2. \A t \in Txs : t.pc # "idle"
  BY DEF Txs, Phases
<1>. QED BY <1>1, <1>2

LEMMA BusyTx == UpdateInv /\ Busy => tx \in Txs
BY IdleIs DEF UpdateInv, TxTyped, Busy

(* A failed transaction that could be taken back has left no trace. *)
LEMMA FailedLeavesNoTrace == UpdateInv /\ tx.pc = "failed" /\ tx.clean => Untouched
<1> SUFFICES ASSUME UpdateInv, tx.pc = "failed", tx.clean
             PROVE  Untouched
  OBVIOUS
<1>1. Busy /\ tx \in Txs /\ tx.written = 0
  BY BusyTx DEF Busy, UpdateInv, Progress
<1>2. PICK b : b = tx.before
  OBVIOUS
<1>3. b \in Befores
  BY <1>1, <1>2 DEF Txs
<1>4. b = [active |-> b.active, archived |-> b.archived, index |-> b.index, log |-> b.log]
  BY <1>3 DEF Befores
<1>5. ~Wrote("page") /\ ~Wrote("index") /\ ~Wrote("log")
  BY <1>1 DEF Wrote
<1>6. index = b.index /\ log = b.log
  BY <1>1, <1>2, <1>5 DEF UpdateInv, Traced
<1>7. active[tx.page] = b.active /\ archived[tx.page] = b.archived
  <2>1. CASE Moves
    BY <1>1, <1>2, <2>1 DEF UpdateInv, Placed, Lies, Source, Target, Moves
  <2>2. CASE ~Moves
    BY <1>1, <1>2, <1>5, <2>2 DEF UpdateInv, Overwritten
  <2>. QED BY <2>1, <2>2
<1>. QED BY <1>2, <1>4, <1>6, <1>7 DEF Untouched, Before

(* A step that leaves the transaction alone. *)
LEMMA SameTx ==
  ASSUME UpdateInv, UNCHANGED tx
  PROVE  NothingHalf /\ Evaluated
BY FailedLeavesNoTrace DEF NothingHalf, Evaluated

(* A step of a transaction that is not its end. *)
Onward ==
    /\ UNCHANGED <<bad, aged, version, requests, maint, stale>>
    /\ tx'.by = tx.by /\ tx'.op = tx.op /\ tx'.page = tx.page /\ tx'.version = tx.version
    /\ tx'.before = tx.before /\ tx' \in Txs
    /\ \A p \in Pages \ {tx.page} : active'[p] = active[p] /\ archived'[p] = archived[p]

LEMMA OnwardKeeps ==
  ASSUME UpdateInv, Busy, Onward, PagesTyped', Progress', Placed', Overwritten', Traced',
         \/ Copies(tx.page) \subseteq Copies(tx.page)'
         \/ tx.pc \in {"write", "undo"} /\ ~Moves
  PROVE  Kept
<1>1. Busy' /\ tx \in Txs
  BY BusyTx DEF Onward, Busy, Txs, Phases
<1>2. CountsTyped' /\ MaintTyped' /\ TxTyped'
  BY DEF UpdateInv, CountsTyped, MaintTyped, TxTyped, Onward
<1>3. Found'
  <2> SUFFICES ASSUME ~stale'
               PROVE  tx'.before.index = [active' EXCEPT ![tx'.page] = tx'.before.active]
    BY DEF Found
  <2>1. PICK x, b, v : x = tx.page /\ b = tx.before.index /\ v = tx.before.active
    OBVIOUS
  <2>2. b = [active EXCEPT ![x] = v]
    BY <2>1 DEF UpdateInv, Found, Onward
  <2>3. active \in [Pages -> Versions] /\ active' \in [Pages -> Versions]
    BY DEF UpdateInv, PagesTyped, Corpora, Versions
  <2>4. b = [active' EXCEPT ![x] = v]
    BY <2>1, <2>2, <2>3 DEF Onward
  <2>. QED BY <2>1, <2>4 DEF Onward
<1>4. Waited'
  BY DEF UpdateInv, Waited, Onward
<1>5. RunSound'
  BY DEF UpdateInv, RunSound, InMaint, Onward
<1>6. IndexCurrent' /\ ManifestHonest'
  BY <1>1 DEF UpdateInv, IndexCurrent, ManifestHonest, InMaint, Onward, Busy
<1>7. NothingHalf /\ Evaluated
  BY <1>1, FailedLeavesNoTrace DEF NothingHalf, Evaluated, Busy
<1>8. CopiesKept
  BY DEF CopiesKept, Copies, Onward
<1>. QED BY <1>2, <1>3, <1>4, <1>5, <1>6, <1>7, <1>8 DEF Kept, UpdateInv

LEMMA GoesTo ==
  ASSUME tx \in Txs, NEW phase \in Phases, tx' = [tx EXCEPT !.pc = phase]
  PROVE  /\ tx' \in Txs /\ tx'.pc = phase /\ tx'.by = tx.by /\ tx'.op = tx.op
         /\ tx'.page = tx.page /\ tx'.version = tx.version /\ tx'.before = tx.before
         /\ tx'.index = tx.index /\ tx'.written = tx.written /\ tx'.clean = tx.clean
BY DEF Txs

LEMMA GoesUncleanTo ==
  ASSUME tx \in Txs, NEW phase \in Phases, tx' = [tx EXCEPT !.pc = phase, !.clean = FALSE]
  PROVE  /\ tx' \in Txs /\ tx'.pc = phase /\ tx'.by = tx.by /\ tx'.op = tx.op
         /\ tx'.page = tx.page /\ tx'.version = tx.version /\ tx'.before = tx.before
         /\ tx'.index = tx.index /\ tx'.written = tx.written /\ ~tx'.clean
BY DEF Txs

(* A step that renames nothing into place. *)
LEMMA TracedStays ==
  ASSUME UpdateInv, Busy, tx'.written = tx.written, tx'.op = tx.op, tx'.page = tx.page,
         tx'.before = tx.before, UNCHANGED <<index, log>>, tx'.clean => tx.clean,
         tx'.index = tx.index \/ tx.written = 0
  PROVE  Traced'
<1> SUFFICES ASSUME tx'.clean
             PROVE  /\ index' = IF Wrote("index")' THEN tx'.index ELSE tx'.before.index
                    /\ log' = IF Wrote("log")' THEN Append(tx'.before.log, <<tx'.op, tx'.page>>)
                              ELSE tx'.before.log
  BY DEF Traced
<1>1. Wrote("index")' <=> Wrote("index")
  BY DEF Wrote
<1>2. Wrote("log")' <=> Wrote("log")
  BY DEF Wrote
<1>3. tx.written = 0 => ~Wrote("index")
  BY DEF Wrote
<1>. QED BY <1>1, <1>2, <1>3 DEF UpdateInv, Traced

LEMMA PutsTarget ==
  ASSUME UpdateInv, Busy, NEW v \in Versions, PutTarget(v), UNCHANGED <<index, log>>
  PROVE  /\ PagesTyped'
         /\ \A p \in Pages \ {tx.page} : active'[p] = active[p] /\ archived'[p] = archived[p]
         /\ tx.op = "archive" => archived'[tx.page] = v /\ active' = active
         /\ tx.op # "archive" => active'[tx.page] = v /\ archived' = archived
<1>1. tx.page \in Pages /\ active \in [Pages -> Versions] /\ archived \in [Pages -> Versions]
  BY BusyTx DEF Txs, UpdateInv, PagesTyped, Corpora, Versions
<1>. QED BY <1>1 DEF UpdateInv, PagesTyped, Corpora, Versions, PutTarget, PutActive, PutArchived

LEMMA PutsSource ==
  ASSUME UpdateInv, Busy, NEW v \in Versions, PutSource(v), UNCHANGED <<index, log>>
  PROVE  /\ PagesTyped'
         /\ \A p \in Pages \ {tx.page} : active'[p] = active[p] /\ archived'[p] = archived[p]
         /\ tx.op = "archive" => active'[tx.page] = v /\ archived' = archived
         /\ tx.op # "archive" => archived'[tx.page] = v /\ active' = active
<1>1. tx.page \in Pages /\ active \in [Pages -> Versions] /\ archived \in [Pages -> Versions]
  BY BusyTx DEF Txs, UpdateInv, PagesTyped, Corpora, Versions
<1>. QED BY <1>1 DEF UpdateInv, PagesTyped, Corpora, Versions, PutSource, PutActive, PutArchived

(* A step of a move that keeps one of the copies, and puts the page where the
   next step expects it. *)
LEMMA MoveStep ==
  ASSUME UpdateInv, Busy, Moves, Onward, PagesTyped', UNCHANGED <<index, log>>,
         tx'.written = tx.written, tx'.clean => tx.clean, tx'.index = tx.index \/ tx.written = 0,
         Progress', Copies(tx.page) \subseteq Copies(tx.page)',
         tx'.pc = "link" => Lies(tx.version, None)',
         tx'.pc \in {"unlink", "redrop"} => Lies(tx.version, tx.version)',
         tx'.pc \in {"collect", "write", "verify", "undo", "relink"} => Lies(None, tx.version)',
         tx'.pc = "failed" /\ tx'.clean => Lies(tx.version, None)'
  PROVE  Kept
<1>1. Traced'
  BY TracedStays DEF Onward
<1>2. Moves' /\ Overwritten'
  BY DEF Moves, Overwritten, Onward
<1>3. Placed'
  BY DEF UpdateInv, Placed, Onward, Lies
<1>. QED BY <1>1, <1>2, <1>3, OnwardKeeps

(* A step that changes no file. *)
LEMMA QuietStep ==
  ASSUME UpdateInv, Busy, Onward, UNCHANGED <<active, archived, index, log>>,
         tx'.written = tx.written, tx'.clean => tx.clean, tx'.index = tx.index \/ tx.written = 0,
         Progress', Placed'
  PROVE  Kept
<1>1. Traced'
  BY TracedStays DEF Onward
<1>2. Overwritten'
  <2>1. Wrote("page")' <=> Wrote("page")
    BY DEF Wrote, Onward
  <2>2. Moves' <=> Moves
    BY DEF Moves, Onward
  <2>. QED BY <2>1, <2>2 DEF UpdateInv, Overwritten, Onward
<1>3. PagesTyped'
  BY DEF UpdateInv, PagesTyped
<1>4. Copies(tx.page) \subseteq Copies(tx.page)'
  BY DEF Copies, Onward
<1>. QED BY <1>1, <1>2, <1>3, <1>4, OnwardKeeps

LEMMA LinkPageKeeps ==
  ASSUME UpdateInv, LinkPage
  PROVE  Kept
<1>1. Busy /\ tx \in Txs /\ tx.pc = "link" /\ tx' = [tx EXCEPT !.pc = "unlink"]
  BY BusyTx DEF LinkPage, At, Goto, Busy
<1>2. /\ tx' \in Txs /\ tx'.pc = "unlink" /\ tx'.by = tx.by /\ tx'.op = tx.op
      /\ tx'.page = tx.page /\ tx'.version = tx.version /\ tx'.before = tx.before
      /\ tx'.index = tx.index /\ tx'.written = tx.written /\ tx'.clean = tx.clean
  BY <1>1, GoesTo DEF Phases
<1>3. Moves /\ Lies(tx.version, None) /\ tx.version \in Versions
  BY <1>1 DEF UpdateInv, Progress, Placed, Txs
<1>4. PutTarget(tx.version) /\ UNCHANGED <<index, log, bad, aged, version, requests, maint, stale>>
  BY DEF LinkPage, Outside, Calm
<1>5. /\ PagesTyped'
      /\ \A p \in Pages \ {tx.page} : active'[p] = active[p] /\ archived'[p] = archived[p]
      /\ tx.op = "archive" => archived'[tx.page] = tx.version /\ active' = active
      /\ tx.op # "archive" => active'[tx.page] = tx.version /\ archived' = archived
  BY <1>1, <1>3, <1>4, PutsTarget
<1>6. Onward
  BY <1>2, <1>4, <1>5 DEF Onward
<1>7. Lies(tx.version, tx.version)' /\ Copies(tx.page) \subseteq Copies(tx.page)'
  BY <1>2, <1>3, <1>5 DEF Lies, Source, Target, Copies
<1>8. Progress'
  BY <1>1, <1>2, <1>3 DEF UpdateInv, Progress, Moves
<1>. QED BY <1>1, <1>2, <1>3, <1>4, <1>5, <1>6, <1>7, <1>8, MoveStep

LEMMA LinkPageFailsKeeps ==
  ASSUME UpdateInv, LinkPageFails
  PROVE  Kept
<1>1. Busy /\ tx \in Txs /\ tx.pc = "link" /\ tx' = [tx EXCEPT !.pc = "failed"]
  BY BusyTx DEF LinkPageFails, At, Goto, Busy
<1>2. /\ tx' \in Txs /\ tx'.pc = "failed" /\ tx'.by = tx.by /\ tx'.op = tx.op
      /\ tx'.page = tx.page /\ tx'.version = tx.version /\ tx'.before = tx.before
      /\ tx'.index = tx.index /\ tx'.written = tx.written /\ tx'.clean = tx.clean
  BY <1>1, GoesTo DEF Phases
<1>3. UNCHANGED <<active, archived, index, log, bad, aged, version, requests, maint, stale>>
  BY DEF LinkPageFails, Outside, Calm
<1>4. Onward
  BY <1>2, <1>3 DEF Onward
<1>5. Progress'
  BY <1>1, <1>2 DEF UpdateInv, Progress
<1>6. Placed'
  BY <1>1, <1>2, <1>3 DEF UpdateInv, Placed, Lies, Moves, Source, Target, Busy
<1>. QED BY <1>1, <1>2, <1>3, <1>4, <1>5, <1>6, QuietStep

LEMMA UnlinkKeepsPages ==
  ASSUME UpdateInv, Unlink
  PROVE  Kept
<1>1. Busy /\ tx \in Txs /\ tx.pc = "unlink" /\ tx' = [tx EXCEPT !.pc = "collect"]
  BY BusyTx DEF Unlink, At, Goto, Busy
<1>2. /\ tx' \in Txs /\ tx'.pc = "collect" /\ tx'.by = tx.by /\ tx'.op = tx.op
      /\ tx'.page = tx.page /\ tx'.version = tx.version /\ tx'.before = tx.before
      /\ tx'.index = tx.index /\ tx'.written = tx.written /\ tx'.clean = tx.clean
  BY <1>1, GoesTo DEF Phases
<1>3. Moves /\ Lies(tx.version, tx.version) /\ None \in Versions
  BY <1>1, KnowledgeUpdateAssumption
     DEF UpdateInv, Progress, Placed, None, Versions, KnowledgeUpdateAssumption
<1>4. PutSource(None) /\ UNCHANGED <<index, log, bad, aged, version, requests, maint, stale>>
  BY DEF Unlink, Outside, Calm
<1>5. /\ PagesTyped'
      /\ \A p \in Pages \ {tx.page} : active'[p] = active[p] /\ archived'[p] = archived[p]
      /\ tx.op = "archive" => active'[tx.page] = None /\ archived' = archived
      /\ tx.op # "archive" => archived'[tx.page] = None /\ active' = active
  BY <1>1, <1>3, <1>4, PutsSource
<1>6. Onward
  BY <1>2, <1>4, <1>5 DEF Onward
<1>7. Lies(None, tx.version)' /\ Copies(tx.page) \subseteq Copies(tx.page)'
  BY <1>2, <1>3, <1>5 DEF Lies, Source, Target, Copies
<1>8. Progress'
  BY <1>1, <1>2, <1>3 DEF UpdateInv, Progress, Moves
<1>. QED BY <1>1, <1>2, <1>3, <1>4, <1>5, <1>6, <1>7, <1>8, MoveStep

LEMMA UnlinkFailsKeeps ==
  ASSUME UpdateInv, UnlinkFails
  PROVE  Kept
<1>1. Busy /\ tx \in Txs /\ tx.pc = "unlink"
  BY BusyTx DEF UnlinkFails, At, Busy
<1>2. Moves /\ Lies(tx.version, tx.version) /\ None \in Versions /\ tx.written = 0
  BY <1>1, KnowledgeUpdateAssumption
     DEF UpdateInv, Progress, Placed, None, Versions, KnowledgeUpdateAssumption
<1>3. UNCHANGED <<index, log, bad, aged, version, requests, maint, stale>>
  BY DEF UnlinkFails, Outside, Calm
<1>4. CASE tx' = [tx EXCEPT !.pc = "failed"] /\ PutTarget(None)
  <2>1. /\ tx' \in Txs /\ tx'.pc = "failed" /\ tx'.by = tx.by /\ tx'.op = tx.op
        /\ tx'.page = tx.page /\ tx'.version = tx.version /\ tx'.before = tx.before
        /\ tx'.index = tx.index /\ tx'.written = tx.written /\ tx'.clean = tx.clean
    BY <1>1, <1>4, GoesTo DEF Phases
  <2>2. /\ PagesTyped'
        /\ \A p \in Pages \ {tx.page} : active'[p] = active[p] /\ archived'[p] = archived[p]
        /\ tx.op = "archive" => archived'[tx.page] = None /\ active' = active
        /\ tx.op # "archive" => active'[tx.page] = None /\ archived' = archived
    BY <1>1, <1>2, <1>3, <1>4, PutsTarget
  <2>3. Onward
    BY <2>1, <1>3, <2>2 DEF Onward
  <2>4. Lies(tx.version, None)' /\ Copies(tx.page) \subseteq Copies(tx.page)'
    BY <1>2, <2>1, <2>2 DEF Lies, Source, Target, Copies
  <2>5. Progress'
    BY <1>1, <1>2, <2>1 DEF UpdateInv, Progress, Moves
  <2>. QED BY <1>1, <1>2, <1>3, <2>1, <2>2, <2>3, <2>4, <2>5, MoveStep
<1>5. CASE tx' = [tx EXCEPT !.pc = "failed", !.clean = FALSE] /\ UNCHANGED <<active, archived>>
  <2>1. /\ tx' \in Txs /\ tx'.pc = "failed" /\ tx'.by = tx.by /\ tx'.op = tx.op
        /\ tx'.page = tx.page /\ tx'.version = tx.version /\ tx'.before = tx.before
        /\ tx'.index = tx.index /\ tx'.written = tx.written /\ ~tx'.clean
    BY <1>1, <1>5, GoesUncleanTo DEF Phases
  <2>2. Onward
    BY <1>3, <1>5, <2>1 DEF Onward
  <2>3. Progress'
    BY <1>1, <1>2, <2>1 DEF UpdateInv, Progress, Moves
  <2>4. Placed'
    BY <1>1, <2>1 DEF UpdateInv, Placed, Moves
  <2>. QED BY <1>1, <1>3, <1>5, <2>1, <2>2, <2>3, <2>4, QuietStep
<1>. QED BY <1>4, <1>5 DEF UnlinkFails, Goto

LEMMA CollectKeeps ==
  ASSUME UpdateInv, Collect
  PROVE  Kept
<1>1. Busy /\ tx \in Txs /\ tx.pc = "collect"
  BY BusyTx DEF Collect, At, Busy
<1>2. Moves /\ Lies(None, tx.version) /\ tx.written = 0
  BY <1>1 DEF UpdateInv, Progress, Placed
<1>3. UNCHANGED <<active, archived, index, log, bad, aged, version, requests, maint, stale>>
  BY DEF Collect, Outside, Calm
<1>4. PICK phase \in {"write", "relink"}, corpus \in Corpora :
        tx' = [tx EXCEPT !.pc = phase, !.index = corpus]
  <2>1. CASE Readable(active)
    BY <2>1 DEF Collect, UpdateInv, PagesTyped
  <2>2. CASE ~Readable(active)
    <3>1. /\ tx.index \in Corpora
          /\ [tx EXCEPT !.pc = "relink"] = [tx EXCEPT !.pc = "relink", !.index = tx.index]
      BY <1>1 DEF Txs
    <3>. QED BY <2>2, <3>1 DEF Collect
  <2>. QED BY <2>1, <2>2
<1>5. /\ tx' \in Txs /\ tx'.pc = phase /\ tx'.by = tx.by /\ tx'.op = tx.op
      /\ tx'.page = tx.page /\ tx'.version = tx.version /\ tx'.before = tx.before
      /\ tx'.written = tx.written /\ tx'.clean = tx.clean
  BY <1>1, <1>4 DEF Txs, Phases
<1>6. Onward
  BY <1>3, <1>5 DEF Onward
<1>7. 0 < Len(Writing(tx.op))
  BY WritingIs DEF Moves
<1>8. Progress'
  BY <1>1, <1>2, <1>5, <1>7 DEF UpdateInv, Progress, Moves
<1>9. Placed'
  BY <1>1, <1>2, <1>3, <1>5 DEF UpdateInv, Placed, Lies, Moves, Source, Target, Busy
<1>. QED BY <1>1, <1>2, <1>3, <1>5, <1>6, <1>8, <1>9, QuietStep

(* Which files are in place once one more, or one fewer, is. *)
LEMMA OneMore ==
  ASSUME tx \in Txs, tx'.op = tx.op, tx'.written = tx.written + 1,
         tx.written < Len(Writing(tx.op)), NEW file
  PROVE  Wrote(file)' <=> Wrote(file) \/ Writing(tx.op)[tx.written + 1] = file
<1>1. tx.written \in Nat
  BY DEF Txs
<1>2. 1 .. tx'.written = (1 .. tx.written) \cup {tx.written + 1}
  BY <1>1
<1>. QED BY <1>2 DEF Wrote

(* The files of a transaction are distinct. *)
LEMMA FilesDiffer ==
  ASSUME NEW op, NEW i \in 1 .. Len(Writing(op)), NEW j \in 1 .. Len(Writing(op)), i # j
  PROVE  Writing(op)[i] # Writing(op)[j] /\ Writing(op)[i] \in {"page", "index", "log"}
BY WritingIs

LEMMA OneFewer ==
  ASSUME tx \in Txs, tx'.op = tx.op, tx'.written = tx.written - 1,
         tx.written > 0, tx.written <= Len(Writing(tx.op)), NEW file
  PROVE  Wrote(file)' <=> Wrote(file) /\ Writing(tx.op)[tx.written] # file
<1>1. tx.written \in Nat
  BY DEF Txs
<1>2. 1 .. tx.written = (1 .. tx'.written) \cup {tx.written}
  BY <1>1
<1>3. tx.written \notin 1 .. tx'.written
  BY <1>1
<1>4. Len(Writing(tx.op)) \in Nat
  BY WritingIs
<1>5. 1 .. tx.written \subseteq 1 .. Len(Writing(tx.op))
  BY <1>1, <1>4
<1>6. \A i \in 1 .. tx'.written : Writing(tx.op)[i] # Writing(tx.op)[tx.written]
  BY <1>1, <1>2, <1>3, <1>5, FilesDiffer
<1>. QED BY <1>1, <1>2, <1>6 DEF Wrote

(* Putting a file into place. *)
LEMMA PutsFile ==
  ASSUME UpdateInv, Busy, NEW file, NEW page \in Versions, NEW corpus \in Corpora, NEW entries \in Logs,
         Put(file, page, corpus, entries), file = "page" => ~Moves
  PROVE  /\ PagesTyped' /\ archived' = archived
         /\ \A p \in Pages \ {tx.page} : active'[p] = active[p]
         /\ active'[tx.page] = (IF file = "page" THEN page ELSE active[tx.page])
         /\ index' = (IF file = "index" THEN corpus ELSE index)
         /\ log' = (IF file = "log" THEN entries ELSE log)
<1>1. tx.page \in Pages /\ active \in [Pages -> Versions]
  BY BusyTx DEF Txs, UpdateInv, PagesTyped, Corpora, Versions
<1>2. active' \in [Pages -> Versions]
  BY <1>1 DEF Put
<1>3. index' \in Corpora /\ log' \in Logs
  BY DEF Put, UpdateInv, PagesTyped
<1>. QED BY <1>1, <1>2, <1>3 DEF UpdateInv, PagesTyped, Corpora, Versions, Put

LEMMA SomeFiles ==
  ASSUME NEW op
  PROVE  /\ Len(Writing(op)) \in Nat /\ 0 < Len(Writing(op)) /\ Len(Writing(op)) <= 3
         /\ op \in {"archive", "restore"} => \A i \in 1 .. Len(Writing(op)) : Writing(op)[i] # "page"
<1>1. CASE op \in {"archive", "restore"}
  <2>1. Len(Writing(op)) = 2 /\ Writing(op)[1] = "index" /\ Writing(op)[2] = "log"
    BY <1>1, WritingIs
  <2>2. \A i \in 1 .. 2 : Writing(op)[i] # "page"
    BY <2>1
  <2>. QED BY <2>1, <2>2
<1>2. CASE op \notin {"archive", "restore"}
  <2>1. Len(Writing(op)) = 3
    BY <1>2, WritingIs
  <2>. QED BY <1>2, <2>1
<1>. QED BY <1>1, <1>2

LEMMA CommitKeeps ==
  ASSUME UpdateInv, Commit
  PROVE  Kept
<1>1. Busy /\ tx \in Txs /\ tx.pc = "write" /\ tx.clean /\ tx.written < Len(Writing(tx.op))
  BY BusyTx DEF Commit, At, Busy, UpdateInv, Progress
<1>2. PICK file, corpus, entries : /\ file = Writing(tx.op)[tx.written + 1] /\ corpus = tx.index
                                   /\ entries = Append(tx.before.log, <<tx.op, tx.page>>)
  OBVIOUS
<1>3. /\ Put(file, tx.version, corpus, entries)
      /\ UNCHANGED <<bad, aged, version, requests, maint, stale>>
  BY <1>2 DEF Commit, Outside, Calm
<1>4. corpus \in Corpora /\ entries \in Logs /\ tx.version \in Versions
  BY <1>1, <1>2 DEF Txs, Befores, Logs
<1>5. Len(Writing(tx.op)) \in Nat /\ tx.written \in Nat /\ Len(Writing(tx.op)) <= 3
  BY <1>1, SomeFiles DEF Txs
<1>6. PICK phase \in {"verify", "write"}, n \in 0 .. 3 :
        /\ n = tx.written + 1 /\ tx' = [tx EXCEPT !.written = n, !.pc = phase]
        /\ phase = "verify" <=> n = Len(Writing(tx.op))
  <2>1. PICK phase : phase = (IF tx.written + 1 = Len(Writing(tx.op)) THEN "verify" ELSE "write")
    OBVIOUS
  <2>2. tx.written + 1 \in 0 .. 3
    BY <1>1, <1>5
  <2>3. tx' = [tx EXCEPT !.written = tx.written + 1, !.pc = phase]
    BY <2>1 DEF Commit
  <2>4. phase \in {"verify", "write"} /\ (phase = "verify" <=> tx.written + 1 = Len(Writing(tx.op)))
    BY <2>1
  <2>. QED BY <2>2, <2>3, <2>4
<1>7. /\ tx' \in Txs /\ tx'.pc = phase /\ tx'.by = tx.by /\ tx'.op = tx.op
      /\ tx'.page = tx.page /\ tx'.version = tx.version /\ tx'.before = tx.before
      /\ tx'.index = tx.index /\ tx'.clean = tx.clean /\ tx'.written = tx.written + 1
  BY <1>1, <1>5, <1>6 DEF Txs, Phases
<1>8. file = "page" => ~Moves
  <2>1. tx.written \in Nat
    BY <1>5
  <2>2. tx.written + 1 \in 1 .. Len(Writing(tx.op))
    BY <1>1, <1>5, <2>1
  <2>. QED BY <1>2, <2>2, SomeFiles DEF Moves
<1>9. /\ PagesTyped' /\ archived' = archived
      /\ \A p \in Pages \ {tx.page} : active'[p] = active[p]
      /\ active'[tx.page] = (IF file = "page" THEN tx.version ELSE active[tx.page])
      /\ index' = (IF file = "index" THEN corpus ELSE index)
      /\ log' = (IF file = "log" THEN entries ELSE log)
  BY <1>1, <1>3, <1>4, <1>8, PutsFile
<1>10. Onward
  BY <1>3, <1>7, <1>9 DEF Onward
<1>11. \A f : Wrote(f)' <=> Wrote(f) \/ file = f
  BY <1>1, <1>2, <1>7, OneMore
<1>12. Traced'
  <2>1. /\ index = IF Wrote("index") THEN tx.index ELSE tx.before.index
        /\ log = IF Wrote("log") THEN entries ELSE tx.before.log
    BY <1>1, <1>2 DEF UpdateInv, Traced
  <2>2. index' = IF Wrote("index")' THEN tx.index ELSE tx.before.index
    BY <1>2, <1>9, <1>11, <2>1
  <2>3. log' = IF Wrote("log")' THEN entries ELSE tx.before.log
    BY <1>2, <1>9, <1>11, <2>1
  <2>4. entries = Append(tx'.before.log, <<tx'.op, tx'.page>>)
    BY <1>2, <1>7
  <2>. QED BY <1>7, <2>2, <2>3, <2>4 DEF Traced
<1>13. Overwritten'
  BY <1>1, <1>7, <1>9, <1>11 DEF UpdateInv, Overwritten, Moves
<1>14. Progress'
  BY <1>1, <1>5, <1>6, <1>7 DEF UpdateInv, Progress, Moves
<1>15. Placed'
  <2>1. CASE Moves
    BY <1>1, <1>6, <1>7, <1>8, <1>9, <2>1 DEF UpdateInv, Placed, Lies, Moves, Source, Target
  <2>2. CASE ~Moves
    BY <1>7, <2>2 DEF Placed, Moves
  <2>. QED BY <2>1, <2>2
<1>16. Copies(tx.page) \subseteq Copies(tx.page)' \/ ~Moves
  BY <1>8, <1>9, <1>7 DEF Copies
<1>. QED BY <1>1, <1>9, <1>10, <1>12, <1>13, <1>14, <1>15, <1>16, OnwardKeeps

(* A transaction that turns back without a further change. *)
LEMMA TurnsBack ==
  ASSUME UpdateInv, tx.pc \in {"write", "verify"}, Goto("undo"),
         UNCHANGED <<active, archived, index, log>>, Outside
  PROVE  Kept
<1>1. Busy /\ tx \in Txs
  BY BusyTx DEF Busy
<1>2. /\ tx' \in Txs /\ tx'.pc = "undo" /\ tx'.by = tx.by /\ tx'.op = tx.op
      /\ tx'.page = tx.page /\ tx'.version = tx.version /\ tx'.before = tx.before
      /\ tx'.index = tx.index /\ tx'.written = tx.written /\ tx'.clean = tx.clean
  BY <1>1, GoesTo DEF Phases, Goto
<1>3. Onward
  BY <1>2 DEF Onward, Outside, Calm
<1>4. Progress'
  BY <1>1, <1>2 DEF UpdateInv, Progress, Moves
<1>5. Placed'
  BY <1>1, <1>2 DEF UpdateInv, Placed, Lies, Moves, Source, Target, Busy
<1>. QED BY <1>1, <1>2, <1>3, <1>4, <1>5, QuietStep

LEMMA CommitFailsKeeps == UpdateInv /\ CommitFails => Kept
BY TurnsBack DEF CommitFails, At

LEMMA VerifyFailsKeeps == UpdateInv /\ VerifyFails => Kept
BY TurnsBack DEF VerifyFails, At

LEMMA UndoKeeps ==
  ASSUME UpdateInv, Undo
  PROVE  Kept
<1>1. Busy /\ tx \in Txs /\ tx.pc = "undo" /\ tx.written > 0 /\ tx.written <= Len(Writing(tx.op))
  BY BusyTx DEF Undo, At, Busy, UpdateInv, Progress
<1>2. PICK file, page, corpus, entries :
        /\ file = Writing(tx.op)[tx.written] /\ corpus = tx.before.index
        /\ entries = tx.before.log /\ page = tx.before.active
  OBVIOUS
<1>3. /\ Put(file, page, corpus, entries)
      /\ UNCHANGED <<bad, aged, version, requests, maint, stale>>
  BY <1>2 DEF Undo, Outside, Calm
<1>4. corpus \in Corpora /\ entries \in Logs /\ page \in Versions
  BY <1>1, <1>2 DEF Txs, Befores
<1>5. Len(Writing(tx.op)) \in Nat /\ tx.written \in 1 .. 3
  BY <1>1, SomeFiles DEF Txs
<1>6. PICK n \in 0 .. 3 : n = tx.written - 1 /\ tx' = [tx EXCEPT !.written = n]
  <2>1. tx.written - 1 \in 0 .. 3
    BY <1>5
  <2>2. tx' = [tx EXCEPT !.written = tx.written - 1]
    BY DEF Undo
  <2>. QED BY <2>1, <2>2
<1>7. /\ tx' \in Txs /\ tx'.pc = "undo" /\ tx'.by = tx.by /\ tx'.op = tx.op
      /\ tx'.page = tx.page /\ tx'.version = tx.version /\ tx'.before = tx.before
      /\ tx'.index = tx.index /\ tx'.clean = tx.clean /\ tx'.written = tx.written - 1
  BY <1>1, <1>6 DEF Txs, Phases
<1>8. file = "page" => ~Moves
  <2>1. tx.written \in Nat
    BY <1>5
  <2>2. tx.written \in 1 .. Len(Writing(tx.op))
    BY <1>1, <1>5, <2>1
  <2>. QED BY <1>2, <2>2, SomeFiles DEF Moves
<1>9. /\ PagesTyped' /\ archived' = archived
      /\ \A p \in Pages \ {tx.page} : active'[p] = active[p]
      /\ active'[tx.page] = (IF file = "page" THEN page ELSE active[tx.page])
      /\ index' = (IF file = "index" THEN corpus ELSE index)
      /\ log' = (IF file = "log" THEN entries ELSE log)
  BY <1>1, <1>3, <1>4, <1>8, PutsFile
<1>10. Onward
  BY <1>3, <1>7, <1>9 DEF Onward
<1>11. \A f : Wrote(f)' <=> Wrote(f) /\ file # f
  BY <1>1, <1>2, <1>7, OneFewer
<1>12. Traced'
  <2> SUFFICES ASSUME tx.clean
               PROVE  /\ index' = IF Wrote("index")' THEN tx.index ELSE tx.before.index
                      /\ log' = IF Wrote("log")' THEN Append(tx.before.log, <<tx.op, tx.page>>)
                                ELSE tx.before.log
    BY <1>7 DEF Traced
  <2>1. /\ index = IF Wrote("index") THEN tx.index ELSE tx.before.index
        /\ log = IF Wrote("log") THEN Append(tx.before.log, <<tx.op, tx.page>>) ELSE tx.before.log
    BY <1>1 DEF UpdateInv, Traced
  <2>2. index' = IF Wrote("index")' THEN tx.index ELSE tx.before.index
    BY <1>2, <1>9, <1>11, <2>1
  <2>3. log' = IF Wrote("log")' THEN Append(tx.before.log, <<tx.op, tx.page>>) ELSE tx.before.log
    BY <1>2, <1>9, <1>11, <2>1
  <2>. QED BY <2>2, <2>3
<1>13. Overwritten'
  BY <1>1, <1>2, <1>7, <1>9, <1>11 DEF UpdateInv, Overwritten, Moves
<1>14. Progress'
  BY <1>1, <1>5, <1>7 DEF UpdateInv, Progress, Moves
<1>15. Placed'
  <2>1. CASE Moves
    BY <1>1, <1>7, <1>8, <1>9, <2>1 DEF UpdateInv, Placed, Lies, Moves, Source, Target
  <2>2. CASE ~Moves
    BY <1>7, <2>2 DEF Placed, Moves
  <2>. QED BY <2>1, <2>2
<1>16. Copies(tx.page) \subseteq Copies(tx.page)' \/ ~Moves
  BY <1>8, <1>9, <1>7 DEF Copies
<1>. QED BY <1>1, <1>9, <1>10, <1>12, <1>13, <1>14, <1>15, <1>16, OnwardKeeps

LEMMA UndoFailsKeeps ==
  ASSUME UpdateInv, UndoFails
  PROVE  Kept
<1>1. Busy /\ tx \in Txs /\ tx.pc = "undo" /\ tx.written \in 1 .. 3 /\ tx.written <= Len(Writing(tx.op))
  BY BusyTx DEF UndoFails, At, Busy, UpdateInv, Progress, Txs
<1>2. UNCHANGED <<active, archived, index, log, bad, aged, version, requests, maint, stale>>
  BY DEF UndoFails, Outside, Calm
<1>3. PICK n \in 0 .. 3 : n = tx.written - 1 /\ tx' = [tx EXCEPT !.written = n, !.clean = FALSE]
  <2>1. tx.written - 1 \in 0 .. 3
    BY <1>1
  <2>2. tx' = [tx EXCEPT !.written = tx.written - 1, !.clean = FALSE]
    BY DEF UndoFails
  <2>. QED BY <2>1, <2>2
<1>4. /\ tx' \in Txs /\ tx'.pc = "undo" /\ tx'.by = tx.by /\ tx'.op = tx.op
      /\ tx'.page = tx.page /\ tx'.version = tx.version /\ tx'.before = tx.before
      /\ ~tx'.clean /\ tx'.written = tx.written - 1
  BY <1>1, <1>3 DEF Txs, Phases
<1>5. Onward
  BY <1>2, <1>4 DEF Onward
<1>6. Len(Writing(tx.op)) \in Nat
  BY SomeFiles
<1>7. Progress'
  BY <1>1, <1>4, <1>6 DEF UpdateInv, Progress, Moves
<1>8. Traced' /\ PagesTyped'
  BY <1>2, <1>4 DEF Traced, UpdateInv, PagesTyped
<1>9. Placed' /\ Overwritten'
  BY <1>1, <1>2, <1>4 DEF UpdateInv, Placed, Overwritten, Lies, Moves, Source, Target, Busy
<1>10. Copies(tx.page) \subseteq Copies(tx.page)'
  BY <1>2, <1>4 DEF Copies
<1>. QED BY <1>1, <1>5, <1>7, <1>8, <1>9, <1>10, OnwardKeeps

LEMMA UndoEndsKeeps ==
  ASSUME UpdateInv, UndoEnds
  PROVE  Kept
<1>1. Busy /\ tx \in Txs /\ tx.pc = "undo" /\ tx.written = 0
  BY BusyTx DEF UndoEnds, At, Busy
<1>2. PICK phase \in {"relink", "failed"} :
        tx' = [tx EXCEPT !.pc = phase] /\ phase = (IF Moves THEN "relink" ELSE "failed")
  BY DEF UndoEnds, Goto, Undone
<1>3. /\ tx' \in Txs /\ tx'.pc = phase /\ tx'.by = tx.by /\ tx'.op = tx.op
      /\ tx'.page = tx.page /\ tx'.version = tx.version /\ tx'.before = tx.before
      /\ tx'.index = tx.index /\ tx'.written = tx.written /\ tx'.clean = tx.clean
  BY <1>1, <1>2, GoesTo DEF Phases
<1>4. UNCHANGED <<active, archived, index, log, bad, aged, version, requests, maint, stale>>
  BY DEF UndoEnds, Outside, Calm
<1>5. Onward
  BY <1>3, <1>4 DEF Onward
<1>6. Progress'
  BY <1>1, <1>2, <1>3 DEF UpdateInv, Progress, Moves
<1>7. Placed'
  BY <1>1, <1>2, <1>3, <1>4 DEF UpdateInv, Placed, Lies, Moves, Source, Target, Busy
<1>. QED BY <1>1, <1>3, <1>4, <1>5, <1>6, <1>7, QuietStep

LEMMA RelinkKeeps ==
  ASSUME UpdateInv, Relink
  PROVE  Kept
<1>1. Busy /\ tx \in Txs /\ tx.pc = "relink" /\ tx' = [tx EXCEPT !.pc = "redrop"]
  BY BusyTx DEF Relink, At, Goto, Busy
<1>2. /\ tx' \in Txs /\ tx'.pc = "redrop" /\ tx'.by = tx.by /\ tx'.op = tx.op
      /\ tx'.page = tx.page /\ tx'.version = tx.version /\ tx'.before = tx.before
      /\ tx'.index = tx.index /\ tx'.written = tx.written /\ tx'.clean = tx.clean
  BY <1>1, GoesTo DEF Phases
<1>3. Moves /\ Lies(None, tx.version) /\ tx.version \in Versions
  BY <1>1 DEF UpdateInv, Progress, Placed, Txs
<1>4. PutSource(tx.version) /\ UNCHANGED <<index, log, bad, aged, version, requests, maint, stale>>
  BY DEF Relink, Outside, Calm
<1>5. /\ PagesTyped'
      /\ \A p \in Pages \ {tx.page} : active'[p] = active[p] /\ archived'[p] = archived[p]
      /\ tx.op = "archive" => active'[tx.page] = tx.version /\ archived' = archived
      /\ tx.op # "archive" => archived'[tx.page] = tx.version /\ active' = active
  BY <1>1, <1>3, <1>4, PutsSource
<1>6. Onward
  BY <1>2, <1>4, <1>5 DEF Onward
<1>7. Lies(tx.version, tx.version)' /\ Copies(tx.page) \subseteq Copies(tx.page)'
  BY <1>2, <1>3, <1>5 DEF Lies, Source, Target, Copies
<1>8. Progress'
  BY <1>1, <1>2, <1>3 DEF UpdateInv, Progress, Moves
<1>. QED BY <1>1, <1>2, <1>3, <1>4, <1>5, <1>6, <1>7, <1>8, MoveStep

LEMMA RedropKeeps ==
  ASSUME UpdateInv, Redrop
  PROVE  Kept
<1>1. Busy /\ tx \in Txs /\ tx.pc = "redrop" /\ tx' = [tx EXCEPT !.pc = "failed"]
  BY BusyTx DEF Redrop, At, Goto, Busy
<1>2. /\ tx' \in Txs /\ tx'.pc = "failed" /\ tx'.by = tx.by /\ tx'.op = tx.op
      /\ tx'.page = tx.page /\ tx'.version = tx.version /\ tx'.before = tx.before
      /\ tx'.index = tx.index /\ tx'.written = tx.written /\ tx'.clean = tx.clean
  BY <1>1, GoesTo DEF Phases
<1>3. Moves /\ Lies(tx.version, tx.version) /\ None \in Versions
  BY <1>1, KnowledgeUpdateAssumption
     DEF UpdateInv, Progress, Placed, None, Versions, KnowledgeUpdateAssumption
<1>4. PutTarget(None) /\ UNCHANGED <<index, log, bad, aged, version, requests, maint, stale>>
  BY DEF Redrop, Outside, Calm
<1>5. /\ PagesTyped'
      /\ \A p \in Pages \ {tx.page} : active'[p] = active[p] /\ archived'[p] = archived[p]
      /\ tx.op = "archive" => archived'[tx.page] = None /\ active' = active
      /\ tx.op # "archive" => active'[tx.page] = None /\ archived' = archived
  BY <1>1, <1>3, <1>4, PutsTarget
<1>6. Onward
  BY <1>2, <1>4, <1>5 DEF Onward
<1>7. Lies(tx.version, None)' /\ Copies(tx.page) \subseteq Copies(tx.page)'
  BY <1>2, <1>3, <1>5 DEF Lies, Source, Target, Copies
<1>8. Progress'
  BY <1>1, <1>2, <1>3 DEF UpdateInv, Progress, Moves
<1>. QED BY <1>1, <1>2, <1>3, <1>4, <1>5, <1>6, <1>7, <1>8, MoveStep

LEMMA UnmoveFailsKeeps ==
  ASSUME UpdateInv, UnmoveFails
  PROVE  Kept
<1>1. /\ Busy /\ tx \in Txs /\ tx.pc \in {"relink", "redrop"}
      /\ tx' = [tx EXCEPT !.pc = "failed", !.clean = FALSE]
  BY BusyTx DEF UnmoveFails, Busy
<1>2. /\ tx' \in Txs /\ tx'.pc = "failed" /\ tx'.by = tx.by /\ tx'.op = tx.op
      /\ tx'.page = tx.page /\ tx'.version = tx.version /\ tx'.before = tx.before
      /\ tx'.index = tx.index /\ tx'.written = tx.written /\ ~tx'.clean
  BY <1>1, GoesUncleanTo DEF Phases
<1>3. UNCHANGED <<active, archived, index, log, bad, aged, version, requests, maint, stale>>
  BY DEF UnmoveFails, Outside, Calm
<1>4. Onward
  BY <1>2, <1>3 DEF Onward
<1>5. Progress' /\ Placed'
  BY <1>1, <1>2 DEF UpdateInv, Progress, Placed, Moves
<1>. QED BY <1>1, <1>2, <1>3, <1>4, <1>5, QuietStep

(* A transaction ends. *)
LEMMA EndKeeps ==
  ASSUME UpdateInv, Busy, tx' = Idle, UNCHANGED <<active, archived, index, log>>, Calm,
         ~stale' => index = active, MaintTyped', RunSound', ManifestHonest', NothingHalf
  PROVE  Kept
<1>1. ~Busy' /\ tx'.pc = "idle"
  BY IdleIs DEF Busy
<1>2. PagesTyped' /\ CountsTyped' /\ TxTyped' /\ IndexCurrent'
  BY <1>1 DEF UpdateInv, PagesTyped, CountsTyped, TxTyped, IndexCurrent, Calm
<1>3. Progress' /\ Placed' /\ Overwritten' /\ Traced' /\ Found' /\ Waited'
  BY <1>1 DEF Progress, Placed, Overwritten, Traced, Found, Waited
<1>4. CopiesKept /\ Evaluated
  BY <1>1 DEF CopiesKept, Copies, Evaluated
<1>. QED BY <1>2, <1>3, <1>4 DEF Kept, UpdateInv

(* What the maintenance run makes of an answer. *)
LEMMA AnswerKeeps ==
  ASSUME UpdateInv, Busy,
         NEW answer, NEW moved, NEW harmed \in BOOLEAN,
         Answer(answer, moved, harmed), UNCHANGED aged,
         \/ answer = "ok" /\ moved = 1 /\ ~harmed
         \/ answer = "error" /\ moved = 0
  PROVE  MaintTyped' /\ RunSound' /\ ManifestHonest'
<1>1. CASE tx.by = "user"
  BY <1>1 DEF Answer, UpdateInv, MaintTyped, RunSound, ManifestHonest, InMaint
<1>2. CASE tx.by # "user"
  <2>1. tx.by = "maintenance" /\ maint.pc = "waiting"
    BY <1>2, BusyTx DEF UpdateInv, Waited, Txs
  <2>2. maint \in Runs /\ maint.todo # <<>>
    BY <2>1 DEF UpdateInv, MaintTyped, Restings, RunSound, InMaint
  <2>3. PICK n, h : n = maint.moved + moved /\ h = (maint.harmed \/ harmed)
    OBVIOUS
  <2>4. maint' = [maint EXCEPT !.pc = "verify", !.answer = answer, !.moved = n, !.harmed = h]
    BY <1>2, <2>3 DEF Answer
  <2>5. n \in Nat /\ h \in BOOLEAN
    BY <2>2, <2>3 DEF Runs
  <2>6. /\ maint' \in Runs /\ maint'.pc = "verify" /\ maint'.answer = answer /\ maint'.moved = n
        /\ maint'.harmed = h /\ maint'.count = maint.count /\ maint'.todo = maint.todo
    BY <2>2, <2>4, <2>5 DEF Runs
  <2>7. /\ maint.count = maint.moved /\ ~maint.harmed
        /\ \A i \in DOMAIN maint.todo : maint.todo[i].version <= aged
    BY <2>1 DEF UpdateInv, RunSound, InMaint
  <2>8. RunSound'
    BY <2>2, <2>3, <2>6, <2>7 DEF RunSound, InMaint, Runs
  <2>. QED BY <2>6, <2>8 DEF MaintTyped, ManifestHonest, InMaint
<1>. QED BY <1>1, <1>2

LEMMA SucceedKeeps ==
  ASSUME UpdateInv, Succeed
  PROVE  Kept
<1>1. Busy /\ tx \in Txs /\ tx.pc = "verify" /\ tx.clean /\ tx.written = Len(Writing(tx.op)) /\ tx' = Idle
  BY BusyTx DEF Succeed, At, Busy, UpdateInv, Progress
<1>2. /\ index = active
      /\ Moves => Source(tx.op)[tx.page] = None /\ Target(tx.op)[tx.page] = tx.version
  BY DEF Succeed, Verified, IndexExact
<1>3. Wrote("log") /\ (~Moves => Wrote("page"))
  <2>1. CASE Moves
    <3>1. tx.written = 2 /\ Writing(tx.op)[2] = "log"
      BY <1>1, <2>1, WritingIs DEF Moves
    <3>. QED BY <2>1, <3>1 DEF Wrote
  <2>2. CASE ~Moves
    <3>1. tx.written = 3 /\ Writing(tx.op)[1] = "page" /\ Writing(tx.op)[3] = "log"
      BY <1>1, <2>2, WritingIs DEF Moves
    <3>. QED BY <2>2, <3>1 DEF Wrote
  <2>. QED BY <2>1, <2>2
<1>4. log = Append(tx.before.log, <<tx.op, tx.page>>)
  BY <1>1, <1>3 DEF UpdateInv, Traced
<1>5. Done
  <2>1. CASE Moves
    BY <1>2, <1>4, <2>1 DEF Done, Moves, Source, Target
  <2>2. CASE ~Moves
    BY <1>1, <1>2, <1>3, <1>4, <2>2 DEF Done, Moves, UpdateInv, Overwritten
  <2>. QED BY <2>1, <2>2
<1>6. UNCHANGED <<active, archived, index, log>> /\ Calm /\ Answer("ok", 1, FALSE)
  BY DEF Succeed
<1>7. MaintTyped' /\ RunSound' /\ ManifestHonest'
  <2>1. PICK answer, moved, harmed : answer = "ok" /\ moved = 1 /\ harmed = FALSE /\ harmed \in BOOLEAN
    OBVIOUS
  <2>2. Answer(answer, moved, harmed) /\ UNCHANGED aged
    BY <1>6, <2>1 DEF Calm
  <2>. QED BY <1>1, <2>1, <2>2, AnswerKeeps
<1>8. NothingHalf
  BY <1>1, <1>5 DEF NothingHalf
<1>. QED BY <1>1, <1>2, <1>6, <1>7, <1>8, EndKeeps

LEMMA FailKeeps ==
  ASSUME UpdateInv, Fail
  PROVE  Kept
<1>1. Busy /\ tx \in Txs /\ tx.pc = "failed" /\ tx' = Idle /\ tx.written = 0
  BY BusyTx DEF Fail, At, Busy, UpdateInv, Progress
<1>2. PICK harmed \in BOOLEAN : harmed = ~tx.clean
  OBVIOUS
<1>3. UNCHANGED <<active, archived, index, log>> /\ Calm /\ Answer("error", 0, harmed)
  BY <1>2 DEF Fail
<1>4. MaintTyped' /\ RunSound' /\ ManifestHonest'
  BY <1>1, <1>2, <1>3, AnswerKeeps DEF Calm
<1>5. ~stale' => ~stale /\ tx.clean
  BY DEF Fail
<1>6. ~stale' => index = active
  <2> SUFFICES ASSUME ~stale, tx.clean
               PROVE  index = active
    BY <1>5
  <2>1. Untouched
    BY <1>1, FailedLeavesNoTrace
  <2>2. active[tx.page] = tx.before.active /\ index = tx.before.index
    BY <2>1 DEF Untouched, Before
  <2>3. tx.before.index = [active EXCEPT ![tx.page] = tx.before.active]
    BY <1>1 DEF UpdateInv, Found
  <2>4. active \in [Pages -> Versions]
    BY DEF UpdateInv, PagesTyped, Corpora, Versions
  <2>5. PICK v : v = tx.before.active
    OBVIOUS
  <2>6. index = [active EXCEPT ![tx.page] = v] /\ active[tx.page] = v
    BY <2>2, <2>3, <2>5
  <2>. QED BY <2>4, <2>6
<1>7. NothingHalf
  BY <1>1, FailedLeavesNoTrace DEF NothingHalf
<1>. QED BY <1>1, <1>3, <1>4, <1>6, <1>7, EndKeeps

LEMMA WriterDiesKeeps ==
  ASSUME UpdateInv, WriterDies
  PROVE  Kept
<1>1. Busy /\ tx' = Idle /\ stale' = TRUE
  BY DEF WriterDies, At, Busy
<1>2. UNCHANGED <<active, archived, index, log>> /\ Calm
  BY DEF WriterDies
<1>3. MaintTyped' /\ RunSound' /\ ManifestHonest'
  <2>1. CASE maint' = maint
    BY <1>2, <2>1 DEF UpdateInv, MaintTyped, RunSound, ManifestHonest, InMaint, Calm
  <2>2. CASE maint' = Resting("none", 0, 0, FALSE)
    BY <2>2 DEF Resting, MaintTyped, Restings, RunSound, ManifestHonest, InMaint
  <2>. QED BY <2>1, <2>2 DEF WriterDies
<1>4. NothingHalf
  BY <1>1, FailedLeavesNoTrace DEF NothingHalf
<1>. QED BY <1>1, <1>2, <1>3, <1>4, EndKeeps

LEMMA BeforeTyped ==
  ASSUME UpdateInv, NEW p \in Pages
  PROVE  /\ Before(p) \in Befores /\ Before(p).active = active[p] /\ Before(p).archived = archived[p]
         /\ Before(p).index = index /\ Before(p).log = log
<1>1. active \in [Pages -> Versions] /\ archived \in [Pages -> Versions] /\ index \in Corpora /\ log \in Logs
  BY DEF UpdateInv, PagesTyped, Corpora, Versions
<1>. QED BY <1>1 DEF Before, Befores

(* A transaction begins. *)
LEMMA BeginKeeps ==
  ASSUME UpdateInv, ~Busy, UNCHANGED <<active, archived, index, log, bad, aged, stale>>,
         tx' \in Txs, tx'.pc \in {"write", "link"}, tx'.written = 0, tx'.clean,
         tx'.before = Before(tx'.page),
         Moves' <=> tx'.pc = "link",
         tx'.pc = "link" => Movable(tx'.op, tx'.page) /\ tx'.version = Source(tx'.op)[tx'.page],
         version' \in Versions, version' >= version,
         MaintTyped', Waited', RunSound', ManifestHonest', Evaluated
  PROVE  Kept
<1>1. tx.pc = "idle" /\ Busy' /\ tx'.page \in Pages
  BY DEF Busy, Txs
<1>2. PICK b, p : b = tx'.before /\ p = tx'.page
  OBVIOUS
<1>3. b = Before(p) /\ p \in Pages
  BY <1>1, <1>2
<1>4. b.active = active[p] /\ b.archived = archived[p] /\ b.index = index /\ b.log = log
  BY <1>3, BeforeTyped
<1>5. ~Wrote("page")' /\ ~Wrote("index")' /\ ~Wrote("log")'
  BY DEF Wrote
<1>6. PagesTyped' /\ TxTyped'
  BY DEF UpdateInv, PagesTyped, TxTyped
<1>7. CountsTyped'
  BY KnowledgeUpdateAssumption DEF UpdateInv, CountsTyped, Versions, None, KnowledgeUpdateAssumption
<1>8. Progress'
  <2>1. Len(Writing(tx'.op)) \in Nat /\ 0 < Len(Writing(tx'.op))
    BY SomeFiles
  <2>. QED BY <2>1 DEF Progress
<1>9. Placed'
  <2> SUFFICES ASSUME Moves'
               PROVE  /\ tx'.before.active = (IF tx'.op = "archive" THEN tx'.version ELSE None)
                      /\ tx'.before.archived = (IF tx'.op = "archive" THEN None ELSE tx'.version)
                      /\ Lies(tx.version, None)'
    BY DEF Placed
  <2>1. Movable(tx'.op, p) /\ tx'.version = Source(tx'.op)[p]
    BY <1>2
  <2>. QED BY <1>2, <1>4, <2>1 DEF Movable, Source, Target, Lies
<1>10. Overwritten' /\ Traced'
  BY <1>2, <1>4, <1>5 DEF Overwritten, Traced
<1>11. Found'
  <2>1. active \in [Pages -> Versions]
    BY DEF UpdateInv, PagesTyped, Corpora, Versions
  <2>2. [active EXCEPT ![p] = active[p]] = active
    BY <1>3, <2>1
  <2>3. PICK v : v = b.active
    OBVIOUS
  <2>4. ~stale => index = [active EXCEPT ![p] = v]
    BY <1>1, <1>4, <2>2, <2>3 DEF UpdateInv, IndexCurrent
  <2>. QED BY <1>2, <1>4, <2>3, <2>4 DEF Found
<1>12. IndexCurrent'
  BY <1>1 DEF IndexCurrent, Busy
<1>13. NothingHalf /\ CopiesKept
  BY <1>1 DEF NothingHalf, CopiesKept, Copies
<1>. QED BY <1>6, <1>7, <1>8, <1>9, <1>10, <1>11, <1>12, <1>13 DEF Kept, UpdateInv

LEMMA BeginWriteKeeps ==
  ASSUME UpdateInv, NEW p \in Pages, NEW op \in {"create", "update", "upsert"}, BeginWrite(op, p)
  PROVE  Kept
<1>1. tx.pc = "idle" /\ ~Busy
  BY DEF BeginWrite, Busy
<1>2. version \in Versions /\ version < MaxVersion /\ version' = version + 1
  BY DEF BeginWrite, UpdateInv, CountsTyped
<1>3. version' \in Versions \ {None} /\ version' >= version
  BY <1>2, KnowledgeUpdateAssumption DEF Versions, None, KnowledgeUpdateAssumption
<1>4. Action(op, p) \in {"create", "update"}
  <2>1. Action(op, p) # "refused"
    BY DEF BeginWrite
  <2>2. CASE op = "upsert"
    BY <2>2 DEF Action
  <2>3. CASE op = "create"
    BY <2>1, <2>3 DEF Action
  <2>4. CASE op = "update"
    BY <2>1, <2>4 DEF Action
  <2>. QED BY <2>2, <2>3, <2>4
<1>5. PICK action, corpus, b, v :
        /\ action = Action(op, p) /\ action \in {"create", "update"}
        /\ corpus = [active EXCEPT ![p] = version']
        /\ b = Before(p) /\ v = version'
  BY <1>4
<1>6. tx' = [pc |-> "write", by |-> "user", op |-> action, page |-> p, version |-> v, index |-> corpus,
             written |-> 0, before |-> b, clean |-> TRUE]
  BY <1>5 DEF BeginWrite
<1>7. corpus \in Corpora /\ b \in Befores
  BY <1>3, <1>5, BeforeTyped DEF UpdateInv, PagesTyped, Corpora, Versions
<1>8. /\ tx' \in Txs /\ tx'.pc = "write" /\ tx'.by = "user" /\ tx'.written = 0 /\ tx'.clean
      /\ tx'.page = p /\ tx'.before = b /\ tx'.op = action
  BY <1>3, <1>5, <1>6, <1>7 DEF Txs, Phases
<1>9. UNCHANGED <<active, archived, index, log, bad, maint, aged, stale>>
  BY DEF BeginWrite
<1>10. MaintTyped' /\ Waited' /\ RunSound' /\ ManifestHonest' /\ Evaluated
  BY <1>8, <1>9 DEF UpdateInv, MaintTyped, Waited, RunSound, ManifestHonest, InMaint, Evaluated
<1>11. ~Moves' /\ tx'.before = Before(tx'.page)
  BY <1>5, <1>8 DEF Moves
<1>. QED BY <1>1, <1>3, <1>8, <1>9, <1>10, <1>11, BeginKeeps

LEMMA StartMoveIs ==
  ASSUME UpdateInv, NEW by \in {"user", "maintenance"}, NEW op \in {"archive", "restore"}, NEW p \in Pages,
         StartMove(by, op, p)
  PROVE  /\ tx' \in Txs /\ tx'.pc = "link" /\ tx'.by = by /\ tx'.written = 0 /\ tx'.clean
         /\ tx'.page = p /\ tx'.before = Before(tx'.page) /\ tx'.op = op /\ Moves'
         /\ Movable(tx'.op, tx'.page) /\ tx'.version = Source(tx'.op)[tx'.page]
<1>1. PICK b, v : b = Before(p) /\ v = Source(op)[p]
  OBVIOUS
<1>2. tx' = [pc |-> "link", by |-> by, op |-> op, page |-> p, version |-> v, index |-> index,
             written |-> 0, before |-> b, clean |-> TRUE]
  BY <1>1 DEF StartMove
<1>3. v \in Versions \ {None}
  BY <1>1 DEF StartMove, Movable, Source, UpdateInv, PagesTyped, Corpora, Versions
<1>4. b \in Befores /\ index \in Corpora
  BY <1>1, BeforeTyped DEF UpdateInv, PagesTyped
<1>5. /\ tx' \in Txs /\ tx'.pc = "link" /\ tx'.by = by /\ tx'.written = 0 /\ tx'.clean
      /\ tx'.page = p /\ tx'.before = b /\ tx'.op = op /\ tx'.version = v
  BY <1>2, <1>3, <1>4 DEF Txs, Phases
<1>6. Movable(op, p)
  BY DEF StartMove
<1>. QED BY <1>1, <1>5, <1>6 DEF Moves

LEMMA BeginMoveKeeps ==
  ASSUME UpdateInv, NEW p \in Pages, NEW op \in {"archive", "restore"}, BeginMove(op, p)
  PROVE  Kept
<1>1. tx.pc = "idle" /\ ~Busy
  BY DEF BeginMove, Busy
<1>2. StartMove("user", op, p) /\ UNCHANGED <<active, archived, index, log, bad, maint, aged, version, stale>>
  BY DEF BeginMove
<1>3. /\ tx' \in Txs /\ tx'.pc = "link" /\ tx'.by = "user" /\ tx'.written = 0 /\ tx'.clean
      /\ tx'.page = p /\ tx'.before = Before(tx'.page) /\ tx'.op = op /\ Moves'
      /\ Movable(tx'.op, tx'.page) /\ tx'.version = Source(tx'.op)[tx'.page]
  BY <1>2, StartMoveIs
<1>4. MaintTyped' /\ Waited' /\ RunSound' /\ ManifestHonest' /\ Evaluated
  BY <1>2, <1>3 DEF UpdateInv, MaintTyped, Waited, RunSound, ManifestHonest, InMaint, Evaluated
<1>5. version' \in Versions /\ version' >= version
  BY <1>2, KnowledgeUpdateAssumption DEF UpdateInv, CountsTyped, Versions, KnowledgeUpdateAssumption
<1>. QED BY <1>1, <1>2, <1>3, <1>4, <1>5, BeginKeeps

(* What stands first in a run's list. *)
LEMMA CandidateIs ==
  ASSUME UpdateInv, ~InMaint("idle"), maint.todo # <<>>
  PROVE  Candidate \in Entries /\ Candidate.version <= aged /\ maint \in Runs
<1>1. maint \in Runs
  BY DEF UpdateInv, MaintTyped, Restings, InMaint
<1>2. maint.todo \in Seq(Entries)
  BY <1>1 DEF Runs
<1>3. 1 \in DOMAIN maint.todo /\ Candidate = maint.todo[1] /\ Candidate \in Entries
  BY <1>2 DEF Candidate
<1>. QED BY <1>1, <1>3 DEF UpdateInv, RunSound

LEMMA ArchiveKeeps ==
  ASSUME UpdateInv, Archive
  PROVE  Kept
<1>1. /\ InMaint("archive") /\ maint.todo # <<>> /\ maint \in Runs
      /\ Candidate \in Entries /\ Candidate.version <= aged
  BY CandidateIs DEF Archive, UpdateInv, RunSound, InMaint
<1>2. tx.pc = "idle" /\ ~Busy /\ Size > Low /\ active[Candidate.page] = Candidate.version
  BY DEF Archive, Refusal, Precondition, Busy
<1>3. PICK p \in Dated : p = Candidate.page
  BY <1>1 DEF Entries
<1>4. p \in Pages
  BY KnowledgeUpdateAssumption DEF KnowledgeUpdateAssumption
<1>5. StartMove("maintenance", "archive", p)
  BY <1>3 DEF Archive
<1>6. UNCHANGED <<active, archived, index, log, bad, aged, version, stale>>
  BY DEF Archive
<1>7. /\ tx' \in Txs /\ tx'.pc = "link" /\ tx'.by = "maintenance" /\ tx'.written = 0 /\ tx'.clean
      /\ tx'.page = p /\ tx'.before = Before(tx'.page) /\ tx'.op = "archive" /\ Moves'
      /\ Movable(tx'.op, tx'.page) /\ tx'.version = Source(tx'.op)[tx'.page]
  BY <1>4, <1>5, StartMoveIs
<1>8. Evaluated
  BY <1>1, <1>2, <1>3, <1>7 DEF Evaluated, Source
<1>9. maint' = [maint EXCEPT !.pc = "waiting"]
  BY DEF Archive
<1>10. /\ maint' \in Runs /\ maint'.pc = "waiting" /\ maint'.todo = maint.todo
       /\ maint'.count = maint.count /\ maint'.moved = maint.moved /\ maint'.harmed = maint.harmed
  BY <1>1, <1>9 DEF Runs
<1>11. MaintTyped' /\ Waited' /\ ManifestHonest'
  BY <1>10 DEF MaintTyped, Waited, ManifestHonest, InMaint
<1>12. RunSound'
  BY <1>1, <1>6, <1>10 DEF UpdateInv, RunSound, InMaint
<1>13. version' \in Versions /\ version' >= version
  BY <1>6, KnowledgeUpdateAssumption DEF UpdateInv, CountsTyped, Versions, KnowledgeUpdateAssumption
<1>. QED BY <1>2, <1>6, <1>7, <1>8, <1>11, <1>12, <1>13, BeginKeeps

(* A step of the maintenance run outside the lock. *)
LEMMA WatchKeeps ==
  ASSUME UpdateInv, UNCHANGED <<active, archived, index, log, bad, tx, aged, version, stale>>,
         ~InMaint("waiting"), MaintTyped', RunSound', ManifestHonest'
  PROVE  Kept
<1>1. PagesTyped' /\ CountsTyped' /\ TxTyped' /\ IndexCurrent'
  BY DEF UpdateInv, PagesTyped, CountsTyped, TxTyped, IndexCurrent
<1>2. (Busy' <=> Busy) /\ (Moves' <=> Moves) /\ \A f : Wrote(f)' <=> Wrote(f)
  BY DEF Busy, Moves, Wrote
<1>3. Progress' /\ Placed' /\ Overwritten'
  BY <1>2 DEF UpdateInv, Progress, Placed, Overwritten, Lies, Source, Target
<1>4. Traced' /\ Found'
  BY <1>2 DEF UpdateInv, Traced, Found
<1>5. Waited'
  BY <1>2 DEF UpdateInv, Waited, InMaint
<1>6. NothingHalf /\ Evaluated
  BY SameTx
<1>7. CopiesKept
  BY DEF CopiesKept, Copies
<1>. QED BY <1>1, <1>3, <1>4, <1>5, <1>6, <1>7 DEF Kept, UpdateInv

(* A run that stops. *)
LEMMA StopKeeps ==
  ASSUME UpdateInv, UNCHANGED <<active, archived, index, log, bad, tx, aged, version, stale>>,
         ~InMaint("waiting"), NEW reason \in {"none", "below-high", "low", "exhausted", "unsafe"},
         NEW count \in Nat, NEW moved \in Nat, NEW harmed \in BOOLEAN,
         maint' = Resting(reason, count, moved, harmed),
         reason \in {"low", "exhausted"} => count = moved /\ ~harmed
  PROVE  Kept
<1>1. maint' = [pc |-> "idle", stop |-> reason, count |-> count, moved |-> moved, harmed |-> harmed]
  BY DEF Resting
<1>2. MaintTyped' /\ RunSound' /\ ManifestHonest'
  BY <1>1 DEF MaintTyped, Restings, RunSound, ManifestHonest, InMaint
<1>. QED BY <1>2, WatchKeeps

LEMMA Stopping ==
  ASSUME UpdateInv, UNCHANGED <<active, archived, index, log, bad, tx, aged, version, stale>>,
         ~InMaint("waiting"), ~InMaint("idle"), NEW reason \in {"low", "exhausted", "unsafe"}, Stop(reason),
         reason = "unsafe" \/ (maint.count = maint.moved /\ ~maint.harmed)
  PROVE  Kept
<1>1. maint \in Runs
  BY DEF UpdateInv, MaintTyped, Restings, InMaint
<1>2. PICK count, moved, harmed : count = maint.count /\ moved = maint.moved /\ harmed = maint.harmed
  OBVIOUS
<1>3. count \in Nat /\ moved \in Nat /\ harmed \in BOOLEAN /\ maint' = Resting(reason, count, moved, harmed)
  BY <1>1, <1>2 DEF Runs, Stop
<1>4. reason \in {"low", "exhausted"} => count = moved /\ ~harmed
  BY <1>2
<1>. QED BY <1>3, <1>4, StopKeeps

(* The next candidate. *)
LEMMA NextIs ==
  ASSUME UpdateInv, ~InMaint("idle"), maint.todo # <<>>
  PROVE  /\ NextCandidate \in Runs /\ NextCandidate.pc = "next"
         /\ NextCandidate.count = maint.count /\ NextCandidate.moved = maint.moved
         /\ NextCandidate.harmed = maint.harmed
         /\ \A i \in DOMAIN NextCandidate.todo : NextCandidate.todo[i].version <= aged
<1>1. maint \in Runs
  BY CandidateIs
<1>2. PICK todo : todo = maint.todo
  OBVIOUS
<1>3. PICK rest : rest = Tail(todo)
  OBVIOUS
<1>4. todo \in Seq(Entries) /\ todo # <<>>
  BY <1>1, <1>2 DEF Runs
<1>5. rest \in Seq(Entries) /\ \A i \in DOMAIN rest : i + 1 \in DOMAIN todo /\ rest[i] = todo[i + 1]
  BY <1>3, <1>4
<1>6. NextCandidate = [maint EXCEPT !.pc = "next", !.todo = rest]
  BY <1>1, <1>2, <1>3 DEF NextCandidate
<1>7. /\ NextCandidate \in Runs /\ NextCandidate.pc = "next" /\ NextCandidate.todo = rest
      /\ NextCandidate.count = maint.count /\ NextCandidate.moved = maint.moved
      /\ NextCandidate.harmed = maint.harmed
  BY <1>1, <1>5, <1>6 DEF Runs
<1>8. \A i \in DOMAIN todo : todo[i].version <= aged
  BY <1>2 DEF UpdateInv, RunSound
<1>. QED BY <1>5, <1>7, <1>8

LEMMA NextKeeps ==
  ASSUME UpdateInv, UNCHANGED <<active, archived, index, log, bad, tx, aged, version, stale>>,
         ~InMaint("idle"), ~InMaint("waiting"), maint.todo # <<>>, maint' = NextCandidate,
         maint.count = maint.moved, ~maint.harmed
  PROVE  Kept
<1>1. /\ maint' \in Runs /\ maint'.pc = "next"
      /\ maint'.count = maint.count /\ maint'.moved = maint.moved
      /\ maint'.harmed = maint.harmed
      /\ \A i \in DOMAIN maint'.todo : maint'.todo[i].version <= aged
  BY NextIs
<1>2. MaintTyped' /\ RunSound' /\ ManifestHonest'
  BY <1>1 DEF MaintTyped, RunSound, ManifestHonest, InMaint
<1>. QED BY <1>2, WatchKeeps

LEMMA OldFinite ==
  ASSUME NEW old, old \subseteq Dated
  PROVE  Cardinality(old) \in Nat
<1>1. IsFiniteSet(old)
  BY FS_Subset, KnowledgeUpdateAssumption DEF KnowledgeUpdateAssumption
<1>. QED BY <1>1, FS_CardinalityType

LEMMA ScanKeeps ==
  ASSUME UpdateInv, Scan
  PROVE  Kept
<1> DEFINE Listed(queue) == [i \in DOMAIN queue |-> [page |-> queue[i], version |-> active[queue[i]]]]
           Begun(queue) == [pc |-> "next", stop |-> "none", count |-> 0, moved |-> 0, harmed |-> FALSE,
                            answer |-> "none", before |-> <<>>, todo |-> Listed(queue)]
<1>1. InMaint("idle") /\ ~InMaint("waiting")
      /\ UNCHANGED <<active, archived, index, log, bad, tx, aged, version, stale>>
  BY DEF Scan, InMaint, Watching
<1>2. CASE \E reason \in {"below-high", "unsafe"} : maint' = Resting(reason, 0, 0, FALSE)
  <2>1. PICK reason \in {"below-high", "unsafe"} : maint' = Resting(reason, 0, 0, FALSE)
    BY <1>2
  <2>2. PICK none : none = 0
    OBVIOUS
  <2>3. PICK harmed : harmed = FALSE
    OBVIOUS
  <2>4. maint' = Resting(reason, none, none, harmed) /\ none \in Nat /\ harmed \in BOOLEAN
    BY <2>1, <2>2, <2>3
  <2>. QED BY <1>1, <2>4, StopKeeps
<1>3. CASE \E queue \in Candidates : maint' = Begun(queue)
  <2>1. PICK queue \in Candidates : maint' = Begun(queue)
    BY <1>3
  <2>2. PICK old : old = {p \in Dated : active[p] \in 1 .. aged}
    OBVIOUS
  <2>3. PICK n : n = Cardinality(old)
    OBVIOUS
  <2>4. queue \in [1 .. n -> old] /\ n \in Nat
    BY <2>2, <2>3, OldFinite DEF Candidates
  <2>5. PICK todo : todo = Listed(queue)
    OBVIOUS
  <2>6. DOMAIN todo = 1 .. n
    BY <2>4, <2>5
  <2>7. ASSUME NEW i \in 1 .. n
        PROVE  todo[i] \in Entries /\ todo[i].version <= aged
    <3>1. queue[i] \in Dated /\ active[queue[i]] \in 1 .. aged
      BY <2>2, <2>4
    <3>2. todo[i] = [page |-> queue[i], version |-> active[queue[i]]]
      BY <2>4, <2>5
    <3>3. queue[i] \in Pages /\ active[queue[i]] \in Versions /\ aged \in Nat
      BY <3>1, KnowledgeUpdateAssumption
         DEF KnowledgeUpdateAssumption, UpdateInv, PagesTyped, CountsTyped, Corpora, Versions
    <3>. QED BY <3>1, <3>2, <3>3 DEF Entries, None
  <2>8. todo \in [1 .. n -> Entries]
    BY <2>4, <2>5, <2>7
  <2>9. todo \in Seq(Entries)
    BY <2>4, <2>8
  <2>10. maint' = [pc |-> "next", stop |-> "none", count |-> 0, moved |-> 0, harmed |-> FALSE,
                   answer |-> "none", before |-> <<>>, todo |-> todo]
    BY <2>1, <2>5
  <2>11. MaintTyped'
    BY <2>9, <2>10 DEF MaintTyped, Runs
  <2>12. RunSound' /\ ManifestHonest'
    BY <1>1, <2>6, <2>7, <2>10 DEF RunSound, ManifestHonest, InMaint
  <2>. QED BY <1>1, <2>11, <2>12, WatchKeeps
<1>4. \/ \E reason \in {"below-high", "unsafe"} : maint' = Resting(reason, 0, 0, FALSE)
      \/ \E queue \in Candidates : maint' = Begun(queue)
  BY Zenon DEF Scan
<1>. QED BY <1>2, <1>3, <1>4

LEMMA ExhaustedKeeps ==
  ASSUME UpdateInv, Exhausted
  PROVE  Kept
<1>1. ~InMaint("idle") /\ ~InMaint("waiting") /\ maint.count = maint.moved /\ ~maint.harmed
  BY DEF Exhausted, InMaint, UpdateInv, RunSound
<1>2. Stop("exhausted") /\ UNCHANGED <<active, archived, index, log, bad, tx, aged, version, stale>>
  BY DEF Exhausted, Watching
<1>. QED BY <1>1, <1>2, Stopping

LEMMA SnapshotTyped ==
  ASSUME UpdateInv, NEW p \in Pages
  PROVE  Snapshot(p) \in Snapshots
<1>1. PICK c : c = IndexExact
  OBVIOUS
<1>2. c \in BOOLEAN
  BY <1>1 DEF IndexExact
<1>3. Snapshot(p) = [index |-> index, coherent |-> c, log |-> log,
                     active |-> active[p], archived |-> archived[p]]
  BY <1>1 DEF Snapshot
<1>4. index \in Corpora /\ log \in Logs /\ active[p] \in Versions /\ archived[p] \in Versions
  BY DEF UpdateInv, PagesTyped, Corpora, Versions
<1>. QED BY <1>2, <1>3, <1>4 DEF Snapshots

LEMMA ConsiderKeeps ==
  ASSUME UpdateInv, Consider
  PROVE  Kept
<1>1. /\ InMaint("next") /\ ~InMaint("idle") /\ ~InMaint("waiting") /\ maint.todo # <<>>
      /\ maint.count = maint.moved /\ ~maint.harmed
      /\ UNCHANGED <<active, archived, index, log, bad, tx, aged, version, stale>>
  BY DEF Consider, InMaint, UpdateInv, RunSound, Watching
<1>2. CASE Stop("low")
  BY <1>1, <1>2, Stopping
<1>3. CASE maint' = NextCandidate
  BY <1>1, <1>3, NextKeeps
<1>4. CASE maint' = [maint EXCEPT !.pc = "archive", !.before = Snapshot(Candidate.page)]
  <2>1. maint \in Runs /\ Candidate \in Entries
    BY <1>1, CandidateIs
  <2>2. PICK s : s = Snapshot(Candidate.page)
    OBVIOUS
  <2>3. Candidate.page \in Pages
    BY <2>1, KnowledgeUpdateAssumption DEF Entries, KnowledgeUpdateAssumption
  <2>4. s \in Snapshots
    BY <2>2, <2>3, SnapshotTyped
  <2>5. maint' = [maint EXCEPT !.pc = "archive", !.before = s]
    BY <1>4, <2>2
  <2>6. /\ maint' \in Runs /\ maint'.pc = "archive" /\ maint'.todo = maint.todo
        /\ maint'.count = maint.count /\ maint'.moved = maint.moved /\ maint'.harmed = maint.harmed
    BY <2>1, <2>4, <2>5 DEF Runs
  <2>7. MaintTyped' /\ RunSound' /\ ManifestHonest'
    BY <1>1, <2>6 DEF UpdateInv, MaintTyped, RunSound, ManifestHonest, InMaint
  <2>. QED BY <1>1, <2>7, WatchKeeps
<1>. QED BY <1>2, <1>3, <1>4 DEF Consider

LEMMA RefusedKeeps ==
  ASSUME UpdateInv, Refused
  PROVE  Kept
<1>1. /\ InMaint("archive") /\ ~InMaint("idle") /\ ~InMaint("waiting") /\ maint.todo # <<>>
      /\ maint.count = maint.moved /\ ~maint.harmed /\ maint \in Runs
      /\ UNCHANGED <<active, archived, index, log, bad, tx, aged, version, stale>>
  BY CandidateIs DEF Refused, InMaint, UpdateInv, RunSound, Watching
<1>2. Refusal \in {"low", "changed", "rejected", "locked"}
  BY DEF Refused, Refusal
<1>3. PICK answer \in {"low", "changed", "rejected", "locked"} :
        maint' = [maint EXCEPT !.pc = "verify", !.answer = answer]
  BY <1>2 DEF Refused
<1>4. /\ maint' \in Runs /\ maint'.pc = "verify" /\ maint'.answer = answer /\ maint'.todo = maint.todo
      /\ maint'.count = maint.count /\ maint'.moved = maint.moved /\ maint'.harmed = maint.harmed
  BY <1>1, <1>3 DEF Runs
<1>5. MaintTyped' /\ RunSound' /\ ManifestHonest'
  BY <1>1, <1>4 DEF UpdateInv, MaintTyped, RunSound, ManifestHonest, InMaint
<1>. QED BY <1>1, <1>5, WatchKeeps

LEMMA JudgeArchiveKeeps ==
  ASSUME UpdateInv, JudgeArchive
  PROVE  Kept
<1>1. /\ InMaint("verify") /\ ~InMaint("idle") /\ ~InMaint("waiting") /\ maint.todo # <<>> /\ maint \in Runs
      /\ UNCHANGED <<active, archived, index, log, bad, tx, aged, version, stale>>
  BY CandidateIs DEF JudgeArchive, InMaint, UpdateInv, RunSound, Watching
<1>2. CASE Stop("unsafe")
  BY <1>1, <1>2, Stopping
<1>3. CASE maint.answer = "low" /\ Stop("low")
  <2>1. maint.count = maint.moved /\ ~maint.harmed
    BY <1>1, <1>3 DEF UpdateInv, RunSound
  <2>. QED BY <1>1, <1>3, <2>1, Stopping
<1>4. CASE maint.answer \in {"changed", "rejected", "locked"} /\ maint' = NextCandidate
  <2>1. maint.count = maint.moved /\ ~maint.harmed
    BY <1>1, <1>4 DEF UpdateInv, RunSound
  <2>. QED BY <1>1, <1>4, <2>1, NextKeeps
<1>5. ASSUME maint.answer = "ok",
             maint' = IF Size <= Low
                      THEN Resting("low", Counted(NextCandidate).count, Counted(NextCandidate).moved,
                                   Counted(NextCandidate).harmed)
                      ELSE Counted(NextCandidate)
      PROVE  Kept
  <2>1. maint.moved = maint.count + 1 /\ ~maint.harmed
    BY <1>1, <1>5 DEF UpdateInv, RunSound
  <2>2. PICK m : m = NextCandidate
    OBVIOUS
  <2>3. /\ m \in Runs /\ m.pc = "next" /\ m.count = maint.count /\ m.moved = maint.moved
        /\ m.harmed = maint.harmed /\ \A i \in DOMAIN m.todo : m.todo[i].version <= aged
    BY <1>1, <2>2, NextIs
  <2>4. PICK n : n = m.count + 1
    OBVIOUS
  <2>5. n \in Nat
    BY <2>3, <2>4 DEF Runs
  <2>6. PICK c : c = Counted(NextCandidate)
    OBVIOUS
  <2>7. c = [m EXCEPT !.count = n]
    BY <2>2, <2>4, <2>6 DEF Counted
  <2>8. /\ c \in Runs /\ c.pc = "next" /\ c.count = n /\ c.moved = m.moved /\ c.harmed = m.harmed
        /\ c.todo = m.todo
    BY <2>3, <2>5, <2>7 DEF Runs
  <2>9. n = maint.moved
    BY <2>1, <2>3, <2>4
  <2>10. CASE Size <= Low
    <3>1. PICK moved, harmed : moved = c.moved /\ harmed = c.harmed
      OBVIOUS
    <3>2. maint' = Resting("low", n, moved, harmed)
      BY <1>5, <2>6, <2>8, <2>10, <3>1
    <3>3. n = moved /\ ~harmed /\ moved \in Nat /\ harmed \in BOOLEAN
      BY <2>1, <2>3, <2>5, <2>8, <2>9, <3>1 DEF Runs
    <3>. QED BY <1>1, <2>5, <3>2, <3>3, StopKeeps
  <2>11. CASE ~(Size <= Low)
    <3>1. maint' = c
      BY <1>5, <2>6, <2>11
    <3>2. MaintTyped' /\ RunSound' /\ ManifestHonest'
      BY <1>1, <2>1, <2>3, <2>8, <2>9, <3>1 DEF MaintTyped, RunSound, ManifestHonest, InMaint
    <3>. QED BY <1>1, <3>2, WatchKeeps
  <2>. QED BY <2>10, <2>11
<1>. QED BY <1>2, <1>3, <1>4, <1>5 DEF JudgeArchive

LEMMA SnapshotFailsKeeps ==
  ASSUME UpdateInv, SnapshotFails
  PROVE  Kept
<1>1. ~InMaint("idle") /\ ~InMaint("waiting")
  BY DEF SnapshotFails, InMaint
<1>2. Stop("unsafe") /\ UNCHANGED <<active, archived, index, log, bad, tx, aged, version, stale>>
  BY DEF SnapshotFails
<1>. QED BY <1>1, <1>2, Stopping

LEMMA HandEditKeeps ==
  ASSUME UpdateInv, NEW p \in Pages, HandEdit(p)
  PROVE  Kept
<1>1. /\ UNCHANGED <<archived, index, log, tx, maint, aged>> /\ stale'
      /\ active' = [active EXCEPT ![p] = version'] /\ bad' \in {bad, bad \cup {version'}}
      /\ version' = version + 1 /\ version < MaxVersion /\ (Busy => tx.page # p)
  BY DEF HandEdit, Busy
<1>2. version \in Nat \ {0} /\ MaxVersion \in Nat
  BY KnowledgeUpdateAssumption DEF KnowledgeUpdateAssumption, UpdateInv, CountsTyped, Versions, None
<1>3. version' \in 1 .. MaxVersion /\ version' > version
  BY <1>1, <1>2
<1>4. PagesTyped' /\ \A q \in Pages \ {p} : active'[q] = active[q]
  BY <1>1, <1>3 DEF UpdateInv, PagesTyped, Corpora
<1>5. CountsTyped' /\ TxTyped' /\ MaintTyped'
  BY <1>1, <1>3 DEF UpdateInv, CountsTyped, TxTyped, MaintTyped, Versions, None
<1>6. (Busy' <=> Busy) /\ (Moves' <=> Moves) /\ \A f : Wrote(f)' <=> Wrote(f)
  BY <1>1 DEF Busy, Moves, Wrote
<1>7. Busy => active'[tx.page] = active[tx.page]
  BY <1>1, <1>4, BusyTx DEF Txs
<1>8. Progress' /\ Placed' /\ Overwritten'
  BY <1>1, <1>6, <1>7 DEF UpdateInv, Progress, Placed, Overwritten, Lies, Source, Target
<1>9. Traced' /\ Found' /\ IndexCurrent'
  BY <1>1, <1>6 DEF UpdateInv, Traced, Found, IndexCurrent
<1>10. Waited' /\ RunSound' /\ ManifestHonest'
  BY <1>1, <1>6 DEF UpdateInv, Waited, RunSound, ManifestHonest, InMaint
<1>11. NothingHalf /\ Evaluated
  BY <1>1, SameTx
<1>12. CopiesKept
  BY <1>3 DEF CopiesKept
<1>. QED BY <1>4, <1>5, <1>8, <1>9, <1>10, <1>11, <1>12 DEF Kept, UpdateInv

LEMMA TimePassesKeeps ==
  ASSUME UpdateInv, TimePasses
  PROVE  Kept
<1>1. /\ UNCHANGED <<active, archived, index, log, bad, tx, maint, version, stale>>
      /\ aged < version /\ aged' = version
  BY DEF TimePasses
<1>2. CountsTyped'
  BY <1>1 DEF UpdateInv, CountsTyped
<1>3. PagesTyped' /\ TxTyped' /\ MaintTyped' /\ IndexCurrent'
  BY <1>1 DEF UpdateInv, PagesTyped, TxTyped, MaintTyped, IndexCurrent
<1>4. (Busy' <=> Busy) /\ (Moves' <=> Moves) /\ \A f : Wrote(f)' <=> Wrote(f)
  BY <1>1 DEF Busy, Moves, Wrote
<1>5. Progress' /\ Placed' /\ Overwritten'
  BY <1>1, <1>4 DEF UpdateInv, Progress, Placed, Overwritten, Lies, Source, Target
<1>6. Traced' /\ Found' /\ Waited' /\ ManifestHonest'
  BY <1>1, <1>4 DEF UpdateInv, Traced, Found, Waited, ManifestHonest, InMaint
<1>7. RunSound'
  <2> SUFFICES ASSUME ~InMaint("idle"), NEW i \in DOMAIN maint.todo
               PROVE  maint.todo[i].version <= aged'
    BY <1>1 DEF UpdateInv, RunSound, InMaint
  <2>1. maint \in Runs
    BY DEF UpdateInv, MaintTyped, Restings, InMaint
  <2>2. maint.todo \in Seq(Entries)
    BY <2>1 DEF Runs
  <2>3. maint.todo[i] \in Entries
    BY <2>2
  <2>4. maint.todo[i].version <= aged
    BY DEF UpdateInv, RunSound
  <2>5. maint.todo[i].version \in Int /\ aged \in Int /\ version \in Int
    BY <2>3 DEF Entries, UpdateInv, CountsTyped, Versions
  <2>. QED BY <1>1, <2>4, <2>5
<1>8. NothingHalf /\ Evaluated
  BY <1>1, SameTx
<1>9. CopiesKept
  BY <1>1 DEF CopiesKept, Copies
<1>. QED BY <1>2, <1>3, <1>5, <1>6, <1>7, <1>8, <1>9 DEF Kept, UpdateInv

LEMMA UpdateStutterKeeps ==
  ASSUME UpdateInv, UNCHANGED updateVars
  PROVE  Kept
<1>1. UNCHANGED <<active, archived, index, log, bad, tx, maint, aged, version, stale>>
  BY DEF updateVars
<1>2. PagesTyped' /\ CountsTyped' /\ TxTyped' /\ MaintTyped' /\ IndexCurrent'
  BY <1>1 DEF UpdateInv, PagesTyped, CountsTyped, TxTyped, MaintTyped, IndexCurrent
<1>3. (Busy' <=> Busy) /\ (Moves' <=> Moves) /\ \A f : Wrote(f)' <=> Wrote(f)
  BY <1>1 DEF Busy, Moves, Wrote
<1>4. Progress' /\ Placed' /\ Overwritten'
  BY <1>1, <1>3 DEF UpdateInv, Progress, Placed, Overwritten, Lies, Source, Target
<1>5. Traced' /\ Found' /\ Waited' /\ RunSound' /\ ManifestHonest'
  BY <1>1, <1>3 DEF UpdateInv, Traced, Found, Waited, RunSound, ManifestHonest, InMaint
<1>6. NothingHalf /\ Evaluated
  BY <1>1, SameTx
<1>7. CopiesKept
  BY <1>1 DEF CopiesKept, Copies
<1>. QED BY <1>2, <1>4, <1>5, <1>6, <1>7 DEF Kept, UpdateInv

LEMMA TransactionKeeps == UpdateInv /\ Transaction => Kept
BY LinkPageKeeps, LinkPageFailsKeeps, UnlinkKeepsPages, UnlinkFailsKeeps, CollectKeeps, CommitKeeps,
   CommitFailsKeeps, SucceedKeeps, VerifyFailsKeeps, UndoKeeps, UndoFailsKeeps, UndoEndsKeeps,
   RelinkKeeps, RedropKeeps, UnmoveFailsKeeps, FailKeeps, WriterDiesKeeps DEF Transaction

LEMMA MaintenanceKeeps == UpdateInv /\ Maintenance => Kept
BY ScanKeeps, ExhaustedKeeps, ConsiderKeeps, ArchiveKeeps, RefusedKeeps, JudgeArchiveKeeps,
   SnapshotFailsKeeps DEF Maintenance

LEMMA UpdateStepKeeps == UpdateInv /\ [UpdateNext]_updateVars => Kept
BY TransactionKeeps, MaintenanceKeeps, BeginWriteKeeps, BeginMoveKeeps, HandEditKeeps,
   TimePassesKeeps, UpdateStutterKeeps DEF UpdateNext

LEMMA UpdateStartsSound == UpdateInit => UpdateInv
<1> SUFFICES ASSUME UpdateInit PROVE UpdateInv
  OBVIOUS
<1>1. /\ active = [p \in Pages |-> 1] /\ archived = [p \in Pages |-> None] /\ index = active
      /\ log = <<>> /\ bad = {} /\ tx = Idle /\ maint = Resting("none", 0, 0, FALSE)
      /\ aged = 1 /\ version = 1
  BY DEF UpdateInit
<1>2. 0 \in Versions /\ 1 \in Versions
  BY KnowledgeUpdateAssumption DEF KnowledgeUpdateAssumption, Versions
<1>3. PagesTyped /\ CountsTyped /\ TxTyped /\ IndexCurrent
  BY <1>1, <1>2 DEF PagesTyped, CountsTyped, TxTyped, IndexCurrent, Corpora, Versions, Logs, None
<1>4. ~Busy
  BY <1>1, IdleIs DEF Busy
<1>5. Progress /\ Placed /\ Overwritten /\ Traced /\ Found /\ Waited
  BY <1>4 DEF Progress, Placed, Overwritten, Traced, Found, Waited
<1>6. MaintTyped /\ RunSound /\ ManifestHonest
  BY <1>1 DEF Resting, MaintTyped, Restings, RunSound, ManifestHonest, InMaint
<1>. QED BY <1>3, <1>5, <1>6 DEF UpdateInv

LEMMA ConcatIs ==
  ASSUME NEW S, NEW s \in Seq(S), NEW t \in Seq(S)
  PROVE  Len(s \o t) = Len(s) + Len(t)
OBVIOUS

(* A path that a request can ask for has names only and ends in the page. *)
LEMMA AskedIs ==
  ASSUME NEW op \in Writes \cup Relocations, NEW r \in Asked(op), r.path # NoPath
  PROVE  r.path \in Seq(Segments) /\ Range(r.path) \cap Nameless = {} /\ Last(r.path) = "p.md"
<1>1. ASSUME NEW s \in Spelled, PagePath(s) # NoPath
      PROVE  /\ PagePath(s) \in Seq(Segments) /\ Range(PagePath(s)) \cap Nameless = {}
             /\ Last(PagePath(s)) = "p.md"
  <2>1. PICK n \in 1 .. 4 : s.parts \in [1 .. n -> Segments]
    BY DEF Spelled
  <2>2. s.parts \in Seq(Segments)
    BY <2>1
  <2>3. PagePath(s) = s.parts /\ Range(s.parts) \cap Nameless = {} /\ Last(s.parts) = "p.md"
    BY <1>1 DEF PagePath
  <2>. QED BY <2>2, <2>3
<1>2. ASSUME NEW s \in Spelled, SlugPath(s) # NoPath, NEW type \in Types,
             NEW path, path = <<"wiki/pages", type>> \o SlugPath(s)
      PROVE  path \in Seq(Segments) /\ Range(path) \cap Nameless = {} /\ Last(path) = "p.md"
  <2>1. PICK n \in 1 .. 4 : s.parts \in [1 .. n -> Segments]
    BY DEF Spelled
  <2>2. PICK parts : parts = s.parts
    OBVIOUS
  <2>3. parts \in Seq(Segments) /\ Len(parts) = n
    BY <2>1, <2>2
  <2>4. SlugPath(s) = Append(Front(parts), "p.md") /\ Range(parts) \cap Nameless = {}
    BY <1>2, <2>2 DEF SlugPath
  <2>5. PICK front : front = Front(parts)
    OBVIOUS
  <2>6. front \in Seq(Segments) /\ \A i \in 1 .. Len(front) : i \in 1 .. Len(parts) /\ front[i] = parts[i]
    BY <2>3, <2>5 DEF Front
  <2>7. \A i \in 1 .. Len(front) : front[i] \notin Nameless
    BY <2>3, <2>4, <2>6 DEF Range
  <2>8. PICK slug : slug = Append(front, "p.md")
    OBVIOUS
  <2>0. "p.md" \in Segments /\ "wiki/pages" \in Segments /\ type \in Segments
    BY DEF Segments, Types
  <2>9. /\ slug \in Seq(Segments) /\ Len(slug) = Len(front) + 1 /\ slug[Len(front) + 1] = "p.md"
        /\ \A i \in 1 .. Len(front) : slug[i] = front[i]
    BY <2>0, <2>6, <2>8
  <2>10. "p.md" \notin Nameless /\ "wiki/pages" \notin Nameless /\ type \notin Nameless
    BY DEF Nameless, Types
  <2>11. \A i \in 1 .. Len(slug) : slug[i] \notin Nameless
    BY <2>6, <2>7, <2>9, <2>10
  <2>12. PICK start : start = <<"wiki/pages", type>>
    OBVIOUS
  <2>13. start \in Seq(Segments) /\ Len(start) = 2 /\ start[1] = "wiki/pages" /\ start[2] = type
    BY <2>0, <2>12
  <2>14. path = start \o slug
    BY <1>2, <2>4, <2>5, <2>8, <2>12
  <2>15. /\ path \in Seq(Segments) /\ Len(path) = Len(slug) + 2
         /\ \A i \in 1 .. Len(path) : path[i] = IF i <= 2 THEN start[i] ELSE slug[i - 2]
    <3>1. path \in Seq(Segments)
      BY <2>9, <2>13, <2>14
    <3>2. Len(path) = Len(slug) + 2
      <4>1. Len(path) = Len(start) + Len(slug)
        BY <2>9, <2>13, <2>14, ConcatIs
      <4>2. Len(slug) \in Nat
        BY <2>9
      <4>. QED BY <2>13, <4>1, <4>2
    <3>3. ASSUME NEW i \in 1 .. Len(path)
          PROVE  path[i] = IF i <= 2 THEN start[i] ELSE slug[i - 2]
      BY <2>9, <2>13, <2>14, <3>2
    <3>. QED BY <3>1, <3>2, <3>3
  <2>16. \A i \in 1 .. Len(path) : path[i] \notin Nameless
    BY <2>9, <2>10, <2>11, <2>13, <2>15
  <2>17. Last(path) = "p.md"
    BY <2>6, <2>9, <2>15 DEF Last
  <2>. QED BY <2>15, <2>16, <2>17 DEF Range
<1>3. CASE op \in Writes
  <2>1. PICK type \in Types, field \in Fields, s \in Spelled : r.path = WritePath(type, field, s)
    <3>1. PICK q \in {t \in Types : \E fm \in Frontmatter : Describes(t, fm)} \X Fields \X Spelled :
            r = [type |-> q[1], path |-> WritePath(q[1], q[2], q[3])]
      BY <1>3 DEF Asked
    <3>2. q[1] \in Types /\ q[2] \in Fields /\ q[3] \in Spelled
      OBVIOUS
    <3>. QED BY <3>1, <3>2
  <2>2. CASE field = "path"
    <3>1. r.path = PagePath(s) /\ PagePath(s) # NoPath
      BY <2>1, <2>2 DEF WritePath
    <3>. QED BY <1>1, <3>1
  <2>3. CASE field = "slug"
    <3>1. r.path = <<"wiki/pages", type>> \o SlugPath(s) /\ SlugPath(s) # NoPath
      BY <2>1, <2>3 DEF WritePath
    <3>. QED BY <1>2, <3>1
  <2>. QED BY <2>2, <2>3 DEF Fields
<1>4. CASE op \notin Writes
  <2>1. PICK s \in Spelled : MovePath(s) # NoPath /\ r = [type |-> MovePath(s)[2], path |-> MovePath(s)]
    BY <1>4 DEF Asked
  <2>2. r.path = PagePath(s) /\ PagePath(s) # NoPath
    BY <2>1 DEF MovePath
  <2>. QED BY <1>1, <2>2
<1>. QED BY <1>3, <1>4

LEMMA PairIs ==
  ASSUME NEW s, NEW a, NEW b, s = <<a, b>>
  PROVE  s[1] = a /\ s[2] = b
OBVIOUS

LEMMA NothingAstray == Astray = {}
<1> SUFFICES ASSUME NEW op \in Writes \cup Relocations, NEW r \in Admitted(op),
                    NEW p, p = Resolve(r.path)
             PROVE  ~(Len(p) < 3 \/ p[1] # "wiki/pages" \/ p[2] # r.type \/ Last(p) # "p.md")
  BY DEF Astray
<1>1. r \in Requests[op] /\ Below(r.type, p)
  BY DEF Admitted
<1>2. r \in Asked(op) /\ r.path # NoPath
  BY <1>1 DEF Requests
<1>3. r.path \in Seq(Segments) /\ Range(r.path) \cap Nameless = {} /\ Last(r.path) = "p.md"
  BY <1>2, AskedIs
<1>4. p = r.path
  BY <1>3 DEF Resolve
<1>5. p \in Seq(Segments) /\ Len(p) >= 3 /\ SubSeq(p, 1, 2) = <<"wiki/pages", r.type>> /\ Last(p) = "p.md"
  BY <1>1, <1>3, <1>4 DEF Below
<1>6. SubSeq(p, 1, 2)[1] = p[1] /\ SubSeq(p, 1, 2)[2] = p[2]
  BY <1>5
<1>7. PICK start : start = SubSeq(p, 1, 2)
  OBVIOUS
<1>8. start[1] = "wiki/pages" /\ start[2] = r.type
  BY <1>5, <1>7, PairIs
<1>. QED BY <1>5, <1>6, <1>7, <1>8

LEMMA NothingLeading == Leading = {}
<1>1. ASSUME NEW g, Safe(g)
      PROVE  "link" \notin Range(g)
  BY <1>1 DEF Safe
<1>2. ASSUME NEW op \in Writes \cup Relocations, NEW w \in Ways(op)
      PROVE  Safe(w[1]) /\ Safe(w[2])
  <2>1. CASE op \in Writes
    BY <2>1 DEF Ways, Fits
  <2>2. CASE op = "archive"
    BY <2>2 DEF Ways, Writes
  <2>3. CASE op = "restore"
    BY <2>3 DEF Ways, Writes
  <2>. QED BY <2>1, <2>2, <2>3 DEF Relocations
<1>3. ASSUME NEW g \in Managed
      PROVE  Safe(g)
  BY DEF Managed, Fits
<1>4. ASSUME NEW w, \/ w \in UNION {Ways(op) : op \in Writes \cup Relocations}
                     \/ w \in {<<g, g>> : g \in Managed}
      PROVE  "link" \notin Range(w[1]) \cup Range(w[2])
  <2>1. CASE w \in UNION {Ways(op) : op \in Writes \cup Relocations}
    <3>1. PICK op \in Writes \cup Relocations : w \in Ways(op)
      BY <2>1
    <3>2. Safe(w[1]) /\ Safe(w[2])
      BY <1>2, <3>1
    <3>3. "link" \notin Range(w[1])
      BY <1>1, <3>2
    <3>4. "link" \notin Range(w[2])
      BY <1>1, <3>2
    <3>. QED BY <3>3, <3>4
  <2>2. CASE w \in {<<g, g>> : g \in Managed}
    <3>1. PICK g \in Managed : w = <<g, g>>
      BY <2>2
    <3>2. w[1] = g /\ w[2] = g
      BY <3>1, PairIs
    <3>3. "link" \notin Range(g)
      BY <1>1, <1>3
    <3>4. "link" \notin Range(w[1])
      BY <3>2, <3>3, Zenon
    <3>5. "link" \notin Range(w[2])
      BY <3>2, <3>3, Zenon
    <3>. QED BY <3>4, <3>5
  <2>. QED BY <1>4, <2>1, <2>2
<1>. QED BY <1>4 DEF Leading

LEMMA NothingMisfiled == Misfiled = {}
<1>1. ASSUME NEW type, NEW fm, Describes(type, fm)
      PROVE  ReadAs(type, fm) = type
  BY <1>1 DEF Describes, ReadAs
<1>. QED BY <1>1 DEF Misfiled

LEMMA UpdateTypes == UpdateInv => UpdateTypeOK
<1> SUFFICES ASSUME UpdateInv PROVE UpdateTypeOK
  OBVIOUS
<1>1. tx.pc \in Phases \cup {"idle"}
  BY IdleIs DEF UpdateInv, TxTyped, Txs
<1>2. maint.pc \in {"idle", "next", "archive", "waiting", "verify"}
  BY DEF UpdateInv, MaintTyped, Restings, Runs
<1>. QED BY <1>1, <1>2 DEF UpdateInv, PagesTyped, CountsTyped, UpdateTypeOK, Phases, Logs, Versions

(* knowledge/update.ts and knowledge/maintenance.ts keep their types. *)
THEOREM UpdateTypeCorrect == UpdateSpec => []UpdateTypeOK
<1>1. UpdateSpec => []UpdateInv
  BY UpdateStartsSound, UpdateStepKeeps, PTL DEF UpdateSpec, Kept
<1>. QED BY <1>1, UpdateTypes, PTL

(* Between transactions the index lists the pages in force unless a crash, a
   failed rollback or a hand edit came between; a maintenance run that stops
   in order has counted what it archived; and what is written or moved is a
   page in the folder of its type (executeWriteRequest, executeMoveRequest,
   executeKnowledgeMaintenance). *)
THEOREM WorkspaceIsHonest == UpdateSpec => []WorkspaceHonest
<1>1. UpdateSpec => []UpdateInv
  BY UpdateStartsSound, UpdateStepKeeps, PTL DEF UpdateSpec, Kept
<1>2. UpdateInv => WorkspaceHonest
  BY NothingAstray, NothingLeading, NothingMisfiled
     DEF UpdateInv, WorkspaceHonest, RequestsStayHome
<1>. QED BY <1>1, <1>2, PTL

(* A transaction that reports success has done all of its work; one that
   reports a failure and could be rolled back has left no trace. *)
THEOREM NothingIsDoneByHalf == UpdateSpec => AllOrNothing
<1>1. UpdateSpec => []UpdateInv
  BY UpdateStartsSound, UpdateStepKeeps, PTL DEF UpdateSpec, Kept
<1>2. UpdateInv /\ [UpdateNext]_updateVars => NothingHalf
  BY UpdateStepKeeps DEF Kept
<1>. QED BY <1>1, <1>2, PTL DEF UpdateSpec, AllOrNothing, NothingHalf

(* No step of a move, of its rollback or of a crash takes the last copy of a
   page away (moveFileNoClobber, rollbackMove). *)
THEOREM LastCopyIsKept == UpdateSpec => LastCopyKept
<1>1. UpdateSpec => []UpdateInv
  BY UpdateStartsSound, UpdateStepKeeps, PTL DEF UpdateSpec, Kept
<1>2. UpdateInv /\ [UpdateNext]_updateVars => CopiesKept
  BY UpdateStepKeeps DEF Kept
<1>. QED BY <1>1, <1>2, PTL DEF UpdateSpec, LastCopyKept, CopiesKept

(* Maintenance archives a page only in the version it evaluated, above the
   low watermark (verifyArchivePrecondition under the lock). *)
THEOREM OnlyWhatWasEvaluated == UpdateSpec => OnlyEvaluatedArchived
<1>1. UpdateSpec => []UpdateInv
  BY UpdateStartsSound, UpdateStepKeeps, PTL DEF UpdateSpec, Kept
<1>2. UpdateInv /\ [UpdateNext]_updateVars => Evaluated
  BY UpdateStepKeeps DEF Kept
<1>. QED BY <1>1, <1>2, PTL DEF UpdateSpec, OnlyEvaluatedArchived, Evaluated
=============================================================================
