------------------------ MODULE CronHealthLockProofs ------------------------
(* One run at a time updates the counters of a cron, no increment is lost  *)
(* and no entry is left, for any number of runs, inodes and crashes.       *)
EXTENDS CronHealthLock, FiniteSetTheorems, TLAPS

(* The directory that is there was made by a mkdir. *)
DirIsReal == Exists => dir.ino \in Inodes

Typed == TypeOK /\ DirIsReal

(* A holder's owner entry is in the directory. *)
HolderMarked == \A p \in Procs : pc[p] \in Held => Owner(p) \in dir.names

(* A recovery about to remove an owner entry saw its owner dead. *)
RemovesDead ==
    \A p, q \in Procs : pc[p] = "rmOwner" /\ Owner(q) \in seen[p].names => Dead(q)

(* An entry lies in the directory only while its process is between its    *)
(* creation and its removal, or dead.                                      *)
OwnerSteps == {"restat", "relist", "cleanOwner", "dead"} \union Held
ClaimSteps == OwnerSteps \union {"owner", "cleanClaim", "relClaim"}

EntriesBelong ==
    \A p \in Procs :
        /\ Owner(p) \in dir.names => pc[p] \in OwnerSteps
        /\ Claim(p) \in dir.names => pc[p] \in ClaimSteps

(* A process that is to publish has not yet, and one about to write read   *)
(* the counter that is published.                                          *)
Publishing ==
    \A p \in Procs :
        /\ pc[p] \in Recovery \union Acquisition \union {"read", "write"} => p \notin wrote
        /\ pc[p] = "write" => prev[p] = total

LockInv ==
    /\ Typed /\ HolderMarked /\ RemovesDead /\ EntriesBelong
    /\ MutualExclusion /\ Publishing /\ CountsExact

(* Entries of different kinds or processes are different. *)
LEMMA EntryNames ==
    \A p, q \in Procs :
        /\ Claim(p) \in Entries /\ Owner(p) \in Entries /\ Claim(p) # Owner(q)
        /\ Owner(p) = Owner(q) => p = q
        /\ Claim(p) = Claim(q) => p = q
        /\ <<"owner", p>> = Owner(p) /\ <<"claim", p>> = Claim(p)
BY DEF Claim, Owner, Entries

(* The directory is one. *)
LEMMA DirShape ==
    ASSUME Typed
    PROVE  /\ dir = [ino |-> dir.ino, names |-> dir.names, old |-> dir.old]
           /\ dir.names \in SUBSET Entries
           /\ dir.old \in BOOLEAN
           /\ (dir.ino \in Inodes /\ Exists) \/ dir = NoDir
           /\ NoDir \in Dirs /\ NoDir.names = {}
           /\ 0 \notin Inodes /\ NoDir.ino = 0
<1>1. NoDir \in Dirs /\ NoDir.names = {} /\ NoDir.ino = 0
  BY DEF NoDir, Dirs, Entries
<1>2. dir \in Dirs
  BY DEF Typed, TypeOK
<1> QED
  BY <1>1, <1>2, LockAssumption DEF Typed, DirIsReal, Dirs, Exists

(* At the start there is no lock, or one that a run left behind. *)
LEMMA InitTyped == Init => Typed
<1> SUFFICES ASSUME Init
             PROVE  Typed
  OBVIOUS
<1>1. pc \in [Procs -> Steps] /\ \A p \in Procs : pc[p] \in {"dead", "mkdir"}
  BY DEF Init, Steps, Recovery, Acquisition, Cleanup, Held, Release, Ended
<1>2. NoDir \in Dirs
  BY DEF NoDir, Dirs, Entries
<1>3. ASSUME NEW p \in Procs, dir \in Abandoned(p)
      PROVE  dir \in Dirs /\ dir.ino \in Inodes
  <2>1. PICK i \in Inodes, n \in {{}, {Claim(p)}, {Claim(p), Owner(p)}} :
            dir = [ino |-> i, names |-> n, old |-> FALSE]
    BY <1>3 DEF Abandoned
  <2>2. n \in SUBSET Entries
    BY EntryNames
  <2> QED
    BY <2>1, <2>2 DEF Dirs
<1>4. dir \in Dirs /\ DirIsReal
  BY <1>2, <1>3 DEF Init, DirIsReal, Exists
<1> QED
  BY <1>1, <1>2, <1>4 DEF Init, Typed, TypeOK, Held

-----------------------------------------------------------------------------
(* Types. *)

(* A new entry makes the directory young. *)
LEMMA AddType ==
    ASSUME Typed, NEW e \in Entries, Add(e), Exists
    PROVE  /\ dir' = [ino |-> dir.ino, names |-> dir.names \union {e}, old |-> FALSE]
           /\ dir'.names = dir.names \union {e}
           /\ dir' \in Dirs /\ dir'.ino \in Inodes
<1>1. dir' = [ino |-> dir.ino, names |-> dir.names \union {e}, old |-> FALSE]
  BY DirShape DEF Add
<1> QED
  BY <1>1, DirShape DEF Dirs, Exists

(* So does the removal of one. *)
LEMMA RemoveType ==
    ASSUME Typed, NEW e, Remove(e)
    PROVE  /\ dir'.names = dir.names \ {e}
           /\ dir' \in Dirs /\ (dir'.ino \in Inodes \/ dir' = NoDir)
<1>1. dir' = [ino |-> dir.ino, names |-> dir.names \ {e}, old |-> FALSE]
  BY DirShape DEF Remove
<1>2. dir = NoDir => dir' = NoDir
  <2>1. {} \ {e} = {}
    OBVIOUS
  <2> QED
    BY <1>1, <2>1 DEF NoDir
<1>3. dir.names \ {e} \in SUBSET Entries
  BY DirShape
<1>4. dir'.names = dir.names \ {e} /\ dir'.ino = dir.ino
  BY <1>1
<1>5. dir' \in Dirs
  BY <1>1, <1>3, DirShape DEF Dirs, NoDir
<1> QED
  BY <1>2, <1>4, <1>5, DirShape

(* The directory itself goes only when it is empty. *)
LEMMA RemoveDirType ==
    ASSUME Typed, RemoveDir
    PROVE  /\ dir'.names = dir.names
           /\ dir' \in Dirs /\ (dir'.ino \in Inodes \/ dir' = NoDir)
<1>1. dir \in Dirs
  BY DEF Typed, TypeOK
<1> QED
  BY <1>1, DirShape DEF RemoveDir

LEMMA AcquireTyped ==
    ASSUME Typed, NEW p \in Procs,
           MakeDir(p) \/ DirExists(p) \/ GiveUp(p) \/ StatDir(p) \/ PutClaim(p)
           \/ PutOwner(p) \/ Restat(p) \/ Relist(p)
    PROVE  Typed'
<1> USE DEF Typed, TypeOK, DirIsReal, Goes, file, Steps, Recovery, Acquisition, Cleanup, Held,
        Release, Ended
<1>1. CASE MakeDir(p)
  <2> PICK i \in Inodes : dir' = [ino |-> i, names |-> {}, old |-> FALSE]
    BY <1>1 DEF MakeDir
  <2>1. dir' \in Dirs /\ dir'.ino \in Inodes
    BY DEF Dirs
  <2> QED
    BY <1>1, <2>1 DEF MakeDir
<1>2. CASE DirExists(p) \/ GiveUp(p)
  BY <1>2 DEF DirExists, GiveUp, Exists
<1>3. CASE StatDir(p)
  <2>1. dir.ino \in Inodes \union {0} /\ (Exists => dir.ino # 0)
    BY DirShape DEF Exists
  <2> QED
    BY <1>3, <2>1 DEF StatDir, Exists
<1>4. CASE PutClaim(p)
  <2>1. dir' \in Dirs /\ (dir' # NoDir => dir'.ino \in Inodes)
    BY <1>4, EntryNames, AddType DEF PutClaim, Exists
  <2> QED
    BY <1>4, <2>1 DEF PutClaim, Exists
<1>5. CASE PutOwner(p)
  <2>1. dir' \in Dirs /\ (dir' # NoDir => dir'.ino \in Inodes)
    BY <1>5, EntryNames, AddType DEF PutOwner, Exists
  <2> QED
    BY <1>5, <2>1 DEF PutOwner, Exists
<1>6. CASE Restat(p) \/ Relist(p)
  BY <1>6 DEF Restat, Relist, Exists
<1> QED
  BY <1>1, <1>2, <1>3, <1>4, <1>5, <1>6

LEMMA CleanTyped ==
    ASSUME Typed, NEW p \in Procs, Clean(p) \/ Unlock(p)
    PROVE  Typed'
<1> USE DEF Typed, TypeOK, DirIsReal, Goes, file, Steps, Recovery, Acquisition, Cleanup, Held,
        Release, Ended
<1>1. ASSUME NEW at, NEW e, NEW next \in Cleanup \union Ended, CleanEntry(p, at, e, next)
      PROVE  Typed'
  <2>1. dir' \in Dirs /\ (dir' # NoDir => dir'.ino \in Inodes)
    BY <1>1, RemoveType DEF CleanEntry, Exists
  <2> QED
    BY <1>1, <2>1 DEF CleanEntry, Exists
<1>2. ASSUME NEW at, NEW e, NEW next \in Release, ReleaseEntry(p, at, e, next)
      PROVE  Typed'
  <2>1. dir' \in Dirs /\ (dir' # NoDir => dir'.ino \in Inodes)
    BY <1>2, RemoveType DEF ReleaseEntry, Exists
  <2> QED
    BY <1>2, <2>1 DEF ReleaseEntry, Exists
<1>3. CASE CleanDir(p) \/ ReleaseDir(p)
  <2>1. dir' \in Dirs /\ (dir' # NoDir => dir'.ino \in Inodes)
    BY <1>3, RemoveDirType DEF CleanDir, ReleaseDir, Exists
  <2> QED
    BY <1>3, <2>1 DEF CleanDir, ReleaseDir, Exists
<1> QED
  BY <1>1, <1>2, <1>3 DEF Clean, Unlock

LEMMA RecoverTyped ==
    ASSUME Typed, NEW p \in Procs, Recover(p)
    PROVE  Typed'
<1> USE DEF Typed, TypeOK, DirIsReal, Goes, file, Steps, Recovery, Acquisition, Cleanup, Held,
        Release, Ended
<1>1. CASE Look(p)
  BY <1>1 DEF Look, Exists
<1>2. CASE List(p)
  <2>1. [seen[p] EXCEPT !.names = dir.names] \in Dirs
    BY DirShape DEF Dirs
  <2>2. Verdict(dir.names, seen[p].old) \in Recovery \union {"mkdir", "failed"}
    BY DEF Verdict
  <2>3. seen' \in [Procs -> Dirs]
    BY <1>2, <2>1 DEF List
  <2>4. pc' \in [Procs -> Steps]
        /\ \A q \in Procs : pc'[q] = pc[q] \/ pc'[q] \in Recovery \union {"mkdir", "failed"}
    BY <1>2, <2>2 DEF List
  <2> QED
    BY <1>2, <2>3, <2>4 DEF List, Exists
<1>3. ASSUME NEW at, NEW kind, NEW next \in Recovery, Unlink(p, at, kind, next)
      PROVE  Typed'
  <2>1. dir' \in Dirs /\ (dir' # NoDir => dir'.ino \in Inodes)
    BY <1>3, RemoveType DEF Unlink, Exists
  <2>2. Goes(p, next) \/ Goes(p, "mkdir")
    BY <1>3 DEF Unlink
  <2> QED
    BY <1>3, <2>1, <2>2 DEF Unlink, Exists
<1>4. CASE UnlinkDir(p)
  <2>1. dir' \in Dirs /\ (dir' # NoDir => dir'.ino \in Inodes)
    BY <1>4, RemoveDirType DEF UnlinkDir, Exists
  <2> QED
    BY <1>4, <2>1 DEF UnlinkDir, Exists
<1> QED
  BY <1>1, <1>2, <1>3, <1>4 DEF Recover

LEMMA NextTyped == ASSUME Typed, [Next]_vars PROVE Typed'
<1> USE DEF Typed, TypeOK, DirIsReal, Goes, file, Steps, Recovery, Acquisition, Cleanup, Held,
        Release, Ended
<1>1. CASE UNCHANGED vars
  BY <1>1 DEF vars, Exists
<1>2. CASE Age
  <2>1. dir' = [ino |-> dir.ino, names |-> dir.names, old |-> TRUE]
    BY <1>2, DirShape DEF Age
  <2>2. dir' \in Dirs /\ dir'.ino \in Inodes
    BY <1>2, <2>1, DirShape DEF Dirs, Age, Exists
  <2> QED
    BY <1>2, <2>2 DEF Age, Exists
<1>3. ASSUME NEW p \in Procs, ReadCounts(p) \/ WriteSnapshot(p) \/ Abort(p) \/ Crash(p)
      PROVE  Typed'
  BY <1>3 DEF ReadCounts, WriteSnapshot, Abort, Crash, Exists
<1> QED
  BY <1>1, <1>2, <1>3, AcquireTyped, CleanTyped, RecoverTyped DEF Next, Step

-----------------------------------------------------------------------------
(* Entries. *)

(* A step of a process leaves the others where they are. *)
LEMMA OthersStay ==
    ASSUME Typed, NEW p \in Procs, Step(p) \/ Crash(p), NEW q \in Procs, q # p
    PROVE  pc'[q] = pc[q] /\ seen'[q] = seen[q] /\ prev'[q] = prev[q]
<1>1. pc \in [Procs -> Steps] /\ seen \in [Procs -> Dirs] /\ prev \in [Procs -> Nat]
  BY DEF Typed, TypeOK
<1> USE <1>1 DEF Goes, file
<1>2. CASE MakeDir(p) \/ DirExists(p) \/ GiveUp(p) \/ StatDir(p) \/ PutClaim(p)
           \/ PutOwner(p) \/ Restat(p) \/ Relist(p)
  BY <1>2 DEF MakeDir, DirExists, GiveUp, StatDir, PutClaim, PutOwner, Restat, Relist
<1>3. CASE Clean(p) \/ Unlock(p)
  BY <1>3 DEF Clean, CleanEntry, CleanDir, Unlock, ReleaseEntry, ReleaseDir
<1>4. CASE Look(p)
  BY <1>4 DEF Look
<1>5. CASE List(p)
  BY <1>5 DEF List
<1>6. ASSUME NEW at, NEW kind, NEW next, Unlink(p, at, kind, next)
      PROVE  pc'[q] = pc[q] /\ seen'[q] = seen[q] /\ prev'[q] = prev[q]
  <2>1. Goes(p, next) \/ Goes(p, "mkdir")
    BY <1>6 DEF Unlink
  <2> QED
    BY <1>6, <2>1 DEF Unlink
<1>7. CASE UnlinkDir(p)
  BY <1>7 DEF UnlinkDir
<1>8. CASE ReadCounts(p) \/ WriteSnapshot(p) \/ Abort(p) \/ Crash(p)
  BY <1>8 DEF ReadCounts, WriteSnapshot, Abort, Crash
<1> QED
  BY <1>2, <1>3, <1>4, <1>5, <1>6, <1>7, <1>8 DEF Step, Recover

(* What a step of p does to the entries: it takes away its own, or the     *)
(* owner entry of a dead process; it adds but its own.                     *)
EntriesStep(p) ==
    /\ \A q \in Procs \ {p} :
          /\ Owner(q) \in dir'.names => Owner(q) \in dir.names
          /\ Claim(q) \in dir'.names => Claim(q) \in dir.names
          /\ Owner(q) \in dir.names \ dir'.names => Dead(q)
    /\ Owner(p) \in dir'.names => pc'[p] \in OwnerSteps
    /\ Claim(p) \in dir'.names => pc'[p] \in ClaimSteps
    /\ pc'[p] \in Held => Owner(p) \in dir'.names
    /\ pc'[p] \in Held => pc[p] \in Held \/ (pc[p] = "relist" /\ OnlyOwn(p))
    /\ Owner(p) \in dir.names \ dir'.names => pc[p] \in {"relOwner", "cleanOwner"}

EntriesFacts(p) ==
    /\ pc \in [Procs -> Steps]
    /\ pc[p] \in Held => Owner(p) \in dir.names
    /\ Owner(p) \in dir.names => pc[p] \in OwnerSteps
    /\ Claim(p) \in dir.names => pc[p] \in ClaimSteps

LEMMA FactsOf ==
    ASSUME Typed, HolderMarked, EntriesBelong, NEW p \in Procs
    PROVE  EntriesFacts(p)
BY DEF Typed, TypeOK, HolderMarked, EntriesBelong, EntriesFacts

(* A step that leaves the entries alone. *)
LEMMA SameEntries ==
    ASSUME NEW p \in Procs, EntriesFacts(p), dir'.names = dir.names,
           NEW s \in Steps, Goes(p, s),
           pc[p] \in OwnerSteps => s \in OwnerSteps \/ Owner(p) \notin dir.names,
           pc[p] \in ClaimSteps => s \in ClaimSteps \/ Claim(p) \notin dir.names,
           s \in Held => pc[p] \in Held \/ (pc[p] = "relist" /\ OnlyOwn(p))
    PROVE  EntriesStep(p)
<1>1. pc'[p] = s
  BY DEF EntriesFacts, Goes
<1>2. OnlyOwn(p) => Owner(p) \in dir.names
  BY DEF OnlyOwn
<1> QED
  BY <1>1, <1>2 DEF EntriesStep, EntriesFacts

LEMMA AcquireEntries ==
    ASSUME Typed, NEW p \in Procs, EntriesFacts(p),
           MakeDir(p) \/ DirExists(p) \/ GiveUp(p) \/ StatDir(p) \/ Restat(p) \/ Relist(p)
    PROVE  EntriesStep(p)
<1> USE DEF Steps, Recovery, Acquisition, Cleanup, Held, Release, Ended, OwnerSteps, ClaimSteps
<1>1. CASE MakeDir(p)
  <2>1. dir.names = {} /\ dir'.names = {}
    BY <1>1, DirShape DEF MakeDir, Exists
  <2> QED
    BY <1>1, <2>1, SameEntries DEF MakeDir
<1>2. CASE DirExists(p) \/ GiveUp(p)
  BY <1>2, SameEntries DEF DirExists, GiveUp
<1>3. CASE StatDir(p)
  BY <1>3, SameEntries DEF StatDir
<1>4. CASE Restat(p)
  BY <1>4, SameEntries DEF Restat
<1>5. CASE Relist(p)
  BY <1>5, SameEntries DEF Relist
<1> QED
  BY <1>1, <1>2, <1>3, <1>4, <1>5

LEMMA PutEntries ==
    ASSUME Typed, NEW p \in Procs, EntriesFacts(p), PutClaim(p) \/ PutOwner(p)
    PROVE  EntriesStep(p)
<1> USE DEF Steps, Recovery, Acquisition, Cleanup, Held, Release, Ended, OwnerSteps, ClaimSteps
<1>1. CASE PutClaim(p) /\ Exists
  <2>1. dir'.names = dir.names \union {Claim(p)} /\ pc'[p] = "owner" /\ pc[p] = "claim"
    BY <1>1, AddType, EntryNames DEF PutClaim, EntriesFacts, Goes
  <2> QED
    BY <2>1, EntryNames DEF EntriesStep, EntriesFacts
<1>2. CASE PutOwner(p) /\ Exists
  <2>1. dir'.names = dir.names \union {Owner(p)} /\ pc'[p] = "restat" /\ pc[p] = "owner"
    BY <1>2, AddType, EntryNames DEF PutOwner, EntriesFacts, Goes
  <2> QED
    BY <2>1, EntryNames DEF EntriesStep, EntriesFacts
<1>3. CASE ~Exists
  BY <1>3, SameEntries, EntryNames, DirShape DEF PutClaim, PutOwner
<1> QED
  BY <1>1, <1>2, <1>3

(* A process takes its own entry away. *)
LEMMA OwnRemoved ==
    ASSUME Typed, NEW p \in Procs, EntriesFacts(p), NEW next, Goes(p, next),
           \/ /\ pc[p] \in {"cleanOwner", "relOwner"} /\ dir'.names = dir.names \ {Owner(p)}
              /\ next \in ClaimSteps
           \/ /\ pc[p] \in {"cleanClaim", "relClaim"} /\ dir'.names = dir.names \ {Claim(p)},
           next \notin Held
    PROVE  EntriesStep(p)
<1>1. pc'[p] = next
  BY DEF EntriesFacts, Goes
<1> QED
  BY <1>1, EntryNames DEF EntriesStep, EntriesFacts, OwnerSteps, ClaimSteps, Held

LEMMA CleanEntries ==
    ASSUME Typed, NEW p \in Procs, EntriesFacts(p), Clean(p) \/ Unlock(p)
    PROVE  EntriesStep(p)
<1> USE DEF Steps, Recovery, Acquisition, Cleanup, Held, Release, Ended, OwnerSteps, ClaimSteps
<1>1. ASSUME NEW at, NEW e, NEW next, CleanEntry(p, at, e, next)
      PROVE  pc[p] = at /\ Goes(p, next) /\ dir'.names = dir.names \ {e}
  BY <1>1, RemoveType DEF CleanEntry
<1>2. CASE CleanEntry(p, "cleanOwner", Owner(p), "cleanClaim")
  BY <1>1, <1>2, OwnRemoved
<1>3. CASE CleanEntry(p, "cleanClaim", Claim(p), "cleanDir")
  BY <1>1, <1>3, OwnRemoved
<1>4. CASE ReleaseEntry(p, "relOwner", Owner(p), "relClaim")
  <2>1. Owner(p) \in dir.names /\ pc[p] = "relOwner" /\ Goes(p, "relClaim")
    BY <1>4 DEF ReleaseEntry, EntriesFacts
  <2>2. dir'.names = dir.names \ {Owner(p)}
    BY <1>4, <2>1, RemoveType DEF ReleaseEntry
  <2> QED
    BY <2>1, <2>2, OwnRemoved
<1>5. CASE ReleaseEntry(p, "relClaim", Claim(p), "relDir")
  <2>1. pc[p] = "relClaim" /\ (Goes(p, "relDir") \/ Goes(p, "failed"))
    BY <1>5 DEF ReleaseEntry
  <2>2. dir'.names = dir.names \ {Claim(p)}
    BY <1>5, RemoveType DEF ReleaseEntry
  <2> QED
    BY <2>1, <2>2, OwnRemoved
<1>6. CASE CleanDir(p) \/ ReleaseDir(p)
  <2>1. dir'.names = dir.names
    BY <1>6, RemoveDirType DEF CleanDir, ReleaseDir
  <2> QED
    BY <1>6, <2>1, SameEntries DEF CleanDir, ReleaseDir
<1> QED
  BY <1>2, <1>3, <1>4, <1>5, <1>6 DEF Clean, Unlock

LEMMA RecoverEntries ==
    ASSUME Typed, RemovesDead, NEW p \in Procs, EntriesFacts(p), Recover(p)
    PROVE  EntriesStep(p)
<1> USE DEF Steps, Recovery, Acquisition, Cleanup, Held, Release, Ended, OwnerSteps, ClaimSteps
<1>1. CASE Look(p)
  BY <1>1, SameEntries DEF Look
<1>2. CASE List(p)
  <2> DEFINE s == IF Exists THEN Verdict(dir.names, seen[p].old) ELSE "mkdir"
  <2>1. s \in {"mkdir", "rmDir", "rmOwner", "rmClaim", "failed"}
    BY DEF Verdict
  <2>2. Goes(p, s) /\ pc[p] = "list" /\ dir' = dir
    BY <1>2 DEF List
  <2> HIDE DEF s
  <2> QED
    BY <2>1, <2>2, SameEntries
<1>3. ASSUME NEW at \in {"rmOwner", "rmClaim"}, NEW kind, NEW next \in Recovery,
             Unlink(p, at, kind, next), at = "rmOwner" <=> kind = "owner",
             kind \in {"claim", "owner"}
      PROVE  EntriesStep(p)
  <2>1. PICK q \in Procs :
            /\ <<kind, q>> \in seen[p].names
            /\ IF <<kind, q>> \in dir.names
               THEN Remove(<<kind, q>>) /\ Goes(p, next)
               ELSE UNCHANGED dir /\ Goes(p, "mkdir")
    BY <1>3 DEF Unlink
  <2>2. pc[p] = at
    BY <1>3 DEF Unlink
  <2>3. CASE <<kind, q>> \notin dir.names
    BY <2>1, <2>2, <2>3, SameEntries
  <2>4. CASE <<kind, q>> \in dir.names
    <3>1. dir'.names = dir.names \ {<<kind, q>>}
      BY <2>1, <2>4, RemoveType
    <3>2. pc'[p] = next /\ next \notin Held /\ next \notin ClaimSteps
      BY <2>1, <2>4, <1>3 DEF EntriesFacts, Goes
    <3>3. Owner(p) \notin dir.names /\ Claim(p) \notin dir.names
      BY <2>2 DEF EntriesFacts
    <3>4. kind = "owner" => Dead(q)
      BY <1>3, <2>1, <2>2, EntryNames DEF RemovesDead
    <3>5. \A r \in Procs : Owner(r) \in dir.names \ dir'.names => Dead(r)
      BY <1>3, <3>1, <3>4, EntryNames
    <3> QED
      BY <3>1, <3>2, <3>3, <3>5 DEF EntriesStep
  <2> QED
    BY <2>3, <2>4
<1>4. CASE UnlinkDir(p)
  <2>1. dir'.names = dir.names
    BY <1>4, RemoveDirType DEF UnlinkDir
  <2> QED
    BY <1>4, <2>1, SameEntries DEF UnlinkDir
<1> QED
  BY <1>1, <1>2, <1>3, <1>4 DEF Recover

LEMMA HoldEntries ==
    ASSUME Typed, NEW p \in Procs, EntriesFacts(p),
           ReadCounts(p) \/ WriteSnapshot(p) \/ Abort(p) \/ Crash(p)
    PROVE  EntriesStep(p)
<1> USE DEF Steps, Recovery, Acquisition, Cleanup, Held, Release, Ended, OwnerSteps, ClaimSteps
<1>1. CASE ReadCounts(p)
  BY <1>1, SameEntries DEF ReadCounts
<1>2. CASE WriteSnapshot(p)
  BY <1>2, SameEntries DEF WriteSnapshot
<1>3. CASE Abort(p)
  BY <1>3, SameEntries DEF Abort
<1>4. CASE Crash(p)
  BY <1>4, SameEntries DEF Crash
<1> QED
  BY <1>1, <1>2, <1>3, <1>4

LEMMA StepEntries ==
    ASSUME Typed, HolderMarked, RemovesDead, EntriesBelong, NEW p \in Procs, Step(p) \/ Crash(p)
    PROVE  EntriesStep(p)
<1>1. EntriesFacts(p)
  BY FactsOf
<1> QED
  BY <1>1, AcquireEntries, PutEntries, CleanEntries, RecoverEntries, HoldEntries DEF Step

(* A dead process stays dead. *)
LEMMA DeadStays ==
    ASSUME Typed, NEW p \in Procs, Step(p) \/ Crash(p)
    PROVE  ~Dead(p) \/ pc'[p] = "dead"
BY DEF Typed, TypeOK, Goes, Dead, Step, MakeDir, DirExists, GiveUp, StatDir, PutClaim, PutOwner, Restat,
       Relist, Clean, CleanEntry, CleanDir, Recover, Look, List, Unlink, UnlinkDir, ReadCounts,
       WriteSnapshot, Abort, Unlock, ReleaseEntry, ReleaseDir, Crash, Ended

(* The exclusion, and what it rests on, is kept by every step. *)
LEMMA ExclusionKept ==
    ASSUME Typed, HolderMarked, RemovesDead, EntriesBelong, MutualExclusion,
           NEW p \in Procs, Step(p) \/ Crash(p)
    PROVE  HolderMarked' /\ EntriesBelong' /\ MutualExclusion'
<1>1. EntriesStep(p)
  BY StepEntries
<1>2. \A q \in Procs \ {p} : pc'[q] = pc[q]
  BY OthersStay
<1>3. HolderMarked'
  <2> SUFFICES ASSUME NEW q \in Procs, pc'[q] \in Held
               PROVE  Owner(q) \in dir'.names
    BY DEF HolderMarked, Held, Owner
  <2>1. CASE q = p
    BY <1>1, <2>1 DEF EntriesStep
  <2>2. CASE q # p
    <3>1. pc[q] \in Held /\ Owner(q) \in dir.names /\ ~Dead(q)
      BY <1>2, <2>2 DEF HolderMarked, Held, Dead
    <3> QED
      BY <1>1, <2>2, <3>1 DEF EntriesStep
  <2> QED
    BY <2>1, <2>2
<1>4. EntriesBelong'
  <2> SUFFICES ASSUME NEW q \in Procs
               PROVE  /\ Owner(q) \in dir'.names => pc'[q] \in OwnerSteps
                      /\ Claim(q) \in dir'.names => pc'[q] \in ClaimSteps
    BY DEF EntriesBelong, OwnerSteps, ClaimSteps, Owner, Claim, Held
  <2>1. CASE q = p
    BY <1>1, <2>1 DEF EntriesStep
  <2>2. CASE q # p
    BY <1>1, <1>2, <2>2 DEF EntriesStep, EntriesBelong
  <2> QED
    BY <2>1, <2>2
<1>5. MutualExclusion'
  <2> SUFFICES ASSUME NEW q \in Procs, NEW r \in Procs, pc'[q] \in Held, pc'[r] \in Held, q # r
               PROVE  FALSE
    BY DEF MutualExclusion, Held
  <2>1. ASSUME NEW o \in Procs, o # p, pc'[o] \in Held, pc'[p] \in Held
        PROVE  FALSE
    <3>1. pc[o] \in Held /\ Owner(o) \in dir.names
      BY <1>2, <2>1 DEF HolderMarked
    <3>2. pc[p] \in Held \/ dir.names = {Claim(p), Owner(p)}
      BY <1>1, <2>1 DEF EntriesStep, OnlyOwn
    <3> QED
      BY <2>1, <3>1, <3>2, EntryNames DEF MutualExclusion
  <2>2. CASE q # p /\ r # p
    BY <1>2, <2>2 DEF MutualExclusion
  <2> QED
    BY <2>1, <2>2
<1> QED
  BY <1>3, <1>4, <1>5

(* A recovery keeps what it saw until it starts over. *)
LEMMA VerdictKept ==
    ASSUME Typed, RemovesDead, NEW p \in Procs, Step(p) \/ Crash(p)
    PROVE  RemovesDead'
<1>1. \A q \in Procs : Dead(q) => pc'[q] = "dead"
  BY DeadStays, OthersStay DEF Dead
<1>2. pc'[p] = "rmOwner" => List(p)
  BY DEF Typed, TypeOK, Goes, Step, MakeDir, DirExists, GiveUp, StatDir, PutClaim, PutOwner, Restat,
       Relist, Clean, CleanEntry, CleanDir, Recover, Look, Unlink, UnlinkDir, ReadCounts,
       WriteSnapshot, Abort, Unlock, ReleaseEntry, ReleaseDir, Crash
<1>3. ASSUME List(p), pc'[p] = "rmOwner", NEW q \in Procs, Owner(q) \in seen'[p].names
      PROVE  Dead(q)
  <2>1. seen'[p].names = dir.names
    BY <1>3, DirShape DEF List, Typed, TypeOK, Dirs
  <2>2. Verdict(dir.names, seen[p].old) = "rmOwner"
    BY <1>3 DEF List, Goes, Typed, TypeOK
  <2>3. /\ \E r \in Procs : dir.names = {Claim(r), Owner(r)}
        /\ \E r \in Procs : Owner(r) \in dir.names /\ Dead(r)
    BY <2>2 DEF Verdict
  <2> QED
    BY <1>3, <2>1, <2>3, EntryNames
<1> SUFFICES ASSUME NEW q \in Procs, NEW r \in Procs, pc'[q] = "rmOwner", Owner(r) \in seen'[q].names
             PROVE  pc'[r] = "dead"
  BY DEF RemovesDead, Dead, Owner
<1>4. CASE q = p
  BY <1>1, <1>2, <1>3, <1>4
<1>5. CASE q # p
  BY <1>1, <1>5, OthersStay DEF RemovesDead
<1> QED
  BY <1>4, <1>5

-----------------------------------------------------------------------------
(* Counts. *)

(* A process reads and publishes under the exclusion, once. *)
LEMMA PublishingKept ==
    ASSUME Typed, MutualExclusion, Publishing, NEW p \in Procs, Step(p) \/ Crash(p)
    PROVE  Publishing'
<1> DEFINE before == Recovery \union Acquisition \union {"read", "write"}
<1>1. \A q \in Procs \ {p} : pc'[q] = pc[q] /\ prev'[q] = prev[q]
  BY OthersStay
<1>2. CASE WriteSnapshot(p)
  <2>1. /\ pc'[p] = "relOwner" /\ pc[p] = "write"
        /\ wrote' = wrote \union {p}
    BY <1>2 DEF WriteSnapshot, Goes, Typed, TypeOK
  <2>2. \A q \in Procs \ {p} : pc'[q] # "write"
    BY <1>1, <2>1 DEF MutualExclusion, Held
  <2> QED
    BY <1>1, <2>1, <2>2 DEF Publishing, Recovery, Acquisition
<1>3. CASE ReadCounts(p)
  BY <1>1, <1>3 DEF ReadCounts, Goes, Publishing, Typed, TypeOK, Recovery, Acquisition
<1>4. CASE ~WriteSnapshot(p) /\ ~ReadCounts(p)
  <2>1. UNCHANGED <<total, prev, wrote>>
    BY <1>4 DEF file, Step, MakeDir, DirExists, GiveUp, StatDir, PutClaim, PutOwner, Restat,
       Relist, Clean, CleanEntry, CleanDir, Recover, Look, List, Unlink, UnlinkDir,
       Abort, Unlock, ReleaseEntry, ReleaseDir, Crash
  <2>2. pc'[p] # "write" /\ (pc'[p] \in before => pc[p] \in before)
    <3> USE DEF Recovery, Acquisition
    <3>1. CASE List(p)
      BY <3>1 DEF List, Goes, Verdict, Typed, TypeOK
    <3> QED
      BY <1>4, <3>1 DEF Typed, TypeOK, Goes, Step, MakeDir, DirExists, GiveUp, StatDir, PutClaim,
       PutOwner, Restat, Relist, Clean, CleanEntry, CleanDir, Recover, Look, Unlink, UnlinkDir,
       Abort, Unlock, ReleaseEntry, ReleaseDir, Crash
  <2> QED
    BY <1>1, <2>1, <2>2 DEF Publishing, Recovery, Acquisition
<1> QED
  BY <1>2, <1>3, <1>4

LEMMA CountsKept ==
    ASSUME Typed, Publishing, CountsExact, NEW p \in Procs, Step(p) \/ Crash(p)
    PROVE  CountsExact'
<1>1. CASE WriteSnapshot(p)
  <2>1. p \notin wrote /\ prev[p] = total /\ total' = total + 1 /\ wrote' = wrote \union {p}
    BY <1>1 DEF WriteSnapshot, Publishing
  <2>2. IsFiniteSet(wrote)
    BY LockAssumption, FS_Subset DEF Typed, TypeOK
  <2>3. Cardinality(wrote') = Cardinality(wrote) + 1
    BY <2>1, <2>2, FS_AddElement
  <2> QED
    BY <2>1, <2>3 DEF CountsExact
<1>2. CASE ~WriteSnapshot(p)
  <2>1. UNCHANGED <<total, wrote>>
    BY <1>2 DEF file, Step, MakeDir, DirExists, GiveUp, StatDir, PutClaim, PutOwner, Restat,
       Relist, Clean, CleanEntry, CleanDir, Recover, Look, List, Unlink, UnlinkDir, ReadCounts,
       Abort, Unlock, ReleaseEntry, ReleaseDir, Crash
  <2> QED
    BY <2>1 DEF CountsExact
<1> QED
  BY <1>1, <1>2

-----------------------------------------------------------------------------
LEMMA InitInv == Init => LockInv
<1> SUFFICES ASSUME Init
             PROVE  LockInv
  OBVIOUS
<1>1. Typed
  BY InitTyped
<1>2. \A p \in Procs : pc[p] = "mkdir" \/ pc[p] = "dead"
  BY DEF Init
<1>3. EntriesBelong
  <2>1. CASE dir = NoDir
    BY <2>1 DEF EntriesBelong, NoDir
  <2>2. ASSUME NEW q \in Procs, dir \in Abandoned(q), pc[q] = "dead"
        PROVE  EntriesBelong
    <3>1. dir.names \subseteq {Claim(q), Owner(q)}
      BY <2>2 DEF Abandoned
    <3> QED
      BY <2>2, <3>1, EntryNames DEF EntriesBelong, OwnerSteps, ClaimSteps
  <2> QED
    BY <2>1, <2>2 DEF Init
<1>4. HolderMarked /\ RemovesDead /\ MutualExclusion
  BY <1>2 DEF HolderMarked, RemovesDead, MutualExclusion, Held
<1>5. Publishing /\ CountsExact
  BY <1>2, FS_EmptySet DEF Init, Publishing, CountsExact
<1> QED
  BY <1>1, <1>3, <1>4, <1>5 DEF LockInv

LEMMA NextInv == ASSUME LockInv, [Next]_vars PROVE LockInv'
<1> USE DEF LockInv
<1>1. Typed'
  BY NextTyped
<1>2. ASSUME NEW p \in Procs, Step(p) \/ Crash(p)
      PROVE  LockInv'
  BY <1>1, <1>2, ExclusionKept, VerdictKept, PublishingKept, CountsKept
<1>3. CASE Age \/ UNCHANGED vars
  <2>1. dir'.names = dir.names /\ UNCHANGED <<pc, seen, total, prev, wrote>>
    <3>1. CASE Age
      <4>1. dir' = [ino |-> dir.ino, names |-> dir.names, old |-> TRUE]
        BY <3>1, DirShape DEF Age
      <4>2. UNCHANGED <<pc, seen, total, prev, wrote>>
        BY <3>1 DEF Age, file
      <4> QED
        BY <4>1, <4>2
    <3>2. CASE UNCHANGED vars
      BY <3>2 DEF vars
    <3> QED
      BY <1>3, <3>1, <3>2
  <2> QED
    BY <1>1, <2>1 DEF HolderMarked, RemovesDead, EntriesBelong, MutualExclusion, Publishing,
       CountsExact, Dead
<1> QED
  BY <1>2, <1>3 DEF Next

(* The variables have their types. *)
THEOREM HealthTypeCorrect == Spec => []TypeOK
<1>1. Init => Typed
  BY InitTyped
<1>2. Typed /\ [Next]_vars => Typed'
  BY NextTyped
<1>3. Typed => TypeOK
  BY DEF Typed
<1> QED
  BY <1>1, <1>2, <1>3, PTL DEF Spec

LEMMA LockInvariant == Spec => []LockInv
BY InitInv, NextInv, PTL DEF Spec

(* The invariant leaves nothing in the directory when every process ended. *)
LEMMA SoundFromInv == LockInv => LockSound
<1> SUFFICES ASSUME LockInv, \A p \in Procs : pc[p] \in {"done", "failed"}
             PROVE  dir.names = {}
  BY DEF LockSound, NothingLeft, LockInv
<1>1. \A p \in Procs : Owner(p) \notin dir.names /\ Claim(p) \notin dir.names
  BY DEF LockInv, EntriesBelong, ClaimSteps, OwnerSteps, Held
<1>2. dir.names \subseteq Entries
  BY DirShape DEF LockInv
<1>3. ASSUME NEW e \in Entries
      PROVE  \E p \in Procs : e = Owner(p) \/ e = Claim(p)
  BY DEF Entries, Claim, Owner
<1> QED
  BY <1>1, <1>2, <1>3

(* One run at a time is inside the lock, the counters are exact whatever   *)
(* stalls, dies or is recovered, and without a death no entry is left.     *)
THEOREM LockIsSound == Spec => []LockSound
BY LockInvariant, SoundFromInv, PTL

(* Only its own process removes the owner entry of a living one: recovery  *)
(* takes a lock from the dead alone.                                       *)
THEOREM OwnersAreRespected == Spec => OwnerUntouched
<1> DEFINE A == \A p \in Procs : Owner(p) \in dir.names \ dir'.names /\ ~Dead(p)
                                   => pc[p] \in {"relOwner", "cleanOwner"}
<1>1. LockInv /\ [Next]_vars => [A]_vars
  <2> SUFFICES ASSUME LockInv, Next
               PROVE  A
    OBVIOUS
  <2>1. ASSUME NEW p \in Procs, Step(p) \/ Crash(p)
        PROVE  A
    <3>1. EntriesStep(p)
      BY <2>1, StepEntries DEF LockInv
    <3> QED
      BY <3>1 DEF EntriesStep
  <2>2. CASE Age
    <3>1. dir'.names = dir.names
      BY <2>2, DirShape DEF Age, LockInv
    <3> QED
      BY <3>1
  <2> QED
    BY <2>1, <2>2 DEF Next
<1> QED
  BY <1>1, LockInvariant, PTL DEF Spec, OwnerUntouched
=============================================================================
