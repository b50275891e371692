--------------------------- MODULE CronHealthLock ---------------------------
(***************************************************************************)
(* Runs of one cron that end at about the same time each add one to the    *)
(* counters of the same text file: writeCronHealthMetric and its directory *)
(* lock in src/src/cron-runner.ts.                                         *)
(*                                                                         *)
(* The lock is a directory with two entries, the owner's claim and owner   *)
(* files.  mkdir decides who may try; the entries, and not the directory,  *)
(* say who holds it; a lock whose owner died, or that stayed unfinished    *)
(* for 30 seconds, is taken apart by whoever waits.  A process may stall   *)
(* between any two calls, so a lock can grow old under a living process.   *)
(*                                                                         *)
(* Each action is one call to the file system.  Entry names carry a fresh  *)
(* random token, so an entry belongs to one acquisition; a process writes  *)
(* its metric once.  An owner that died is recognised as dead: its pid is  *)
(* not taken to be that of a living process.                               *)
(***************************************************************************)
EXTENDS Integers, FiniteSets

CONSTANTS
    Procs,       \* runs of the cron
    Inodes,      \* inode numbers a new directory may get
    MaxCrashes   \* process deaths explored

ASSUME LockAssumption ==
    /\ IsFiniteSet(Procs) /\ Inodes # {} /\ 0 \notin Inodes
    /\ MaxCrashes \in Nat

VARIABLES
    pc,       \* next call of each process
    dir,      \* the lock directory
    created,  \* createdLockStat.ino; 0 before the stat
    seen,     \* what the process last read of the directory
    total,    \* the counter in the published file
    prev,     \* the counter as this process read it
    wrote     \* history: processes that published their count

vars == <<pc, dir, created, seen, total, prev, wrote>>

Entries == {"claim", "owner"} \X Procs
Claim(p) == <<"claim", p>>
Owner(p) == <<"owner", p>>
Dirs == [ino : Inodes \union {0}, names : SUBSET Entries, old : BOOLEAN]
NoDir == [ino |-> 0, names |-> {}, old |-> FALSE]
Exists == dir # NoDir

Recovery == {"look", "list", "rmOwner", "rmClaim", "rmDir"}
Acquisition == {"mkdir", "stat", "claim", "owner", "restat", "relist"}
Cleanup == {"cleanOwner", "cleanClaim", "cleanDir"}
Held == {"read", "write", "relOwner"}
Release == {"relClaim", "relDir"}
Ended == {"done", "failed", "dead"}
Steps == Recovery \union Acquisition \union Cleanup \union Held \union Release \union Ended

Goes(p, step) == pc' = [pc EXCEPT ![p] = step]

(* A change of the entries refreshes the directory's modification time. *)
Add(entry) == dir' = [dir EXCEPT !.names = @ \union {entry}, !.old = FALSE]
Remove(entry) == dir' = [dir EXCEPT !.names = @ \ {entry}, !.old = FALSE]
RemoveDir == dir' = IF dir.names = {} THEN NoDir ELSE dir

(* The lock may have been left by a run that died holding or claiming it. *)
Abandoned(p) ==
    {[ino |-> i, names |-> n, old |-> FALSE] :
        i \in Inodes, n \in {{}, {Claim(p)}, {Claim(p), Owner(p)}}}

Init ==
    /\ \/ dir = NoDir /\ pc = [p \in Procs |-> "mkdir"]
       \/ \E p \in Procs :
             dir \in Abandoned(p) /\ pc = [q \in Procs |-> IF q = p THEN "dead" ELSE "mkdir"]
    /\ created = [p \in Procs |-> 0]
    /\ seen = [p \in Procs |-> NoDir]
    /\ total = 0 /\ prev = [p \in Procs |-> 0] /\ wrote = {}

-----------------------------------------------------------------------------
(* acquireCronHealthLock: the loop. *)

file == <<total, prev, wrote>>

(* The new directory may reuse the inode of one that is gone. *)
MakeDir(p) ==
    /\ pc[p] = "mkdir" /\ ~Exists
    /\ \E i \in Inodes : dir' = [ino |-> i, names |-> {}, old |-> FALSE]
    /\ Goes(p, "stat")
    /\ UNCHANGED <<created, seen, file>>

DirExists(p) ==
    /\ pc[p] = "mkdir" /\ Exists
    /\ Goes(p, "look")
    /\ UNCHANGED <<dir, created, seen, file>>

(* The deadline of 35 seconds passes. *)
GiveUp(p) ==
    /\ pc[p] = "mkdir" /\ Goes(p, "failed")
    /\ UNCHANGED <<dir, created, seen, file>>

(* Mutant: a stat that fails is passed over. *)
StatDirUnchecked(p) ==
    /\ pc[p] = "stat"
    /\ created' = [created EXCEPT ![p] = dir.ino]
    /\ Goes(p, "claim")
    /\ UNCHANGED <<dir, seen, file>>

(* The directory a process sees may no longer be the one it made. *)
StatDir(p) ==
    /\ pc[p] = "stat"
    /\ created' = [created EXCEPT ![p] = dir.ino]
    /\ Goes(p, IF Exists THEN "claim" ELSE "cleanDir")
    /\ UNCHANGED <<dir, seen, file>>

PutClaim(p) ==
    /\ pc[p] = "claim"
    /\ IF Exists THEN Add(Claim(p)) ELSE UNCHANGED dir
    /\ Goes(p, IF Exists THEN "owner" ELSE "cleanClaim")
    /\ UNCHANGED <<created, seen, file>>

PutOwner(p) ==
    /\ pc[p] = "owner"
    /\ IF Exists THEN Add(Owner(p)) ELSE UNCHANGED dir
    /\ Goes(p, IF Exists THEN "restat" ELSE "cleanOwner")
    /\ UNCHANGED <<created, seen, file>>

(* hasCronHealthLockOwnership: stat, then readdir. *)
SameDir(p) == Exists /\ dir.ino = created[p]

Restat(p) ==
    /\ pc[p] = "restat"
    /\ Goes(p, IF SameDir(p) THEN "relist" ELSE "cleanOwner")
    /\ UNCHANGED <<dir, created, seen, file>>

(* Mutant: other entries beside the two are let pass. *)
OwnPresent(p) == {Claim(p), Owner(p)} \subseteq dir.names

OnlyOwn(p) == dir.names = {Claim(p), Owner(p)}

(* Mutant: the entries are not listed again. *)
RelistSkipped(p) ==
    /\ pc[p] = "relist" /\ Goes(p, "read")
    /\ UNCHANGED <<dir, created, seen, file>>

Relist(p) ==
    /\ pc[p] = "relist"
    /\ Goes(p, IF OnlyOwn(p) THEN "read" ELSE "cleanOwner")
    /\ UNCHANGED <<dir, created, seen, file>>

-----------------------------------------------------------------------------
(* cleanupCronHealthLockAcquisition: what is missing does not matter. *)

CleanEntry(p, at, entry, next) ==
    /\ pc[p] = at
    /\ IF entry \in dir.names THEN Remove(entry) ELSE UNCHANGED dir
    /\ Goes(p, next)
    /\ UNCHANGED <<created, seen, file>>

CleanDir(p) ==
    /\ pc[p] = "cleanDir" /\ RemoveDir
    /\ Goes(p, "failed")
    /\ UNCHANGED <<created, seen, file>>

(* Mutant: the claim is forgotten. *)
CleanButClaim(p) ==
    \/ CleanEntry(p, "cleanOwner", Owner(p), "cleanDir")
    \/ CleanDir(p)

Clean(p) ==
    \/ CleanEntry(p, "cleanOwner", Owner(p), "cleanClaim")
    \/ CleanEntry(p, "cleanClaim", Claim(p), "cleanDir")
    \/ CleanDir(p)

-----------------------------------------------------------------------------
(* recoverCronHealthLock; whatever it returns, mkdir is tried again. *)

(* stat: the age of the lock. *)
Look(p) ==
    /\ pc[p] = "look"
    /\ seen' = [seen EXCEPT ![p] = dir]
    /\ Goes(p, IF Exists THEN "list" ELSE "mkdir")
    /\ UNCHANGED <<dir, created, file>>

Dead(p) == pc[p] = "dead"

(* Mutant: what is old is removed, whoever owns it. *)
VerdictByAge(names, old) ==
    IF ~old THEN "mkdir"
    ELSE IF names = {} THEN "rmDir"
    ELSE IF \E q \in Procs : Owner(q) \in names THEN "rmOwner"
    ELSE "rmClaim"

(* Both entries of one owner: it is the owner's life that counts.  An      *)
(* unfinished lock goes when it is old; anything else old is refused.      *)
Verdict(names, old) ==
    IF \E q \in Procs : names = {Claim(q), Owner(q)} THEN
        IF \E q \in Procs : Owner(q) \in names /\ Dead(q) THEN "rmOwner" ELSE "mkdir"
    ELSE IF ~old THEN "mkdir"
    ELSE IF names = {} THEN "rmDir"
    ELSE IF \E q \in Procs : names = {Claim(q)} THEN "rmClaim"
    ELSE "failed"

(* readdir, and what follows from it. *)
List(p) ==
    /\ pc[p] = "list"
    /\ seen' = [seen EXCEPT ![p].names = dir.names]
    /\ Goes(p, IF Exists THEN Verdict(dir.names, seen[p].old) ELSE "mkdir")
    /\ UNCHANGED <<dir, created, file>>

(* The entries are those listed; an entry already gone ends the recovery. *)
Unlink(p, at, kind, next) ==
    /\ pc[p] = at
    /\ \E q \in Procs :
          /\ <<kind, q>> \in seen[p].names
          /\ IF <<kind, q>> \in dir.names
             THEN Remove(<<kind, q>>) /\ Goes(p, next)
             ELSE UNCHANGED dir /\ Goes(p, "mkdir")
    /\ UNCHANGED <<created, seen, file>>

UnlinkDir(p) ==
    /\ pc[p] = "rmDir" /\ RemoveDir
    /\ Goes(p, "mkdir")
    /\ UNCHANGED <<created, seen, file>>

Recover(p) ==
    \/ Look(p) \/ List(p)
    \/ Unlink(p, "rmOwner", "owner", "rmClaim")
    \/ Unlink(p, "rmClaim", "claim", "rmDir")
    \/ UnlinkDir(p)

-----------------------------------------------------------------------------
(* writeCronHealthMetric inside the lock, and the release. *)

ReadCounts(p) ==
    /\ pc[p] = "read"
    /\ prev' = [prev EXCEPT ![p] = total]
    /\ Goes(p, "write")
    /\ UNCHANGED <<dir, created, seen, total, wrote>>

WriteSnapshot(p) ==
    /\ pc[p] = "write"
    /\ total' = prev[p] + 1 /\ wrote' = wrote \union {p}
    /\ Goes(p, "relOwner")
    /\ UNCHANGED <<dir, created, seen, prev>>

(* Reading the counters or writing either file fails. *)
Abort(p) ==
    /\ pc[p] \in {"read", "write"} /\ Goes(p, "relOwner")
    /\ UNCHANGED <<dir, created, seen, file>>

(* A missing entry, or a directory that is not empty, makes the run fail   *)
(* with its count already published.                                       *)
ReleaseEntry(p, at, entry, next) ==
    /\ pc[p] = at
    /\ IF entry \in dir.names
       THEN Remove(entry) /\ Goes(p, next)
       ELSE UNCHANGED dir /\ Goes(p, "failed")
    /\ UNCHANGED <<created, seen, file>>

ReleaseDir(p) ==
    /\ pc[p] = "relDir" /\ RemoveDir
    /\ Goes(p, IF dir.names = {} THEN "done" ELSE "failed")
    /\ UNCHANGED <<created, seen, file>>

Unlock(p) ==
    \/ ReleaseEntry(p, "relOwner", Owner(p), "relClaim")
    \/ ReleaseEntry(p, "relClaim", Claim(p), "relDir")
    \/ ReleaseDir(p)

-----------------------------------------------------------------------------
Step(p) ==
    \/ MakeDir(p) \/ DirExists(p) \/ GiveUp(p) \/ StatDir(p)
    \/ PutClaim(p) \/ PutOwner(p) \/ Restat(p) \/ Relist(p)
    \/ Clean(p) \/ Recover(p)
    \/ ReadCounts(p) \/ WriteSnapshot(p) \/ Abort(p) \/ Unlock(p)

(* Bound: MaxCrashes processes die; one that died before counts too. *)
Crash(p) ==
    /\ pc[p] \notin Ended
    /\ Cardinality({q \in Procs : Dead(q)}) < MaxCrashes
    /\ Goes(p, "dead")
    /\ UNCHANGED <<dir, created, seen, file>>

(* More than CRON_HEALTH_STALE_LOCK_MS since the entries changed. *)
Age ==
    /\ Exists /\ ~dir.old
    /\ dir' = [dir EXCEPT !.old = TRUE]
    /\ UNCHANGED <<pc, created, seen, file>>

Next == Age \/ \E p \in Procs : Step(p) \/ Crash(p)

Spec == Init /\ [][Next]_vars

-----------------------------------------------------------------------------
(* Types; and a process that adds entries knows which directory it made.   *)
TypeOK ==
    /\ pc \in [Procs -> Steps]
    /\ dir \in Dirs
    /\ created \in [Procs -> Inodes \union {0}]
    /\ seen \in [Procs -> Dirs]
    /\ total \in Nat /\ prev \in [Procs -> Nat]
    /\ wrote \subseteq Procs
    /\ \A p \in Procs :
          pc[p] \in {"claim", "owner", "restat", "relist"} \union Held => created[p] # 0

(* One run at a time is between its ownership check and the removal of its *)
(* owner entry, in spite of stalls, recoveries and reused inodes.          *)
MutualExclusion ==
    \A p, q \in Procs : pc[p] \in Held /\ pc[q] \in Held => p = q

(* docs/monitoring.md:174-175: no increment is lost or made twice. *)
CountsExact == total = Cardinality(wrote)

(* Only its own process removes the owner entry of one that is alive.  (A  *)
(* claim that stayed alone for 30 seconds may be taken from a process that *)
(* merely stalled.)                                                        *)
OwnerUntouched ==
    [][\A p \in Procs :
          Owner(p) \in dir.names \ dir'.names /\ ~Dead(p)
              => pc[p] \in {"relOwner", "cleanOwner"}]_vars

(* cron-runner.test.ts:1657: unless a process died, an empty directory is  *)
(* the most that is left when all have ended, and the next run may remove  *)
(* it.                                                                     *)
NothingLeft ==
    (\A p \in Procs : pc[p] \in {"done", "failed"}) => dir.names = {}

(* The lock does its work: one holder at a time, exact counts, and nothing *)
(* that blocks the runs to come.                                           *)
LockSound == MutualExclusion /\ CountsExact /\ NothingLeft
=============================================================================
