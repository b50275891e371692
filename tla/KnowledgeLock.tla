---------------------------- MODULE KnowledgeLock ----------------------------
(***************************************************************************)
(* The workspace lock of knowledge updates and syncs:                      *)
(* acquireKnowledgeUpdateLock in src/src/knowledge/update.ts.              *)
(*                                                                         *)
(* The lock is a file created exclusively.  One that is older than ten     *)
(* minutes and whose owner died is reclaimed: the waiting process makes a  *)
(* second name of the same file, the claim, with an exclusive link, checks *)
(* again and removes the first name.  Whoever meets a claim backs off,     *)
(* unless the claim itself is older than ten minutes.                      *)
(*                                                                         *)
(* Each action is one call that changes the directory, or one round of     *)
(* reads.  A positive verdict of a round needs the file unchanged from its *)
(* first read to its last, so it is true at one point in between.  A file  *)
(* is known by its inode number, which may be used again, and by its       *)
(* change time: steady[p] is FALSE once a name was added to or removed     *)
(* from the inode that p is looking at.  Refusals of unsafe paths and a    *)
(* file system that fails for other reasons only end an acquisition.       *)
(***************************************************************************)
EXTENDS Naturals, FiniteSets

CONSTANTS
    Procs,         \* processes that want the lock
    Ghost,         \* a process that died before
    Inodes,
    MaxCrashes,    \* process deaths explored
    Stalls         \* whether an acquisition may take ten minutes after it
                   \* made a claim

ASSUME KnowledgeLockAssumption ==
    /\ IsFiniteSet(Procs) /\ Ghost \notin Procs
    /\ Inodes # {} /\ 0 \notin Inodes
    /\ MaxCrashes \in Nat /\ Stalls \in BOOLEAN

VARIABLES
    pc,        \* next call of each process
    attempt,   \* rounds of the loop begun before this one
    lock,      \* the lock file
    claim,     \* the second name, knowledge-update.lock.reclaim
    claimer,   \* history: who made the claim
    claimOld,  \* the claim's change time is ten minutes ago
    seen,      \* identity of the file each process looks at
    steady,    \* its change time is still the one read
    mine,      \* ownedReclaim: the claim each process relies on, 0 if none
    overtaken  \* history: the claim of a process that still runs was removed
               \* as expired

vars == <<pc, attempt, lock, claim, claimer, claimOld, seen, steady, mine, overtaken>>

Owners == Procs \union {Ghost}
Files == [owner : Owners, ino : Inodes, written : BOOLEAN, old : BOOLEAN]
NoFile == [owner |-> Ghost, ino |-> 0, written |-> FALSE, old |-> FALSE]
Left == [owner |-> Ghost, ino |-> CHOOSE i \in Inodes : TRUE, written |-> TRUE, old |-> TRUE]

Held == {"held", "release", "unlock"}
Ended == {"done", "failed", "dead"}
Steps == {"begin", "dropOld", "open", "write", "confirm", "dropClaim", "withdraw",
          "unwrite", "judge", "link", "verify", "dropLink", "recheck", "unlinkLock",
          "yieldClaim", "unclaim"} \union Held \union Ended

Alive(o) == IF o = Ghost THEN FALSE ELSE pc[o] # "dead"
Dead(o) == ~Alive(o)
Gone(o) == IF o = Ghost THEN TRUE ELSE pc[o] \in Ended
Goes(p, step) == pc' = [pc EXCEPT ![p] = step]

(* A second name changes the inode's change time, and so does its removal. *)
Touch(ino) == steady' = [p \in Procs |-> steady[p] /\ seen[p] # ino]

(* The loop makes three attempts. *)
Again(p) ==
    IF attempt[p] < 2
    THEN Goes(p, "begin") /\ attempt' = [attempt EXCEPT ![p] = @ + 1]
    ELSE Goes(p, "yieldClaim") /\ UNCHANGED attempt

files == <<lock, claim, claimer, claimOld, overtaken>>
sight == <<seen, steady>>

(* A process that died may have left its lock, its claim, or both.         *)
Init ==
    /\ pc = [p \in Procs |-> "begin"] /\ attempt = [p \in Procs |-> 0]
    /\ lock \in {NoFile, Left}
    /\ claim \in {NoFile, Left}
    /\ claimer = Ghost /\ claimOld = FALSE
    /\ seen = [p \in Procs |-> 0] /\ steady = [p \in Procs |-> FALSE]
    /\ mine = [p \in Procs |-> 0] /\ overtaken = FALSE

-----------------------------------------------------------------------------
(* One attempt: a claim that is met, the exclusive creation, the check.    *)

Begin(p) ==
    /\ pc[p] = "begin"
    /\ Goes(p, CASE mine[p] # 0 \/ claim = NoFile -> "open"
                 [] mine[p] = 0 /\ claim # NoFile /\ claimOld -> "dropOld"
                 [] mine[p] = 0 /\ claim # NoFile /\ ~claimOld -> "failed")
    /\ UNCHANGED <<attempt, files, sight, mine>>

(* unlinkSync(reclaimPath), whatever it names by now.                      *)
RemoveClaim ==
    /\ claim' = NoFile /\ claimOld' = FALSE /\ Touch(claim.ino)
    /\ UNCHANGED <<lock, claimer, seen>>

(* The claim was found expired in Begin, by calls of their own: the one    *)
(* that is removed may be a later one, of a process that still runs.       *)
Overtakes == claim # NoFile /\ ~Gone(claimer)

DropOld(p) ==
    /\ pc[p] = "dropOld" /\ RemoveClaim /\ Goes(p, "open")
    /\ overtaken' = (overtaken \/ Overtakes)
    /\ UNCHANGED <<attempt, mine>>

FreeInodes == Inodes \ {lock.ino, claim.ino}

Open(p) ==
    /\ pc[p] = "open" /\ lock = NoFile
    /\ \E i \in FreeInodes :
          lock' = [owner |-> p, ino |-> i, written |-> FALSE, old |-> FALSE]
    /\ Goes(p, "write")
    /\ UNCHANGED <<attempt, claim, claimer, claimOld, overtaken, sight, mine>>

OpenExists(p) ==
    /\ pc[p] = "open" /\ lock # NoFile /\ Goes(p, "judge")
    /\ UNCHANGED <<attempt, files, sight, mine>>

Filled(file, p) == IF file.owner = p THEN [file EXCEPT !.written = TRUE] ELSE file

(* Mutant: a write that fails leaves the file it created. *)
UnwriteLeaves(p) ==
    /\ pc[p] = "unwrite" /\ Goes(p, "yieldClaim")
    /\ UNCHANGED <<attempt, files, sight, mine>>

(* The descriptor is written, whatever the path names by now.  A write     *)
(* that fails removes the path and gives the claim up.                     *)
Write(p) ==
    /\ pc[p] = "write"
    /\ lock' = Filled(lock, p) /\ claim' = Filled(claim, p)
    /\ Goes(p, "confirm")
    /\ UNCHANGED <<attempt, claimer, claimOld, overtaken, sight, mine>>

WriteFails(p) ==
    /\ pc[p] = "write" /\ Goes(p, "unwrite")
    /\ UNCHANGED <<attempt, files, sight, mine>>

(* The removed name changes the change time of the other one's inode.      *)
RemoveLock ==
    /\ lock' = NoFile /\ Touch(lock.ino)
    /\ claimOld' = (claimOld /\ claim.ino # lock.ino)
    /\ UNCHANGED <<claim, claimer, seen>>

Unwrite(p) ==
    /\ pc[p] = "unwrite" /\ RemoveLock /\ Goes(p, "yieldClaim")
    /\ UNCHANGED <<attempt, mine, overtaken>>

Confirm(p) ==
    /\ pc[p] = "confirm"
    /\ Goes(p, CASE mine[p] = 0 /\ claim = NoFile -> "held"
                 [] mine[p] # 0 /\ claim.ino = mine[p] -> "dropClaim"
                 [] claim.ino # mine[p] -> "withdraw")
    /\ UNCHANGED <<attempt, files, sight, mine>>

DropClaim(p) ==
    /\ pc[p] = "dropClaim" /\ RemoveClaim
    /\ Goes(p, IF claim = NoFile THEN "withdraw" ELSE "held")
    /\ mine' = [mine EXCEPT ![p] = 0]
    /\ UNCHANGED <<attempt, overtaken>>

(* removeLockOwnedByToken: the token is read, then the path is removed.    *)
ReadToken(p, from, to) ==
    /\ pc[p] = from
    /\ Goes(p, IF lock.owner = p /\ lock.written THEN to
               ELSE IF from = "withdraw" THEN "failed" ELSE "done")
    /\ UNCHANGED <<attempt, files, sight, mine>>

Withdraw(p) == ReadToken(p, "withdraw", "unlock")
Release(p) == ReadToken(p, "release", "unlock")

Unlock(p) ==
    /\ pc[p] = "unlock" /\ RemoveLock /\ Goes(p, "done")
    /\ UNCHANGED <<attempt, mine, overtaken>>

Finish(p) ==
    /\ pc[p] = "held" /\ Goes(p, "release")
    /\ UNCHANGED <<attempt, files, sight, mine>>

-----------------------------------------------------------------------------
(* staleLockSnapshot and claimStaleLock.                                   *)

(* Mutant: age alone makes a lock stale. *)
StaleByAge(file) == file.old

Stale(file) == file.old /\ (file.written => Dead(file.owner))

Judge(p) ==
    /\ pc[p] = "judge"
    /\ IF lock = NoFile THEN Again(p) /\ UNCHANGED sight
       ELSE IF Stale(lock) /\ attempt[p] < 2
       THEN /\ Goes(p, "link") /\ UNCHANGED <<attempt, steady>>
            /\ seen' = [seen EXCEPT ![p] = lock.ino]
       ELSE Goes(p, "yieldClaim") /\ UNCHANGED <<attempt, sight>>
    /\ UNCHANGED <<files, mine>>

(* Mutant: the claim replaces one that is there. *)
LinkOver(p) ==
    /\ pc[p] = "link" /\ lock # NoFile
    /\ claim' = lock /\ claimer' = p /\ claimOld' = FALSE
    /\ Touch(lock.ino) /\ Goes(p, "verify")
    /\ UNCHANGED <<attempt, lock, seen, mine, overtaken>>

(* linkSync(lockPath, reclaimPath) *)
Link(p) ==
    /\ pc[p] = "link" /\ lock # NoFile /\ claim = NoFile
    /\ claim' = lock /\ claimer' = p /\ claimOld' = FALSE
    /\ Touch(lock.ino) /\ Goes(p, "verify")
    /\ UNCHANGED <<attempt, lock, seen, mine, overtaken>>

LinkFails(p) ==
    /\ pc[p] = "link" /\ (lock = NoFile \/ claim # NoFile)
    /\ IF lock = NoFile THEN Again(p) ELSE Goes(p, "failed") /\ UNCHANGED attempt
    /\ UNCHANGED <<files, sight, mine>>

(* The contents compared hold the owner's token. *)
SameAsJudged(p) ==
    /\ claim # NoFile /\ claim.ino = lock.ino
    /\ claim.ino = seen[p] /\ Stale(claim)

Verify(p) ==
    /\ pc[p] = "verify"
    /\ IF SameAsJudged(p)
       THEN steady' = [steady EXCEPT ![p] = TRUE] /\ Goes(p, "recheck")
       ELSE UNCHANGED steady /\ Goes(p, "dropLink")
    /\ UNCHANGED <<attempt, files, seen, mine>>

DropLink(p) ==
    /\ pc[p] = "dropLink" /\ RemoveClaim /\ Goes(p, "failed")
    /\ UNCHANGED <<attempt, mine, overtaken>>

Recheck(p) ==
    /\ pc[p] = "recheck"
    /\ IF /\ steady[p] /\ lock.ino = seen[p]
          /\ claim.ino = seen[p] /\ Stale(claim)
       THEN Goes(p, "unlinkLock") /\ UNCHANGED mine
       ELSE Goes(p, "yieldClaim") /\ mine' = [mine EXCEPT ![p] = seen[p]]
    /\ UNCHANGED <<attempt, files, sight>>

(* The path is removed, whatever it names by now; the claim's identity is  *)
(* read again.  A path that is gone makes the process drop the claim.      *)
UnlinkLock(p) ==
    /\ pc[p] = "unlinkLock"
    /\ IF lock = NoFile
       THEN Goes(p, "dropLink") /\ UNCHANGED <<attempt, files, sight, mine>>
       ELSE /\ RemoveLock /\ Again(p) /\ UNCHANGED overtaken
            /\ mine' = [mine EXCEPT ![p] = IF claim = NoFile THEN seen[p] ELSE claim.ino]

(* releaseStaleLockClaim: the identity is compared, then the path removed. *)
YieldClaim(p) ==
    /\ pc[p] = "yieldClaim"
    /\ Goes(p, IF mine[p] # 0 /\ claim.ino = mine[p] THEN "unclaim" ELSE "failed")
    /\ UNCHANGED <<attempt, files, sight, mine>>

Unclaim(p) ==
    /\ pc[p] = "unclaim" /\ RemoveClaim /\ Goes(p, "failed")
    /\ UNCHANGED <<attempt, mine, overtaken>>

-----------------------------------------------------------------------------
Acquire(p) ==
    \/ Begin(p) \/ DropOld(p) \/ Open(p) \/ OpenExists(p) \/ Write(p) \/ WriteFails(p)
    \/ Unwrite(p) \/ Confirm(p) \/ DropClaim(p) \/ Withdraw(p) \/ YieldClaim(p) \/ Unclaim(p)

Reclaim(p) ==
    \/ Judge(p) \/ Link(p) \/ LinkFails(p) \/ Verify(p) \/ DropLink(p)
    \/ Recheck(p) \/ UnlinkLock(p)

Crash(p) ==
    /\ pc[p] \notin Ended
    /\ Cardinality({q \in Procs : Dead(q)}) < MaxCrashes
    /\ Goes(p, "dead")
    /\ UNCHANGED <<attempt, files, sight, mine>>

(* Ten minutes pass.  Bound: not between the creation of the lock and its  *)
(* contents, and without Stalls not within an acquisition that made a      *)
(* claim.                                                                  *)
AgeLock ==
    /\ lock # NoFile /\ ~lock.old
    /\ lock.written \/ Dead(lock.owner)
    /\ lock' = [lock EXCEPT !.old = TRUE]
    /\ claim' = IF claim.ino = lock.ino THEN lock' ELSE claim
    /\ UNCHANGED <<pc, attempt, claimer, claimOld, overtaken, sight, mine>>

AgeClaim ==
    /\ claim # NoFile /\ ~claimOld /\ (Stalls \/ Gone(claimer))
    /\ claimOld' = TRUE
    /\ UNCHANGED <<pc, attempt, lock, claim, claimer, overtaken, sight, mine>>

Next ==
    \/ AgeLock \/ AgeClaim
    \/ \E p \in Procs :
          \/ Acquire(p) \/ Reclaim(p)
          \/ Finish(p) \/ Release(p) \/ Unlock(p) \/ Crash(p)

Spec == Init /\ [][Next]_vars

-----------------------------------------------------------------------------
TypeOK ==
    /\ pc \in [Procs -> Steps] /\ attempt \in [Procs -> 0..2]
    /\ lock \in Files \union {NoFile} /\ claim \in Files \union {NoFile}
    /\ claimer \in Owners /\ claimOld \in BOOLEAN
    /\ seen \in [Procs -> Inodes \union {0}] /\ steady \in [Procs -> BOOLEAN]
    /\ mine \in [Procs -> Inodes \union {0}] /\ overtaken \in BOOLEAN

MutualExclusion == \A p, q \in Procs : pc[p] \in Held /\ pc[q] \in Held => p = q

(* A process that lives and gave up or finished left no lock behind: nobody *)
(* could reclaim it while the process runs.                                *)
NoLockOutlivesItsUse == \A p \in Procs : pc[p] \in {"done", "failed"} => lock.owner # p

(* The lock serves one process at a time and is free again afterwards, as  *)
(* long as nobody removed, as expired, the claim of a process that runs:   *)
(* update.ts:914-925 finds a claim expired and removes it in calls of      *)
(* their own, and a claim only tells its age.                              *)
LockSound == ~overtaken => MutualExclusion /\ NoLockOutlivesItsUse

RemovesNoHeldLock ==
    \A p \in Procs : pc[p] = "held" /\ lock.owner = p /\ pc'[p] = "held"
        => lock'.owner = p

(* No step of another process removes the lock that a running process      *)
(* holds, as long as nobody removed, as expired, the claim of a process    *)
(* that runs.                                                              *)
LiveLockKept == [][~overtaken' => RemovesNoHeldLock]_vars

(* README.md:530-533: an expired lock is reclaimed only when its recorded  *)
(* process is no longer the same live process, whatever became of claims.  *)
ReclaimedOnlyWhenDead == [][RemovesNoHeldLock]_vars

=============================================================================
