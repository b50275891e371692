----------------------------- MODULE RuntimeGuard -----------------------------
(***************************************************************************)
(* Serving ownership across processes: the lock directories of             *)
(* src/src/runtime-guard.ts (mkdir, claim and owner files, recovery of a   *)
(* stale lock, rollback, release), and the readiness marker of             *)
(* runtime-readiness.ts as main.ts uses it: published while serving,       *)
(* cleared at the start of a shutdown, before the locks are released.      *)
(*                                                                         *)
(* Processes interleave between system calls, so an action is one call     *)
(* that changes the file system, or one round of reads.  Reads that follow *)
(* each other are one action: a file's name holds its writer's nonce and   *)
(* its contents are written once, so a name that is still there has the    *)
(* contents an earlier read saw.  A process is one run of the program: it  *)
(* starts once, and its identity (pid and start token) is never another's. *)
(* Reads of the marker fail only because it is missing: after another      *)
(* error clear() would run again from the exit hook.                       *)
(***************************************************************************)
EXTENDS Integers, Sequences, FiniteSets

CONSTANTS
  Procs,     \* runs of the program on one host, all with the same resources
  NumLocks,  \* resources, locked in the order of their sorted lock paths
  Inodes,    \* inode numbers, reused once no directory or descriptor has them
  NoProc,    \* nobody
  MaxClock   \* bound: how often more than incompleteGraceMs pass

Locks == 1..NumLocks

ASSUME RuntimeGuardAssumption ==
  /\ NumLocks \in Nat \ {0}
  /\ MaxClock \in Nat
  /\ Inodes \subseteq Nat \ {0}
  /\ NoProc \notin Procs

VARIABLES
  pc,       \* where each process is
  alive,    \* whether it runs
  lock,     \* the lock it is at (acquireOneLock's or removeHeldLock's lockPath)
  attempt,  \* the attempt it is in, 1..3
  inode,    \* created.stats.ino
  snap,     \* the snapshot it recovers, pinned by its open descriptor
  todo,     \* entries removeExactSnapshot has left to unlink
  held,     \* locks it holds
  heldDir,  \* inode and mtime of the snapshots of held locks
  dir,      \* the lock directories
  clock,    \* time in steps longer than incompleteGraceMs
  marker,   \* pid in the readiness marker
  published \* ownsPublication

vars == <<pc, alive, lock, attempt, inode, snap, todo, held, heldDir, dir,
          clock, marker, published>>

-----------------------------------------------------------------------------
(* Helpers *)

NoDir == [ino |-> 0, mtime |-> 0, names |-> {}, full |-> {}]
NoSnap == [ino |-> 0, mtime |-> 0, names |-> {}]

Present(d) == d.ino # 0

(* The two entries a process writes; "full" entries have their contents.   *)
Claim(p) == <<"claim", p>>
Owner(p) == <<"owner", p>>
Entries(p) == {Claim(p), Owner(p)}

SnapshotOf(d) == [ino |-> d.ino, mtime |-> d.mtime, names |-> d.names]

(* The system calls on an entry; naming or removing one dates the directory. *)
WithEntry(d, entry) == [d EXCEPT !.names = @ \cup {entry}, !.mtime = clock]
WithContents(d, entry) == [d EXCEPT !.full = @ \cup {entry}]
WithoutEntry(d, entry) ==
  [d EXCEPT !.names = @ \ {entry}, !.full = @ \ {entry}, !.mtime = clock]

(* Inodes that mkdir may give to a new directory. *)
FreeInodes ==
  Inodes \ ({dir[l].ino : l \in Locks} \cup {snap[p].ino : p \in Procs})

(* The order of unlinkSync: owner before claim. *)
UnlinkOrder(names) ==
  LET last(kind) == {n \in names : n[1] = kind}
      seq(S) == IF S = {} THEN <<>> ELSE <<CHOOSE n \in S : TRUE>>
  IN seq(last("owner")) \o seq(last("claim"))

(* Mutated form: whoever wrote an entry is taken for dead. *)
TakenForDead(q) == TRUE

(* not belongsToLiveProcess *)
Dead(q) == ~alive[q]

Aged(mtime) == clock > mtime

(* recoverStaleSnapshot: an empty directory or a lone claim after the      *)
(* grace period, or a complete pair, each with its contents, of a process  *)
(* that is gone.                                                           *)
Stale(d) ==
  \/ d.names = {} /\ Aged(d.mtime)
  \/ \E q \in Procs :
       /\ Dead(q)
       /\ d.names = d.full
       /\ \/ d.names = {Claim(q)} /\ Aged(d.mtime)
          \/ d.names = Entries(q)

Goto(p, where) == pc' = [pc EXCEPT ![p] = where]

-----------------------------------------------------------------------------
Init ==
  /\ pc = [p \in Procs |-> "down"]
  /\ alive = [p \in Procs |-> FALSE]
  /\ lock = [p \in Procs |-> 1]
  /\ attempt = [p \in Procs |-> 1]
  /\ inode = [p \in Procs |-> 0]
  /\ snap = [p \in Procs |-> NoSnap]
  /\ todo = [p \in Procs |-> <<>>]
  /\ held = [p \in Procs |-> {}]
  /\ heldDir = [p \in Procs |-> [l \in Locks |-> NoSnap]]
  /\ dir = [l \in Locks |-> NoDir]
  /\ clock = 0
  /\ marker = NoProc
  /\ published = [p \in Procs |-> FALSE]

-----------------------------------------------------------------------------
(* Acquisition: acquireRuntimeGuard, acquireOneLock *)

Start(p) ==
  /\ pc[p] = "down"
  /\ alive' = [alive EXCEPT ![p] = TRUE]
  /\ Goto(p, "mkdir")
  /\ UNCHANGED <<lock, attempt, inode, snap, todo, held, heldDir, dir, clock,
                 marker, published>>

(* mkdirSync: a new, empty directory, EEXIST, or another error. *)
Mkdir(p) ==
  /\ pc[p] = "mkdir"
  /\ \/ /\ Present(dir[lock[p]])
        /\ Goto(p, "exists") /\ UNCHANGED dir
     \/ /\ ~Present(dir[lock[p]])
        /\ \E i \in FreeInodes :
             dir' = [dir EXCEPT ![lock[p]] =
                       [ino |-> i, mtime |-> clock, names |-> {}, full |-> {}]]
        /\ Goto(p, "created")
     \/ Goto(p, "drop") /\ UNCHANGED dir
  /\ UNCHANGED <<alive, lock, attempt, inode, snap, todo, held, heldDir, clock,
                 marker, published>>

(* readSnapshot of the directory just created. *)
Inspect(p) ==
  /\ pc[p] = "created"
  /\ inode' = [inode EXCEPT ![p] = dir[lock[p]].ino]
  /\ Goto(p, IF Present(dir[lock[p]]) THEN "claim" ELSE "drop")
  /\ UNCHANGED <<alive, lock, attempt, snap, todo, held, heldDir, dir, clock,
                 marker, published>>

(* writeFileSync creates the entry (step "claim" or "owner") and then      *)
(* writes its contents; either may fail, and the process may die between.  *)
CreateEntry(p, step, entry) ==
  /\ pc[p] = step
  /\ \/ /\ Present(dir[lock[p]])
        /\ dir' = [dir EXCEPT ![lock[p]] = WithEntry(@, entry)]
        /\ Goto(p, IF step = "claim" THEN "fillClaim" ELSE "fillOwner")
     \/ Goto(p, "partial") /\ UNCHANGED dir
  /\ UNCHANGED <<alive, lock, attempt, inode, snap, todo, held, heldDir, clock,
                 marker, published>>

FillEntry(p, step, entry) ==
  /\ pc[p] = step
  /\ \/ /\ dir' = [dir EXCEPT ![lock[p]] = WithContents(@, entry)]
        /\ Goto(p, IF step = "fillClaim" THEN "owner" ELSE "check")
     \/ Goto(p, "partial") /\ UNCHANGED dir
  /\ UNCHANGED <<alive, lock, attempt, inode, snap, todo, held, heldDir, clock,
                 marker, published>>

(* Mutated form: entries of others next to its own are not looked for. *)
OwnAmongOthers(p, d) == Entries(p) \subseteq d.names

(* The final check: exactly its own entries, with their contents. *)
ExactlyOwn(p, d) == d.names = Entries(p) /\ d.full = Entries(p)

(* Mutated form: off by one in the loop over the lock paths. *)
PastLastLock(l) == l <= NumLocks

MoreLocks(l) == l < NumLocks

(* The lock is held; the next one follows, or the process serves. *)
Check(p) ==
  LET l == lock[p]
      ok == dir[l].ino = inode[p] /\ ExactlyOwn(p, dir[l])
  IN /\ pc[p] = "check"
     /\ held' = IF ok THEN [held EXCEPT ![p] = @ \cup {l}] ELSE held
     /\ heldDir' = IF ok THEN [heldDir EXCEPT ![p][l] = SnapshotOf(dir[l])] ELSE heldDir
     /\ lock' = IF ok /\ MoreLocks(l) THEN [lock EXCEPT ![p] = l + 1] ELSE lock
     /\ attempt' = [attempt EXCEPT ![p] = 1]
     /\ Goto(p, IF ~ok THEN "drop" ELSE IF MoreLocks(l) THEN "mkdir" ELSE "serving")
     /\ UNCHANGED <<alive, inode, snap, todo, dir, clock, marker, published>>

(* A write failed: remove what is left of its own, but only entries that   *)
(* have their contents and only from the directory it created.             *)
RemovePartial(p) ==
  LET d == dir[lock[p]]
  IN /\ pc[p] = "partial"
     /\ IF /\ Present(d) /\ d.ino = inode[p]
           /\ d.names \subseteq Entries(p) /\ d.names \subseteq d.full
        THEN todo' = [todo EXCEPT ![p] = UnlinkOrder(d.names)] /\ Goto(p, "remove")
        ELSE Goto(p, "drop") /\ UNCHANGED todo
     /\ UNCHANGED <<alive, lock, attempt, inode, snap, held, heldDir, dir, clock,
                    marker, published>>

-----------------------------------------------------------------------------
(* Recovery: recoverStaleLock, removeExactSnapshot *)

(* readPinnedSnapshot *)
TakeSnapshot(p) ==
  /\ pc[p] = "exists"
  /\ IF Present(dir[lock[p]])
     THEN snap' = [snap EXCEPT ![p] = SnapshotOf(dir[lock[p]])] /\ Goto(p, "judge")
     ELSE Goto(p, "drop") /\ UNCHANGED snap
  /\ UNCHANGED <<alive, lock, attempt, inode, todo, held, heldDir, dir, clock,
                 marker, published>>

(* recoverStaleSnapshot's verdict, with the last readSnapshot of           *)
(* removeExactSnapshot: the directory is stale and still as in the         *)
(* snapshot.                                                               *)
Judge(p) ==
  LET d == dir[lock[p]]
  IN /\ pc[p] = "judge"
     /\ IF Present(d) /\ SnapshotOf(d) = snap[p] /\ Stale(d)
        THEN /\ todo' = [todo EXCEPT ![p] = UnlinkOrder(d.names)]
             /\ Goto(p, "recover")
             /\ UNCHANGED snap
        ELSE /\ Goto(p, "drop")
             /\ snap' = [snap EXCEPT ![p] = NoSnap]
             /\ UNCHANGED todo
     /\ UNCHANGED <<alive, lock, attempt, inode, held, heldDir, dir, clock, marker,
                    published>>

(* What follows a removal in step pc[p]: a recovery tries mkdir again (at  *)
(* most three attempts), everything else goes on dropping locks.           *)
AfterRemoval(p, removed) ==
  /\ todo' = [todo EXCEPT ![p] = <<>>]
  /\ snap' = [snap EXCEPT ![p] = NoSnap]
  /\ IF pc[p] = "recover" /\ removed /\ attempt[p] < 3
     THEN Goto(p, "mkdir") /\ attempt' = [attempt EXCEPT ![p] = @ + 1]
     ELSE Goto(p, "drop") /\ UNCHANGED attempt

(* unlinkSync of the next entry; a missing entry ends the removal. *)
Unlink(p) ==
  LET l == lock[p]
      entry == Head(todo[p])
  IN /\ pc[p] \in {"remove", "recover", "release"} /\ todo[p] # <<>>
     /\ IF entry \in dir[l].names
        THEN /\ dir' = [dir EXCEPT ![l] = WithoutEntry(@, entry)]
             /\ todo' = [todo EXCEPT ![p] = Tail(@)]
             /\ UNCHANGED <<pc, attempt, snap>>
        ELSE AfterRemoval(p, FALSE) /\ UNCHANGED dir
     /\ UNCHANGED <<alive, lock, inode, held, heldDir, clock, marker, published>>

(* rmdirSync of whatever empty directory is there now. *)
Rmdir(p) ==
  LET d == dir[lock[p]]
      removed == Present(d) /\ d.names = {}
  IN /\ pc[p] \in {"remove", "recover", "release"} /\ todo[p] = <<>>
     /\ dir' = IF removed THEN [dir EXCEPT ![lock[p]] = NoDir] ELSE dir
     /\ AfterRemoval(p, removed)
     /\ UNCHANGED <<alive, lock, inode, held, heldDir, clock, marker, published>>

-----------------------------------------------------------------------------
(* Serving, shutdown and rollback *)

(* publishRuntimeReadiness, again with every transport that comes up. *)
Publish(p) ==
  /\ pc[p] = "serving"
  /\ marker' = p
  /\ published' = [published EXCEPT ![p] = TRUE]
  /\ UNCHANGED <<pc, alive, lock, attempt, inode, snap, todo, held, heldDir, dir,
                 clock>>

(* Where a shutdown goes from clear()'s read of the marker's owner. *)
ClearFirst(p) == IF published[p] /\ marker = p THEN "unpublish" ELSE "drop"

Shutdown(p) ==
  /\ pc[p] = "serving"
  /\ Goto(p, ClearFirst(p))
  /\ published' = [published EXCEPT ![p] = @ /\ marker = p]
  /\ UNCHANGED <<alive, lock, attempt, inode, snap, todo, held, heldDir, dir, clock,
                 marker>>

(* clear()'s unlink, of whatever marker is there now. *)
Unpublish(p) ==
  /\ pc[p] = "unpublish"
  /\ marker' = NoProc
  /\ published' = [published EXCEPT ![p] = FALSE]
  /\ Goto(p, "drop")
  /\ UNCHANGED <<alive, lock, attempt, inode, snap, todo, held, heldDir, dir, clock>>

LastHeld(p) == CHOOSE l \in held[p] : \A m \in held[p] : m <= l

(* release, or the rollback of a failed acquisition: the held locks in     *)
(* reverse, each only if the directory is still exactly as it was held.    *)
Drop(p) ==
  /\ pc[p] = "drop" /\ held[p] # {}
  /\ LET l == LastHeld(p)
         d == dir[l]
     IN /\ held' = [held EXCEPT ![p] = @ \ {l}]
        /\ lock' = [lock EXCEPT ![p] = l]
        /\ IF SnapshotOf(d) = heldDir[p][l] /\ d.full = Entries(p)
           THEN /\ todo' = [todo EXCEPT ![p] = UnlinkOrder(d.names)]
                /\ Goto(p, "release")
           ELSE UNCHANGED <<pc, todo>>
  /\ UNCHANGED <<alive, attempt, inode, snap, heldDir, dir, clock, marker,
                 published>>

Exit(p) ==
  /\ pc[p] = "drop" /\ held[p] = {}
  /\ Goto(p, "exited")
  /\ alive' = [alive EXCEPT ![p] = FALSE]
  /\ UNCHANGED <<lock, attempt, inode, snap, todo, held, heldDir, dir, clock,
                 marker, published>>

(* SIGKILL, a crash of the runtime: its descriptors are closed.            *)
Crash(p) ==
  /\ alive[p]
  /\ Goto(p, "crashed")
  /\ alive' = [alive EXCEPT ![p] = FALSE]
  /\ snap' = [snap EXCEPT ![p] = NoSnap]
  /\ UNCHANGED <<lock, attempt, inode, todo, held, heldDir, dir, clock, marker,
                 published>>

(* More than incompleteGraceMs pass. *)
TimePasses ==
  /\ clock < MaxClock
  /\ clock' = clock + 1
  /\ UNCHANGED <<pc, alive, lock, attempt, inode, snap, todo, held, heldDir, dir,
                 marker, published>>

-----------------------------------------------------------------------------
Acquire(p) ==
  \/ Start(p) \/ Mkdir(p) \/ Inspect(p)
  \/ CreateEntry(p, "claim", Claim(p)) \/ FillEntry(p, "fillClaim", Claim(p))
  \/ CreateEntry(p, "owner", Owner(p)) \/ FillEntry(p, "fillOwner", Owner(p))
  \/ Check(p) \/ RemovePartial(p)

Remove(p) == TakeSnapshot(p) \/ Judge(p) \/ Unlink(p) \/ Rmdir(p)

Leave(p) ==
  Publish(p) \/ Shutdown(p) \/ Unpublish(p) \/ Drop(p) \/ Exit(p) \/ Crash(p)

Next == TimePasses \/ \E p \in Procs : Acquire(p) \/ Remove(p) \/ Leave(p)

Spec == Init /\ [][Next]_vars

-----------------------------------------------------------------------------
(* Properties *)

Steps ==
  {"down", "mkdir", "exists", "judge", "recover", "created", "claim", "fillClaim",
   "owner", "fillOwner", "check", "partial", "remove", "serving", "unpublish",
   "drop", "release", "exited", "crashed"}

EntryNames == {"claim", "owner"} \X Procs

DirStamp == [ino : Inodes \cup {0}, mtime : 0..MaxClock, names : SUBSET EntryNames]

LockDir ==
  [ino : Inodes \cup {0}, mtime : 0..MaxClock, names : SUBSET EntryNames,
   full : SUBSET EntryNames]

TypeOK ==
  /\ pc \in [Procs -> Steps]
  /\ alive \in [Procs -> BOOLEAN]
  /\ lock \in [Procs -> Locks]
  /\ attempt \in [Procs -> 1..3]
  /\ inode \in [Procs -> Inodes \cup {0}]
  /\ snap \in [Procs -> DirStamp]
  /\ todo \in [Procs -> Seq(EntryNames)]
  /\ held \in [Procs -> SUBSET Locks]
  /\ heldDir \in [Procs -> [Locks -> DirStamp]]
  /\ dir \in [Locks -> LockDir]
  /\ clock \in 0..MaxClock
  /\ marker \in Procs \cup {NoProc}
  /\ published \in [Procs -> BOOLEAN]

(* A process has a lock from the final check of acquireOneLock until it    *)
(* begins to drop its locks.                                               *)
Has(p, l) == alive[p] /\ l \in held[p] /\ pc[p] \notin {"drop", "release"}

(* No two running processes have the same resource, whatever recoveries,   *)
(* rollbacks, crashes and releases interleave with the acquisition.        *)
MutualExclusion ==
  \A p, q \in Procs, l \in Locks : Has(p, l) /\ Has(q, l) => p = q

(* An entry of a running process disappears only by its own hand: no       *)
(* recovery takes a live claim, complete or not (runtime-guard.ts:428).    *)
LiveEntriesUntouched ==
  [][\A p \in Procs, l \in Locks :
       \A entry \in (Entries(p) \cap dir[l].names) \ dir'[l].names :
         alive[p] => pc[p] \in {"remove", "release"}]_vars

(* The readiness marker names the serving process that published it: an    *)
(* older process that shuts down never takes a replacement's marker away   *)
(* (comment at runtime-readiness.ts:38).                                   *)
ReadyNamesServer ==
  \A p \in Procs : pc[p] = "serving" /\ published[p] => marker = p

(* One process serves, and the readiness marker says which. *)
ServesAlone == MutualExclusion /\ ReadyNamesServer

(* A process that gave up left nothing of its own in a lock directory      *)
(* (docs/monitoring.md:96, "Partial acquisition rolls back").              *)
GaveUpCleanly ==
  \A p \in Procs, l \in Locks : pc[p] = "exited" => Entries(p) \cap dir[l].names = {}
=============================================================================
