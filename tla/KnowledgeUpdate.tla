--------------------------- MODULE KnowledgeUpdate ---------------------------
(***************************************************************************)
(* A Knowledge v2 workspace under the managed writer and the maintenance   *)
(* run: src/src/knowledge/update.ts (executeWriteRequest, executeMove-     *)
(* Request and their rollback) and src/src/knowledge/maintenance.ts.       *)
(*                                                                         *)
(* A transaction is taken one file system call at a time; any call may     *)
(* fail and its process may die between any two.  The update lock, which   *)
(* KnowledgeLock models, lets one transaction run at a time: here it is    *)
(* the transaction itself.  Maintenance evaluates its candidates, takes    *)
(* its snapshots and checks its results outside that lock, so another      *)
(* process's transactions and hand edits fall in between.                  *)
(*                                                                         *)
(* A version stands for the bytes and the modification time of a page; the *)
(* index is the corpus it was generated from.                              *)
(***************************************************************************)
EXTENDS Naturals, ManagedRequest

CONSTANTS
  Pages,          \* managed page paths
  Dated,          \* those that are dated project records proven closed
  High, Low,      \* watermarks of the index, in listed pages
  MaxVersion,     \* bound: versions ever written
  MaxRequests,    \* bound: requests and maintenance runs
  MaxFaults       \* bound: failed calls and crashes

ASSUME KnowledgeUpdateAssumption ==
  /\ Dated \subseteq Pages /\ IsFiniteSet(Pages)
  /\ {High, Low, MaxRequests, MaxFaults} \subseteq Nat /\ MaxVersion \in Nat \ {0}
  /\ Low <= High

VARIABLES
  active,     \* wiki/pages: the version of each page, or None
  archived,   \* artifacts/knowledge-archive, likewise
  index,      \* the corpus wiki/index.md was generated from
  log,        \* wiki/log.md: the entries
  bad,        \* versions that do not parse as a managed page
  tx,         \* the transaction that holds the lock
  maint,      \* the maintenance run
  aged,       \* versions up to this one are older than MIN_AGE_MS
  version, requests, faults,   \* counters for the bounds
  stale       \* ghost: a crash, a failed rollback or a hand edit came since
              \* the index was last verified

updateVars == <<active, archived, index, log, bad, tx, maint, aged, version,
          requests, faults, stale>>

None == 0
Idle == [pc |-> "idle"]
Resting(stop, count, moved, harmed) ==
  [pc |-> "idle", stop |-> stop, count |-> count, moved |-> moved,
   harmed |-> harmed]

\* The files a transaction renames into place, in order: a move has no new page.
Writing(op) ==
  IF op \in {"archive", "restore"} THEN <<"index", "log">> ELSE <<"page", "index", "log">>
Corpora == [Pages -> 0..MaxVersion]

UpdateTypeOK ==
  /\ active \in Corpora /\ archived \in Corpora /\ index \in Corpora
  /\ log \in Seq({"create", "update", "archive", "restore"} \X Pages)
  /\ bad \subseteq 1..MaxVersion
  /\ tx.pc \in {"idle", "link", "unlink", "collect", "write", "verify", "undo",
                "relink", "redrop", "failed"}
  /\ maint.pc \in {"idle", "next", "archive", "waiting", "verify"}
  /\ {aged, version} \subseteq 0..MaxVersion

UpdateInit ==
  /\ active = [p \in Pages |-> 1]
  /\ archived = [p \in Pages |-> None]
  /\ index = active
  /\ log = <<>>
  /\ bad = {}
  /\ tx = Idle
  /\ maint = Resting("none", 0, 0, FALSE)
  /\ aged = 1 /\ version = 1
  /\ requests = 0 /\ faults = 0
  /\ stale = FALSE

-----------------------------------------------------------------------------
(* What a request is checked against once the lock is held.                *)

\* collectKnowledgePages returns the corpus, not a failure.
Readable(corpus) == \A p \in Pages : corpus[p] \notin bad

\* actionForOperation.
Action(op, p) ==
  CASE op = "create" /\ active[p] = None -> "create"
    [] op = "update" /\ active[p] # None -> "update"
    [] op = "upsert" -> IF active[p] = None THEN "create" ELSE "update"
    [] OTHER -> "refused"

Source(op) == IF op = "archive" THEN active ELSE archived
Target(op) == IF op = "archive" THEN archived ELSE active

\* The collision, occupied destination and missing source refusals.
Movable(op, p) == Source(op)[p] # None /\ Target(op)[p] = None

Before(p) == [active |-> active[p], archived |-> archived[p],
              index |-> index, log |-> log]

Request == requests < MaxRequests /\ requests' = requests + 1

\* executeWriteRequest up to its plan: the index is generated from the pages
\* read now, with the new page among them.
BeginWrite(op, p) ==
  /\ tx.pc = "idle" /\ Request /\ Admits[op]
  /\ Action(op, p) # "refused" /\ Readable(active) /\ version < MaxVersion
  /\ version' = version + 1
  /\ tx' = [pc |-> "write", by |-> "user", op |-> Action(op, p), page |-> p,
            version |-> version', index |-> [active EXCEPT ![p] = version'],
            written |-> 0, before |-> Before(p), clean |-> TRUE]
  /\ UNCHANGED <<active, archived, index, log, bad, maint, aged, faults, stale>>

\* executeMoveRequest up to the move: the source bytes and the log are read.
StartMove(by, op, p) ==
  /\ Admits[op] /\ Movable(op, p) /\ Readable(active)
  /\ tx' = [pc |-> "link", by |-> by, op |-> op, page |-> p,
            version |-> Source(op)[p], index |-> index,
            written |-> 0, before |-> Before(p), clean |-> TRUE]

BeginMove(op, p) ==
  /\ tx.pc = "idle" /\ Request
  /\ StartMove("user", op, p)
  /\ UNCHANGED <<active, archived, index, log, bad, maint, aged, version,
                 faults, stale>>

-----------------------------------------------------------------------------
(* The transaction.  A call that fails counts as a fault.                  *)

Fault == faults < MaxFaults /\ faults' = faults + 1
Calm == UNCHANGED <<bad, aged, version, requests>>
Outside == Calm /\ UNCHANGED <<maint, stale>>
Moves == tx.op \in {"archive", "restore"}
At(pc) == tx.pc = pc
Goto(pc) == tx' = [tx EXCEPT !.pc = pc]

PutActive(v) == active' = [active EXCEPT ![tx.page] = v]
PutArchived(v) == archived' = [archived EXCEPT ![tx.page] = v]
PutTarget(v) == IF tx.op = "archive" THEN PutArchived(v) /\ UNCHANGED active
                                     ELSE PutActive(v) /\ UNCHANGED archived
PutSource(v) == IF tx.op = "archive" THEN PutActive(v) /\ UNCHANGED archived
                                     ELSE PutArchived(v) /\ UNCHANGED active

\* moveFileNoClobber: linkSync, then unlinkSync of the source.
LinkPage ==
  /\ At("link") /\ Goto("unlink")
  /\ PutTarget(tx.version)
  /\ UNCHANGED <<index, log, faults>> /\ Outside

LinkPageFails ==
  /\ At("link") /\ Fault /\ Goto("failed")
  /\ UNCHANGED <<active, archived, index, log>> /\ Outside

Unlink ==
  /\ At("unlink") /\ Goto("collect")
  /\ PutSource(None)
  /\ UNCHANGED <<index, log, faults>> /\ Outside

\* The source is still there: the fresh link is taken back, or that fails too.
UnlinkFails ==
  /\ At("unlink") /\ Fault
  /\ \/ Goto("failed") /\ PutTarget(None)
     \/ /\ tx' = [tx EXCEPT !.pc = "failed", !.clean = FALSE]
        /\ UNCHANGED <<active, archived>>
  /\ UNCHANGED <<index, log>> /\ Outside

\* The index of a move is generated from the pages as they are after it.
Collect ==
  /\ At("collect")
  /\ tx' = IF Readable(active) THEN [tx EXCEPT !.pc = "write", !.index = active]
                               ELSE [tx EXCEPT !.pc = "relink"]
  /\ UNCHANGED <<active, archived, index, log, faults>> /\ Outside

\* atomicWriteFiles: every staged file is renamed into place, in order.
Put(file, page, corpus, entries) ==
  /\ active' = IF file = "page" THEN [active EXCEPT ![tx.page] = page] ELSE active
  /\ index' = IF file = "index" THEN corpus ELSE index
  /\ log' = IF file = "log" THEN entries ELSE log
  /\ UNCHANGED archived

Commit ==
  /\ At("write") /\ tx.written < Len(Writing(tx.op))
  /\ Put(Writing(tx.op)[tx.written + 1], tx.version, tx.index,
         Append(tx.before.log, <<tx.op, tx.page>>))
  /\ tx' = [tx EXCEPT !.written = @ + 1,
                      !.pc = IF tx.written + 1 = Len(Writing(tx.op)) THEN "verify" ELSE "write"]
  /\ UNCHANGED faults /\ Outside

\* A staging write or a rename fails.
CommitFails ==
  /\ At("write") /\ Fault /\ Goto("undo")
  /\ UNCHANGED <<active, archived, index, log>> /\ Outside

\* verifyIndexInvariants: the index is the one generated from the pages that
\* are there, and the page is among them unless it was archived.
IndexExact == Readable(active) /\ index = active
TargetListed == (active[tx.page] # None) <=> tx.op # "archive"

\* verifyMovedBytes and verifyIndexInvariants.
Verified ==
  /\ IndexExact /\ TargetListed
  /\ Moves => Source(tx.op)[tx.page] = None
              /\ Target(tx.op)[tx.page] = tx.version

\* The answer reaches the maintenance run when the transaction is its own.
Answer(answer, moved, harmed) ==
  maint' = IF tx.by = "user" THEN maint
           ELSE [maint EXCEPT !.pc = "verify", !.answer = answer,
                              !.moved = @ + moved, !.harmed = @ \/ harmed]

Succeed ==
  /\ At("verify") /\ Verified
  /\ tx' = Idle /\ stale' = FALSE
  /\ Answer("ok", 1, FALSE)
  /\ UNCHANGED <<active, archived, index, log, faults>> /\ Calm

\* The invariants do not hold, or reading them or the search refresh throws.
VerifyFails ==
  /\ At("verify") /\ Goto("undo")
  /\ Verified => Fault
  /\ ~Verified => UNCHANGED faults
  /\ UNCHANGED <<active, archived, index, log>> /\ Outside

\* rollbackCommittedWrites: the committed files, last first.
\* Mutant: the move itself is not taken back.
UndoneFilesOnly == "failed"

Undone == IF Moves THEN "relink" ELSE "failed"

\* Mutant: the index is not put back.
UndoForgetsIndex ==
  /\ At("undo") /\ tx.written > 0
  /\ Put(Writing(tx.op)[tx.written], tx.before.active, index, tx.before.log)
  /\ tx' = [tx EXCEPT !.written = @ - 1]
  /\ UNCHANGED faults /\ Outside

Undo ==
  /\ At("undo") /\ tx.written > 0
  /\ Put(Writing(tx.op)[tx.written], tx.before.active, tx.before.index, tx.before.log)
  /\ tx' = [tx EXCEPT !.written = @ - 1]
  /\ UNCHANGED faults /\ Outside

UndoFails ==
  /\ At("undo") /\ tx.written > 0 /\ Fault
  /\ tx' = [tx EXCEPT !.written = @ - 1, !.clean = FALSE]
  /\ UNCHANGED <<active, archived, index, log>> /\ Outside

UndoEnds ==
  /\ At("undo") /\ tx.written = 0 /\ Goto(Undone)
  /\ UNCHANGED <<active, archived, index, log, faults>> /\ Outside

\* rollbackMove: linkSync back to the source, then unlinkSync.
Relink ==
  /\ At("relink") /\ Goto("redrop") /\ PutSource(tx.version)
  /\ UNCHANGED <<index, log, faults>> /\ Outside

Redrop ==
  /\ At("redrop") /\ Goto("failed") /\ PutTarget(None)
  /\ UNCHANGED <<index, log, faults>> /\ Outside

\* Mutant: the destination is removed although the link back failed.
UnmoveGoesOn ==
  /\ tx.pc \in {"relink", "redrop"} /\ Fault
  /\ tx' = [tx EXCEPT !.pc = IF @ = "relink" THEN "redrop" ELSE "failed",
                      !.clean = FALSE]
  /\ UNCHANGED <<active, archived, index, log>> /\ Outside

UnmoveFails ==
  /\ tx.pc \in {"relink", "redrop"} /\ Fault
  /\ tx' = [tx EXCEPT !.pc = "failed", !.clean = FALSE]
  /\ UNCHANGED <<active, archived, index, log>> /\ Outside

Fail ==
  /\ At("failed") /\ tx' = Idle
  /\ stale' = (stale \/ ~tx.clean)
  /\ Answer("error", 0, ~tx.clean)
  /\ UNCHANGED <<active, archived, index, log, faults>> /\ Calm

\* The process dies; the next acquisition reclaims its lock.
WriterDies ==
  /\ ~At("idle") /\ Fault
  /\ tx' = Idle /\ stale' = TRUE
  /\ maint' = IF tx.by = "user" THEN maint ELSE Resting("none", 0, 0, FALSE)
  /\ UNCHANGED <<active, archived, index, log>> /\ Calm

-----------------------------------------------------------------------------
(* executeKnowledgeMaintenance.                                            *)

Size == Cardinality({p \in Pages : index[p] # None})
InMaint(pc) == maint.pc = pc
Watching == UNCHANGED <<active, archived, index, log, bad, tx, aged, version,
                        faults, stale>>
Same == UNCHANGED requests

Snapshot(p) == [index |-> index, coherent |-> IndexExact,
                log |-> log, active |-> active[p], archived |-> archived[p]]

Stop(reason) ==
  maint' = Resting(reason, maint.count, maint.moved, maint.harmed)
NextCandidate == [maint EXCEPT !.pc = "next", !.todo = Tail(@)]
Candidate == Head(maint.todo)

\* collectMaintenanceCandidates: by modification time. Among pages of one time
\* the code goes by path; here their order is open.
Candidates ==
  LET old == {p \in Dated : active[p] \in 1..aged}
  IN {queue \in [1..Cardinality(old) -> old] :
        \A i, j \in DOMAIN queue :
          i < j => queue[i] # queue[j] /\ active[queue[i]] <= active[queue[j]]}

Scan ==
  /\ InMaint("idle") /\ Request
  /\ \/ Size <= High /\ maint' = Resting("below-high", 0, 0, FALSE)
     \/ /\ Size > High /\ \E p \in Dated : active[p] \in bad
        /\ maint' = Resting("unsafe", 0, 0, FALSE)
     \/ /\ Size > High /\ \A p \in Dated : active[p] \notin bad
        /\ \E queue \in Candidates :
             maint' = [pc |-> "next", stop |-> "none", count |-> 0, moved |-> 0,
                       harmed |-> FALSE, answer |-> "none", before |-> <<>>,
                       todo |-> [i \in DOMAIN queue |->
                                  [page |-> queue[i], version |-> active[queue[i]]]]]
  /\ Watching

Exhausted ==
  /\ InMaint("next") /\ maint.todo = <<>>
  /\ Stop("exhausted") /\ Watching /\ Same

\* The snapshot before the archive request.
Consider ==
  /\ InMaint("next") /\ maint.todo # <<>>
  /\ \/ Size <= Low /\ Stop("low")
     \/ /\ Size > Low /\ active[Candidate.page] # Candidate.version
        /\ maint' = NextCandidate
     \/ /\ Size > Low /\ active[Candidate.page] = Candidate.version
        /\ maint' = [maint EXCEPT !.pc = "archive",
                                  !.before = Snapshot(Candidate.page)]
  /\ Watching /\ Same

\* verifyArchivePrecondition, under the lock.
\* Mutant: the candidate is not looked at again.
PreconditionLow == Size > Low

Precondition == Size > Low /\ active[Candidate.page] = Candidate.version

Refusal ==
  IF tx.pc # "idle" THEN "locked"
  ELSE IF ~Movable("archive", Candidate.page) THEN "rejected"
  ELSE IF Size <= Low THEN "low"
  ELSE IF ~Precondition THEN "changed"
  ELSE IF ~Readable(active) THEN "rejected"
  ELSE "none"

Archive ==
  /\ InMaint("archive") /\ Refusal = "none"
  /\ StartMove("maintenance", "archive", Candidate.page)
  /\ maint' = [maint EXCEPT !.pc = "waiting"]
  /\ UNCHANGED <<active, archived, index, log, bad, aged, version, faults,
                 stale>> /\ Same

Refused ==
  /\ InMaint("archive") /\ Refusal # "none"
  /\ maint' = [maint EXCEPT !.pc = "verify", !.answer = Refusal]
  /\ Watching /\ Same

\* successfulArchiveMatches.
Matches(before, after) ==
  /\ after.active = None /\ before.archived = None
  /\ after.archived = before.active
  /\ after.coherent
  /\ after.log = Append(before.log, <<"archive", Candidate.page>>)

\* Mutant: the run stops at the low watermark before it counts the page.
CountedLate(m) == IF Size <= Low THEN m ELSE [m EXCEPT !.count = @ + 1]

Counted(m) == [m EXCEPT !.count = @ + 1]

\* The snapshot after the archive request and what is made of it.
JudgeArchive ==
  LET after == Snapshot(Candidate.page)
      same == maint.before = after
      counted == Counted(NextCandidate)
  IN /\ InMaint("verify")
     /\ \/ /\ maint.answer = "ok" /\ Matches(maint.before, after)
           /\ maint' = IF Size <= Low
                       THEN Resting("low", counted.count, counted.moved, counted.harmed)
                       ELSE counted
        \/ maint.answer = "ok" /\ ~Matches(maint.before, after) /\ Stop("unsafe")
        \/ maint.answer = "low" /\ Stop("low")
        \/ maint.answer = "changed" /\ maint' = NextCandidate
        \/ maint.answer \in {"rejected", "locked"} /\ same /\ maint' = NextCandidate
        \/ maint.answer \in {"rejected", "locked"} /\ ~same /\ Stop("unsafe")
        \/ maint.answer = "error" /\ Stop("unsafe")
     /\ Watching /\ Same

\* A snapshot cannot be read.
SnapshotFails ==
  /\ maint.pc \in {"next", "verify"} /\ maint.todo # <<>> /\ Fault
  /\ Stop("unsafe")
  /\ UNCHANGED <<active, archived, index, log, bad, tx, aged, version, stale>>
  /\ Same

-----------------------------------------------------------------------------
(* The environment.                                                        *)

\* Somebody edits an active page by hand, other than the one being written;
\* the result may not be a managed page.
HandEdit(p) ==
  /\ active[p] # None /\ version < MaxVersion
  /\ tx.pc # "idle" => tx.page # p
  /\ version' = version + 1
  /\ active' = [active EXCEPT ![p] = version']
  /\ bad' \in {bad, bad \union {version'}}
  /\ stale' = TRUE
  /\ UNCHANGED <<archived, index, log, tx, maint, aged, requests, faults>>

TimePasses ==
  /\ aged < version /\ aged' = version
  /\ UNCHANGED <<active, archived, index, log, bad, tx, maint, version,
                 requests, faults, stale>>

Transaction ==
  \/ LinkPage \/ LinkPageFails \/ Unlink \/ UnlinkFails \/ Collect
  \/ Commit \/ CommitFails \/ Succeed \/ VerifyFails
  \/ Undo \/ UndoFails \/ UndoEnds \/ Relink \/ Redrop \/ UnmoveFails
  \/ Fail \/ WriterDies

Maintenance ==
  Scan \/ Exhausted \/ Consider \/ Archive \/ Refused \/ JudgeArchive \/ SnapshotFails

UpdateNext ==
  \/ \E p \in Pages, op \in {"create", "update", "upsert"} : BeginWrite(op, p)
  \/ \E p \in Pages, op \in {"archive", "restore"} : BeginMove(op, p)
  \/ Transaction
  \/ Maintenance
  \/ \E p \in Pages : HandEdit(p)
  \/ TimePasses

UpdateSpec == UpdateInit /\ [][UpdateNext]_updateVars

-----------------------------------------------------------------------------
(* Properties.                                                             *)

\* Between transactions the index lists exactly the pages in force, unless a
\* crash, a failed rollback or a hand edit intervened; any later success
\* makes it right again.
IndexCurrent == tx.pc = "idle" /\ ~stale => index = active

Copies(p) == {active[p], archived[p]} \ {None}
Untouched == Before(tx.page) = tx.before
Done ==
  /\ index = active /\ log = Append(tx.before.log, <<tx.op, tx.page>>)
  /\ active[tx.page] = (IF tx.op = "archive" THEN None ELSE tx.version)
  /\ archived[tx.page] = (CASE tx.op = "archive" -> tx.version
                            [] tx.op = "restore" -> None
                            [] OTHER -> tx.before.archived)

\* A transaction that reports success has done all of what it was asked, also
\* after an earlier crash; one that reports a failure and none of whose
\* rollback calls failed has left no trace in the page, its archived copy, the
\* index and the log.
AllOrNothing ==
  [][ /\ tx.pc = "verify" /\ tx'.pc = "idle" /\ ~stale' => Done
      /\ tx.pc = "failed" /\ tx.clean => Untouched ]_tx

\* No step takes the last copy of a page away, not a failed move, not the
\* rollback of one and not a crash in either: only a write of that page, or
\* the rollback of that write, replaces its version.
LastCopyKept ==
  [][ \A p \in Pages : Copies(p) \subseteq Copies(p)' \/
        (tx.pc \in {"write", "undo"} /\ ~Moves /\ tx.page = p)
        \/ version' > version ]_<<active, archived>>

\* A page leaves the corpus for maintenance only in the version that was
\* evaluated, which was old enough then, and only while the index was above
\* the low watermark, whoever wrote in between.
OnlyEvaluatedArchived ==
  [][ (tx'.pc = "link" /\ tx.pc = "idle" /\ tx'.by = "maintenance") =>
        /\ tx'.version = Candidate.version /\ tx'.version <= aged
        /\ tx'.page \in Dated /\ Size > Low ]_tx

\* A run that does not report an unsafe stop has counted every page its
\* requests archived, and none of them left a rollback unfinished.
ManifestHonest ==
  InMaint("idle") /\ maint.stop \in {"low", "exhausted"} =>
    maint.count = maint.moved /\ ~maint.harmed

\* Whatever a request spells, and whatever lies on the way: what is written or
\* moved is a page in the folder of its type, which says that type itself.
RequestsStayHome == tx.pc # "idle" => Astray = {} /\ Leading = {} /\ Misfiled = {}

\* What is in the workspace, and what a run reports of it, can be relied on.
WorkspaceHonest == IndexCurrent /\ ManifestHonest /\ RequestsStayHome
=============================================================================
