# minime-bot: verification project

TLA+ modules, TLC runs and TLAPS proofs for minime-bot, a bot that puts Pi agent
sessions behind Telegram and Discord chats on one host. File names below are
relative to the repository's `src/` directory unless they start with `docs/`.

## 1. The system

One Node.js process serves the chats. It owns the chat transports, a message queue
per transport, and one child process (`pi --mode rpc`) per active chat session.
Separate short-lived processes run crons and knowledge updates, and a restart may
overlap two runs of the main process. So there are two kinds of concurrency:

- inside a process, asynchronous handlers interleave at every `await`, timer and
  callback (a step between two awaits is atomic);
- between processes, every file-system call interleaves with those of the others,
  and any process may die between two calls.

### Inventory

| Component (source) | State it keeps | Operations | Talks to |
|---|---|---|---|
| Message queue (`message-queue.ts`) | per chat: pending and collect buffers, debounce timer, busy flag, steering bookkeeping, saturation notice and cooldown, media drop callbacks | enqueue, flush, drain, steer and its acknowledgement, clear, clearAll, evict, begin shutdown, flush pending | transport handlers call it; it calls the session manager and the transport's reply function |
| Session manager (`session-manager.ts`) | map of active sessions, startups in flight, teardown chain per chat, generation per chat, crash counters, pending notices, closing flag | get or create, send, clean, reconnect, evict, idle timeout, crash recovery, deliver notice, close all | Pi child processes, session store |
| Session store (`session-store.ts`) | JSON file of bindings and notices | read, compare-and-set, acknowledge notice, migrate | session manager, interactive binding |
| Pi RPC protocol (`pi-rpc-protocol.ts`) | per child: command stream, events of the current turn | prompt, steer, abort, get_state, read stream | the child's stdin and stdout |
| Runtime guard and readiness (`runtime-guard.ts`, `runtime-readiness.ts`) | lock directories, marker file | acquire, recover, release; publish, clear | other runs of the program, restart scripts |
| Serving shutdown (`runtime-shutdown.ts`, `main.ts`) | deadline, shutting-down flag | ordered drain, forced cleanup | every serving component |
| Stream relay, draft coordinator (`stream-relay.ts`, `active-draft-coordinator.ts`) | draft text, timers, edit in flight | first event, update, finish, close | Pi stream, transport |
| Polling supervision (`polling-watchdog.ts`, `poll-progress.ts`, `bot-startup.ts`, `main.ts`) | polling generation, progress times, backoff | check, heartbeat, fail, restart | Telegram API |
| Telegram bot, Discord bot | album buffers, per-update context | commands, messages, callbacks | queue, session manager |
| Cron runner (`cron-runner.ts`, `cron-outbox.ts`, `cron-rich-delivery.ts`) | outbox record per cron, metric file and its lock directory | replay, generate, deliver, queue, record | Pi (one shot), Telegram API, launchd |
| launchd plists (`launchd-cron-plists.ts`, `cron-plist.ts`) | plist files | plan, install, remove | launchd |
| Knowledge (`knowledge/*.ts`) | workspace lock, note files, candidate worktree | update, sync, migrate | git, the agent's tools |
| Collaboration (`collaboration.ts`) | receipts, endpoints | route, deliver, acknowledge | session manager |
| Interactive binding (`interactive-session-binding.ts`) | binding requests | adopt a terminal session | session store |
| Echo watcher, trigger input, media store | file offsets, HTTP server, media files | poll, accept, store, prune | queue, transports |
| Configuration, CLI, context assembly | none shared | parse, validate, assemble | everything, at startup |
| Metrics, quota, status | counters, samples | record, report | HTTP |
| Pi extensions, operations scripts | per child process; slots | tools; switch slots, verify a restart | child's harness; launchd |

What makes each correct, and what is hard about it, is listed as `hazards` in
`PROJECT.json`, at the line where it bites. In one line each:

- queue: every message ends exactly once (answered, steered, rejected or reclaimed),
  in order, with its media settled, whatever clear, shutdown and steering
  acknowledgements interleave;
- session manager: a transcript has one writer, a cleaned session stays cleaned, no
  child is orphaned, a recovery notice is told once, closing ends and is final;
- guard: one process serves, no living process loses its lock, nothing stays locked
  by the dead; the readiness marker names the server;
- turn and relay: an answer is made of the last run of its own prompt, a draft is not
  set to text that was taken back (a refresh may show once more what is visible), every
  turn ends;
- session store and bindings: a chat opens nothing that is not its own, and an old
  store is not lost before its replacement is whole;
- polling and shutdown: one recovery per failed generation, healthy polling is left
  alone, a shutdown ends and nothing starts during it;
- cron: output owed to the user is neither lost nor overwritten, is delivered before
  anything new, and repeats only after a delivery that was cut off or unanswered; each
  logical run is counted once, also when several runs end at the same time;
- launchd: what is loaded is what the file says and fires when the cron is due; a plist
  goes only after the job it describes and the metrics in the directory it names;
- knowledge: one updater at a time, as long as no running process's claim is removed as
  expired; all or none of a set of writes, no last copy of a page, commit or log line
  lost; what is pushed was validated, unless somebody commits beside the sync; and a
  migrated workspace is whole.

## 2. Modules

| Module | Models | Run | Proved in |
|---|---|---|---|
| `MessageCustody` | abstract: each message and its media is settled once | `queue` (as property `KeepsCustody`) | `MessageQueueProofs` |
| `MessageQueue` | `message-queue.ts`, queue side of `runtime-shutdown.ts` | `queue` | `MessageQueueProofs` |
| `TranscriptBinding` | `interactive-session-binding.ts`, startup identity in `pi-rpc-protocol.ts` | `sessions` | `SessionManagerProofs` |
| `SessionStore` (extends it) | `session-store.ts` | `sessions` | `SessionManagerProofs` |
| `SessionManager` (extends it) | `session-manager.ts` | `sessions` | `SessionManagerProofs` |
| `StreamRelay` | `stream-relay.ts`, `active-draft-coordinator.ts` | `pi_turn` | `PiTurnProofs` |
| `PiTurn` (extends it) | the turn reader of `pi-rpc-protocol.ts`, `sendSessionMessage` | `pi_turn` | `PiTurnProofs` |
| `RuntimeGuard` | `runtime-guard.ts`, `runtime-readiness.ts`, their use in `main.ts` | `guard` | `RuntimeGuardProofs` |
| `ServingRuntime` | `main.ts`, `bot-startup.ts`, `polling-watchdog.ts`, `poll-progress.ts`, `runtime-shutdown.ts` | `serving_runtime` | `RuntimeGuardProofs` |
| `CronTask` | the task and the verdict of a run in `cron-runner.ts` | `cron_delivery` | `CronDeliveryProofs` |
| `CronDelivery` (extends it) | `main()` of `cron-runner.ts`, `cron-outbox.ts`, `cron-rich-delivery.ts` | `cron_delivery` | `CronDeliveryProofs` |
| `CronHealthLock` | `writeCronHealthMetric` and its lock in `cron-runner.ts` | `cron_health` | `CronHealthLockProofs` |
| `RunCronPath` | the check of an explicit runner in `launchd-cron-plists.ts` | `launchd_crons` | `CronDeliveryProofs` |
| `LaunchdCrons` (extends it) | a sync of `launchd-cron-plists.ts`, schedules of `cron-plist.ts` | `launchd_crons` | `CronDeliveryProofs` |
| `KnowledgeLock` | the update lock in `knowledge/update.ts` | `knowledge_lock` | `KnowledgeLockProofs` |
| `ManagedRequest` | the fields and paths of a request, `knowledge/update.ts` | `knowledge_update` | `KnowledgeLockProofs` |
| `KnowledgeUpdate` (extends it) | transactions of `knowledge/update.ts`, `knowledge/maintenance.ts` | `knowledge_update` | `KnowledgeLockProofs` |
| `KnowledgeSync` | `knowledge/sync.ts` | `knowledge_sync` | `KnowledgeSyncProofs` |
| `KnowledgeMigration` | `knowledge/migration.ts`, `knowledge/layout.ts` | `knowledge_migration` | `KnowledgeSyncProofs` |

`MC*` modules name the model values, bounds and views TLC needs; the `.cfg` files
beside them are the runs. A `.cfg` that `PROJECT.json` does not list is a variant
described under "Further configurations". A definition followed by its mutated form
(`Names`, `NamesAnyone`) is one whose plausible error some property was seen to catch.

### MessageQueue

A state object of the code (`ChatQueueState`) is a record in `st`; `queues` is the
map of chats to state objects, so that a cleared state that a turn still holds is a
different object from its successor, as in the code. Every action is one
synchronous stretch: a handler up to its first await, or a continuation. `turn` is
the flush in progress of a state object, with its step: preparing the session,
delivering the recovery notice, prompting, replying after an error. Steering
promises (`calls`) settle in any later state, consumed or refused. Messages are
numbers in arrival order; the histories `cleaned`, `dropped`, `taken` and `owned`
say what was done with each and with its media.

`enqueue` → `Enqueue`, `RefuseMessage`; `startFlush` and `flush` → `DebounceFires`,
`SessionPrepared`, `NoticeDelivered`, `AgentTakesPrompt`, `TurnSucceeds`,
`TurnThrows`; `drainCollectBuffer` → `EndTurn`, `ErrorReplied`; steering →
`SteerEnqueued`, `SteerConsumed`, `SteerRefused`, `SteerSettlesLate`; `clear`,
`clearAll` → `Clear`, `ClearAll`; `evictIfIdle` → `EvictIfIdle` in `FlushEvicts` and
`CooldownTimerFires`; `rejectSaturatedInput` → `RejectSaturated`,
`SendRejectionNotice`, `CooldownElapses`; `beginShutdown` with `flushPending` →
`BeginShutdown`; `waitForIdle` and the end of a drain → `FinishDrain`; the forced
cleanup → `ForceShutdown`.

An acknowledgement that comes after its state settled is ignored by the code, so
delivery by steering is at least once at the child: `HandledOnce` speaks of what
the queue hands over, which is exactly once. A refused steer returns to `collect`
behind a later accepted one, so order is promised only within a channel.

### SessionManager

`su` has one record per `startSession` call with the await it is in; `sess` one per
session object (its child up, told to stop, killed, dead; its task); `active` is the
map; `teardowns` the chain of `closeSession` calls per chat; `store` the store's
binding with its notice flag. Actions are
the code between awaits: spawn and its failure, `get_state` confirmation, the
compare-and-set activation, rotation to a fresh session, `/clean` (`Clean`),
`/reconnect` (`Reconnect`), eviction, idle timeout, prompts and crashes of the child,
`SIGTERM` and the escalation to `SIGKILL`, notice delivery, `closeAll`.

The generation counter and the compare-and-set protect a cleaned session twice:
without the generation test alone `CleanIsFinal` still holds. `closeAll` awaits the
startups registered and the sessions active at that moment; `ClosedForGood` shows
that the flag keeps later ones out. Internal (collaboration) tasks check that the
session is still the active one before they persist; they are not modelled further.

The process starts with the store: `Boot` (module `SessionStore`) loads it, migrates
an older one or refuses, and may die and start again; only then do the manager's
actions run. Later changes of the store are its operators `SetSession`,
`CompareAndSet` and `Acknowledge`, each a part of the manager's action that makes it.
What `load` must not accept, what may be written and which file a session
of an old store can be bound to are operators over small records of evidence; what a
startup may open and what Pi must answer are those of `TranscriptBinding`. They are
guards of `Admit`, `SpawnStored`, `Preseed` and `Activate`.

### TranscriptBinding and SessionStore

A candidate file is a record: its place relative to the session directory, kind,
owner, mode and header. `OpensOnlyOwn` says that over every such file the functions of
the code accept exactly the private, regular one with the chat's own id in this
workspace, that Pi's word for it came in answer to this startup, and that a session
of an old store is bound to the single file that can be meant. The bounds are three
records of output, three candidate names and two entries of evidence; ids of two
legacy chats are taken to be distinct (`migrateLegacySessions` does not test it).

### PiTurn and StreamRelay

A prompt goes through `stdin`; Pi (external) rejects it, handles it without a run,
starts it or queues it behind the running lifecycle, and writes records to `stdout`
that the reader takes one by one. `parse` is the code's `PiRpcParseState`: the retained
outcome, the reset flag, whether the end was seen. `Deliver`, the probe, the kill and
the internal outbox are those of `sendSessionMessage`; drafts are requests in flight
beside it. A text is the sequence of the runs its pieces come from, which is all that
the answer's correctness depends on.

Taken together or left out: the independent lifecycle of handled input is written
with its response; `error` records on stdout, `/clean` during a turn, steering,
NO_REPLY, tool blocks, formatting and typing are left out; `message_start` is part of
`agent_start`; replies to probes that were given up are dropped; a dialog stands for a
piece of text. A prompt whose store write failed has no reader (`slipped`): the answer
of the next one is then read from the wrong place, which `InSync` and `AnswerIsOwn`
except by name.

### ServingRuntime

`loop[g]` is the polling promise of generation `g`, from `start` to `done`; `bot` the
generation that grammY runs; `dog` the watchdog with its pending heartbeat; `exit` the
phase of the shutdown. Time is counted in ticks of the watchdog. A conflict, a failed,
slow or stuck start, a slow or hung handler, an outage and a lost heartbeat are faults,
of which there are `MaxDisturbances`. Trigger and collaboration inputs stop at once; Discord
is off only when there are Telegram bindings.

### LaunchdCrons and RunCronPath

A sync plans from the crons and the plist files, then takes each item through
`launchctl print`, `bootout`, the file and `bootstrap`, one call per action, with
launchd, a login and the operator's edits beside it. Schedules are records of ranges
and steps over shortened fields; `Intervals` is `parseCronToCalendarIntervals`, and
`FiresWhenDue` compares what launchd would do with crontab(5) at every time of the
shortened calendar. The order among updates and among deletions is left open.

### KnowledgeLock

One action per call that changes the directory and one per round of reads; a round's
positive verdict needs the file unchanged throughout. A dead process may have left its
lock, its claim or both. A claim gets ten minutes old, that of a running process too
(`Stalls`), and whoever finds it so removes it: `Begin` looks, `DropOld` unlinks, and the
other processes act in between. So the claim removed may be a later one, of a process
that runs. The history `overtaken` notes it (`Overtakes`), `LockSound` and
`LiveLockKept` hold until then, and `MCKnowledgeLockRace.cfg` shows what may happen
after it, even if only dead claims get old. Bound: a lock does not get old between its
creation and its contents.

### KnowledgeUpdate and ManagedRequest

A transaction (`tx`) is taken call by call: link and unlink of a move, the renames of
page, index and log, the verification, and the rollback of each. The lock makes it one
at a time; maintenance (`maint`) evaluates, snapshots and checks outside the lock, so
requests and hand edits fall in between. A version stands for bytes and modification
time. Hand edits never touch the page being written, the index or the log, and the
scan of the evaluation is one step; candidates of one modification time, which the code
takes by path, come in any order. `ManagedRequest` says which requests the code lets
through: paths of up to four segments over every ground (missing, directory, link,
file).

### KnowledgeSync

Commits are numbers with parents, log lines, page variants and at most one flaw;
`origin` and each workspace's `main` and recovery refs point to them. `Sync` is
`executeKnowledgeSync`, from `Fetch` to `Verify`. A commit by hand takes no lock:
`EditKnowledge`, `Repair` and `CommitElsewhere` (a commit of other files) come at any
point of a sync, as does `Rewind` (somebody's forced push) on origin. A flaw is what one
of the validations looks for: attributes that change bytes, a sparse checkout, an
irregular entry, a page that does not parse, an index that is not the generated one, a
merge driver, a submodule pointer that moves, a rewritten log.

What is validated is kept apart from what is pushed. `PrepareInPlace` validates what
`main` is by then and `Advance` pushes the tip read in `Fetch`, as the code does: when
the workspace is ahead and somebody commits in between, a tip that no validation saw is
pushed. `OnlyValidPublished` makes an exception of this case by name (`Overtaken`), and
`MCKnowledgeSyncRace.cfg` shows it. A merge takes over the flaw of the side that changed
it, or the absence of one, and generates the index anew, so it may heal a flawed page;
only the check-in attributes of both tips are inspected beforehand.

Bounds: one flaw in all, which descendants inherit until a repair, and none
together with a forced push; one `CommitElsewhere`, beside a sync and not together with
a forced push. A push and the advance before it are one step, with the answer lost or
not; `worktrees` is the set of those the sync must clean up. The run leaves out the
irregular entry, which is refused where a page that does not parse is.

### KnowledgeMigration

`Begin` plans the control files and `MEMORY.md`, `PlanNext` one legacy file per step in
the order of `walkFiles` (`ComesBefore`), `Start` the generated files; `PlanningEnds` is
a blocker, a dirty worktree or a crash. The plan is a function from paths to contents,
so that a second write of a path is what `AddWrite` makes of it. `Rename` takes the
planned paths in `Turn`, the order of their names, in which the schema marker is last;
the order of two diaries, or of two pages, tells nothing apart and is left open. A
failed rename is undone in the reverse order; the rollback writes in place, so a call of
it that fails, or a crash in it, may leave a torn file. The migration may be run again
over the remains after a commit or with a dirty worktree. `MigratedIsWhole` says what a
workspace that reads as v2 must hold. The report file's path checks are left out.

### RuntimeGuard

One action per file-system call that changes something, one per round of reads. The
module's comment gives the argument why consecutive reads may be one action: a
file's name contains its writer's nonce, its contents are written once, and a dead
process stays dead. Inode numbers are reused as soon as no directory and no open
descriptor has them; a directory's mtime is kept in steps longer than the grace
period, which is coarser than the code's milliseconds and so lets more states pass
for unchanged. `Crash` may strike any living process in any step.

Left out: refusals for foreign uid, mode bits and symbolic links; a start token that
cannot be read together with a reused pid (the code then refuses, which only keeps a
lock); errors of the marker's calls other than a missing file (after one, `clear`
would run again from the exit hook, after the locks are released).

### CronDelivery

One invocation at a time takes a cron from `Invoke` (launchd) through `PickUp`,
`Clear`, `Defer` (the record owed by an earlier run), `Generate`, `SendChunk`,
`SendFails`, `Retry` (`deliverWithRetry`), `CheckSlot`, `Queue` (`queueOutputIfEmpty`)
to `Publish` (`finalizeInvocation`). `slot`, `chat` and `published` are what outlives a
process; everything else is lost by `Crash`, which may come between any two steps. A
payload is the number of its run and is sent as `Chunks` messages. A message may be
refused (a proven rejection), may not arrive, or may arrive without an answer. The
histories `faults` and `doubt` say what the outside did to each run, so that the
properties can say exactly when a result may be missing or repeated.

The model assumes what launchd provides: a job is never run twice at once. A run of
the same cron started by hand beside it is listed as a hazard (the slot is read and
written in two steps) and not modelled.

### CronHealthLock

The runs of one cron that publish at the same time, one action per file-system call:
`mkdir`, `stat`, the two entries, the ownership check, its cleanup, the recovery of a
lock left by a dead or stalled process, the read and the write of the counters, the
release. `Age` makes a lock older than 30 seconds at any point, so that every process
may stall anywhere; `Crash` kills one; the lock may have been abandoned before. The
model has one inode number, so a directory made again is always taken for the old one:
the ownership check must do without that evidence. A pid that is used again by a living
process is left out (the code then compares start times, and keeps the lock if it
cannot).

`OwnerUntouched` (see "Further configurations") says nothing of claims, since
a claim that stayed alone is taken from a process that may only have stalled. If that process wakes, adds its owner entry and
dies before its check, an owner entry without a claim is left, which every later run
refuses by design.

## 3. Runs

| Run | Bounds | States | What it shows |
|---|---|---|---|
| `queue` | one chat, 3 messages, cap 2, 2 state objects, fair timers | 22 thousand | accounting, order, media, clear, drain, refinement of `MessageCustody` with its liveness |
| `sessions` | one chat, 2 startups, 2 session objects, one transcript each, chained teardowns, every kind of store | 562 thousand | one writer, clean is final, maps agree, own transcripts only, notices and old stores kept |
| `guard` | 3 processes, 1 lock, 2 inodes, 1 clock step | 81 thousand | one server, which the marker names; untouched live entries |
| `cron_delivery` | 2 logical runs, 2 messages, 1 retry, 1 crash, 1 failing file operation, 1 partial delivery per result, reports of 3 lines | 158 thousand | nothing owed is lost; runs and verdicts are honest; owed results settle |
| `cron_health` | 3 processes, 1 inode, 1 crash | 1.3 million | exclusion, exact counts, nothing left behind |
| `knowledge_lock` | 3 processes, 2 inodes, 1 crash, stalls, a lock and a claim of dead owners | 559 thousand | exclusion, no lock left, no live lock reclaimed, while no running process's claim was removed as expired |
| `knowledge_update` | 3 pages, 2 requests, 2 faults, watermarks 1 and 2 | 2.9 million | all or nothing, last copies, evaluated versions, honest index and manifest |
| `knowledge_sync` | 2 workspaces, 4 commits, 1 rewind, commits by hand at any time | 1.9 million | nothing lost, variants kept, only valid commits published but for an overtaken tip |
| `knowledge_migration` | 2 legacy files, memory, 2 faults, 1 commit | 4.6 million | a migrated workspace is whole, an apply is safe |
| `pi_turn` | 2 prompts, 2 runs, 1 piece of text, 1 unread record | 512 thousand | right answers, quiet drafts, turns settle |
| `serving_runtime` | 3 generations, 2 faults, 2 retries, stall 2, handler limit 3 | 296 thousand | one recovery, justified restarts, shutdown ends, polling recovers |
| `launchd_crons` | 2 crons, 2 schedules, 2 directories, 2 edits, 2 faults, 2 attempts | 439 thousand | drift explained, jobs right, removals in order, syncs end |

Several properties are conjunctions of named parts, which a reader can list singly in
a configuration of his own: `AccountedInOrder` is `CustodyAccounted`,
`SteerConsistent` and `OrderKept`; `MapsAgree` is `StoreNamesActive`, `NoOrphanChild`,
`ClosedForGood`, `NoticeOnce` and `GaugeExact`; and so on.

Why the bounds are enough. The queue's buffers need a cap of two to tell a full
buffer from a batch, three messages fill it and overflow it, and a second state object
is what a clear can make; four messages were also checked, without liveness, and the
proofs hold for any number. Two startups of one chat are what a superseding
request can overlap; a third transcript was also run (1.35 million states, before the
store was composed in) without a difference. Three processes are a living holder, a
dying one and a newcomer; two locks (1.03 million states) and two clock steps (264
thousand) were also run and pass; the proofs of `RuntimeGuardProofs` lift the bound. A
second logical run of a cron is what can meet the result owed by the first; two
messages are what can arrive in part; the proofs of `CronDeliveryProofs` hold for any
number. Four commits are a base, one of each side and their merge, or a merge and a
rewind; two workspaces race for one origin. Two faults are a failure and the failure
of its rollback. Two prompts and two runs are a superseded run and a prompt after one
that went wrong; three generations are an old one that reports late, the current one
and its successor.

Symmetry is used for processes and for the two dated records of `knowledge_update`, in
safety runs only. `VIEW Live` of `MCRuntimeGuard`
drops the variables of processes that are gone and values that will be overwritten
before they are read; `VIEW Reachable` of `MCSessionManager` does the same for free
startup records, ended sessions and the files of the store once it was read. Deadlock
checking is off where the system may end.

Fairness. `queue` assumes that timers fire and that the promises of turns, notices and
session preparation settle: the code wraps each in a timeout or in a child whose exit
rejects it, and a steering promise settles at the latest with the child's turn.
`cron_delivery` assumes that launchd keeps starting the job, that a started process
keeps running, that its configuration can be loaded again and again (a cron whose
configuration stays broken owes its result for ever), and, for each message of an owed
result, that a chat which is tried again and again accepts it at some point: the code
itself promises no more than one attempt per invocation. `pi_turn` assumes that the
event loop runs, that the watchdog's timers fire and that a child killed with SIGKILL
ends; nothing of a child that hangs. `serving_runtime` assumes timers, that a Discord
login settles, that a handler returns unless it hangs, that an outage ends, and that a
heartbeat which is tried again and again (strong fairness) is answered while the API is
reachable. Where `MaxGenerations` ends a behaviour, `PollingRecovers` accepts the armed
restart. `launchd_crons` assumes that a sync that started goes on unless it dies. No
fairness is assumed of users, crashes or other environment actions, and faults are
bounded.

### Further configurations

These are not part of `PROJECT.json`'s runs; each can be given to TLC with its module.

| Configuration | Result |
|---|---|
| `MCMessageQueue.cfg` with `Spec`, `NumMsgs = 4` and without `KeepsCustody` | four messages, all safety properties: passes, 268 thousand states |
| `MCMessageQueue.cfg` with `MessagesSettle`, `IdleStatesReclaimed` | every offered message settles, idle states leave the map: passes |
| `MCSessionManagerEvict.cfg` | two chats, limit one, one startup at a time: limit and gauge hold (1.03 million states) |
| `MCSessionManagerLive.cfg` | one startup at a time: startups settle and closing ends. With two, a user who cleans or reconnects for ever can keep one waiting |
| `MCCronHealthLock.cfg` with `OwnerUntouched` | only its own process removes the owner entry of a living one: passes, 1.3 million states |
| `MCSessionManagerLimit.cfg` | violated, see below |
| `MCRuntimeGuardRollback.cfg` | violated, see below |
| `MCKnowledgeLockRace.cfg` | violated, see below |
| `MCKnowledgeSyncRace.cfg` | violated, see below |
| `MCKnowledgeMigrationLoose.cfg` | violated, see below |
| `MCServingRuntime.cfg` with `SlowHandlerTolerated` | violated, see below |

### What the code does otherwise

Where the code does not do what a comment, a document or a test says, or where a
reader may not expect what it does:

- `session-manager.ts:856` says "Enforces maxConcurrentSessions via LRU eviction".
  `evictIfNeeded` counts active sessions before the awaits of a startup, so startups of
  two chats that overlap both become active (`WithinSessionLimit`).
- `docs/monitoring.md:96` says "Partial acquisition rolls back". A write that fails
  after creating the claim (`runtime-guard.ts:517`) leaves an empty entry, which neither
  the rollback nor any recovery removes; the resource stays locked until somebody
  deletes the directory (`GaveUpCleanly`).
- `README.md:530-533` says that a lock is reclaimed only when its recorded process is
  no longer the same live process. Two reclaimers that meet a dead process's expired
  claim can both find it expired and remove it (`knowledge/update.ts:914-925`): the
  second removes the claim that the first has made since, claims the same stale lock
  in turn, and both pass the last check before `unlinkSync` (1143). The second removes
  the lock that the first has acquired meanwhile (`ReclaimedOnlyWhenDead`).
- `README.md:508-512` says that a sync "validates the complete Knowledge corpus, and
  fast-forwards canonical `main` only after validation. It then pushes". In a workspace
  that is ahead, the files checked out are validated (`knowledge/sync.ts:2256`), and the
  tip read before is pushed (2263, 2635-2645). When somebody commits a repair in
  between, the flawed tip below it is pushed; the second attempt then publishes the
  repair (`PushedIsValidated`).
- `docs/plans/completed/2026-06-08-knowledge-migrate-false-blockers.md:49` says "Keep
  genuinely unknown Markdown as blocking". Markdown directly under `wiki/`
  (`knowledge/migration.ts:1331-1333`) neither blocks nor is reported
  (`EveryFileAccounted`).
- `polling-watchdog.test.ts:408`: "legitimate media preprocessing must not look like a
  poll stall". A handler that returned within its limit leaves the last successful poll
  old until the next long poll returns; a watchdog that looks in between takes it for a
  stall (`SlowHandlerTolerated`).
- A crash while an old session store is backed up leaves a torn copy, and every later
  start refuses until an operator removes it. `writeData` does not test the size that
  `load` will accept. A write whose directory fsync fails after the rename leaves the
  disk ahead of memory.
- SIGTERM while Discord logs in, without Telegram bindings, ends with status 1.
- A report with both the unresolved marker and NO_REPLY counts as a failure and sends
  nothing.
- A launchd sync that dies between the rename and `bootstrap` leaves a cron that is not
  loaded, and later syncs plan "unchanged" for it until the next login. A changed
  `CRON_HEALTH_TEXTFILE_DIR` leaves the old directory's metrics. A job that starts
  between `launchctl print` and `bootout` is cut. `restorePreviousPlist` writes in
  place, so a crash there leaves a torn plist.

## 4. Proofs

Type correctness comes first in each component, and the other proofs use it. Each
theorem holds for every value of the constants that the named assumption of its module
allows; the argument is an inductive invariant unless something else is said.

- `MessageQueueProofs`. `TypeCorrect`: `TypeOK`, for any chats, state objects, number of
  messages and cap. It contains the bounds of both buffers. The invariant `Linked` says
  that a map entry refers to a state of its own chat, and that this state's busy flag,
  timer, buffers and platform agree with its turn. It is inductive with `TypeOK` and
  gives `NothingIsStranded` (a message that waits has a timer or a running turn that
  will take it) and `ClearedTurnsAreInert`. `NothingStranded` alone is not inductive:
  two chats could share a state object, and a clear of one would strand the other.
  `InCustody` says that a message is in at most one buffer or batch, that nothing was
  done yet with one that waits or was not offered, that a message of a turn belongs to
  the session exactly when the turn handed it over, and that a collect buffer repeats
  nothing. It is inductive with `Linked` and gives `MediaIsSettledOnce`,
  `AgentSeesMessagesOnce`, their conjunction `MessagesHandledOnce`, and
  `QueueImplementsCustody`, the safety part of the refinement. `InOrder` adds that the
  pending buffer and the batch of each state object are in arrival order, and what a
  batch may hold beside the buffers; with what custody says of messages that are in
  neither (`NothingLost`) and of a state whose turn is idle (`IdleTurnsEmpty`) it gives
  `MessagesAccountedInOrder`: no message disappears, steering's bookkeeping agrees with
  the promises in flight, and a channel's messages stay in order. `Unarmed` (after
  `beginShutdown` nothing is accepted and no debounce timer is armed) with `Linked` gives
  `DrainsLoseNothing`: when the last flush ends, no buffer in the map holds anything.
- `SessionManagerProofs`: `SessInv` and `KnownFile`, for any finite number of chats and
  any startups in flight, session objects and transcripts. `Coherent` is what the
  manager's maps say of one another. A startup that leads its chat works on what the
  store says of that chat and, once admitted, finds no session and no teardown there
  (`StartupHolds`); a session in the map is what the store names, and nothing tears it
  down (`ActiveShape`); a child that may write has the transcript the store names or one
  that the store no longer knows, and somebody watches it (`ChildShape`); a running
  teardown has a session that was told to stop (`TeardownShape`). `Registered`,
  `Gauged`, `Bounded` and `ClosedForGood` add the registration of startups, the gauge,
  the crash limit and the end. `OneWriterPerTranscript` alone is not inductive: that a
  startup spawns on a free transcript needs to know where every other child of the
  chat, also those of superseded startups, can have got its own. It gives
  `TranscriptsHaveOneWriter`, `CleanStaysClean`, `TheMapsAgree`, `NoStepForgets` (an
  action property: no step loses a notice or an old store) and `SessionTypeCorrect`.
  `SessionsOpenOnlyOwn` speaks of the functions alone, so it is proved without an
  invariant: the records of candidate files and evidence are arbitrary members of their
  sets, the bounds on how many there are remain those of the definition.
- `PiTurnProofs`: `TurnInv`, for any number of prompts, runs, pieces of text and unread
  records. What the child has written and the reader has not yet read is the difficulty:
  the answer depends on records in the pipe, and these depend on what the child was
  doing when it wrote them. `StreamFollowed` says that there is a sequence of views, one
  per unread record, each the parse state and the accumulated text that the record makes
  of the one before (`Viewed`), which begins with the reader as it is and ends with a
  view that fits the child as it is (`ViewOfChild`): text of an earlier run is there
  only if the next record that starts a run drops it, and a lifecycle that could settle
  now would leave the text of its last run (`Settles`). A record written appends a view,
  a record read takes the first one away. `NothingOwed` says that a child no prompt
  slipped past has nothing to read between two turns, `TurnsApart` who has the relay and
  the outbox, `ProbeOnce` that at most one answer to the watchdog is under way (it must
  be taken out of the middle of the pipe), `RunKnown` that a run that goes on has an
  owner and has not failed. It gives `AnswersAreRight`. `DraftInv` says that the
  scheduler is blocked or new once the answer was read, and that a waiting snapshot is a
  prefix of the answer, or what is visible while nothing is in flight; it relies on
  `TurnInv` for when text arrives (`RelayMoves`) and gives the action property
  `DraftsStayQuiet`.
- `RuntimeGuardProofs`: `GuardInv`, for any number of processes and locks and any
  inodes. Exclusion alone is not inductive; what carries it is that a lock that is
  held is still marked (`HeldIsMarked`), because a removal in progress concerns only
  the remover's own entries or those of a process that is gone for good
  (`RemovalsAreSafe`), because a recovery's verdict is about a dead process that did
  start (`EntriesOfStarted`), and because locks are taken in order (`HeldInOrder`), so
  that a rollback never touches a lock already held. It gives `GuardIsExclusive`,
  `ReadinessNamesServer`, both together as `OneServes`, and the action property `RecoveryRespectsLiving`.
  Its second section is about the polling of the one that serves: `SupervisionInv`, for
  any number of generations, retries and disturbances and any thresholds. It adds to
  `RecoveryPending` that a loop about to start has attempts left (`AttemptsLeft`), that
  nothing has happened to a generation still to come (`ComingUntouched`), and two facts
  about timers that `RestartsJustified` needs: the startup timeout is armed only while its
  generation does not poll yet (`TimeoutBeforePolling`), and a shutdown disarms the restart
  timer for good (`NoRestartLate`). It gives `RecoveryIsPending`, `RestartsAreJustified`
  and `SupervisionTypeCorrect`.
- `CronDeliveryProofs`: `CronInv` gives the safety properties of the slot (`OwedIsKept`
  and the parts of `RunsHonest`) for any number of runs, messages, retries and faults.
  None of them is inductive alone. `Control` ties the step to the record read and the
  run in progress (a replay is of what the slot holds, a run in progress found it
  empty); `CopiesBounded` counts the copies of the delivery under way, message by
  message; `ProgressMade` says that what precedes the next message has arrived;
  `CountsExact` and `OutcomeTrue` say what a run in progress will publish. `TasksAreHonest`
  speaks of the functions of `CronTask`, for reports of any length: nothing goes to the
  default chat under a topic of the task's own (`NoneMisaddressed`), a report counts as
  unresolved exactly when its last line that is not blank is the marker
  (`MarkedIsUnresolved`, which needs that a set of line numbers has a last one), and the
  marker is stripped from what is sent (`StrippedResolved`). Its second section is about
  the launchd plists: `LaunchdInv`, for any crons, schedules, directories, attempts and
  faults. `DriftExplained` leaves out the cron under change, so what is loaded of that one
  must be known step by step: before its bootout what the old plist said, after it nothing,
  and a replacement that is undone without a rollback finds what was there
  (`Halfway`). The stages of a removal and of a replacement do not mix (`Roles`), a job
  of the cron under change started after it was asked for (`ActiveKnown`), and only
  accepted schedules are written and loaded (`FilesShaped`). It gives `DriftIsExplained`
  and the action property `RemovalsKeepTheirOrder`. `LoadedJobsAreRight` rests on two
  facts of the functions: an accepted schedule fires exactly when it is due, over any
  calendar (`AcceptedIsFaithful`: the intervals are the choices of one value per
  restricted field), and nobody but its owner and root can swap any step of a trusted
  path, of whatever length (`NobodyIsFooled`).
- `CronHealthLockProofs`: `LockInv`, for any number of processes, inodes and crashes.
  Mutual exclusion is not inductive: the owner entry of a holder must be in the
  directory whatever a recovery does (`HolderMarked`), which holds because a recovery
  about to remove an owner entry has seen its process dead (`RemovesDead`) and because
  an entry is there only during the steps of its process that need it
  (`EntriesBelong`); `Publishing` says that a process about to write has read the
  counter that is published. It gives `LockIsSound` (exclusion, exact counts, nothing
  left behind) and the action property `OwnersAreRespected`.
- `KnowledgeLockProofs`: `LockInv`, for any number of processes, inodes and crashes and
  with stalls: types, and `ReclaimInv` until the claim of a running process is removed as
  expired, which is noted for good (`OvertakenStays`). A reclaimer about to remove
  the lock is about to remove a dead one (`CondemnedIsDead`), which holds because the
  claim at the path is its own (`ClaimBelongs`), because one about to remove an expired
  claim relies on none (`DropperClaimsNothing`), because a lock whose process still acts
  is there, written, and its own (`LockBelongs`), and because two names of
  one inode are one file (`OneFile`). It gives `WorkspaceLockIsSound` and the action
  property `RunningOwnersKeepTheirLock`. Its second section is about what is done under
  the lock: `UpdateInv`, for any finite set of pages and any versions, watermarks,
  requests and faults. `AllOrNothing` speaks of a transaction's end only, so what it has
  done so far must be known at each call: which of its files are in place (`Progress`,
  `Traced`, `Overwritten`), where the page of a move lies (`Placed`), and, as long as no
  rollback call has failed, what was there before. `Found` says that an undisturbed
  transaction began with an index of the pages, so that a clean rollback leaves one;
  `Waited` and `RunSound` say that the maintenance run waits for its own transaction,
  that what it still has to look at was old enough, and how far its count may be behind.
  It gives `WorkspaceIsHonest` and the action properties `NothingIsDoneByHalf`,
  `LastCopyIsKept` and `OnlyWhatWasEvaluated`. That requests stay home is a statement
  about the functions of `ManagedRequest`: a path without `..` and empty segments is what
  the file system makes of it, and every way it admits was walked for links
  (`NothingAstray`, `NothingLeading`, `NothingMisfiled`); it holds for the segments and
  the depths that `Segments`, `Spelled` and `Ways` name.
- `KnowledgeSyncProofs`: for any number of
  workspaces, commits and forced pushes. `HistoryInv` says that ancestors are closed
  and that a sync has both tips within reach of `main` or a recovery ref
  (`TipsAreNeverLost`). `LineInv` adds what the range checks are for: along a history
  in which every commit keeps its parents' lines, lines only grow (`LinesGrow`); a
  candidate keeps the lines of the tip and everything since the fetched commit
  (`CandsKeep`); and origin still descends from what was fetched (`FarReached`) unless
  somebody rewound it. Since commits by hand come at any point, the tip read is only
  below `main`, and a `main` that moved on is in the history of neither tip nor candidate
  (`TipHeld`, `Apart`), so that a fast-forward either is refused or loses nothing. `NothingLost` alone is not inductive, since a push compares
  nothing: it relies on the candidate that was checked before, against an origin that
  may have moved since. It gives `NothingIsLost`. `PageInv` adds that every commit has
  each edit of its history in its page or an edit on top of it (`VariantKept`), which
  the merge of two pages must restore from a base both sides descend from, and that a
  flawed log goes back to a commit that rewrote it, which nothing fetched or pushed
  has in its history (`Noted`, `OriginSound`, `TipsSound`, `CandsSound`). A candidate is
  valid or was overlooked, its workspace having moved on when it was validated
  (`Overlooked`); an origin that was pushed so is nobody's `main`, which needs that two
  workspaces share only what origin has (`Private`). It gives
  `NoEditIsLost` and `OnlyValidIsPublished`. Its second section is about the migration:
  `MigrationInv`, for any number of legacy files, page names, failed calls, crashes,
  reruns and commits. That a workspace is whole when the marker appears
  must follow from a plan that was made file by file over a half-migrated workspace, so
  `PlanningSound` says what the plan is worth at every file: it overwrites control files
  only, and only those it archives or finds archived (`WritesWhatIsThere`,
  `ControlsCarried`); unless it is blocked, the memory file and every legacy file that
  was looked at are carried over, reported or of unknown provenance (`MemoryCarried`,
  `Accounted`), and the last turns into a blocker at the end. `ApplySound` says that the
  workspace is the planned writes on what was renamed and what was there before
  elsewhere, unless a call of the rollback failed, and that the marker is absent until
  the last rename; then the whole plan is on disk (`WholeAfterApply`). `TextsInPlace`
  (a control file's text is only in its place or in its archive) is what
  `LegacyControlKept` needs: archives come first and are taken away last
  (`ArchiveIsEarlier`), and a file that may be left torn held what the plan made. It gives
  `MigrationIsWhole` and the action property `ApplyCostsNothing`.

Assumptions are those named in the modules: bounds are natural numbers, sizes are
positive, the sets that are counted (chats, processes, pages) are finite, and the null values
are not members of the sets they stand beside (a commit without a flaw has `"none"`,
which is no flaw; `None` is no chat, session, transcript or startup; no inode is 0; a
legacy file is not named as a control file, whose text would be taken for its own).
The proofs of `KnowledgeSync` inherit the model's restrictions: no flawed commit and no
commit of other files together with a forced push, and one flaw in all, which lasts until
it is repaired. Three components' properties name an exception, in
the runs and in the proofs: those of `KnowledgeLock` a claim removed as expired from a
running process (`overtaken`), `OnlyValidPublished` a commit beside the sync
(`Overtaken`), those of `PiTurn` a prompt that was sent without a reader (`slipped`).

Only model-checked: liveness, since the prover has no ENABLED: `OwedSettles`,
`TurnsSettle`, `ShutdownEnds`, `PollingRecovers`, `SyncEnds` and the liveness part of
`KeepsCustody`. Every invariant and every action property of a passing run is proved.

`RuntimeGuard` and `ServingRuntime`, `CronDelivery` and `LaunchdCrons`, `KnowledgeLock`
and `KnowledgeUpdate`, and `KnowledgeSync` and `KnowledgeMigration` share a proof module
each; the second of each pair gives its specification names of its own (`ServingSpec`,
`LaunchdSpec`, `UpdateSpec`, `MigrationSpec`) so that both can be extended.

What a recursive definition computes for every input cannot be proved with the
installed provers either; the modules with theorems use none.

## 5. Plan

Built in the order of the table in section 2: the queue and its abstract custody, the
sessions, the guard and the crons first, then the turn, polling and launchd, and the
knowledge modules with the theorems of the sync last. What remains, in order:

1. An abstract session store that `SessionManager` refines and an abstract turn that
   `MessageQueue` assumes and `PiTurn` implements.
2. Collaboration receipts and steering of a running turn in `PiTurn`; trigger input;
   bot slots.

## 6. Not modelled

Rendering, Markdown conversion, voice, media download, configuration and context
assembly are sequential data handling. The Telegram and Discord APIs, Pi, git and
launchd are environment: modelled by what the code can observe of them. The
collaboration router, the trigger input, the echo watcher and the media store's size
cap keep little state of their own and have no module. The operations scripts run
outside the program. `PROJECT.json` lists each component with its status and reason.
The definitions of the modules stand for about 12,800 of the 40,500 lines of the
implementation; the largest files without a model are `telegram-bot.ts` and
`pi-extensions/knowledge-tools.ts`, front ends of operations that are modelled.
