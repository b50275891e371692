--------------------------- MODULE SessionManager ---------------------------
(***************************************************************************)
(* The lifecycle of interactive Pi sessions, src/src/session-manager.ts:   *)
(* coalesced startups with their generation guard, the teardown barrier,   *)
(* eviction, crash backoff, exact transcript bindings in the session store *)
(* with one rotation per failure, recovery notices, idle and unresponsive  *)
(* sessions, /reconnect, /clean and shutdown.                              *)
(*                                                                         *)
(* An action is what the code does between two awaits.  Transcripts        *)
(* (sessionId with its sessionFile) and ActiveSession objects are members  *)
(* of finite sets that are reused once nothing refers to them.  A startup  *)
(* carries a flag "stale" that the generation counter of its chat moved on *)
(* since the startup captured it.                                          *)
(***************************************************************************)
EXTENDS SessionStore

CONSTANTS
  Starters,     \* startSession calls alive at once (bound)
  Sessions,     \* ActiveSession objects, each with its child (bound)
  MaxTeardowns, \* chained closeSession calls per chat (bound)
  MaxConcurrentSessions,
  MaxCrashRestarts

ASSUME SessionManagerAssumption ==
  /\ IsFiniteSet(Chats) /\ MaxTeardowns \in Nat \ {0}
  /\ MaxConcurrentSessions \in Nat \ {0}
  /\ MaxCrashRestarts \in Nat \ {0}
  /\ None \notin Starters \cup Sessions \cup Transcripts \cup Chats
  /\ {"user", "closeAll"} \cap Starters = {}

VARIABLES
  accepting,   \* acceptingSessionWork
  startups,    \* sessionStartups: chat -> startup or None
  su,          \* the startSession calls
  active,      \* active: chat -> session or None
  gauge,       \* sessionsActive
  sess,        \* the ActiveSession objects and their children
  teardowns,   \* sessionTeardowns: chat -> chained closeSession calls
  restarts,    \* restartCounts
  notifying,   \* chat -> transcript whose recovery notice is being sent
  closing,     \* closeAll: "no", "waiting", "tearing", "done"
  cleaned,     \* history: transcripts forgotten by /clean
  notified     \* history: transcripts whose notice was acknowledged

lives == <<accepting, startups, su, active, gauge, sess, teardowns, restarts,
           notifying, closing, cleaned, notified>>

vars == <<lives, store, stored>>

-----------------------------------------------------------------------------
(* Helpers *)

NoStartup == [phase |-> "free", chat |-> None, stale |-> FALSE,
              state |-> NoEntry, sess |-> None, mayRotate |-> FALSE]

NoSession == [chat |-> None, id |-> None, notice |-> FALSE, child |-> "none",
              task |-> "none"]

(* toSessionState *)
StateOf(n) == [id |-> sess[n].id, notice |-> sess[n].notice]

ActiveSet == {active[c] : c \in Chats} \ {None}

ElementsOf(seq) == {seq[i] : i \in DOMAIN seq}

UsedSessions ==
  ActiveSet \cup {su[k].sess : k \in Starters}
  \cup {n \in Sessions : sess[n].child \in {"up", "term", "kill"}
                         \/ sess[n].task # "none"}
  \cup UNION {{e.sess : e \in ElementsOf(teardowns[c])} : c \in Chats}

FreeSessions == Sessions \ UsedSessions

UsedTranscripts ==
  {store[c].id : c \in Chats} \cup {notifying[c] : c \in Chats}
  \cup {su[k].state.id : k \in Starters}
  \cup {sess[n].id : n \in UsedSessions \ {None}}

FreshTranscripts == Transcripts \ UsedTranscripts

(* Mutated form: the child of a failed or dropped session is left running. *)
LeftRunning(s) == s

(* child.kill(SIGKILL), unless it has exited *)
Killed(s) == [s EXCEPT !.child = IF @ \in {"up", "term"} THEN "kill" ELSE @]

(* kill(SIGTERM), unless child.killed *)
Terminated(s) == [s EXCEPT !.child = IF @ = "up" THEN "term" ELSE @]

Superseded(k) == su[k].stale

(* The startup's promise settles; getOrCreateSession forgets only its own  *)
(* registration.                                                           *)
Unregistered(k) ==
  [c \in Chats |-> IF startups[c] = k THEN None ELSE startups[c]]

Finish(k) ==
  /\ su' = [su EXCEPT ![k] = NoStartup]
  /\ startups' = Unregistered(k)

(* What the maps and sessions are when a handler calls closeSession. *)
Maps == [store |-> store, active |-> active, gauge |-> gauge, sess |-> sess]

(* closeSession on the chats C: chained behind a running teardown,         *)
(* otherwise closeSessionInternal runs up to its first await.              *)
Close(C, owner, persist, w) ==
  LET now == {c \in C : teardowns[c] = <<>>}
      hit == {c \in now : w.active[c] # None}
      Entry(n) == [owner |-> owner, persist |-> persist, sess |-> n]
  IN /\ restarts' = [c \in Chats |-> IF c \in now THEN 0 ELSE restarts[c]]
     /\ teardowns' = [c \in Chats |->
          IF c \in hit THEN <<Entry(w.active[c])>>
          ELSE IF c \in C \ now THEN Append(teardowns[c], Entry(None))
          ELSE teardowns[c]]
     /\ store' = [c \in Chats |->
          IF c \in hit /\ persist THEN StateOf(w.active[c]) ELSE w.store[c]]
     /\ active' = [c \in Chats |-> IF c \in hit THEN None ELSE w.active[c]]
     /\ gauge' = w.gauge - Cardinality(hit)
     /\ sess' = [n \in Sessions |->
          IF \E c \in hit : w.active[c] = n THEN Terminated(w.sess[n])
          ELSE w.sess[n]]

TeardownPending(owner) ==
  \E c \in Chats : \E e \in ElementsOf(teardowns[c]) : e.owner = owner

-----------------------------------------------------------------------------
Init ==
  /\ accepting = TRUE
  /\ startups = [c \in Chats |-> None]
  /\ su = [k \in Starters |-> NoStartup]
  /\ active = [c \in Chats |-> None]
  /\ gauge = 0
  /\ sess = [n \in Sessions |-> NoSession]
  /\ teardowns = [c \in Chats |-> <<>>]
  /\ InitStore
  /\ restarts = [c \in Chats |-> 0]
  /\ notifying = [c \in Chats |-> None]
  /\ closing = "no"
  /\ cleaned = {}
  /\ notified = {}

-----------------------------------------------------------------------------
(* Startups *)

(* Mutated form: getOrCreateSession does not look at acceptingSessionWork. *)
AcceptsAlways == TRUE

AcceptsWork == accepting

(* getOrCreateSession: callers of the same generation share one startup;   *)
(* a caller for another agent waits for it and then asks again.            *)
GetOrCreate(c) ==
  /\ AcceptsWork
  /\ startups[c] # None => Superseded(startups[c])
  /\ \E k \in Starters :
       /\ su[k].phase = "free"
       /\ su' = [su EXCEPT ![k].phase = "barrier", ![k].chat = c]
       /\ startups' = [startups EXCEPT ![c] = k]
  /\ UNCHANGED <<accepting, active, gauge, sess, teardowns, store, restarts,
                 notifying, closing, cleaned, notified>>

(* Mutated form: a startup does not wait for the teardown of its chat. *)
ResumesUnguarded(k) ==
  \/ su[k].phase \in {"barrier", "backoff"}
  \/ su[k].phase \in {"replacing", "evicting"} /\ ~TeardownPending(k)

(* The awaited step of a startup that has no child yet has completed:      *)
(* waitForSessionTeardown, its own closeSession calls, the backoff sleep.  *)
Resumes(k) ==
  \/ su[k].phase = "barrier" /\ teardowns[su[k].chat] = <<>>
  \/ su[k].phase \in {"replacing", "evicting"} /\ ~TeardownPending(k)
  \/ su[k].phase = "backoff"

SupersededStops(k) ==
  /\ Resumes(k) /\ Superseded(k)
  /\ Finish(k)
  /\ UNCHANGED <<accepting, active, gauge, sess, teardowns, store, restarts,
                 notifying, closing, cleaned, notified>>

Alive(n) == n # None /\ sess[n].child = "up"

(* The active session still fits the config (or the config is broken). *)
ReuseSession(k) ==
  /\ su[k].phase = "barrier" /\ Resumes(k) /\ ~Superseded(k)
  /\ Alive(active[su[k].chat])
  /\ Finish(k)
  /\ UNCHANGED <<accepting, active, gauge, sess, teardowns, store, restarts,
                 notifying, closing, cleaned, notified>>

(* Its agent, model or thinking level changed: close it first. *)
ReplaceSession(k) ==
  /\ su[k].phase = "barrier" /\ Resumes(k) /\ ~Superseded(k)
  /\ Alive(active[su[k].chat])
  /\ Close({su[k].chat}, k, TRUE, Maps)
  /\ su' = [su EXCEPT ![k].phase = "replacing"]
  /\ UNCHANGED <<accepting, startups, notifying, closing, cleaned, notified>>

(* Mutated form: off by one at the limit. *)
PastSessionLimit(open) == Cardinality(open) > MaxConcurrentSessions

AtSessionLimit(open) == Cardinality(open) >= MaxConcurrentSessions

(* No live session: drop a dying one at once, then evictIfNeeded closes    *)
(* the least recently used session (here: any) when the limit is reached.  *)
Admit(k) ==
  LET c == su[k].chat
      n == active[c]
      w == IF n = None THEN Maps
           ELSE [Maps EXCEPT !.active[c] = None, !.gauge = @ - 1,
                             !.sess[n] = Killed(@)]
      open == {d \in Chats : w.active[d] # None}
  IN /\ su[k].phase \in {"barrier", "replacing"} /\ Resumes(k) /\ ~Superseded(k)
     /\ su[k].phase = "barrier" => ~Alive(n)
     /\ IF ~AtSessionLimit(open)
        THEN Close({}, k, TRUE, w)
        ELSE \E victim \in open : Close({victim}, k, TRUE, w)
     /\ su' = [su EXCEPT ![k].phase = "evicting"]
     /\ UNCHANGED <<accepting, startups, notifying, closing, cleaned, notified>>

(* spawnPiRpcSession on a prepared binding; Fresh is the new session.  A   *)
(* spawn that throws at once is one that fails.                            *)
SpawnOn(k, state, mayRotate) ==
  \E n \in FreeSessions :
    /\ su' = [su EXCEPT ![k].phase = "spawning", ![k].state = state,
                        ![k].sess = n, ![k].mayRotate = mayRotate]
    /\ sess' = [sess EXCEPT ![n] =
         [chat |-> su[k].chat, id |-> state.id, notice |-> state.notice,
          child |-> "up", task |-> "none"]]

(* publishPreseededBinding: a new transcript, stored by compare-and-set on *)
(* the entry read in the same step.                                        *)
Preseed(c, entry) ==
  /\ SetSession(c, entry)
  /\ cleaned' = cleaned \ {entry.id}
  /\ notified' = notified \ {entry.id}

(* Mutated form: one crash more is allowed. *)
CrashLimitPassed(c) == restarts[c] > MaxCrashRestarts

CrashLimitReached(c) == restarts[c] >= MaxCrashRestarts

BackoffDue(k) == su[k].phase = "evicting" /\ restarts[su[k].chat] > 0

MaySpawn(k) ==
  /\ su[k].phase \in {"evicting", "backoff"} /\ Resumes(k) /\ ~Superseded(k)
  /\ ~BackoffDue(k)

CrashBackoff(k) ==
  /\ BackoffDue(k) /\ Resumes(k) /\ ~Superseded(k)
  /\ ~CrashLimitReached(su[k].chat)
  /\ su' = [su EXCEPT ![k].phase = "backoff"]
  /\ UNCHANGED <<accepting, startups, active, gauge, sess, teardowns, store,
                 restarts, notifying, closing, cleaned, notified>>

(* Too many consecutive crashes, or the agent is gone from the config. *)
StartupRefused(k) ==
  /\ su[k].phase = "evicting" /\ Resumes(k) /\ ~Superseded(k)
  /\ CrashLimitReached(su[k].chat)
  /\ Finish(k)
  /\ UNCHANGED <<accepting, active, gauge, sess, teardowns, store, restarts,
                 notifying, closing, cleaned, notified>>

(* prepareSessionBinding: the stored transcript is usable. *)
SpawnStored(k) ==
  LET e == store[su[k].chat]
  IN /\ MaySpawn(k) /\ e.id # None /\ Usable # {}
     /\ SpawnOn(k, e, ~e.notice)
     /\ UNCHANGED <<accepting, startups, active, gauge, teardowns, store,
                    restarts, notifying, closing, cleaned, notified>>

(* Mutated form: a new binding never carries a pending notice over. *)
NoticeForgotten(e) == {FALSE}

(* Whether the entry that replaces e has a notice for the user. *)
NoticeFor(e) ==
  IF e.notice THEN {TRUE} ELSE IF e.id = None THEN {FALSE} ELSE BOOLEAN

(* prepareSessionBinding: nothing is stored, another agent's transcript    *)
(* is (its pending notice moves along), or the stored one is unusable and  *)
(* is replaced once with a notice for the user.                            *)
SpawnPreseeded(k) ==
  LET c == su[k].chat
      e == store[c]
  IN /\ MaySpawn(k) /\ Preseedable # {}
     /\ (e.id # None => Unusable # {})
     /\ \E t \in FreshTranscripts, notice \in NoticeFor(e) :
          /\ Preseed(c, [id |-> t, notice |-> notice])
          /\ SpawnOn(k, [id |-> t, notice |-> notice], ~notice)
     /\ UNCHANGED <<accepting, startups, active, gauge, teardowns, restarts,
                    notifying, closing>>

(* prepareSessionBinding: the stored transcript is itself a replacement    *)
(* and not usable; the startup fails without touching anything.            *)
ReplacementUnusable(k) ==
  /\ MaySpawn(k) /\ Unusable # {}
  /\ store[su[k].chat].notice /\ store[su[k].chat].id # None
  /\ Finish(k)
  /\ UNCHANGED <<accepting, active, gauge, sess, teardowns, store, restarts,
                 notifying, closing, cleaned, notified>>

(* The child spawned; get_state is asked next. *)
ChildSpawned(k) ==
  /\ su[k].phase = "spawning" /\ Alive(su[k].sess) /\ ~Superseded(k) /\ Usable # {}
  /\ su' = [su EXCEPT ![k].phase = "identifying"]
  /\ UNCHANGED <<accepting, startups, active, gauge, sess, teardowns, store,
                 restarts, notifying, closing, cleaned, notified>>

(* abortSupersededStartup(child), and the aborts after the child is up:    *)
(* kill it and wait until it is gone (or a second) before rejecting.       *)
KillChild(k, phase) ==
  /\ su' = [su EXCEPT ![k].phase = phase]
  /\ sess' = [sess EXCEPT ![su[k].sess] = Killed(@)]

AbortSuperseded(k) ==
  /\ su[k].phase \in {"spawning", "identifying"} /\ Superseded(k)
  /\ KillChild(k, "aborting")
  /\ UNCHANGED <<accepting, startups, active, gauge, teardowns, store,
                 restarts, notifying, closing, cleaned, notified>>

(* waitForSpawn or assertPiStartupIdentity rejects: timeout, exit, wrong   *)
(* identity.                                                               *)
SpawnFails(k) ==
  /\ su[k].phase \in {"spawning", "identifying"} /\ ~Superseded(k)
  /\ KillChild(k, "failing")
  /\ UNCHANGED <<accepting, startups, active, gauge, teardowns, store,
                 restarts, notifying, closing, cleaned, notified>>

(* The transcript turned out unusable: the one permitted rotation. *)
RotateAndRetry(k) ==
  LET c == su[k].chat
  IN /\ su[k].phase = "failing" /\ ~Superseded(k) /\ su[k].mayRotate
     /\ Unusable # {} /\ Preseedable # {}
     /\ store[c] = su[k].state
     /\ \E t \in FreshTranscripts :
          /\ Preseed(c, [id |-> t, notice |-> TRUE])
          /\ SpawnOn(k, [id |-> t, notice |-> TRUE], FALSE)
     /\ UNCHANGED <<accepting, startups, active, gauge, teardowns, restarts,
                    notifying, closing>>

(* Otherwise the failure counts towards the crash limit (unless the        *)
(* rotation's compare-and-set failed).                                     *)
StartupFails(k) ==
  LET c == su[k].chat
  IN /\ su[k].phase = "failing" /\ ~Superseded(k)
     /\ \/ restarts' = [restarts EXCEPT ![c] = @ + 1]
        \/ /\ su[k].mayRotate /\ store[c] # su[k].state
           /\ UNCHANGED restarts
     /\ Finish(k)
     /\ UNCHANGED <<accepting, active, gauge, sess, teardowns, store,
                    notifying, closing, cleaned, notified>>

(* A killed startup child is gone or was waited for long enough. *)
AbortEnds(k) ==
  /\ \/ su[k].phase = "aborting"
     \/ su[k].phase = "failing" /\ Superseded(k)
  /\ Finish(k)
  /\ UNCHANGED <<accepting, active, gauge, sess, teardowns, store, restarts,
                 notifying, closing, cleaned, notified>>

(* Mutated form: no compare-and-set. *)
Unconfirmed(k) == TRUE

(* The compare-and-set that confirms the activation. *)
Confirmed(k) == store[su[k].chat] = su[k].state

(* The identity matches: publish the session, unless the startup was       *)
(* superseded or the stored entry changed since it was prepared.           *)
Activate(k) ==
  LET c == su[k].chat
  IN /\ su[k].phase = "identifying" /\ Alive(su[k].sess) /\ ~Superseded(k)
     /\ Identifying # {} /\ Confirmed(k)
     /\ active' = [active EXCEPT ![c] = su[k].sess]
     /\ gauge' = gauge + 1
     /\ Finish(k)
     /\ UNCHANGED <<accepting, sess, teardowns, store, restarts, notifying,
                    closing, cleaned, notified>>

(* The compare-and-set refuses (or prepareOutboxDir or the write throws):  *)
(* the session is taken off the map again and its child killed.            *)
ActivationRefused(k) ==
  /\ su[k].phase = "identifying" /\ Alive(su[k].sess) /\ ~Superseded(k)
  /\ KillChild(k, "aborting")
  /\ UNCHANGED <<accepting, startups, active, gauge, teardowns, store,
                 restarts, notifying, closing, cleaned, notified>>

-----------------------------------------------------------------------------
(* Turns and children *)

(* sendSessionMessage puts a task on the session's own queue, where it may *)
(* outlive the session's place in the map.                                 *)
QueueTask(n) ==
  /\ sess[n].task = "none" /\ n \in ActiveSet
  /\ sess' = [sess EXCEPT ![n].task = "queued"]
  /\ UNCHANGED <<accepting, startups, su, active, gauge, teardowns, store,
                 restarts, notifying, closing, cleaned, notified>>

(* Mutated form: a child that was signalled but still runs takes commands. *)
StillRuns(n) == sess[n].child \in {"up", "term", "kill"}

(* writePiCommand refuses a child that was killed or has exited. *)
Writable(n) == sess[n].child = "up"

(* The task sends the prompt, then saves the session's state. *)
RunTask(n) ==
  /\ sess[n].task = "queued"
  /\ IF Writable(n)
     THEN /\ sess' = [sess EXCEPT ![n].task = "running"]
          /\ SetSession(sess[n].chat, StateOf(n))
     ELSE /\ sess' = [sess EXCEPT ![n].task = "none"]
          /\ UNCHANGED store
  /\ UNCHANGED <<accepting, startups, su, active, gauge, teardowns,
                 restarts, notifying, closing, cleaned, notified>>

(* The turn's result arrives; only a success resets the crash count. *)
EndTask(n) ==
  /\ sess[n].task = "running"
  /\ sess' = [sess EXCEPT ![n].task = "none"]
  /\ \E ok \in BOOLEAN :
       restarts' = IF ok THEN [restarts EXCEPT ![sess[n].chat] = 0] ELSE restarts
  /\ UNCHANGED <<accepting, startups, su, active, gauge, teardowns, store,
                 notifying, closing, cleaned, notified>>

(* The liveness probe fails: SIGTERM, the session stays in the map. *)
ProbeFails(n) ==
  /\ sess[n].task = "running" /\ sess[n].child = "up"
  /\ sess' = [sess EXCEPT ![n] = Terminated(@)]
  /\ UNCHANGED <<accepting, startups, su, active, gauge, teardowns, store,
                 restarts, notifying, closing, cleaned, notified>>

(* Five seconds after SIGTERM. *)
Escalate(n) ==
  /\ sess[n].child = "term"
  /\ sess' = [sess EXCEPT ![n] = Killed(@)]
  /\ UNCHANGED <<accepting, startups, su, active, gauge, teardowns, store,
                 restarts, notifying, closing, cleaned, notified>>

(* Mutated form: any exit of a child of the chat counts. *)
ExitConcernsAny(n) == TRUE

(* setupCrashRecovery acts on the exit of the active session's own child;  *)
(* a crash is an exit that no signal of ours explains.                     *)
ExitConcernsActive(n) == active[sess[n].chat] = n

ChildExits(n) ==
  LET c == sess[n].chat
      hit == ExitConcernsActive(n)
  IN /\ sess[n].child \in {"up", "term", "kill"}
     /\ sess' = [sess EXCEPT ![n].child = "dead",
                             ![n].task = IF @ = "running" THEN "none" ELSE @]
     /\ active' = IF hit THEN [active EXCEPT ![c] = None] ELSE active
     /\ gauge' = IF hit THEN gauge - 1 ELSE gauge
     /\ \E crash \in BOOLEAN :
          /\ crash => sess[n].child # "kill"
          /\ restarts' = IF hit /\ crash
                         THEN [restarts EXCEPT ![c] = @ + 1] ELSE restarts
     /\ UNCHANGED <<accepting, startups, su, teardowns, store, notifying,
                    closing, cleaned, notified>>

-----------------------------------------------------------------------------
(* Closing *)

(* The idle timer of an active session with nothing to do. *)
IdleTimeout(c) ==
  /\ active[c] # None /\ sess[active[c]].task = "none"
  /\ Close({c}, "user", TRUE, Maps)
  /\ UNCHANGED <<accepting, startups, su, notifying, closing, cleaned, notified>>

(* /reconnect: closeSession. *)
Reconnect(c) ==
  /\ Len(teardowns[c]) < MaxTeardowns
  /\ Close({c}, "user", TRUE, Maps)
  /\ UNCHANGED <<accepting, startups, su, notifying, closing, cleaned, notified>>

(* /clean: destroySession.  Its generation step supersedes every startup   *)
(* of the chat.                                                            *)
Superseding(C) ==
  [k \in Starters |-> IF su[k].chat \in C THEN [su[k] EXCEPT !.stale = TRUE] ELSE su[k]]

Clean(c) ==
  /\ Len(teardowns[c]) < MaxTeardowns
  /\ su' = Superseding({c})
  /\ Close({c}, "user", FALSE, [Maps EXCEPT !.store[c] = NoEntry])
  /\ cleaned' = (cleaned \cup {store[c].id}) \ {None}
  /\ UNCHANGED <<accepting, startups, notifying, closing, notified>>

(* The child of the running teardown exited, or six seconds passed: the    *)
(* chained closeSession calls get their turn.                              *)
TeardownEnds(c) ==
  /\ teardowns[c] # <<>>
  /\ sess[Head(teardowns[c]).sess].child \in {"dead", "kill"}
  /\ LET rest == Tail(teardowns[c])
     IN IF rest = <<>> \/ active[c] = None
        THEN /\ teardowns' = [teardowns EXCEPT ![c] = <<>>]
             /\ restarts' = [restarts EXCEPT ![c] = IF rest = <<>> THEN @ ELSE 0]
             /\ UNCHANGED <<store, active, gauge, sess>>
        ELSE /\ teardowns' = [teardowns EXCEPT ![c] =
                  <<[Head(rest) EXCEPT !.sess = active[c]]>> \o Tail(rest)]
             /\ restarts' = [restarts EXCEPT ![c] = 0]
             /\ IF Head(rest).persist THEN SetSession(c, StateOf(active[c])) ELSE UNCHANGED store
             /\ active' = [active EXCEPT ![c] = None]
             /\ gauge' = gauge - 1
             /\ sess' = [sess EXCEPT ![active[c]] = Terminated(@)]
  /\ UNCHANGED <<accepting, startups, su, notifying, closing, cleaned, notified>>

(* closeAll, after beginShutdown superseded every registered startup. *)
CloseAll ==
  /\ closing = "no"
  /\ closing' = "waiting"
  /\ accepting' = FALSE
  /\ su' = Superseding({c \in Chats : startups[c] # None})
  /\ UNCHANGED <<startups, active, gauge, sess, teardowns, store, restarts,
                 notifying, cleaned, notified>>

CloseActiveSessions ==
  /\ closing = "waiting"
  /\ \A c \in Chats : startups[c] = None
  /\ closing' = "tearing"
  /\ Close({c \in Chats : active[c] # None}, "closeAll", TRUE, Maps)
  /\ UNCHANGED <<accepting, startups, su, notifying, cleaned, notified>>

CloseAllEnds ==
  /\ closing = "tearing" /\ ~TeardownPending("closeAll")
  /\ closing' = "done"
  /\ UNCHANGED <<accepting, startups, su, active, gauge, sess, teardowns,
                 store, restarts, notifying, cleaned, notified>>

-----------------------------------------------------------------------------
(* Recovery notices: deliverPendingRecoveryNotice *)

SendNotice(c) ==
  /\ notifying[c] = None /\ store[c].notice /\ store[c].id # None
  /\ notifying' = [notifying EXCEPT ![c] = store[c].id]
  /\ UNCHANGED <<accepting, startups, su, active, gauge, sess, teardowns,
                 store, restarts, closing, cleaned, notified>>

(* Mutated form: only the store learns of the acknowledgement. *)
SessionsUntold(c, t) == sess

(* The active session on that transcript forgets the notice as well. *)
SessionsTold(c, t) ==
  [n \in Sessions |-> IF active[c] = n /\ sess[n].id = t
                      THEN [sess[n] EXCEPT !.notice = FALSE] ELSE sess[n]]

(* The send settled.  A delivered notice is acknowledged only if the store *)
(* still holds exactly that notice.                                        *)
NoticeSettles(c) ==
  LET t == notifying[c]
  IN /\ t # None
     /\ notifying' = [notifying EXCEPT ![c] = None]
     /\ \/ UNCHANGED <<store, sess, notified>>
        \/ /\ Acknowledge(c, t)
           /\ sess' = SessionsTold(c, t)
           /\ notified' = notified \cup {t}
     /\ UNCHANGED <<accepting, startups, su, active, gauge, teardowns,
                    restarts, closing, cleaned>>

-----------------------------------------------------------------------------
Running == boot = "up" /\ UNCHANGED stored

StartupStep(k) ==
  \/ SupersededStops(k) \/ ReuseSession(k) \/ ReplaceSession(k) \/ Admit(k)
  \/ CrashBackoff(k) \/ StartupRefused(k) \/ SpawnStored(k)
  \/ SpawnPreseeded(k) \/ ReplacementUnusable(k) \/ ChildSpawned(k)
  \/ AbortSuperseded(k) \/ SpawnFails(k) \/ RotateAndRetry(k)
  \/ StartupFails(k) \/ AbortEnds(k) \/ Activate(k) \/ ActivationRefused(k)

SessionStep(n) ==
  \/ QueueTask(n) \/ RunTask(n) \/ EndTask(n) \/ ProbeFails(n)
  \/ Escalate(n) \/ ChildExits(n)

ChatStep(c) ==
  \/ GetOrCreate(c) \/ IdleTimeout(c) \/ Reconnect(c) \/ Clean(c)
  \/ TeardownEnds(c) \/ SendNotice(c) \/ NoticeSettles(c)

Shutdown == CloseAll \/ CloseActiveSessions \/ CloseAllEnds

Next ==
  \/ Boot /\ UNCHANGED lives
  \/ \E k \in Starters : Running /\ StartupStep(k)
  \/ \E n \in Sessions : Running /\ SessionStep(n)
  \/ \E c \in Chats : Running /\ ChatStep(c)
  \/ Running /\ Shutdown

Spec == Init /\ [][Next]_vars

(* Every await ends: waitForSpawn, get_state and sends have timeouts, the    *)
(* backoff is a timer, killed children are waited for with a limit; a child  *)
(* killed with SIGKILL exits, the escalation timer fires, and a turn on a    *)
(* silent child is given up.                                                 *)
Fairness ==
  /\ \A k \in Starters : WF_vars(Running /\ StartupStep(k))
  /\ \A n \in Sessions : /\ WF_vars(Running /\ RunTask(n)) /\ WF_vars(Running /\ EndTask(n))
                          /\ WF_vars(Running /\ Escalate(n))
                          /\ WF_vars(Running /\ sess[n].child = "kill" /\ ChildExits(n))
  /\ \A c \in Chats : WF_vars(Running /\ TeardownEnds(c)) /\ WF_vars(Running /\ NoticeSettles(c))
  /\ WF_vars(Running /\ CloseActiveSessions) /\ WF_vars(Running /\ CloseAllEnds)

FairSpec == Spec /\ Fairness

-----------------------------------------------------------------------------
(* Properties *)

TypeOK ==
  /\ accepting \in BOOLEAN
  /\ startups \in [Chats -> Starters \cup {None}]
  /\ \A k \in Starters :
       /\ su[k].phase \in {"free", "barrier", "replacing", "evicting", "backoff",
                          "spawning", "identifying", "failing", "aborting"}
       /\ su[k].phase = "free" <=> su[k] = NoStartup
       /\ su[k].sess \in Sessions \cup {None}
  /\ active \in [Chats -> Sessions \cup {None}]
  /\ \A n \in Sessions :
       /\ sess[n].child \in {"none", "up", "term", "kill", "dead"}
       /\ sess[n].task \in {"none", "queued", "running"}
  /\ \A c \in Chats : /\ store[c].id \in Transcripts \cup {None}
                      /\ restarts[c] \in 0..MaxCrashRestarts
  /\ closing \in {"no", "waiting", "tearing", "done"}

(* A transcript file has one writer: two children that still run (no       *)
(* SIGKILL sent) never have the same transcript open.                      *)
OneWriterPerTranscript ==
  \A m, n \in Sessions :
    m # n /\ sess[m].child \in {"up", "term"} /\ sess[n].child \in {"up", "term"}
    => sess[m].id # sess[n].id

(* /clean is final: no startup, turn or closing persist brings a cleaned   *)
(* transcript back into the store or the map (comment at                   *)
(* session-manager.ts:302).                                                *)
CleanIsFinal ==
  \A c \in Chats :
    /\ store[c].id \notin cleaned
    /\ active[c] # None => sess[active[c]].id \notin cleaned

(* A restart reopens what the chat is talking to: the stored entry names   *)
(* the transcript of the active session.                                   *)
StoreNamesActive ==
  \A c \in Chats : active[c] # None => store[c] = StateOf(active[c])

(* A child that nothing told to stop belongs to the session map or to a    *)
(* startup, and one told to stop has somebody to finish the job.           *)
NoOrphanChild ==
  \A n \in Sessions :
    /\ sess[n].child = "up" => \/ n \in ActiveSet
                              \/ \E k \in Starters : su[k].sess = n
    /\ sess[n].child = "term" => \/ n \in ActiveSet
                                \/ \E c \in Chats : \E e \in ElementsOf(teardowns[c]) : e.sess = n

(* The exported gauge counts the session map through every path that       *)
(* adds or removes a session.                                              *)
GaugeExact == gauge = Cardinality(ActiveSet)

(* An acknowledged recovery notice is never pending again. *)
NoticeOnce ==
  \A c \in Chats : store[c].notice => store[c].id \notin notified

(* The user is told of every replaced transcript: a pending notice leaves  *)
(* the store only acknowledged, or with the whole entry by /clean.         *)
NoticeKept ==
  \A c \in Chats :
    store[c].notice => \/ store'[c].notice \/ store'[c] = NoEntry
                       \/ store[c].id \in notified'

(* After closeAll nothing is in the session map, and nothing enters it. *)
ClosedForGood == closing \in {"tearing", "done"} => ActiveSet = {}

(* What one map of the manager says of a session the others say too: the   *)
(* store, the session map, the startups and teardowns, the processes, the  *)
(* notices and the exported gauge agree between any two steps.             *)
MapsAgree ==
  StoreNamesActive /\ NoOrphanChild /\ ClosedForGood /\ NoticeOnce /\ GaugeExact

(* The disk keeps what a user may still need: the notice of a replaced     *)
(* transcript and the store of an earlier version.                         *)
NothingForgotten == [][NoticeKept /\ OldStoreKept]_vars

(* A chat talks on a file that is its own: one its owner alone can write,  *)
(* with this chat's id in this workspace, which Pi itself named in answer  *)
(* to this startup; a session of an old store is bound only to the one     *)
(* file that can be meant.  A store that was written can be read again.    *)
OpensOnlyOwn ==
  /\ ActiveSet # {} => OpensForeign = {} /\ BelievesUnproven = {}
  /\ boot = "up" => Misbound = {} /\ Unreadable = {}

(* The session map never exceeds maxConcurrentSessions (comment at         *)
(* session-manager.ts:856).                                                *)
WithinSessionLimit ==
  Cardinality(ActiveSet) <= MaxConcurrentSessions

(* Every startup a chat began is answered, however it is superseded, its   *)
(* child fails or the sessions it closes linger.                           *)
StartupsSettle == \A k \in Starters : su[k].phase # "free" ~> su[k].phase = "free"

(* closeAll ends: it waits for no startup, child or teardown for good.     *)
ClosingEnds == closing # "no" ~> closing = "done"
=============================================================================
