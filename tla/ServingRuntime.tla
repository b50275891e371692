--------------------------- MODULE ServingRuntime ---------------------------
(***************************************************************************)
(* The process that serves the chats (src/src/main.ts): the supervision of *)
(* Telegram long polling in generations (startTelegramPolling, the retry   *)
(* of a 409 conflict, the startup timeout, the restart scheduler of        *)
(* bot-startup.ts), the polling watchdog (polling-watchdog.ts fed by       *)
(* poll-progress.ts), the start of Discord, and the shutdown with its one  *)
(* deadline (runtime-shutdown.ts).                                         *)
(*                                                                         *)
(* External: the Telegram API, grammY's bot (start does nothing when the   *)
(* bot already runs, stop ends the run and lets start return) and Discord. *)
(* Time is counted in ticks of the watchdog's interval: age since the last *)
(* successful poll, the age of the update handler, the grace of a recovery.*)
(* A bot that polls a reachable API succeeds before Stall ticks.           *)
(*                                                                         *)
(* Named bounds: MaxGenerations, MaxRetries, MaxDisturbances: a conflict,  *)
(* a failed or slow start, a slow or hung handler, a stuck loop, an outage *)
(* and a heartbeat lost for another reason are disturbances.               *)
(***************************************************************************)
EXTENDS Naturals, FiniteSets

CONSTANTS MaxGenerations, MaxDisturbances, MaxRetries, Stall, HandlerLimit

ASSUME RuntimeAssumption ==
    /\ MaxGenerations \in Nat \ {0} /\ MaxDisturbances \in Nat
    /\ MaxRetries \in Nat \ {0} /\ Stall \in Nat \ {0} /\ HandlerLimit \in Nat \ {0}

Generations == 1 .. MaxGenerations

VARIABLES
    bound,    \* Telegram has conversational bindings
    discord,  \* "off", "connecting", "up", "failed", or "stopped" while it logged in
    decided,  \* agentPlatformStartup is resolved
    ready,    \* the readiness marker is published
    gen,      \* telegramPollingGeneration
    handled,  \* telegramFailureHandled
    startup,  \* telegramStartupTimeout is armed
    loop,     \* what startBotWithRetry of each generation does
    tries,    \* its attempts
    bot,      \* the generation whose run grammY is in, or 0
    failures, \* failure handlers under way: waiting, stopping the bot
    restart,  \* the restart timer is armed
    dog,      \* the watchdog
    poll,     \* poll progress: age, failed, handler age
    api,      \* the Telegram API is reachable
    disturbances,
    exit      \* the shutdown

supervision == <<gen, handled, startup, failures, restart>>
platform == <<bound, discord, decided, ready>>
servingVars == <<platform, supervision, loop, tries, bot, dog, poll, api, disturbances, exit>>

Sleeping == [on |-> FALSE, probing |-> FALSE, await |-> FALSE, grace |-> 0]
NoExit == [phase |-> "serving", code |-> 0]

ShuttingDown == exit.phase # "serving"
Exited == exit.phase = "exited"

ServingInit ==
    /\ bound \in BOOLEAN /\ discord \in {"off", "connecting"} /\ (bound \/ discord # "off")
    /\ decided = FALSE /\ ready = FALSE
    /\ gen = 1 /\ handled = FALSE /\ startup = TRUE
    /\ loop = [g \in Generations |-> IF g = 1 THEN "start" ELSE "none"]
    /\ tries = [g \in Generations |-> 0]
    /\ bot = 0
    /\ failures = [waiting |-> 0, stopping |-> 0] /\ restart = FALSE
    /\ dog = Sleeping
    /\ poll = [age |-> 0, failed |-> FALSE, handler |-> 0]
    /\ api = TRUE /\ disturbances = 0 /\ exit = NoExit

----------------------------------------------------------------------------
(* Failure of a generation (handleTelegramPollingFailure). *)

ConcernsAny(g) == ~handled /\ ~ShuttingDown
ConcernsTwice(g) == g = gen /\ ~ShuttingDown
ConcernsLate(g) == g = gen /\ ~handled

Concerns(g) == g = gen /\ ~handled /\ ~ShuttingDown

Fail(g) ==
    IF Concerns(g)
    THEN /\ handled' = TRUE /\ startup' = FALSE /\ dog' = Sleeping
         /\ failures' = [failures EXCEPT !.waiting = @ + 1]
         /\ UNCHANGED <<gen, restart>>
    ELSE UNCHANGED <<supervision, dog>>

(* bot.stop: the run ends; a loop that polls returns, one inside a handler
   returns after it. *)
BotStops ==
    /\ bot' = 0
    /\ loop' = [g \in Generations |->
                  IF g = bot /\ loop[g] = "polling" THEN "done"
                  ELSE IF g = bot /\ loop[g] = "handling" THEN "leaving"
                  ELSE loop[g]]

BeginExit(code) ==
    IF ShuttingDown
    THEN /\ exit' = [exit EXCEPT !.code = IF code > @ THEN code ELSE @]
         /\ UNCHANGED <<ready, startup, restart>>
    ELSE /\ exit' = [exit EXCEPT !.phase = "intake", !.code = code]
         /\ ready' = FALSE /\ startup' = FALSE /\ restart' = FALSE

RestartRequired == bound /\ discord # "up"

(* Once the platforms are decided: exit when Telegram was the only one to
   serve, otherwise stop the bot and come back later. *)
HandleFailure ==
    /\ decided /\ failures.waiting > 0
    /\ \/ /\ ShuttingDown
          /\ failures' = [failures EXCEPT !.waiting = @ - 1]
          /\ UNCHANGED <<platform, gen, handled, startup, restart, loop, bot, exit>>
       \/ /\ ~ShuttingDown /\ RestartRequired
          /\ failures' = [failures EXCEPT !.waiting = @ - 1]
          /\ BeginExit(1)
          /\ UNCHANGED <<bound, discord, decided, gen, handled, loop, bot>>
       \/ /\ ~ShuttingDown /\ ~RestartRequired
          /\ failures' = [waiting |-> failures.waiting - 1, stopping |-> failures.stopping + 1]
          /\ BotStops
          /\ UNCHANGED <<platform, gen, handled, startup, restart, exit>>
    /\ UNCHANGED <<tries, dog, poll, api, disturbances>>

BotStopsAlone ==
    /\ failures.stopping > 0
    /\ failures' = [failures EXCEPT !.stopping = @ - 1]
    /\ UNCHANGED <<platform, gen, handled, startup, restart, loop, tries, bot, dog, poll, api,
                   disturbances, exit>>

(* The final offset confirmation is over, confirmed or not. *)
ScheduleRestart ==
    /\ failures.stopping > 0
    /\ failures' = [failures EXCEPT !.stopping = @ - 1]
    /\ restart' = (restart \/ ~ShuttingDown)
    /\ UNCHANGED <<platform, gen, handled, startup, loop, tries, bot, dog, poll, api,
                   disturbances, exit>>

RestartDue ==
    /\ restart /\ gen < MaxGenerations
    /\ restart' = FALSE
    /\ gen' = gen + 1 /\ handled' = FALSE /\ startup' = TRUE
    /\ loop' = [loop EXCEPT ![gen + 1] = "start"]
    /\ UNCHANGED <<platform, failures, tries, bot, dog, poll, api, disturbances, exit>>

----------------------------------------------------------------------------
(* Polling: startBotWithRetry around bot.start, one loop per generation. *)

Faulty == disturbances < MaxDisturbances /\ disturbances' = disturbances + 1

BotStart(g) ==
    /\ loop[g] = "start"
    /\ tries' = [tries EXCEPT ![g] = @ + 1]
    /\ IF bot = 0
       THEN bot' = g /\ loop' = [loop EXCEPT ![g] = "setup"]
       ELSE UNCHANGED bot /\ loop' = [loop EXCEPT ![g] = "done"]
    /\ UNCHANGED <<platform, supervision, dog, poll, api, disturbances, exit>>

(* onStart: a generation that was given up stops the bot again. *)
OnStart(g) ==
    /\ loop[g] = "setup" /\ (api \/ bot # g)
    /\ IF Concerns(g) /\ bot = g
       THEN /\ loop' = [loop EXCEPT ![g] = "polling"]
            /\ startup' = FALSE /\ ready' = (ready \/ bound)
            /\ dog' = IF dog.on THEN dog ELSE [Sleeping EXCEPT !.on = TRUE]
            /\ poll' = [poll EXCEPT !.age = IF dog.on THEN @ ELSE 0]
            /\ UNCHANGED bot
       ELSE /\ loop' = [loop EXCEPT ![g] = "done"]
            /\ bot' = IF bot = g THEN 0 ELSE bot
            /\ UNCHANGED <<startup, ready, dog, poll>>
    /\ UNCHANGED <<bound, discord, decided, gen, handled, failures, restart, tries, api,
                   disturbances, exit>>

(* A 409 conflict is retried after a pause, up to MaxRetries attempts; any
   other error of bot.start is final. *)
StartFails(g, conflict) ==
    /\ loop[g] \in {"setup", "polling"} /\ Faulty
    /\ bot' = IF bot = g THEN 0 ELSE bot
    /\ IF conflict /\ tries[g] < MaxRetries
       THEN loop' = [loop EXCEPT ![g] = "pause"] /\ UNCHANGED <<supervision, dog>>
       ELSE loop' = [loop EXCEPT ![g] = "done"] /\ Fail(g)
    /\ poll' = [poll EXCEPT !.failed = @ \/ loop[g] = "polling"]
    /\ UNCHANGED <<platform, tries, api, exit>>

RetryDue(g) ==
    /\ loop[g] = "pause"
    /\ loop' = [loop EXCEPT ![g] = "start"]
    /\ UNCHANGED <<platform, supervision, tries, bot, dog, poll, api, disturbances, exit>>

(* Armed when the generation starts; a loop that never got to onStart is
   found by it, and so is one whose start takes too long. *)
StartupTimeout ==
    /\ startup
    /\ IF loop[gen] = "done" THEN UNCHANGED disturbances ELSE Faulty
    /\ Fail(gen)
    /\ UNCHANGED <<platform, loop, tries, bot, poll, api, exit>>

PollOk(g) ==
    /\ loop[g] = "polling" /\ api
    /\ poll' = [age |-> 0, failed |-> FALSE, handler |-> 0]
    /\ UNCHANGED <<platform, supervision, loop, tries, bot, dog, api, disturbances, exit>>

PollError(g) ==
    /\ loop[g] = "polling" /\ ~api
    /\ poll' = [poll EXCEPT !.failed = TRUE]
    /\ UNCHANGED <<platform, supervision, loop, tries, bot, dog, api, disturbances, exit>>

HandlesUpdate(g) ==
    /\ loop[g] = "polling" /\ api
    /\ loop' = [loop EXCEPT ![g] = "handling"]
    /\ poll' = [age |-> 0, failed |-> FALSE, handler |-> 0]
    /\ UNCHANGED <<platform, supervision, tries, bot, dog, api, disturbances, exit>>

HandlerReturns(g) ==
    /\ loop[g] \in {"handling", "leaving"}
    /\ loop' = [loop EXCEPT ![g] = IF @ = "handling" THEN "polling" ELSE "done"]
    /\ UNCHANGED <<platform, supervision, tries, bot, dog, poll, api, disturbances, exit>>

LoopSticks(g) ==
    /\ loop[g] \in {"polling", "handling"} /\ bot = g /\ Faulty
    /\ loop' = [loop EXCEPT ![g] = IF @ = "handling" THEN "hung" ELSE "stuck"]
    /\ UNCHANGED <<platform, supervision, tries, bot, dog, poll, api, exit>>

ApiChanges ==
    /\ api' = ~api /\ (api => disturbances < MaxDisturbances)
    /\ disturbances' = IF api THEN disturbances + 1 ELSE disturbances
    /\ UNCHANGED <<platform, supervision, loop, tries, bot, dog, poll, exit>>

----------------------------------------------------------------------------
(* The watchdog. *)

Handling == \E g \in Generations : loop[g] \in {"handling", "leaving", "hung"}
SlowHandler == Handling /\ bot # 0 /\ loop[bot] = "handling" /\ poll.age = Stall - 1
HealthyPolling == bot # 0 /\ loop[bot] = "polling" /\ api

Older(n, limit) == IF n < limit THEN n + 1 ELSE n

Tick ==
    /\ dog.on /\ ~(HealthyPolling /\ poll.age = Stall - 1)
    /\ ~(SlowHandler /\ disturbances = MaxDisturbances)
    /\ disturbances' = IF SlowHandler THEN disturbances + 1 ELSE disturbances
    /\ poll' = [poll EXCEPT !.age = Older(@, Stall),
                            !.handler = IF Handling THEN Older(@, HandlerLimit) ELSE @]
    /\ dog' = [dog EXCEPT !.grace = IF @ = 0 THEN 0 ELSE Older(@, Stall + 1)]
    /\ <<poll, dog>>' # <<poll, dog>>
    /\ UNCHANGED <<platform, supervision, loop, tries, bot, api, exit>>

Recovered(d) == [d EXCEPT !.probing = FALSE, !.await = FALSE, !.grace = 0]

WatchdogCheck ==
    /\ dog.on /\ ~dog.probing
    /\ \/ poll.age < Stall /\ dog.await /\ dog' = Recovered(dog)
       \/ /\ poll.age = Stall /\ ~(Handling /\ poll.handler < HandlerLimit)
          /\ dog' = [dog EXCEPT !.probing = TRUE]
    /\ UNCHANGED <<platform, supervision, loop, tries, bot, poll, api, disturbances, exit>>

(* After the heartbeat everything is looked at again. *)
ResumedNot == FALSE

Resumed == poll.age < Stall

Heartbeat(reachable) ==
    /\ dog.on /\ dog.probing /\ (reachable => api)
    /\ IF api /\ ~reachable THEN Faulty ELSE UNCHANGED disturbances
    /\ IF Resumed
       THEN dog' = Recovered(dog) /\ UNCHANGED supervision
       ELSE IF ~reachable
       THEN /\ dog' = [dog EXCEPT !.probing = FALSE, !.await = TRUE, !.grace = 0]
            /\ UNCHANGED supervision
       ELSE IF (dog.await \/ poll.failed) /\ dog.grace <= Stall
       THEN /\ dog' = [dog EXCEPT !.probing = FALSE, !.await = TRUE,
                                  !.grace = IF @ = 0 THEN 1 ELSE @]
            /\ UNCHANGED supervision
       ELSE Fail(gen)
    /\ UNCHANGED <<platform, loop, tries, bot, poll, api, exit>>

----------------------------------------------------------------------------
(* The start of Discord and the decision about the platforms. *)

(* onReady publishes the marker; after the shutdown has cleared it the marker
   is gone and the publication throws. *)
DiscordReady ==
    /\ discord = "connecting"
    /\ discord' = IF exit.phase \in {"serving", "intake"} THEN "up" ELSE "stopped"
    /\ ready' = (ready \/ ~ShuttingDown)
    /\ UNCHANGED <<bound, decided, supervision, loop, tries, bot, dog, poll, api, disturbances,
                   exit>>

DiscordFails ==
    /\ discord = "connecting"
    /\ discord' = "failed"
    /\ UNCHANGED <<bound, decided, ready, supervision, loop, tries, bot, dog, poll, api,
                   disturbances, exit>>

Decide ==
    /\ ~decided /\ discord # "connecting"
    /\ IF ~bound /\ discord = "failed"
       THEN BeginExit(1) /\ UNCHANGED decided
       ELSE decided' = TRUE /\ UNCHANGED <<ready, startup, restart, exit>>
    /\ UNCHANGED <<bound, discord, gen, handled, failures, loop, tries, bot, dog, poll, api,
                   disturbances>>

----------------------------------------------------------------------------
(* Shutdown. *)

Signal(code) ==
    /\ ~Exited /\ (ShuttingDown => code > exit.code)
    /\ BeginExit(code)
    /\ UNCHANGED <<bound, discord, decided, gen, handled, failures, loop, tries, bot, dog,
                   poll, api, disturbances>>

(* Collaboration router and trigger input are closed; then the watchdog, the
   retry of the current generation, polling and Discord are stopped. *)
StopTransports ==
    /\ exit.phase = "intake"
    /\ exit' = [exit EXCEPT !.phase = "transport"]
    /\ dog' = Sleeping
    /\ bot' = 0
    /\ loop' = [g \in Generations |->
                  IF g = gen /\ loop[g] \in {"pause", "start"} THEN "done"
                  ELSE IF g = bot /\ loop[g] = "polling" THEN "done"
                  ELSE IF g = bot /\ loop[g] = "handling" THEN "leaving"
                  ELSE loop[g]]
    /\ UNCHANGED <<platform, supervision, tries, poll, api, disturbances>>

ExitUnchanged == UNCHANGED <<platform, supervision, loop, tries, bot, dog, poll, api,
                             disturbances>>

(* The phases of shutdownServingRuntime, within one deadline. *)
Enter(from, to) == exit.phase = from /\ exit' = [exit EXCEPT !.phase = to] /\ ExitUnchanged

TransportsDrained == loop[gen] \in {"none", "done"} /\ Enter("transport", "sessions")
SessionsDrained == Enter("sessions", "queues")
QueuesIdle == Enter("queues", "close")
SessionsClosed == Enter("close", "metrics")
GuardReleased == Enter("metrics", "exited")

AbortsDrain == Enter("transport", "forced")

(* The deadline, or an exception of a phase: everything once more, each part
   on its own and in its own time, and the guard at the end of it. *)
Abort == \E phase \in {"transport", "sessions", "queues", "close", "metrics"} : Enter(phase, "forced")

ForcedCleanup ==
    /\ exit.phase = "forced"
    /\ exit' = [phase |-> "exited", code |-> 1]
    /\ ExitUnchanged

----------------------------------------------------------------------------
Supervise == HandleFailure \/ ScheduleRestart \/ RestartDue \/ StartupTimeout \/ Decide
Polls(g) ==
    \/ BotStart(g) \/ OnStart(g) \/ RetryDue(g) \/ PollOk(g) \/ HandlerReturns(g)
Disturbs(g) ==
    \/ \E conflict \in BOOLEAN : StartFails(g, conflict)
    \/ PollError(g) \/ HandlesUpdate(g) \/ LoopSticks(g)
Watch == Tick \/ WatchdogCheck \/ \E reachable \in BOOLEAN : Heartbeat(reachable)
Connects == DiscordReady \/ DiscordFails
Exits ==
    \/ StopTransports \/ TransportsDrained \/ SessionsDrained \/ QueuesIdle
    \/ SessionsClosed \/ GuardReleased \/ ForcedCleanup

ServingNext ==
    /\ ~Exited
    /\ \/ Supervise \/ Watch \/ Connects \/ ApiChanges \/ Exits \/ Abort
       \/ \E g \in Generations : Polls(g) \/ Disturbs(g)
       \/ \E code \in {0, 1} : Signal(code)

ServingSpec == ServingInit /\ [][ServingNext]_servingVars

(* Fairness: timers fire and promises of the process settle; Discord's login
   settles; the deadline of a shutdown passes; bot.start gets through its
   setup or fails, handlers return unless they hang, an outage ends.  Nothing
   is assumed of sessions. *)
Fairness ==
    /\ WF_servingVars(StartupTimeout) /\ WF_servingVars(~api /\ ApiChanges)
    /\ WF_servingVars(HandleFailure) /\ WF_servingVars(ScheduleRestart)
    /\ WF_servingVars(RestartDue) /\ WF_servingVars(Decide)
    /\ \A g \in Generations :
         /\ WF_servingVars(BotStart(g)) /\ WF_servingVars(OnStart(g)) /\ WF_servingVars(RetryDue(g))
         /\ WF_servingVars(PollOk(g)) /\ WF_servingVars(HandlerReturns(g))
    /\ WF_servingVars(Tick) /\ WF_servingVars(WatchdogCheck) /\ SF_servingVars(Heartbeat(TRUE))
    /\ WF_servingVars(Connects) /\ WF_servingVars(StopTransports)
    /\ WF_servingVars(Abort) /\ WF_servingVars(ForcedCleanup)

FairSpec == ServingSpec /\ Fairness

----------------------------------------------------------------------------
(* Type invariant: the supervision's counters, the polling loops and the
   stages of the shutdown (main.ts). *)
ServingTypeOK ==
    /\ bound \in BOOLEAN /\ decided \in BOOLEAN /\ ready \in BOOLEAN
    /\ discord \in {"off", "connecting", "up", "failed", "stopped"}
    /\ gen \in Generations /\ handled \in BOOLEAN /\ startup \in BOOLEAN /\ restart \in BOOLEAN
    /\ loop \in [Generations -> {"none", "start", "setup", "polling", "handling", "leaving",
                                 "hung", "stuck", "pause", "done"}]
    /\ tries \in [Generations -> 0 .. MaxRetries]
    /\ bot \in {0} \union Generations
    /\ failures \in [waiting : Nat, stopping : Nat]
    /\ dog \in [on : BOOLEAN, probing : BOOLEAN, await : BOOLEAN, grace : 0 .. Stall + 1]
    /\ poll \in [age : 0 .. Stall, failed : BOOLEAN, handler : 0 .. HandlerLimit]
    /\ api \in BOOLEAN /\ disturbances \in 0 .. MaxDisturbances
    /\ exit.phase \in {"serving", "intake", "transport", "sessions", "queues", "close",
                        "metrics", "forced", "exited"}

(* However many of the watchdog, the startup timeout and the polling promise
   report a generation, one recovery is under way for it, as a handler that
   waits or stops the bot or as the armed restart timer, and none for a
   generation that is served (handleTelegramPollingFailure, the restart
   scheduler). *)
RecoveryPending ==
    ShuttingDown \/
        failures.waiting + failures.stopping + (IF restart THEN 1 ELSE 0) = (IF handled THEN 1 ELSE 0)

(* A generation that polls and whose last success is recent is never given up,
   whatever an older generation, its watchdog or a late heartbeat reports. *)
HealthyPollingKept ==
    (handled' /\ ~handled) =>
        ~(loop[gen] = "polling" /\ loop'[gen] = "polling" /\ poll.age < Stall)

(* Once the shutdown began no generation starts, none comes to poll, no
   watchdog starts and no readiness is published, whichever timer, login or
   onStart comes late. *)
NothingStartsLate ==
    ShuttingDown => /\ gen' = gen /\ (ready' => ready) /\ (dog'.on => dog.on)
                    /\ \A g \in Generations :
                           (loop'[g] = "polling") => loop[g] \in {"polling", "handling"}

(* Nothing is restarted that works, and nothing is started that would have to
   be stopped. *)
RestartsJustified == [][HealthyPollingKept /\ NothingStartsLate]_servingVars

(* A shutdown that began ends, even with a loop that never returns, a Discord
   handler that hangs or a session that does not settle. *)
ShutdownEnds == ShuttingDown ~> Exited

(* While the process serves, polling comes back after every failure of a
   generation: it polls a reachable API again and again, or the process left
   or is about to.  Where the bound on generations ends a behaviour, the
   restart of the next one is armed. *)
PollingRecovers == []<>(HealthyPolling \/ ShuttingDown \/ (restart /\ gen = MaxGenerations))

(* "legitimate media preprocessing must not look like a poll stall"
   (polling-watchdog.test.ts): a handler that returned within its limit, after
   which the bot polls a reachable API again, is no reason for a restart. *)
SlowHandlerTolerated ==
    [][(handled' /\ ~handled /\ dog.probing) =>
          ~(HealthyPolling /\ poll.handler \in 1 .. HandlerLimit - 1 /\ ~poll.failed /\ ~dog.await)]_servingVars

=============================================================================
