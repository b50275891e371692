---------------------------- MODULE LaunchdCrons ----------------------------
(***************************************************************************)
(* "minime-bot launchd crons sync" (src/src/launchd-cron-plists.ts): it    *)
(* plans from the cron definitions and the plist files, then takes each    *)
(* changed cron through launchctl and the file system, one call at a time, *)
(* with the retry and the rollback of a replacement and the retirement of  *)
(* a removed cron's metrics.                                               *)
(*                                                                         *)
(* External: launchd (what it has loaded, the jobs it runs, a login that   *)
(* loads every plist), the operator's edits of crons.yaml and of           *)
(* CRON_HEALTH_TEXTFILE_DIR, and the cron job, which writes its metrics    *)
(* into the directory of the plist it was loaded from when it ends.        *)
(*                                                                         *)
(* A plist is its schedule and its metric directory; a file cut short is   *)
(* Torn. Labels and paths are the cron's name. Within the updates, and     *)
(* within the deletions, the order is left open (the code sorts by label). *)
(* Named bounds: MaxEdits on operator edits, MaxFaults on failed calls,    *)
(* unknown answers, crashes and logins; a transient answer to bootstrap is *)
(* free, the code bounds those by MaxAttempts (BOOTSTRAP_MAX_ATTEMPTS).    *)
(***************************************************************************)
EXTENDS Naturals, FiniteSets, RunCronPath

CONSTANTS
    Names,        \* cron names
    Dirs,         \* metric directories
    Fields,       \* schedule fields, "day" and "weekday" among them
    Low, High,    \* the range of each field
    Schedules,    \* what crons.yaml may say of a cron
    Parts, Every, \* the fields of each, or its "every N"
    MaxIntervals, \* MAX_LAUNCHD_INTERVALS
    MaxAttempts, MaxEdits, MaxFaults,
    Off, NoPlist, Torn

ASSUME LaunchdAssumption ==
    /\ {"day", "weekday"} \subseteq Fields /\ High["weekday"] = 7 /\ Low["weekday"] = 0
    /\ "none" \notin Names
    /\ MaxIntervals \in Nat /\ MaxAttempts \in Nat \ {0} /\ MaxEdits \in Nat /\ MaxFaults \in Nat

-----------------------------------------------------------------------------
(* Schedules. A field is the set of its parts from-to/step, {} is "*".     *)

Restricted(s) == {f \in Fields : Parts[s][f] # {}}

InRange(f, p) == Low[f] <= p.from /\ p.from <= p.to /\ p.to <= High[f] /\ p.step > 0

Values(p) == {v \in p.from .. p.to : (v - p.from) % p.step = 0}

\* expandCronField: weekday 7 is Sunday, as 0 is.
Expanded(f, ps) ==
    {IF f = "weekday" /\ v = 7 THEN 0 ELSE v : v \in UNION {Values(p) : p \in ps}}

\* parseCronToCalendarIntervals: one interval for each choice of the fields.
Intervals(s) ==
    {i \in [Restricted(s) -> UNION {Expanded(f, Parts[s][f]) : f \in Restricted(s)}] :
        \A f \in Restricted(s) : i[f] \in Expanded(f, Parts[s][f])}

\* Mutant: the validation counts intervals only.
SupportsAnyDays(s) == Every[s] > 0 \/ Cardinality(Intervals(s)) <= MaxIntervals

\* validateCronScheduleForPlist: launchd ands its fields, cron ors the day of
\* the month with the weekday.
Supported(s) ==
    \/ Every[s] > 0
    \/ /\ Every[s] = 0
       /\ ~ {"day", "weekday"} \subseteq Restricted(s)
       /\ \A f \in Fields : \A p \in Parts[s][f] : InRange(f, p)
       /\ Cardinality(Intervals(s)) <= MaxIntervals

Accepted == {s \in Schedules : Supported(s)}

\* renderLaunchdCronPlist
Rendered(s, d) == [cron |-> s, dir |-> d]

-----------------------------------------------------------------------------
VARIABLES
    crons,   \* the merged definitions: a schedule, or Off (disabled or absent)
    dir,     \* CRON_HEALTH_TEXTFILE_DIR
    plist,   \* the plist files of LaunchAgents
    loaded,  \* what launchd has loaded
    running, \* crons whose job runs
    metrics, \* metric files: cron and directory
    sync,    \* the sync under way
    since,   \* history: the job of the item began after its activity was read
    lapsed,  \* history: crons whose last change broke off half way
    edits, failures

launchdVars == <<crons, dir, plist, loaded, running, metrics, sync, since, lapsed, edits, failures>>

\* An item names a cron and its new plist, or NoPlist to delete it.
Idle == [at |-> "idle", todo |-> {}, name |-> "none", to |-> NoPlist,
         previous |-> NoPlist, unloaded |-> FALSE, tries |-> 0, asleep |-> FALSE]

Present(c) == plist[c] \notin {NoPlist, Torn}

LaunchdInit ==
    /\ crons \in [Names -> Accepted \cup {Off}]
    /\ dir \in Dirs
    /\ plist = [c \in Names |-> IF crons[c] = Off THEN NoPlist ELSE Rendered(crons[c], dir)]
    /\ loaded = plist
    /\ running = {} /\ metrics = {} /\ lapsed = {} /\ since = FALSE
    /\ sync = Idle /\ edits = 0 /\ failures = 0

Fault == failures < MaxFaults /\ failures' = failures + 1

-----------------------------------------------------------------------------
(* The sync.                                                               *)

Writes == {[name |-> c, to |-> Rendered(crons[c], dir)] : c \in {d \in Names : crons[d] # Off}}
Changed == {i \in Writes : plist[i.name] # i.to}
Prunable == {[name |-> c, to |-> NoPlist] : c \in {d \in Names : crons[d] = Off /\ Present(d)}}

\* planLaunchdCronSync: one definition that cannot be rendered refuses them all.
Plan(prune) ==
    /\ sync.at = "idle"
    /\ TrustedRunners # {}
    /\ \A c \in Names : crons[c] \in Accepted \cup {Off}
    /\ sync' = [Idle EXCEPT !.at = "next", !.todo = Changed \cup (IF prune THEN Prunable ELSE {})]
    /\ since' = FALSE
    /\ UNCHANGED <<crons, dir, plist, loaded, running, metrics, lapsed, edits, failures>>

Finished ==
    /\ sync.at = "next" /\ sync.todo = {}
    /\ sync' = Idle /\ since' = FALSE
    /\ UNCHANGED <<crons, dir, plist, loaded, running, metrics, lapsed, edits, failures>>

FirstOf(items) == IF \E i \in items : i.to # NoPlist THEN {i \in items : i.to # NoPlist} ELSE items

\* Mutant: an unknown answer passes for an idle job.
DeferredIfActive(activity) == activity = "active"

Deferred(activity) == activity \in {"active", "unknown"}

Activity(c) ==
    IF loaded[c] = NoPlist THEN "not-loaded" ELSE IF c \in running THEN "active" ELSE "idle"

\* getCronJobActivity, then the deferral or the first call of the change.
Ask ==
    /\ sync.at = "next"
    /\ \E i \in FirstOf(sync.todo) :
         LET rest == sync.todo \ {i}
             Go(activity) ==
                 sync' = IF Deferred(activity) THEN [Idle EXCEPT !.at = "next", !.todo = rest]
                         ELSE [Idle EXCEPT !.at = IF i.to = NoPlist THEN "check" ELSE "write",
                                           !.todo = rest, !.name = i.name, !.to = i.to]
         IN \/ Go(Activity(i.name)) /\ UNCHANGED failures
            \/ Go("unknown") /\ Fault
    /\ since' = FALSE
    /\ UNCHANGED <<crons, dir, plist, loaded, running, metrics, lapsed, edits>>

Throw == sync' = Idle /\ since' = FALSE
GoTo(at) == sync' = [sync EXCEPT !.at = at] /\ UNCHANGED since
Settled == sync' = [Idle EXCEPT !.at = "next", !.todo = sync.todo] /\ since' = FALSE

\* The owned label is read again before a retirement; plutil may fail.
Check ==
    /\ sync.at = "check"
    /\ \/ Present(sync.name) /\ GoTo("bootout") /\ UNCHANGED failures
       \/ Throw /\ Fault
    /\ UNCHANGED <<crons, dir, plist, loaded, running, metrics, lapsed, edits>>

\* writeValidatedPlist: written beside, linted, renamed.
Write ==
    /\ sync.at = "write"
    /\ \/ /\ plist' = [plist EXCEPT ![sync.name] = sync.to]
          /\ sync' = [sync EXCEPT !.at = "bootout", !.previous = plist[sync.name]]
          /\ UNCHANGED <<since, failures>>
       \/ Throw /\ Fault /\ UNCHANGED plist
    /\ UNCHANGED <<crons, dir, loaded, running, metrics, lapsed, edits>>

\* A label that was not loaded is an ignored failure, another failure throws.
Bootout ==
    /\ sync.at = "bootout"
    /\ \/ /\ sync' = [sync EXCEPT !.at = IF sync.to = NoPlist THEN "retire" ELSE "bootstrap",
                                  !.unloaded = loaded[sync.name] # NoPlist]
          /\ loaded' = [loaded EXCEPT ![sync.name] = NoPlist]
          /\ running' = running \ {sync.name}
          /\ UNCHANGED <<since, failures>>
       \/ /\ Fault /\ UNCHANGED <<loaded, running>>
          /\ IF sync.to = NoPlist THEN Throw ELSE GoTo("restore")
    /\ UNCHANGED <<crons, dir, plist, metrics, lapsed, edits>>

\* Mutant: the attempts are not counted.
TriesSame(n) == n

TriesAgain(n) == n + 1
Lapses(c) == lapsed' = lapsed \cup {c}

\* bootstrapWithRetry, of the replacement or of the previous plist.
Bootstrap ==
    /\ sync.at \in {"bootstrap", "rollback"} /\ ~sync.asleep
    /\ \/ /\ Present(sync.name)
          /\ loaded' = [loaded EXCEPT ![sync.name] = plist[sync.name]]
          /\ lapsed' = lapsed \ {sync.name}
          /\ IF sync.at = "bootstrap" THEN Settled ELSE Throw
          /\ UNCHANGED failures
       \/ /\ sync.tries + 1 < MaxAttempts
          /\ sync' = [sync EXCEPT !.tries = TriesAgain(@), !.asleep = TRUE]
          /\ UNCHANGED <<loaded, lapsed, since, failures>>
    /\ UNCHANGED <<crons, dir, plist, running, metrics, edits>>

\* BOOTSTRAP_RETRY_DELAY_MS
Awake ==
    /\ sync.asleep /\ sync' = [sync EXCEPT !.asleep = FALSE]
    /\ UNCHANGED <<crons, dir, plist, loaded, running, metrics, since, lapsed, edits, failures>>

BootstrapFails ==
    /\ sync.at \in {"bootstrap", "rollback"} /\ ~sync.asleep
    /\ \/ (sync.tries + 1 = MaxAttempts \/ plist[sync.name] = Torn) /\ UNCHANGED failures
       \/ Fault
    /\ IF sync.at = "bootstrap"
       THEN sync' = [sync EXCEPT !.at = "restore", !.tries = 0] /\ UNCHANGED <<since, lapsed>>
       ELSE Throw /\ Lapses(sync.name)
    /\ UNCHANGED <<crons, dir, plist, loaded, running, metrics, edits>>

\* Mutant: the status of the bootout is lost.
RollsBackNever == sync.unloaded /\ sync.previous = NoPlist

RollsBack == sync.unloaded /\ sync.previous # NoPlist

AfterRestore == IF RollsBack THEN GoTo("rollback") ELSE Throw

\* restorePreviousPlist: a new plist is unlinked, an old one written in place.
Restore ==
    /\ sync.at = "restore"
    /\ IF sync.previous = NoPlist
       THEN plist' = [plist EXCEPT ![sync.name] = NoPlist] /\ AfterRestore
       ELSE plist' = [plist EXCEPT ![sync.name] = Torn] /\ GoTo("rewrite")
    /\ UNCHANGED <<crons, dir, loaded, running, metrics, lapsed, edits, failures>>

Rewrite ==
    /\ sync.at = "rewrite"
    /\ \/ /\ plist' = [plist EXCEPT ![sync.name] = sync.previous]
          /\ AfterRestore /\ UNCHANGED <<lapsed, failures>>
       \/ Throw /\ Lapses(sync.name) /\ Fault /\ UNCHANGED plist
    /\ UNCHANGED <<crons, dir, loaded, running, metrics, edits>>

\* Mutant: the directory of the environment.
MetricDirNow(c) == dir

\* The directory the persisted plist names, whatever the environment says now.
MetricDir(c) == plist[c].dir

\* retireCronHealthMetricArtifacts
Retire ==
    /\ sync.at = "retire"
    /\ \/ /\ metrics' = metrics \ {<<sync.name, MetricDir(sync.name)>>}
          /\ GoTo("unlink") /\ UNCHANGED <<lapsed, failures>>
       \/ Throw /\ Lapses(sync.name) /\ Fault /\ UNCHANGED metrics
    /\ UNCHANGED <<crons, dir, plist, loaded, running, edits>>

Unlink ==
    /\ sync.at = "unlink"
    /\ \/ /\ plist' = [plist EXCEPT ![sync.name] = NoPlist]
          /\ lapsed' = lapsed \ {sync.name}
          /\ Settled /\ UNCHANGED failures
       \/ Throw /\ Lapses(sync.name) /\ Fault /\ UNCHANGED plist
    /\ UNCHANGED <<crons, dir, loaded, running, metrics, edits>>

SyncStep ==
    \/ Finished \/ Ask \/ Check \/ Write \/ Bootout \/ Bootstrap \/ Awake \/ BootstrapFails
    \/ Restore \/ Rewrite \/ Retire \/ Unlink

-----------------------------------------------------------------------------
(* Around it.                                                              *)

StartJob ==
    /\ \E c \in Names \ running :
         /\ loaded[c] # NoPlist
         /\ running' = running \cup {c}
         /\ since' = (since \/ c = sync.name)
    /\ UNCHANGED <<crons, dir, plist, loaded, metrics, sync, lapsed, edits, failures>>

EndJob ==
    /\ \E c \in running :
         /\ running' = running \ {c}
         /\ metrics' = metrics \cup {<<c, loaded[c].dir>>}
    /\ UNCHANGED <<crons, dir, plist, loaded, sync, since, lapsed, edits, failures>>

Edit ==
    /\ edits < MaxEdits /\ edits' = edits + 1
    /\ \/ \E c \in Names, s \in Schedules \cup {Off} :
            s # crons[c] /\ crons' = [crons EXCEPT ![c] = s] /\ UNCHANGED dir
       \/ \E d \in Dirs \ {dir} : dir' = d /\ UNCHANGED crons
    /\ UNCHANGED <<plist, loaded, running, metrics, sync, since, lapsed, failures>>

\* The sync dies at any step of it.
SyncDies ==
    /\ sync.at # "idle" /\ Fault
    /\ lapsed' = IF sync.at \in {"next", "check", "write"} THEN lapsed ELSE lapsed \cup {sync.name}
    /\ Throw
    /\ UNCHANGED <<crons, dir, plist, loaded, running, metrics, edits>>

\* A new login session loads what is in LaunchAgents.
Login ==
    /\ sync.at = "idle" /\ Fault
    /\ loaded' = [c \in Names |-> IF Present(c) THEN plist[c] ELSE NoPlist]
    /\ running' = {} /\ lapsed' = {c \in Names : plist[c] = Torn}
    /\ UNCHANGED <<crons, dir, plist, metrics, sync, since, edits>>

LaunchdNext ==
    \/ \E prune \in BOOLEAN : Plan(prune)
    \/ SyncStep \/ StartJob \/ EndJob \/ Edit \/ SyncDies \/ Login

LaunchdSpec == LaunchdInit /\ [][LaunchdNext]_launchdVars
LaunchdFairSpec == LaunchdSpec /\ WF_launchdVars(SyncStep)

-----------------------------------------------------------------------------
(* Properties.                                                             *)

Jobs == {Rendered(s, d) : s \in Schedules, d \in Dirs}

\* Every part of the state has its shape.
LaunchdTypeOK ==
    /\ crons \in [Names -> Schedules \cup {Off}] /\ dir \in Dirs
    /\ plist \in [Names -> Jobs \cup {NoPlist, Torn}] /\ loaded \in [Names -> Jobs \cup {NoPlist}]
    /\ running \subseteq {c \in Names : loaded[c] # NoPlist}
    /\ metrics \subseteq Names \X Dirs /\ lapsed \subseteq Names /\ since \in BOOLEAN
    /\ \A i \in sync.todo : i.name \in Names /\ i.to \in Jobs \cup {NoPlist}

\* Between two changes launchd runs what the plist file says. A failed update
\* has put both back (syncLaunchdCrons' catch), and they differ only for a
\* cron whose change broke off half way: the sync died, the rollback itself
\* failed or a retirement did, each of which the operator is told.
DriftExplained ==
    \A c \in Names : c # sync.name /\ c \notin lapsed => loaded[c] = plist[c]

\* A plist goes in a prune only when no metrics of the cron are left in the
\* directory the plist names, which may no longer be that of the environment.
\* (Metrics that the last update of the plist left behind in an older directory
\* are not meant: nothing names that directory any more.)
RetiredBeforeRemoved ==
    \A c \in Names :
      (sync.to = NoPlist /\ plist[c] # NoPlist /\ plist'[c] = NoPlist)
         => <<c, plist[c].dir>> \notin metrics'

\* While a sync is under way the plist of a running job and what launchd has
\* loaded of it change only if it started after its activity was asked for: a
\* job that ran then is deferred, whatever launchctl answered
\* (docs/launchd-operations.md, "Active jobs are deferred").
ActiveLeftAlone ==
    \A c \in running :
      (sync.at # "idle" /\ (plist'[c] # plist[c] \/ loaded'[c] # loaded[c])) => since

\* What a sync takes away it takes in order: no job from under a run it was told
\* of, no plist before the metrics in the directory that the plist names.
RemovalsInOrder == [][RetiredBeforeRemoved /\ ActiveLeftAlone]_launchdVars

\* Crontab(5), the reference: day of month and weekday, both restricted, are
\* alternatives; 7 and 0 are Sunday.
MatchesField(s, f, t) ==
    \/ Parts[s][f] = {}
    \/ \E p \in Parts[s][f] :
         t[f] \in Values(p) \/ (f = "weekday" /\ t[f] = 0 /\ 7 \in Values(p))

Due(s, t) ==
    /\ \A f \in Fields \ {"day", "weekday"} : MatchesField(s, f, t)
    /\ IF {"day", "weekday"} \subseteq Restricted(s)
       THEN MatchesField(s, "day", t) \/ MatchesField(s, "weekday", t)
       ELSE MatchesField(s, "day", t) /\ MatchesField(s, "weekday", t)

Times == {t \in [Fields -> UNION {Low[f] .. High[f] : f \in Fields}] :
            \A f \in Fields : t[f] \in Low[f] .. (IF f = "weekday" THEN 6 ELSE High[f])}

\* launchd starts a job when one of its intervals matches in all its fields.
Fires(s, t) == \E i \in Intervals(s) : \A f \in DOMAIN i : i[f] = t[f]

Faithful == {s \in Schedules : Every[s] > 0 \/ \A t \in Times : Fires(s, t) <=> Due(s, t)}

\* What is loaded fires exactly when its cron schedule is due, for every
\* schedule the validation lets through (parseCronToCalendarIntervals).
FiresWhenDue == \A c \in Names : loaded[c] # NoPlist => loaded[c].cron \in Faithful

\* A script that a sync under way may have been given can be replaced by its
\* owner and root alone, whatever the modes of the directories on its path and
\* whether it is reached through a link (validateExplicitRunCronScript).
RunnerIsOwners == sync.at # "idle" => Fooled = {}

\* What launchd has been given is right in both its parts: the time and the
\* program.
JobsAreRight == FiresWhenDue /\ RunnerIsOwners

\* Every sync comes to its end, however launchd answers its bootstraps.
SyncEnds == sync.at # "idle" ~> sync.at = "idle"
=============================================================================
