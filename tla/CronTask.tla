------------------------------ MODULE CronTask ------------------------------
(***************************************************************************)
(* What a cron's invocation decides without touching its slot: whether the *)
(* definition can be run and where its result goes (loadCronTask), and     *)
(* what a finished process amounts to (runScript, runPi, classifyPiResult, *)
(* classifyLlmCronTerminalResult, shouldSuppressNoReply).                  *)
(*                                                                         *)
(* A report is the sequence of its lines: nothing, prose, the unresolved   *)
(* marker, NO_REPLY. Wording, excerpts and redaction are left out.         *)
(***************************************************************************)
EXTENDS Naturals, Sequences

CONSTANTS
    MaxLines    \* lines of a report

ASSUME CronTaskAssumption == MaxLines \in Nat

-----------------------------------------------------------------------------
(* The definition. *)

Home == "home"      \* the chat and the topic the configuration defaults to

Tasks == [chat : {"absent", "own", Home, "bad"}, topic : {"absent", "own", "bad"},
          type : {"absent", "llm", "script", "bad"}, command : BOOLEAN, prompt : BOOLEAN,
          limits : BOOLEAN, engine : {"absent", "pi", "other"}]
Defaults == [chat : {"absent", Home, "bad"}, topic : {"absent", Home, "bad"}]

\* A default that is not a usable number is ignored.
Kept(default) == IF default = "bad" THEN "absent" ELSE default

TypeOf(task) == IF task.type = "script" THEN "script" ELSE "llm"

\* The chat of the task, else the default.
ChatOf(task, d) == IF task.chat = "absent" THEN Kept(d.chat) ELSE task.chat

\* Mutant: a task without a topic takes the default one.
TopicAnywhere(task, d) == IF task.topic = "absent" THEN Kept(d.topic) ELSE task.topic

TopicOf(task, d) ==
    IF task.topic = "absent"
    THEN IF ChatOf(task, d) = Kept(d.chat) THEN Kept(d.topic) ELSE "absent"
    ELSE task.topic

Runnable(task) == IF TypeOf(task) = "script" THEN task.command ELSE task.prompt

Loads(task, d) ==
    /\ ChatOf(task, d) \notin {"absent", "bad"}
    /\ task.topic # "bad" /\ task.type # "bad"
    /\ Runnable(task) /\ task.limits
    /\ TypeOf(task) = "llm" => task.engine # "other"

Loadable == {p \in Tasks \X Defaults : Loads(p[1], p[2])}

\* The reference: topics belong to the chat they were made in.
Misaddressed ==
    {p \in Loadable :
        /\ TopicOf(p[1], p[2]) = Home /\ ChatOf(p[1], p[2]) # Home}

-----------------------------------------------------------------------------
(* The process and its report. *)

Lines == {"blank", "text", "MARKER", "NO_REPLY"}
Reports == UNION {[1..n -> Lines] : n \in 0..MaxLines}

\* How the process ended; a timeout is an error code and a signal at once.
Ends == {[code |-> "none",      signal |-> FALSE, status |-> "0"],
         [code |-> "none",      signal |-> FALSE, status |-> "1"],
         [code |-> "none",      signal |-> TRUE,  status |-> "none"],
         [code |-> "ETIMEDOUT", signal |-> TRUE,  status |-> "none"],
         [code |-> "ENOBUFS",   signal |-> TRUE,  status |-> "none"],
         [code |-> "ENOENT",    signal |-> FALSE, status |-> "none"]}

\* What the configuration has for the agent of a prompt, read again at run time.
Agents == [entry : {"missing", "no_object", "invalid", "valid"}, workspace : BOOLEAN,
           defaultModel : {"absent", "string", "other"}, fallback : BOOLEAN]

Resolves(agent) ==
    /\ agent.defaultModel # "other" /\ ~agent.fallback
    /\ agent.entry = "valid" /\ agent.workspace

\* resolveCronEngine: Pi, unless the environment still asks for no Pi.
Starts(agent, disabled) == Resolves(agent) /\ ~disabled

Executions == [type : {"llm", "script"}, end : Ends, report : Reports, stderr : BOOLEAN,
               agent : {Starts(a, disabled) : a \in Agents, disabled \in BOOLEAN}]

Blank(report) == \A i \in DOMAIN report : report[i] = "blank"

\* The last line that is not blank; 0: none.
LastLine(report) ==
    IF Blank(report) THEN 0
    ELSE CHOOSE i \in DOMAIN report :
            report[i] # "blank" /\ \A j \in DOMAIN report : j > i => report[j] = "blank"
FirstLine(report) ==
    CHOOSE i \in DOMAIN report : report[i] # "blank" /\ \A j \in 1 .. i - 1 : report[j] = "blank"

Markers(report) == {i \in DOMAIN report : report[i] = "MARKER"}

\* Mutant: the marker counts wherever it stands.
MarkedAnywhere(report) == Markers(report) # {}

\* classifyLlmCronTerminalResult: one marker, and nothing after it.
Marked(report) == LastLine(report) # 0 /\ Markers(report) = {LastLine(report)}

Stripped(report) == IF Marked(report) THEN SubSeq(report, 1, LastLine(report) - 1) ELSE report

\* shouldSuppressNoReply: the first words, or a last line of its own.
Suppressed(report) ==
    /\ ~Blank(report)
    /\ \/ report[FirstLine(report)] = "NO_REPLY"
       \/ report[LastLine(report)] = "NO_REPLY"

\* scriptDiagnosticFailure: the code of a timeout comes before its signal.
ScriptCategory(end) ==
    CASE end.code = "ETIMEDOUT"               -> "timeout"
      [] end.code # "ETIMEDOUT" /\ end.signal -> "signal"
      [] ~end.signal /\ end.status # "none"   -> "exit"
      [] OTHER                                -> "failure"

\* runPi: an error of spawnSync first, then classifyPiResult.
PiCategory(end) ==
    CASE end.code = "ETIMEDOUT"                               -> "timeout"
      [] end.code \notin {"none", "ETIMEDOUT"}                -> "spawn"
      [] end.code = "none" /\ end.signal                      -> "signal"
      [] end.code = "none" /\ ~end.signal /\ end.status # "0" -> "exit"
      [] OTHER                                                -> "output"

ScriptFails(e) == e.end.status # "0"
PiFails(e) == e.end.status # "0" \/ (Blank(e.report) /\ e.stderr)

Fails(e) == IF e.type = "script" THEN ScriptFails(e) ELSE ~e.agent \/ PiFails(e)

\* What is recorded of an execution that fails.
Category(e) ==
    IF e.type = "script" THEN ScriptCategory(e.end)
    ELSE IF e.agent THEN PiCategory(e.end) ELSE "configuration"

\* What there is to say of one that does not.
Said(e) == IF e.type = "llm" THEN Stripped(e.report) ELSE e.report

Silent(e) == Blank(Said(e)) \/ (e.type = "llm" /\ Suppressed(Said(e)))

OutcomeOf(e) ==
    IF Fails(e) \/ (e.type = "llm" /\ Marked(e.report)) THEN "failure" ELSE "success"

Disposition(e) == CASE Fails(e)                -> Category(e)
                    [] ~Fails(e) /\ Silent(e)  -> "silent"
                    [] ~Fails(e) /\ ~Silent(e) -> "delivers"

\* The verdicts an execution can have.
Verdicts == {[outcome |-> OutcomeOf(e), silent |-> Disposition(e) # "delivers"] : e \in Executions}

-----------------------------------------------------------------------------
(* The reference, from what a report is made of. *)

Unresolved(report) ==
    \E i \in DOMAIN report :
        /\ report[i] = "MARKER"
        /\ \A j \in DOMAIN report : (j > i => report[j] = "blank") /\ (j < i => report[j] # "MARKER")

Ended(e) == e.end.status = "0" /\ (e.type = "llm" => e.agent)

\* Successes that are none, failures that have no reason, timeouts that go
\* by another name, and markers that reach the chat they are not meant for.
Misjudged ==
    {e \in Executions :
        \/ OutcomeOf(e) = "success" /\ (~Ended(e) \/ (e.type = "llm" /\ Unresolved(e.report)))
        \/ OutcomeOf(e) = "failure" /\ Ended(e)
             /\ ~(e.type = "llm" /\ (Unresolved(e.report) \/ (Blank(e.report) /\ e.stderr)))
        \/ e.end.code = "ETIMEDOUT" /\ (e.type = "llm" => e.agent) /\ Disposition(e) # "timeout"
        \/ Disposition(e) = "delivers" /\ e.type = "llm" /\ Unresolved(Said(e))}

=============================================================================
