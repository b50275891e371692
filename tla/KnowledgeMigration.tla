------------------------- MODULE KnowledgeMigration -------------------------
(***************************************************************************)
(* knowledge migrate --apply, src/src/knowledge/migration.ts: the plan     *)
(* that is made of a legacy workspace, one file at a time, and its         *)
(* application, one rename at a time.  Any call may fail and the process   *)
(* may die between any two; the operator may then commit what is there and *)
(* run it again, so a plan is also made of every half-migrated workspace.  *)
(*                                                                         *)
(* A path is a directory and a name.  A content is a tag and the names it  *)
(* holds: a source's text, or the pages a generated file lists.            *)
(***************************************************************************)
EXTENDS Naturals, Sequences

CONSTANTS
  Sources,      \* legacy files, in the order of their paths
  Topics,       \* page names that sources route to
  Numbered,     \* those that classifyLegacyTarget makes unique by a number
  Suspect,      \* bound: files and pages that may be flawed, one at a time
  MaxFaults,    \* bound: failed calls and crashes
  MaxSnapshots  \* bound: git commits by the operator

Legacy == {Sources[i] : i \in DOMAIN Sources}
Controls == {"index", "issues", "log", "schema"}
Kinds == {"auto", "diary", "topic"}

\* Contents are told apart by the names they hold.
ASSUME KnowledgeMigrationAssumption ==
  /\ Numbered \subseteq Topics /\ MaxFaults \in Nat /\ MaxSnapshots \in Nat
  /\ Legacy \intersect (Controls \union {"memory", "pending", "section"}) = {}

VARIABLES
  kind, route,  \* of every legacy file, where it lives and what page it routes to
  memory,       \* MEMORY.md: present, its pending review and its one section
  defect,       \* the one thing wrong with the workspace: [at, what]
  disk,         \* every path that migration may write
  committed,    \* the same, as of the last git commit
  apply,        \* the running apply
  reported,     \* legacy files the last applied plan reports as left out
  faults, commits   \* counters for the bounds

given == <<kind, route, memory, defect>>
migrationVars == <<kind, route, memory, defect, disk, committed, apply, reported, faults,
                   commits>>

None == <<"none", {}>>
Text(name) == <<"text", {name}>>
Listing(pages) == <<"pages", pages>>
Schema == <<"schema", {}>>
Torn == <<"torn", {}>>              \* what a write that is cut short leaves

Archive(name) == <<"archive", name>>
Wiki(name) == <<"wiki", name>>
Page(name) == <<"page", name>>
Page2(name) == <<"page2", name>>    \* the name with -2
Diary(name) == <<"diary", name>>

Texts == Legacy \union Controls \union {"memory", "pending", "section"}
Pages == {Page(t) : t \in Topics} \union {Page2(t) : t \in Numbered}
Paths == {Archive(c) : c \in Controls \union {"memory"}}
         \union {Wiki(c) : c \in Controls}
         \union Pages \union {Diary(s) : s \in Legacy}

Contents == {None, Schema, Torn} \union {Text(n) : n \in Texts}
            \union {Listing(S) : S \in SUBSET Pages}

Flawed(at, what) == defect.at = at /\ defect.what = what

\* The defects: secret content, no page type to infer, a target that disagrees
\* with the type, not Markdown, no known provenance, directly under wiki/, a
\* symbolic link.
Defects ==
  {[at |-> "nothing", what |-> "none"]}
  \union [at : Suspect \intersect Legacy,
          what : {"secret", "untyped", "mismatch", "binary", "unknown", "loose"}]
  \union [at : Suspect \intersect {"memory"}, what : {"secret", "untyped", "link"}]
  \union [at : Suspect \intersect Controls, what : {"secret", "link"}]
  \union [at : Suspect \intersect Topics, what : {"link"}]

MigrationInit ==
  /\ kind \in [Legacy -> Kinds] /\ route \in [Legacy -> Topics]
  /\ memory \in [present : BOOLEAN, pending : BOOLEAN, section : Topics \union {"none"}]
  /\ ~memory.present => ~memory.pending /\ memory.section = "none"
  /\ defect \in Defects
  /\ \E old \in {{}, {"index"}, {"issues"}, Controls} :
       disk = [p \in Paths |-> IF p[1] = "wiki" /\ p[2] \in old THEN Text(p[2])
                                                               ELSE None]
  /\ committed = disk
  /\ apply = [pc |-> "idle"]
  /\ reported = {}
  /\ faults = 0 /\ commits = 0

MigrationTypeOK ==
  /\ kind \in [Legacy -> Kinds] /\ route \in [Legacy -> Topics]
  /\ memory.section \in Topics \union {"none"}
  /\ disk \in [Paths -> Contents] /\ committed \in [Paths -> Contents]
  /\ apply.pc \in {"idle", "plan", "rename", "undo"}
  /\ apply.pc = "plan" => apply.files \subseteq Legacy /\ apply.plan.left \subseteq Legacy
  /\ apply.pc \in {"rename", "undo"} =>
       /\ apply.before \in [Paths -> Contents]
       /\ apply.todo \subseteq Paths /\ apply.done \subseteq Paths
  /\ reported \subseteq Legacy

-----------------------------------------------------------------------------
(* The plan: the writes, by path, and what is reported or blocks.          *)

EmptyPlan == [writes |-> [p \in {} |-> None], blocked |-> FALSE, left |-> {}]

Blocks(plan) == [plan EXCEPT !.blocked = TRUE]
Leaves(plan, source) == [plan EXCEPT !.left = @ \union {source}]

\* addWrite.
AddWrite(plan, path, content, overwrite, sound) ==
  LET planned == path \in DOMAIN plan.writes
      there == disk[path] # None
      same == disk[path] = content
  IN IF ~sound \/ Flawed(path[2], "link") \/ (planned /\ ~same)
               \/ (~planned /\ there /\ ~overwrite /\ ~same)
     THEN Blocks(plan)
     ELSE IF planned \/ (there /\ ~overwrite) THEN plan
     ELSE [plan EXCEPT !.writes =
             [p \in DOMAIN @ \union {path} |-> IF p = path THEN content ELSE @[p]]]

\* resolveKnowledgeLayout: a schema marker and an index.
IsV2 == disk[Wiki("schema")] = Schema /\ disk[Wiki("index")] # None

\* planLegacyWikiControlArchives.
ArchiveControl(plan, control) ==
  LET old == disk[Wiki(control)]
  IN IF old = None THEN plan
     ELSE IF Flawed(control, "link") \/ Flawed(control, "secret") THEN Blocks(plan)
     ELSE IF disk[Wiki("schema")] = Schema /\ control # "issues" THEN plan
     ELSE AddWrite(plan, Archive(control), old, FALSE, TRUE)

\* hasLegacyControlArchive: planned now, or already there with the same text.
HasArchive(plan, control) ==
  \/ Archive(control) \in DOMAIN plan.writes
  \/ disk[Archive(control)] = disk[Wiki(control)]

\* planGeneratedV2Control: an existing file is replaced only once archived.
Generate(plan, control, content) ==
  LET there == disk[Wiki(control)] # None
  IN IF there /\ ~HasArchive(plan, control) THEN plan
     ELSE AddWrite(plan, Wiki(control), content, there, TRUE)

\* uniqueTarget, at the end of classifyLegacyTarget.
Target(plan, topic) ==
  IF topic \in Numbered /\ (Page(topic) \in DOMAIN plan.writes \/ disk[Page(topic)] # None)
                        /\ Page2(topic) \notin DOMAIN plan.writes
                        /\ disk[Page2(topic)] = None
  THEN Page2(topic) ELSE Page(topic)

\* frontmatterForMemorySection: a section that only lists other files becomes
\* nothing, one without a page type is left to the operator.
SectionBecomes ==
  CASE memory.section = "none" -> "nothing"
    [] memory.section # "none" /\ Flawed("memory", "untyped") -> "review"
    [] OTHER -> "page"

\* planMemoryFile: the archive, the pending review, the section.
PlanMemory(plan) ==
  LET archived == AddWrite(plan, Archive("memory"), Text("memory"), FALSE, TRUE)
      issues == disk[Wiki("issues")] # None
      reviewed ==
        IF memory.pending /\ (issues => HasArchive(archived, "issues"))
        THEN AddWrite(archived, Wiki("issues"), Text("pending"), issues, TRUE)
        ELSE archived
  IN IF ~memory.present THEN plan
     ELSE IF Flawed("memory", "link") \/ Flawed("memory", "secret") THEN Blocks(plan)
     ELSE IF SectionBecomes = "nothing" THEN reviewed
     ELSE IF SectionBecomes = "review" THEN Blocks(reviewed)
     ELSE AddWrite(reviewed, Target(reviewed, memory.section), Text("section"), FALSE, TRUE)

\* planLegacyAutoFile, planLegacyDiaryFile and planTopicWikiFile.
PlanFile(plan, s) ==
  LET secret == Flawed(s, "secret")
      sound == ~Flawed(s, "mismatch")
  IN IF Flawed(s, "unknown") \/ (kind[s] = "topic" /\ Flawed(s, "loose")) THEN plan
     ELSE IF Flawed(s, "binary") \/ (kind[s] = "diary" /\ secret) THEN Leaves(plan, s)
     ELSE IF kind[s] = "diary"
          THEN AddWrite(plan, Diary(s), Text(s), FALSE, TRUE)
     ELSE IF secret \/ (kind[s] = "auto" /\ Flawed(s, "untyped")) THEN Blocks(plan)
     ELSE IF kind[s] = "auto"
          THEN AddWrite(plan, Target(plan, route[s]), Text(s), FALSE, sound)
     ELSE AddWrite(plan, Page(route[s]), Text(s), FALSE, sound)

\* planGeneratedV2Files: the index and the log list the planned pages.
PlanGenerated(plan) ==
  LET pages == DOMAIN plan.writes \intersect Pages
      schema == Generate(plan, "schema", Schema)
      index == Generate(schema, "index", Listing(pages))
  IN Generate(index, "log", Listing(pages))

\* classifyUnhandledFile: a page that is already there has no known provenance.
Unhandled(plan) ==
  IF (\E p \in Pages : disk[p] # None) \/ defect.what = "unknown"
  THEN Blocks(plan) ELSE plan

\* planMigration, up to its loop over the files.
ControlsArchived ==
  ArchiveControl(ArchiveControl(ArchiveControl(ArchiveControl(EmptyPlan,
    "schema"), "index"), "log"), "issues")

\* walkFiles: memory/auto before memory/diary before wiki.
KindRank == [auto |-> 1, diary |-> 2, topic |-> 3]
Position(s) == CHOOSE i \in DOMAIN Sources : Sources[i] = s
ComesBefore(s, t) ==
  \/ KindRank[kind[s]] < KindRank[kind[t]]
  \/ kind[s] = kind[t] /\ Position(s) < Position(t)

-----------------------------------------------------------------------------
(* applyOperations, in the order of the target paths.                      *)

Rank == [memory |-> 1, index |-> 2, issues |-> 3, log |-> 4, schema |-> 5]

\* Mutant: the schema marker before the pages.
SchemaEarly(path) ==
  CASE path[1] = "archive" -> Rank[path[2]]
    [] path[1] = "diary" -> 6
    [] path[1] = "wiki" -> 5 + Rank[path[2]]
    [] OTHER -> 11

\* compareKnowledgePaths: the schema marker, by which v2 is recognised, is
\* last.  The order of the diaries, and that of the pages, is left open.
Turn(path) ==
  CASE path[1] = "archive" -> Rank[path[2]]
    [] path[1] = "diary" -> 6
    [] path[1] = "wiki" /\ path # Wiki("schema") -> 5 + Rank[path[2]]
    [] path = Wiki("schema") -> 11
    [] OTHER -> 10

Fault == faults < MaxFaults /\ faults' = faults + 1
CleanTree == disk = committed

\* planMigration begins with the control files and MEMORY.md.
Begin ==
  /\ apply.pc = "idle" /\ ~IsV2
  /\ apply' = [pc |-> "plan", plan |-> PlanMemory(ControlsArchived), files |-> Legacy]
  /\ UNCHANGED <<given, disk, committed, reported, faults, commits>>

\* One turn of its loop.
PlanNext ==
  /\ apply.pc = "plan"
  /\ \E s \in apply.files :
       /\ \A t \in apply.files : ~ComesBefore(t, s)
       /\ apply' = [apply EXCEPT !.plan = PlanFile(@, s), !.files = @ \ {s}]
  /\ UNCHANGED <<given, disk, committed, reported, faults, commits>>

\* executeKnowledgeMigration: no blocker, and a clean worktree unless the
\* operator allows a dirty one.
Start(allowDirty) ==
  /\ apply.pc = "plan" /\ apply.files = {}
  /\ CleanTree \/ allowDirty
  /\ LET plan == Unhandled(PlanGenerated(apply.plan))
     IN /\ ~plan.blocked
        /\ apply' = [pc |-> "rename", writes |-> plan.writes, todo |-> DOMAIN plan.writes,
                     done |-> {}, before |-> disk, clean |-> TRUE]
        /\ reported' = plan.left
  /\ UNCHANGED <<given, disk, committed, faults, commits>>

\* A blocker, a dirty worktree, a file that cannot be read, or a crash.
PlanningEnds ==
  /\ apply.pc = "plan"
  /\ apply' = [pc |-> "idle"]
  /\ UNCHANGED <<given, disk, committed, reported, faults, commits>>

Rename ==
  /\ apply.pc = "rename"
  /\ \E path \in apply.todo :
       /\ \A other \in apply.todo : Turn(path) <= Turn(other)
       /\ disk' = [disk EXCEPT ![path] = apply.writes[path]]
       /\ apply' = [apply EXCEPT !.todo = @ \ {path}, !.done = @ \union {path}]
  /\ UNCHANGED <<given, committed, reported, faults, commits>>

Applied ==
  /\ apply.pc = "rename" /\ apply.todo = {}
  /\ apply' = [pc |-> "idle"]
  /\ UNCHANGED <<given, disk, committed, reported, faults, commits>>

\* A staged write or a rename fails: what was renamed is put back, last first.
RenameFails ==
  /\ apply.pc = "rename" /\ apply.todo # {} /\ Fault
  /\ apply' = [apply EXCEPT !.pc = "undo"]
  /\ UNCHANGED <<given, disk, committed, reported, commits>>

\* Mutant: files that were not there before are left behind.
RestoredIfPresent(path) == IF apply.before[path] = None THEN disk[path] ELSE apply.before[path]

Restored(path) == apply.before[path]

\* The last of those renamed.
IsLastDone(path) ==
  path \in apply.done /\ \A other \in apply.done : Turn(other) <= Turn(path)

Undo ==
  /\ apply.pc = "undo"
  /\ \E path \in apply.done :
       /\ IsLastDone(path)
       /\ disk' = [disk EXCEPT ![path] = Restored(path)]
       /\ apply' = [apply EXCEPT !.done = @ \ {path}]
  /\ UNCHANGED <<given, committed, reported, faults, commits>>

\* The rollback writes a file that was there before in place.
CutShort(path) == apply.before[path] # None /\ disk' = [disk EXCEPT ![path] = Torn]

\* One call of the rollback fails: it goes on with the next.
UndoFails ==
  /\ apply.pc = "undo" /\ Fault
  /\ \E path \in apply.done :
       /\ IsLastDone(path)
       /\ disk' = disk \/ CutShort(path)
       /\ apply' = [apply EXCEPT !.done = @ \ {path}, !.clean = FALSE]
  /\ UNCHANGED <<given, committed, reported, commits>>

Failed ==
  /\ apply.pc = "undo" /\ apply.done = {}
  /\ apply' = [pc |-> "idle"]
  /\ UNCHANGED <<given, disk, committed, reported, faults, commits>>

Crash ==
  /\ apply.pc \in {"rename", "undo"} /\ Fault
  /\ \/ disk' = disk
     \/ apply.pc = "undo" /\ \E path \in apply.done : IsLastDone(path) /\ CutShort(path)
  /\ apply' = [pc |-> "idle"]
  /\ UNCHANGED <<given, committed, reported, commits>>

\* The operator commits what is there.
Commit ==
  /\ apply.pc = "idle" /\ ~CleanTree /\ commits < MaxSnapshots
  /\ committed' = disk /\ commits' = commits + 1
  /\ UNCHANGED <<given, disk, apply, reported, faults>>

MigrationNext ==
  \/ Begin \/ PlanNext \/ (\E allowDirty \in BOOLEAN : Start(allowDirty)) \/ PlanningEnds
  \/ Rename \/ Applied \/ RenameFails \/ Undo \/ UndoFails \/ Failed
  \/ Crash \/ Commit

MigrationSpec == MigrationInit /\ [][MigrationNext]_migrationVars

-----------------------------------------------------------------------------
(* Properties.                                                             *)

OnDisk == {p \in Pages : disk[p] # None}
Holds(text) == \E p \in Paths : disk[p] = Text(text)

\* The index and the log list the pages that are there; every legacy file was
\* carried over or reported, and so was every section and the exact text of
\* MEMORY.md.  A file directly under wiki/ is the exception that
\* EveryFileAccounted is about.
IsWhole ==
  /\ disk[Wiki("index")] = Listing(OnDisk) /\ disk[Wiki("log")] = Listing(OnDisk)
  /\ \A s \in Legacy : Holds(s) \/ s \in reported \/ Flawed(s, "loose")
  /\ memory.present => Holds("memory")
  /\ memory.section # "none" => Holds("section")

\* A workspace is taken for Knowledge v2 only when it is whole, however often
\* an apply failed, died or was run again over the remains.
MigratedIsWhole == IsV2 => IsWhole

\* Markdown that no rule routes blocks the migration or is reported
\* (docs/plans/completed/2026-06-08-knowledge-migrate-false-blockers.md:49,
\* "Keep genuinely unknown Markdown as blocking").
EveryFileAccounted ==
  IsV2 => \A s \in Legacy : Holds(s) \/ s \in reported

\* A control file that was there is in its place or in the archive at every
\* moment, also when apply dies or is rolled back, unless a call of the
\* rollback itself fails: the archive of a file that could not be put back is
\* removed all the same.
LegacyControlKept ==
  (apply.pc = "undo" => apply.clean) => \A c \in Controls : Holds(c) => Holds(c)'

\* An apply that fails, and no call of whose rollback fails, leaves the
\* workspace as it was.
FailureLeavesNoTrace ==
  apply.pc = "undo" /\ apply.done = {} /\ apply.clean => disk = apply.before

\* An apply that goes wrong costs the workspace nothing.
ApplyIsSafe == [][LegacyControlKept /\ FailureLeavesNoTrace]_<<disk, apply>>
=============================================================================
