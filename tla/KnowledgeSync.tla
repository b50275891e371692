---------------------------- MODULE KnowledgeSync ----------------------------
(***************************************************************************)
(* knowledge sync, executeKnowledgeSync in src/src/knowledge/sync.ts: the  *)
(* main branch of every workspace converges with origin/main, through a    *)
(* candidate that is validated in a temporary worktree, a fast-forward of  *)
(* the canonical branch and a push that is never forced.                   *)
(*                                                                         *)
(* A commit is a number; commit[c] holds what the sync tells apart: its    *)
(* parents in order, its ancestors, the lines of wiki/log.md, the edits    *)
(* whose text the managed page holds, and the flaw that a validation would *)
(* find.  One page stands for the managed corpus.  Git's own commands are  *)
(* modelled by what they do.  A workspace runs one sync at a time, since   *)
(* the sync holds the workspace lock (module KnowledgeLock); a sync that   *)
(* fails, is refused or dies ends with GiveUp, wherever it is.             *)
(***************************************************************************)
EXTENDS Naturals, SequencesExt

CONSTANTS
    Workspaces,   \* clones of the repository
    Transformed,  \* flaws of a commit made by hand: attributes or filters change
    Hidden,       \* the managed files, some are not checked out,
    Irregular,    \* are no regular files,
    Unparsed,     \* or do not parse,
    WrongIndex,   \* the index is not the generated one,
    Driver,       \* a merge driver hides conflicts,
    Gitlink,      \* a submodule pointer moves,
    Rewritten,    \* the log does not append to its parent's
    Flaws,        \* those explored
    MaxCommits,   \* bound: commits, the root included
    MaxRewinds    \* bound: forced pushes by others

ASSUME KnowledgeSyncAssumption ==
    /\ Flaws \subseteq {Transformed, Hidden, Irregular, Unparsed, WrongIndex, Driver, Gitlink, Rewritten}
    /\ "none" \notin Flaws \union {Rewritten} /\ {MaxCommits, MaxRewinds} \subseteq Nat

VARIABLES
    commit,     \* the object database
    origin,     \* main at the remote
    main,       \* main of each workspace, checked out
    refs,       \* refs/minime/knowledge-sync/recovery
    worktrees,  \* classifications of the temporary worktrees that are left
    pc,         \* where the sync of each workspace is
    attempt,    \* attemptIndex
    tips,       \* fetchedTips
    cand,       \* the commit that the attempt converges to
    rewinds

vars == <<commit, origin, main, refs, worktrees, pc, attempt, tips, cand, rewinds>>
remote == <<origin, rewinds>>
run == <<pc, attempt, tips, cand>>
kept == <<refs, worktrees>>

Ids == 1..MaxCommits
Commits == 1..Len(commit)
Anc(c) == commit[c].anc
LogOf(c) == commit[c].log
PageOf(c) == commit[c].page
Steps == {"idle", "fetch", "prepare", "advance", "reread", "verify"}
NoTips == [local |-> 0, remote |-> 0]
Goes(w, step) == pc' = [pc EXCEPT ![w] = step]

(* Git's commits, branches and refs outlive the process that ran the sync. *)
Ends(w) ==
    /\ Goes(w, "idle") /\ attempt' = [attempt EXCEPT ![w] = 0]
    /\ tips' = [tips EXCEPT ![w] = NoTips] /\ cand' = [cand EXCEPT ![w] = 0]

Root == [parents |-> <<>>, anc |-> {1}, log |-> <<>>, page |-> {}, flaw |-> "none"]

Init ==
    /\ commit = <<Root>> /\ origin = 1
    /\ main = [w \in Workspaces |-> 1]
    /\ refs = [w \in Workspaces |-> {}] /\ worktrees = [w \in Workspaces |-> {}]
    /\ pc = [w \in Workspaces |-> "idle"] /\ attempt = [w \in Workspaces |-> 0]
    /\ tips = [w \in Workspaces |-> NoTips] /\ cand = [w \in Workspaces |-> 0]
    /\ rewinds = 0

-----------------------------------------------------------------------------
(* Structural history: the lines of wiki/log.md.                           *)

(* stableLineUnion: the lines of the base, then what each source adds, in   *)
(* its order.  Every line is written once, so a line counts as itself.     *)
(* (The provers know nothing of SelectSeq.)                                *)
Added(base, log) ==
    LET new == {i \in DOMAIN log : log[i] \notin ToSet(base)}
        Nth(k) == CHOOSE i \in new : Cardinality(new \intersect (1..i)) = k
    IN [k \in 1..Cardinality(new) |-> log[Nth(k)]]
LineUnion(base, first, second) == base \o Added(base, first) \o Added(base, second)

(* git merge-base: a common ancestor that no other one descends from.      *)
Common(c, d) == Anc(c) \intersect Anc(d)
MergeBase(c, d) ==
    CHOOSE b \in Common(c, d) : \A e \in Common(c, d) : b \in Anc(e) => e = b

AppendsToParents(c) ==
    LET up == commit[c].parents IN
    IF Len(up) = 1 THEN IsPrefix(LogOf(up[1]), LogOf(c))
    ELSE IsPrefix(LineUnion(LogOf(MergeBase(up[1], up[2])), LogOf(up[1]), LogOf(up[2])),
                  LogOf(c))

(* Mutant: only the tip's log is compared with what it starts from. *)
TipAppends(from, to) == Len(LogOf(from)) <= Len(LogOf(to))

(* validateStructuralLogRange: every commit between the two appends.       *)
RangeAppends(from, to) == \A c \in Anc(to) \ Anc(from) : AppendsToParents(c)

-----------------------------------------------------------------------------
(* Validation of what is checked out, the content k of a commit.           *)

(* validateManagedCheckinAttributes: no attribute or filter changes bytes.  *)
Untransformed(k) == k.flaw # Transformed

(* validateManagedWorktreeMaterialization: no sparse checkout, no flag that *)
(* hides a tracked file, no ignored file among the managed ones.           *)
Materialized(k) == k.flaw # Hidden

(* validateManagedGitEntries: regular, resolved, in the managed places.    *)
Regular(k) == k.flaw # Irregular

(* collectKnowledgePages *)
Parses(k) == k.flaw # Unparsed

ContentSound(k) == Untransformed(k) /\ Materialized(k) /\ Regular(k) /\ Parses(k)

(* Mutant: the index is taken for right. *)
ValidButIndex(k) == ContentSound(k)

(* validateCandidateLayout, validateCandidateCorpus: also the index is the *)
(* generated one of the pages.                                             *)
ValidLayout(k) == ContentSound(k) /\ k.flaw # WrongIndex

-----------------------------------------------------------------------------
(* The merge of two diverged tips in the temporary worktree.               *)

Tip(w) == tips[w].local
Far(w) == tips[w].remote
Base(w) == MergeBase(Tip(w), Far(w))

Changed(c, b) == PageOf(c) # PageOf(b)

(* Mutant: a conflict is settled in favour of the local page. *)
LocalPage(w) ==
    IF Changed(Tip(w), Base(w)) THEN PageOf(Tip(w)) ELSE PageOf(Far(w))

(* Git's merge, and resolveManagedPageConflict for a page both sides       *)
(* changed: both committed variants are kept in it.                        *)
MergedPage(w) ==
    IF ~Changed(Far(w), Base(w)) THEN PageOf(Tip(w))
    ELSE IF ~Changed(Tip(w), Base(w)) THEN PageOf(Far(w))
    ELSE PageOf(Tip(w)) \union PageOf(Far(w))

(* mergeStructuralLogs: the union of both histories and the provenance.    *)
MergedLog(w) ==
    LineUnion(LogOf(Base(w)), LogOf(Tip(w)), LogOf(Far(w))) \o <<<<Tip(w), Far(w)>>>>

MergePreserves(w) ==
    \A c \in {Base(w), Tip(w), Far(w)} : ToSet(LogOf(c)) \subseteq ToSet(MergedLog(w))

(* validateMergeDrivers: no driver may settle a path both sides changed.   *)
(* The attributes are those of the worktree, which holds the local tip.    *)
DriversSafe(w) ==
    Changed(Tip(w), Base(w)) /\ Changed(Far(w), Base(w)) => commit[Tip(w)].flaw # Driver

(* What the merge takes over: what one side changed since the base.        *)
Carried(w) ==
    IF commit[Tip(w)].flaw = commit[Base(w)].flaw THEN commit[Far(w)].flaw
    ELSE commit[Tip(w)].flaw

(* reconcileDerivedKnowledgeState generates the index anew.                *)
MergedFlaw(w) == IF Carried(w) = WrongIndex THEN "none" ELSE Carried(w)

Merge(w) ==
    [parents |-> <<Tip(w), Far(w)>>,
     anc |-> Anc(Tip(w)) \union Anc(Far(w)) \union {Len(commit) + 1},
     log |-> MergedLog(w), page |-> MergedPage(w), flaw |-> MergedFlaw(w)]

(* materializeTemporaryWorktree inspects the attributes of both tips,      *)
(* reconcileDerivedKnowledgeState refuses a log that lost lines and        *)
(* validates what is about to be committed; a conflict outside the pages   *)
(* ends in GiveUp.                                                         *)
MergeAllowed(w) ==
    /\ RangeAppends(Base(w), Tip(w)) /\ RangeAppends(Base(w), Far(w))
    /\ Untransformed(commit[Tip(w)]) /\ Untransformed(commit[Far(w)])
    /\ DriversSafe(w) /\ MergePreserves(w) /\ ValidLayout(Merge(w))

-----------------------------------------------------------------------------
(* What happens to a workspace and to origin besides syncs.                *)

NewCommit(w, log, page, flaw) ==
    /\ Len(commit) < MaxCommits
    /\ commit' = Append(commit,
          [parents |-> <<main[w]>>, anc |-> Anc(main[w]) \union {Len(commit) + 1},
           log |-> log, page |-> page, flaw |-> flaw])
    /\ main' = [main EXCEPT ![w] = Len(commit) + 1]
    /\ UNCHANGED <<remote, run, kept>>

(* A knowledge_update, under the lock, and its commit; or a commit made by *)
(* hand, without the lock and so at any time, which may rewrite the log or *)
(* leave a flaw.  Bound: one flaw, and not together with a forced push.    *)
Unflawed == \A d \in Commits : commit[d].flaw = "none"

EditKnowledge(w) ==
    LET c == Len(commit) + 1
        log == commit[main[w]].log
        may == Unflawed /\ rewinds = 0 IN
    /\ \/ NewCommit(w, Append(log, <<c>>), {c}, commit[main[w]].flaw)
       \/ \E flaw \in Flaws \ {Rewritten} : may /\ NewCommit(w, Append(log, <<c>>), {c}, flaw)
       \/ /\ Rewritten \in Flaws /\ may /\ ~IsPrefix(log, <<<<c>>>>)
          /\ NewCommit(w, <<<<c>>>>, {c}, Rewritten)

(* Somebody repairs what is flawed, also beside a sync, except a log that   *)
(* is already history.                                                     *)
Repair(w) ==
    LET c == Len(commit) + 1 IN
    /\ commit[main[w]].flaw \in Flaws \ {Rewritten}
    /\ NewCommit(w, Append(commit[main[w]].log, <<c>>), {c}, "none")

(* A commit of other files.  Bound: one of them, beside a sync, and not     *)
(* together with a forced push.                                            *)
SameKnowledge(c) ==
    commit[c].parents # <<>> /\ commit[c].log = commit[commit[c].parents[1]].log
NoneElsewhere == \A d \in Commits : ~SameKnowledge(d)

CommitElsewhere(w) ==
    LET c == commit[main[w]] IN
    /\ pc[w] # "idle" /\ rewinds = 0 /\ NoneElsewhere
    /\ NewCommit(w, c.log, c.page, c.flaw)

Rewind ==
    /\ rewinds < MaxRewinds /\ Unflawed /\ NoneElsewhere
    /\ \E c \in Anc(origin) \ {origin} : origin' = c
    /\ rewinds' = rewinds + 1
    /\ UNCHANGED <<commit, main, run, kept>>

-----------------------------------------------------------------------------
(* One sync.                                                               *)

Same(w) == Tip(w) = Far(w)
Behind(w) == ~Same(w) /\ Tip(w) \in Anc(Far(w))
Ahead(w) == ~Same(w) /\ Far(w) \in Anc(Tip(w))
Diverged(w) == Tip(w) \notin Anc(Far(w)) /\ Far(w) \notin Anc(Tip(w))

(* fetchOriginMain, readTips *)
FetchTips(w) == tips' = [tips EXCEPT ![w] = [local |-> main[w], remote |-> origin]]

(* preserveTips *)
KeepTips(w) == refs' = [refs EXCEPT ![w] = @ \union {main[w], origin}]

(* The checks before the lock, the lock, the checks under it, and the first *)
(* fetch; the same fetch begins the second attempt.                        *)
Fetch(w) ==
    /\ pc[w] \in {"idle", "fetch"} /\ Goes(w, "prepare")
    /\ pc[w] = "idle" => Materialized(commit[main[w]])
    /\ FetchTips(w)
    /\ IF main[w] = origin THEN UNCHANGED refs ELSE KeepTips(w)
    /\ UNCHANGED <<commit, main, remote, worktrees, attempt, cand>>

(* withTemporaryWorktree: one with the same marker is made anew, one that   *)
(* another process or attempt left stays until a sync converges.           *)
InWorktree(w, kind) == worktrees' = [worktrees EXCEPT ![w] = @ \union {kind}]

(* prepareCandidate.  A worktree of a candidate that is refused stays.      *)
Candidate(w, c) ==
    cand' = [cand EXCEPT ![w] = c] /\ Goes(w, "advance") /\ UNCHANGED <<attempt, tips>>

(* What is checked out in the workspace by now is validated; the candidate *)
(* is the tip that was read.                                               *)
PrepareInPlace(w) ==
    /\ pc[w] = "prepare" /\ (Same(w) \/ Ahead(w))
    /\ ValidLayout(commit[main[w]]) /\ RangeAppends(Far(w), Tip(w))
    /\ Candidate(w, Tip(w))
    /\ UNCHANGED <<commit, main, remote, kept>>

PrepareBehind(w) ==
    /\ pc[w] = "prepare" /\ Behind(w) /\ InWorktree(w, "behind")
    /\ IF ValidLayout(commit[Far(w)]) /\ RangeAppends(Tip(w), Far(w))
       THEN Candidate(w, Far(w))
       ELSE Ends(w)
    /\ UNCHANGED <<commit, main, remote, refs>>

PrepareMerge(w) ==
    /\ pc[w] = "prepare" /\ Diverged(w) /\ Len(commit) < MaxCommits
    /\ InWorktree(w, "diverged")
    /\ IF MergeAllowed(w)
       THEN commit' = Append(commit, Merge(w)) /\ Candidate(w, Len(commit) + 1)
       ELSE Ends(w) /\ UNCHANGED commit
    /\ UNCHANGED <<main, remote, refs>>

(* Mutant: the branch is set to the candidate. *)
Forced(w) == main' = [main EXCEPT ![w] = cand[w]]

(* merge --ff-only: up to date, a fast-forward, or refused.                *)
FastForwards(w) ==
    /\ main[w] \in Anc(cand[w]) \/ cand[w] \in Anc(main[w])
    /\ main' = [main EXCEPT ![w] = IF cand[w] \in Anc(@) THEN @ ELSE cand[w]]

(* validateNoCandidateGitlinkChanges: main and the candidate agree on the   *)
(* submodules, since their checkout is disabled.                           *)
SameGitlinks(w) ==
    (commit[main[w]].flaw = Gitlink) = (commit[cand[w]].flaw = Gitlink)

(* git push without force.  A push that reports failure may have landed.   *)
Pushes(w) ==
    /\ origin \in Anc(cand[w]) /\ origin' = cand[w] /\ UNCHANGED rewinds
    /\ \E step \in {"verify", "reread"} : Goes(w, step)

PushFails(w) == Goes(w, "reread") /\ UNCHANGED remote

(* The workspace is looked at again; what was behind or merged is validated *)
(* once more where it now is; then the push.  A push of somebody else in    *)
(* between could as well come before this step, a commit in the workspace   *)
(* before or after it, and a crash in between leaves what a failed push     *)
(* leaves.                                                                  *)
Advance(w) ==
    /\ pc[w] = "advance" /\ SameGitlinks(w) /\ FastForwards(w)
    /\ Materialized(commit[main[w]])
    /\ (Behind(w) \/ Diverged(w)) => ValidLayout(commit[main'[w]])
    /\ IF cand[w] = Far(w) THEN Goes(w, "verify") /\ UNCHANGED remote
       ELSE Pushes(w) \/ PushFails(w)
    /\ UNCHANGED <<commit, kept, attempt, tips, cand>>

(* Mutant: the recovery refs go whether or not main reaches them. *)
RefsGo(w) == refs' = [refs EXCEPT ![w] = {}]

(* removeReachableRecoveryRefs: all of them, or none.                      *)
RefsReached(w) ==
    refs' = IF refs[w] \subseteq Anc(main[w]) THEN [refs EXCEPT ![w] = {}] ELSE refs

(* removeSyncTemporaryWorktrees: all that carry this repository's marker.  *)
WorktreesGone(w) == worktrees' = [worktrees EXCEPT ![w] = {}]

Converge(w) == WorktreesGone(w) /\ RefsReached(w) /\ Ends(w)

(* There is one more attempt.  What was fetched meanwhile is preserved.    *)
Retry(w, again) ==
    /\ KeepTips(w) /\ UNCHANGED worktrees
    /\ IF again /\ attempt[w] = 0
       THEN /\ Goes(w, "fetch") /\ attempt' = [attempt EXCEPT ![w] = 1]
            /\ tips' = [tips EXCEPT ![w] = NoTips] /\ cand' = [cand EXCEPT ![w] = 0]
       ELSE Ends(w)

Reread(w) ==
    /\ pc[w] = "reread"
    /\ IF main[w] = origin THEN Converge(w) ELSE Retry(w, origin # Far(w))
    /\ UNCHANGED <<commit, main, remote>>

Verify(w) ==
    /\ pc[w] = "verify"
    /\ IF main[w] = origin THEN Converge(w) ELSE Retry(w, TRUE)
    /\ UNCHANGED <<commit, main, remote>>

GiveUp(w) ==
    /\ pc[w] # "idle" /\ Ends(w)
    /\ UNCHANGED <<commit, main, remote, kept>>

Sync(w) ==
    \/ Fetch(w)
    \/ PrepareInPlace(w) \/ PrepareBehind(w) \/ PrepareMerge(w)
    \/ Advance(w)
    \/ Reread(w) \/ Verify(w) \/ GiveUp(w)

Next ==
    \/ \E w \in Workspaces : Sync(w) \/ EditKnowledge(w) \/ Repair(w) \/ CommitElsewhere(w)
    \/ Rewind

Spec == Init /\ [][Next]_vars

-----------------------------------------------------------------------------
TypeOK ==
    /\ DOMAIN commit \subseteq Ids /\ origin \in Commits
    /\ main \in [Workspaces -> Commits]
    /\ refs \in [Workspaces -> SUBSET Commits]
    /\ worktrees \in [Workspaces -> SUBSET {"behind", "diverged"}]
    /\ pc \in [Workspaces -> Steps] /\ attempt \in [Workspaces -> 0..1]
    /\ tips \in [Workspaces -> [local : 0..MaxCommits, remote : 0..MaxCommits]]
    /\ cand \in [Workspaces -> 0..MaxCommits]
    /\ rewinds \in 0..MaxRewinds

(* No commit that a workspace reaches, from main or from a recovery ref, is *)
(* ever out of its reach again; the tips are within reach before a sync    *)
(* changes anything.                                                       *)
Reach(w) == Anc(main[w]) \union UNION {Anc(c) : c \in refs[w]}

TipsStayReachable ==
    \A w \in Workspaces :
      /\ Reach(w) \subseteq Reach(w)'
      /\ pc'[w] \in {"prepare", "advance"} => {Tip(w)', Far(w)'} \subseteq Reach(w)'

(* No sync loses a line of the structural log that was in origin/main or   *)
(* in the workspace: neither a merge, nor a fast-forward to a history that *)
(* somebody rewrote.                                                       *)
NoLineLost ==
    /\ \A w \in Workspaces : pc[w] = "advance" /\ commit' = commit =>
          ToSet(commit[main[w]].log) \subseteq ToSet(commit'[main'[w]].log)
    /\ origin # origin' /\ rewinds = rewinds' =>
          ToSet(commit[origin].log) \subseteq ToSet(commit'[origin'].log)

(* Whatever two workspaces and other writers do to origin, no commit and   *)
(* no log line that a workspace had is lost to it.                         *)
NothingLost == [][TipsStayReachable /\ NoLineLost]_vars

(* A committed edit is not lost in silence: a branch that has the commit   *)
(* has its text in the page, or an edit made on top of it.                 *)
NoVariantLost ==
    \A w \in Workspaces : \A e \in Anc(main[w]) :
        commit[e].page = {e} =>
            \/ e \in commit[main[w]].page
            \/ \E f \in Anc(main[w]) \ {e} : commit[f].page = {f} /\ e \in Anc(f)

Converging(w) ==
    /\ pc[w] \in {"reread", "verify"} /\ main[w] = origin /\ pc'[w] = "idle"
    /\ worktrees'[w] = {} /\ refs'[w] = {}

(* Validated is what the workspace holds, pushed the tip that was read     *)
(* before: they differ when somebody committed in the workspace between.   *)
Valid(c) == commit'[c].flaw \in {"none", Driver, Gitlink}
Overtaken(w) == pc[w] = "advance" /\ Ahead(w) /\ main[w] # Tip(w)

Pushed == rewinds = rewinds' /\ origin' # origin

(* What a sync pushes is a valid Knowledge workspace, unless somebody      *)
(* committed on top of it in the workspace beside the sync, and never a    *)
(* rewritten log; what a sync leaves as main when it reports that all      *)
(* converged is valid whoever committed; and no sync moves a submodule     *)
(* pointer under a workspace, whose submodules it does not check out.      *)
OnlyValidPublished ==
    [][/\ Pushed => \/ Valid(origin')
                    \/ /\ \E w \in Workspaces : Overtaken(w) /\ origin' = Tip(w)
                       /\ commit'[origin'].flaw # Rewritten
       /\ \A w \in Workspaces :
            /\ Converging(w) => Valid(main[w])
            /\ pc[w] = "advance" /\ commit' = commit =>
                 (commit[main[w]].flaw = Gitlink) = (commit'[main'[w]].flaw = Gitlink)]_vars

(* README.md:508-512: knowledge sync "validates the complete Knowledge     *)
(* corpus, and fast-forwards canonical `main` only after validation.  It   *)
(* then pushes": nothing is pushed that was not validated.                 *)
PushedIsValidated == [][Pushed => Valid(origin')]_vars
=============================================================================
