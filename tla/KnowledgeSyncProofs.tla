------------------------- MODULE KnowledgeSyncProofs -------------------------
(* What no sync loses, for any number of workspaces, commits and forced    *)
(* pushes: commits, lines of the structural log, and edits of a page.  The *)
(* second part is about the migration that makes such a workspace of a     *)
(* legacy one.                                                             *)
EXTENDS KnowledgeSync, KnowledgeMigration, SequenceTheorems, WellFoundedInduction,
        FiniteSetTheorems, TLAPS

(* No commit that a workspace reaches gets out of its reach.               *)

(* Every commit descends from itself and from all that its ancestors        *)
(* descend from, and every ancestor is a commit.                            *)
AncestorsOf(C, c) ==
    /\ c \in C[c].anc
    /\ C[c].anc \subseteq 1..Len(C)
    /\ \A d \in C[c].anc : C[d].anc \subseteq C[c].anc

Ancestry == \A c \in 1..Len(commit) : AncestorsOf(commit, c)

(* The branches and the refs name commits that exist.                       *)
NamesExist ==
    /\ \E S : commit \in Seq(S)
    /\ origin \in Commits
    /\ main \in [Workspaces -> Commits]
    /\ refs \in [Workspaces -> SUBSET Commits]

RunTyped ==
    /\ pc \in [Workspaces -> Steps]
    /\ DOMAIN attempt = Workspaces
    /\ tips \in [Workspaces -> [local : Nat, remote : Nat]]
    /\ cand \in [Workspaces -> Nat]

Holding == {"prepare", "advance"}

(* A sync that prepares or advances has its tips within reach, and the      *)
(* candidate to which it advances is a commit.                              *)
TipsKept ==
    \A w \in Workspaces : pc[w] \in Holding => {Tip(w), Far(w)} \subseteq Reach(w)

CandExists == \A w \in Workspaces : pc[w] = "advance" => cand[w] \in Commits

HistoryInv == NamesExist /\ RunTyped /\ Ancestry /\ TipsKept /\ CandExists

-----------------------------------------------------------------------------
(* What a step does to the history: it leaves it alone, or adds one commit  *)
(* on top of commits that exist.                                            *)
Adds(r, from) ==
    /\ commit' = Append(commit, r)
    /\ from \subseteq Commits
    /\ r.anc = (UNION {Anc(c) : c \in from}) \union {Len(commit) + 1}

MovesOn == commit' = commit \/ \E r, from : Adds(r, from)

(* What it does to one workspace: main moves to a descendant, refs are      *)
(* added or were all reached by main, tips are read and preserved.          *)
MainMoves(v) ==
    \/ main'[v] = main[v]
    \/ main'[v] \in 1..Len(commit') /\ main[v] \in commit'[main'[v]].anc

RefsMove(v) ==
    \/ refs[v] \subseteq refs'[v] /\ refs'[v] \subseteq Commits
    \/ refs'[v] = {} /\ refs[v] \subseteq Anc(main[v]) /\ main'[v] = main[v]

Reads(v) ==
    /\ tips'[v] = [local |-> main[v], remote |-> origin] /\ main'[v] = main[v]
    /\ main[v] = origin \/ {main[v], origin} \subseteq refs'[v]

TipsMove(v) ==
    pc'[v] \in Holding => (tips'[v] = tips[v] /\ pc[v] \in Holding) \/ Reads(v)

CandMoves(v) ==
    pc'[v] = "advance" =>
        \/ cand'[v] = cand[v] /\ pc[v] = "advance"
        \/ cand'[v] \in 1..Len(commit')

Moves(v) == MainMoves(v) /\ RefsMove(v) /\ TipsMove(v) /\ CandMoves(v)

-----------------------------------------------------------------------------
(* A sequence grows at its end and nowhere else.                            *)
LEMMA AppendsLast ==
  ASSUME NEW S, NEW s \in Seq(S), NEW e
  PROVE  /\ Append(s, e) \in Seq(S \union {e})
         /\ Len(Append(s, e)) = Len(s) + 1
         /\ \A i \in 1..Len(s) : Append(s, e)[i] = s[i]
         /\ Append(s, e)[Len(s) + 1] = e
<1>1. s \in Seq(S \union {e})
  BY SeqMonotonic, S \subseteq S \union {e}
<1>. QED BY <1>1, AppendProperties, LenProperties

(* A new commit leaves what the others descend from as it was.              *)
LEMMA HistoryGrows ==
  ASSUME NamesExist, Ancestry, MovesOn
  PROVE  /\ \E S : commit' \in Seq(S)
         /\ Commits \subseteq 1..Len(commit')
         /\ \A c \in Commits : commit'[c].anc = Anc(c)
         /\ Ancestry'
<1>1. CASE commit' = commit
  BY <1>1 DEF NamesExist, Ancestry, Anc, Commits, AncestorsOf
<1>2. CASE commit' # commit
  <2>1. PICK S : commit \in Seq(S)
    BY DEF NamesExist
  <2>2. PICK r, from : Adds(r, from)
    BY <1>2 DEF MovesOn
  <2>. DEFINE n == Len(commit) + 1
              olds == UNION {Anc(c) : c \in from}
  <2>3. /\ commit' \in Seq(S \union {r}) /\ Len(commit') = n /\ commit'[n] = r
        /\ \A i \in 1..Len(commit) : commit'[i] = commit[i]
        /\ Len(commit) \in Nat
    BY <2>1, <2>2, AppendsLast, LenProperties DEF Adds
  <2>4. \A c \in Commits : AncestorsOf(commit, c)
    BY DEF Ancestry, Commits
  <2>5. \A c \in Commits : commit'[c].anc = Anc(c) /\ commit'[c] = commit[c]
    BY <2>3 DEF Commits, Anc
  <2>6. ASSUME NEW c \in Commits PROVE AncestorsOf(commit', c)
    BY <2>3, <2>4, <2>5, <2>6 DEF AncestorsOf, Commits, Anc
  <2>7. AncestorsOf(commit', n)
    <3>1. r.anc = olds \union {n} /\ from \subseteq Commits
      BY <2>2 DEF Adds
    <3>2. ASSUME NEW d \in olds PROVE d \in Commits /\ commit'[d].anc \subseteq olds
      <4>1. PICK c \in from : d \in Anc(c)
        OBVIOUS
      <4>2. commit[d].anc \subseteq Anc(c) /\ d \in Commits
        BY <4>1, <3>1, <2>4 DEF AncestorsOf, Anc, Commits
      <4>3. Anc(c) \subseteq olds
        OBVIOUS
      <4>. QED BY <4>2, <4>3, <2>5 DEF Anc
    <3>. HIDE DEF olds
    <3>3. r.anc \subseteq 1..n /\ n \in r.anc
      BY <3>1, <3>2, <2>3 DEF Commits
    <3>5. \A d \in r.anc : commit'[d].anc \subseteq r.anc
      BY <3>1, <3>2, <2>3
    <3>. QED BY <3>3, <3>5, <2>3 DEF AncestorsOf
  <2>8. \A c \in 1..Len(commit') : c \in Commits \/ c = n
    BY <2>3 DEF Commits
  <2>9. Ancestry'
    BY <2>6, <2>7, <2>8 DEF Ancestry
  <2>. QED BY <2>3, <2>5, <2>9 DEF Commits
<1>. QED BY <1>1, <1>2

(* Along a move of main, of refs and of tips nothing gets out of reach.     *)
LEMMA ReachGrows ==
  ASSUME NamesExist, Ancestry, MovesOn, NEW v \in Workspaces, Moves(v)
  PROVE  Reach(v) \subseteq Reach(v)'
<1>1. /\ Commits \subseteq 1..Len(commit') /\ Ancestry'
      /\ \A c \in Commits : commit'[c].anc = Anc(c)
  BY HistoryGrows
<1>2. main[v] \in Commits /\ refs[v] \subseteq Commits
  BY DEF NamesExist
<1>3. Anc(main[v]) \subseteq commit'[main'[v]].anc
  <2>1. CASE main'[v] = main[v]
    BY <2>1, <1>1, <1>2
  <2>2. CASE main'[v] \in 1..Len(commit') /\ main[v] \in commit'[main'[v]].anc
    BY <2>2, <1>1, <1>2 DEF Ancestry, AncestorsOf
  <2>. QED BY <2>1, <2>2 DEF Moves, MainMoves
<1>4. ASSUME NEW c \in refs[v] PROVE Anc(c) \subseteq Reach(v)'
  <2>1. CASE c \in refs'[v]
    BY <2>1, <1>1, <1>2 DEF Reach, Anc
  <2>2. CASE c \notin refs'[v]
    <3>1. c \in Anc(main[v])
      BY <2>2 DEF Moves, RefsMove
    <3>2. Anc(c) \subseteq Anc(main[v])
      BY <3>1, <1>2 DEF Ancestry, AncestorsOf, Anc, Commits
    <3>. QED BY <3>2, <1>3 DEF Reach, Anc
  <2>. QED BY <2>1, <2>2
<1>. QED BY <1>3, <1>4 DEF Reach, Anc

LEMMA TipsStay ==
  ASSUME HistoryInv, MovesOn, NEW v \in Workspaces, Moves(v), pc'[v] \in Holding
  PROVE  {Tip(v)', Far(v)'} \subseteq Reach(v)'
<1>1. Reach(v) \subseteq Reach(v)'
  BY ReachGrows DEF HistoryInv
<1>2. CASE tips'[v] = tips[v] /\ pc[v] \in Holding
  BY <1>1, <1>2 DEF HistoryInv, TipsKept, Tip, Far
<1>3. CASE Reads(v)
  <2>1. main[v] \in Commits /\ origin \in Commits
    BY DEF HistoryInv, NamesExist
  <2>2. Tip(v)' = main[v] /\ Far(v)' = origin
    BY <1>3 DEF Reads, Tip, Far
  <2>3. \A c \in Commits : c \in commit'[c].anc
    BY HistoryGrows DEF HistoryInv, Ancestry, AncestorsOf
  <2>4. main[v] \in Reach(v)'
    BY <1>3, <2>1, <2>3 DEF Reads, Reach, Anc
  <2>5. origin \in Reach(v)'
    BY <1>3, <2>1, <2>3, <2>4 DEF Reads, Reach, Anc
  <2>. QED BY <2>2, <2>4, <2>5
<1>. QED BY <1>2, <1>3 DEF Moves, TipsMove

(* The whole of what a step does to history and to each workspace.          *)
Shape ==
    /\ MovesOn /\ origin' \in 1..Len(commit') /\ RunTyped'
    /\ main' \in [Workspaces -> 1..Len(commit')]
    /\ refs' \in [Workspaces -> SUBSET (1..Len(commit'))]
    /\ \A v \in Workspaces : Moves(v)

LEMMA ShapeKeepsInv ==
  ASSUME HistoryInv, Shape
  PROVE  HistoryInv' /\ TipsStayReachable
<1>1. /\ \E S : commit' \in Seq(S)
      /\ Commits \subseteq 1..Len(commit') /\ Ancestry'
  BY HistoryGrows DEF HistoryInv, Shape
<1>2. NamesExist'
  BY <1>1 DEF NamesExist, Shape, Commits
<1>3. TipsKept'
  BY TipsStay DEF TipsKept, Shape
<1>4. CandExists'
  BY <1>1 DEF CandExists, HistoryInv, Shape, Moves, CandMoves, Commits
<1>5. TipsStayReachable
  <2>. SUFFICES ASSUME NEW v \in Workspaces
                PROVE  /\ Reach(v) \subseteq Reach(v)'
                       /\ pc'[v] \in Holding => {Tip(v)', Far(v)'} \subseteq Reach(v)'
    BY DEF TipsStayReachable, Holding
  <2>1. Reach(v) \subseteq Reach(v)'
    BY ReachGrows DEF HistoryInv, Shape
  <2>2. pc'[v] \in Holding => {Tip(v)', Far(v)'} \subseteq Reach(v)'
    BY TipsStay DEF Shape
  <2>. QED BY <2>1, <2>2
<1>. QED BY <1>1, <1>2, <1>3, <1>4, <1>5 DEF HistoryInv, Shape

-----------------------------------------------------------------------------
(* Every action has that shape.                                             *)
LEMMA AddsOne ==
  ASSUME NamesExist, NEW r, NEW from, Adds(r, from)
  PROVE  /\ Len(commit) \in Nat /\ Len(commit') = Len(commit) + 1
         /\ commit'[Len(commit) + 1] = r
         /\ Commits \subseteq 1..Len(commit')
<1>1. PICK S : commit \in Seq(S)
  BY DEF NamesExist
<1>2. Len(commit) \in Nat /\ Len(commit') = Len(commit) + 1 /\ commit'[Len(commit) + 1] = r
  BY <1>1, AppendsLast, LenProperties DEF Adds
<1>. QED BY <1>2 DEF Commits

(* A workspace that a step leaves alone.                                    *)
Alone(v) ==
    /\ main'[v] = main[v] /\ refs'[v] = refs[v] /\ tips'[v] = tips[v]
    /\ cand'[v] = cand[v] /\ pc'[v] = pc[v]

LEMMA AloneMoves ==
  ASSUME HistoryInv, NEW v \in Workspaces, Alone(v)
  PROVE  Moves(v)
<1>1. refs[v] \subseteq Commits
  BY DEF HistoryInv, NamesExist
<1>. QED BY <1>1 DEF Alone, Moves, MainMoves, RefsMove, TipsMove, CandMoves

(* A step of one sync, with the other workspaces alone.                     *)
LEMMA OneMoves ==
  ASSUME HistoryInv, NEW w \in Workspaces,
         MovesOn, origin' \in 1..Len(commit'), Moves(w), RunTyped',
         main' \in [Workspaces -> 1..Len(commit')],
         refs' \in [Workspaces -> SUBSET (1..Len(commit'))],
         \A v \in Workspaces \ {w} : Alone(v)
  PROVE  Shape
BY AloneMoves DEF Shape

LEMMA NewCommitShape ==
  ASSUME HistoryInv, NEW w \in Workspaces, NEW log, NEW page, NEW flaw,
         NewCommit(w, log, page, flaw)
  PROVE  Shape
<1>. DEFINE n == Len(commit) + 1
            r == [parents |-> <<main[w]>>, anc |-> Anc(main[w]) \union {n},
                  log |-> log, page |-> page, flaw |-> flaw]
<1>1. /\ commit' = Append(commit, r) /\ main' = [main EXCEPT ![w] = n]
      /\ UNCHANGED <<remote, run, kept>>
  BY DEF NewCommit
<1>2. main[w] \in Commits /\ UNION {Anc(c) : c \in {main[w]}} = Anc(main[w])
  BY DEF HistoryInv, NamesExist
<1>3. Adds(r, {main[w]})
  BY <1>1, <1>2 DEF Adds
<1>4. /\ Len(commit) \in Nat /\ Len(commit') = n /\ commit'[n] = r
      /\ Commits \subseteq 1..Len(commit')
  BY <1>3, AddsOne DEF HistoryInv
<1>5. main[w] \in r.anc
  BY <1>2 DEF HistoryInv, Ancestry, AncestorsOf, Anc, Commits
<1>. HIDE DEF r
<1>6. MovesOn
  BY <1>3 DEF MovesOn
<1>7. Moves(w)
  <2>1. main'[w] = n
    BY <1>1 DEF HistoryInv, NamesExist
  <2>2. MainMoves(w)
    BY <2>1, <1>4, <1>5 DEF MainMoves
  <2>3. RefsMove(w) /\ TipsMove(w) /\ CandMoves(w)
    BY <1>1 DEF kept, run, RefsMove, TipsMove, CandMoves, HistoryInv, NamesExist
  <2>. QED BY <2>2, <2>3 DEF Moves
<1>8. \A v \in Workspaces \ {w} : Alone(v)
  BY <1>1 DEF HistoryInv, NamesExist, Alone, kept, run
<1>9. /\ origin' \in 1..Len(commit') /\ RunTyped'
      /\ main' \in [Workspaces -> 1..Len(commit')]
      /\ refs' \in [Workspaces -> SUBSET (1..Len(commit'))]
  <2>1. origin' \in 1..Len(commit') /\ n \in 1..Len(commit')
    BY <1>1, <1>4 DEF HistoryInv, NamesExist, remote
  <2>2. RunTyped'
    BY <1>1 DEF HistoryInv, RunTyped, run
  <2>3. main' \in [Workspaces -> 1..Len(commit')]
    BY <1>1, <1>4, <2>1 DEF HistoryInv, NamesExist
  <2>4. refs' \in [Workspaces -> SUBSET (1..Len(commit'))]
    BY <1>1, <1>4 DEF HistoryInv, NamesExist, kept
  <2>. QED BY <2>1, <2>2, <2>3, <2>4
<1>. QED BY <1>6, <1>7, <1>8, <1>9, OneMoves

LEMMA RewindShape ==
  ASSUME HistoryInv, Rewind
  PROVE  Shape
<1>1. UNCHANGED <<commit, main, run, kept>>
  BY DEF Rewind
<1>2. origin' \in Commits
  BY DEF Rewind, HistoryInv, NamesExist, Ancestry, AncestorsOf, Anc, Commits
<1>3. \A v \in Workspaces : Moves(v)
  BY <1>1, AloneMoves DEF Alone, run, kept
<1>. QED BY <1>1, <1>2, <1>3 DEF Shape, MovesOn, HistoryInv, NamesExist, RunTyped, run, kept, Commits

(* A step that leaves history, main and origin alone and keeps the refs.    *)
LEMMA QuietShape ==
  ASSUME HistoryInv, NEW w \in Workspaces, UNCHANGED <<commit, main, remote>>,
         RefsMove(w), TipsMove(w), CandMoves(w), RunTyped',
         refs' \in [Workspaces -> SUBSET Commits],
         \A v \in Workspaces \ {w} : Alone(v)
  PROVE  Shape
<1>1. MovesOn /\ MainMoves(w)
  BY DEF MovesOn, MainMoves
<1>2. Moves(w)
  BY <1>1 DEF Moves
<1>3. /\ origin' \in 1..Len(commit')
      /\ main' \in [Workspaces -> 1..Len(commit')]
      /\ refs' \in [Workspaces -> SUBSET (1..Len(commit'))]
  BY DEF HistoryInv, NamesExist, remote, Commits
<1>. QED BY <1>1, <1>2, <1>3, OneMoves

LEMMA FetchShape ==
  ASSUME HistoryInv, NEW w \in Workspaces, Fetch(w)
  PROVE  Shape
<1>1. /\ pc' = [pc EXCEPT ![w] = "prepare"]
      /\ tips' = [tips EXCEPT ![w] = [local |-> main[w], remote |-> origin]]
      /\ UNCHANGED <<commit, main, remote, attempt, cand>>
      /\ \/ main[w] = origin /\ refs' = refs
         \/ refs' = [refs EXCEPT ![w] = @ \union {main[w], origin}]
  BY DEF Fetch, FetchTips, Goes, KeepTips
<1>2. /\ main[w] \in Commits /\ origin \in Commits /\ Commits \subseteq Nat
      /\ refs \in [Workspaces -> SUBSET Commits]
  BY DEF HistoryInv, NamesExist, Commits
<1>3. refs' \in [Workspaces -> SUBSET Commits] /\ RefsMove(w)
  BY <1>1, <1>2 DEF RefsMove
<1>4. Reads(w)
  BY <1>1, <1>2 DEF Reads, HistoryInv, RunTyped
<1>5. TipsMove(w) /\ CandMoves(w)
  BY <1>1, <1>4 DEF TipsMove, CandMoves, HistoryInv, RunTyped
<1>6. RunTyped'
  BY <1>1, <1>2 DEF HistoryInv, RunTyped, Steps
<1>7. \A v \in Workspaces \ {w} : Alone(v)
  BY <1>1, <1>2 DEF Alone, HistoryInv, RunTyped
<1>. QED BY <1>1, <1>3, <1>5, <1>6, <1>7, QuietShape

(* The end of a sync.                                                       *)
LEMMA EndsSettle ==
  ASSUME HistoryInv, NEW w \in Workspaces, Ends(w)
  PROVE  /\ RunTyped' /\ TipsMove(w) /\ CandMoves(w)
         /\ \A v \in Workspaces \ {w} :
              tips'[v] = tips[v] /\ cand'[v] = cand[v] /\ pc'[v] = pc[v]
<1>1. /\ pc' = [pc EXCEPT ![w] = "idle"] /\ attempt' = [attempt EXCEPT ![w] = 0]
      /\ tips' = [tips EXCEPT ![w] = [local |-> 0, remote |-> 0]]
      /\ cand' = [cand EXCEPT ![w] = 0]
  BY DEF Ends, Goes, NoTips
<1>. QED BY <1>1 DEF HistoryInv, RunTyped, Steps, TipsMove, CandMoves, Holding

LEMMA GiveUpShape ==
  ASSUME HistoryInv, NEW w \in Workspaces, GiveUp(w)
  PROVE  Shape
<1>1. Ends(w) /\ UNCHANGED <<commit, main, remote, refs>>
  BY DEF GiveUp, kept
<1>2. /\ RunTyped' /\ TipsMove(w) /\ CandMoves(w)
      /\ \A v \in Workspaces \ {w} : Alone(v)
  BY <1>1, EndsSettle DEF Alone
<1>3. RefsMove(w) /\ refs' \in [Workspaces -> SUBSET Commits]
  BY <1>1 DEF RefsMove, HistoryInv, NamesExist
<1>. QED BY <1>1, <1>2, <1>3, QuietShape

(* The candidate of a sync, chosen while its tips are within reach.         *)
LEMMA CandidateSettles ==
  ASSUME HistoryInv, NEW w \in Workspaces, pc[w] = "prepare",
         NEW c \in 1..Len(commit'), Len(commit') \in Nat, Candidate(w, c)
  PROVE  /\ RunTyped' /\ TipsMove(w) /\ CandMoves(w)
         /\ \A v \in Workspaces \ {w} :
              tips'[v] = tips[v] /\ cand'[v] = cand[v] /\ pc'[v] = pc[v]
<1>1. /\ cand' = [cand EXCEPT ![w] = c] /\ pc' = [pc EXCEPT ![w] = "advance"]
      /\ UNCHANGED <<attempt, tips>>
  BY DEF Candidate, Goes
<1>2. c \in Nat
  OBVIOUS
<1>3. RunTyped'
  BY <1>1, <1>2 DEF HistoryInv, RunTyped, Steps
<1>. QED BY <1>1, <1>3 DEF HistoryInv, RunTyped, TipsMove, CandMoves, Holding

LEMMA HeldTips ==
  ASSUME HistoryInv, NEW w \in Workspaces, pc[w] \in Holding
  PROVE  Tip(w) \in Commits /\ Far(w) \in Commits /\ Len(commit) \in Nat
<1>1. PICK S : commit \in Seq(S)
  BY DEF HistoryInv, NamesExist
<1>2. Len(commit) \in Nat
  BY <1>1, LenProperties
<1>3. {Tip(w), Far(w)} \subseteq Reach(w) /\ main[w] \in Commits /\ refs[w] \subseteq Commits
  BY DEF HistoryInv, TipsKept, NamesExist
<1>4. \A c \in Commits : Anc(c) \subseteq Commits
  BY DEF HistoryInv, Ancestry, AncestorsOf, Anc, Commits
<1>5. UNION {Anc(c) : c \in refs[w]} \subseteq Commits
  BY <1>3, <1>4
<1>6. Reach(w) \subseteq Commits
  BY <1>3, <1>4, <1>5 DEF Reach
<1>. QED BY <1>2, <1>3, <1>6

LEMMA PrepareInPlaceShape ==
  ASSUME HistoryInv, NEW w \in Workspaces, PrepareInPlace(w)
  PROVE  Shape
<1>1. /\ pc[w] = "prepare" /\ Candidate(w, Tip(w)) /\ UNCHANGED <<commit, main, remote, refs>>
  BY DEF PrepareInPlace, kept
<1>2. Tip(w) \in 1..Len(commit') /\ Len(commit') \in Nat
  BY <1>1, HeldTips DEF Holding, Commits
<1>3. /\ RunTyped' /\ TipsMove(w) /\ CandMoves(w)
      /\ \A v \in Workspaces \ {w} : Alone(v)
  BY <1>1, <1>2, CandidateSettles DEF Alone
<1>4. RefsMove(w) /\ refs' \in [Workspaces -> SUBSET Commits]
  BY <1>1 DEF RefsMove, HistoryInv, NamesExist
<1>. QED BY <1>1, <1>3, <1>4, QuietShape

LEMMA PrepareBehindShape ==
  ASSUME HistoryInv, NEW w \in Workspaces, PrepareBehind(w)
  PROVE  Shape
<1>1. /\ pc[w] = "prepare" /\ (Candidate(w, Far(w)) \/ Ends(w))
      /\ UNCHANGED <<commit, main, remote, refs>>
  BY DEF PrepareBehind
<1>2. Far(w) \in 1..Len(commit') /\ Len(commit') \in Nat
  BY <1>1, HeldTips DEF PrepareBehind, Holding, Commits
<1>3. /\ RunTyped' /\ TipsMove(w) /\ CandMoves(w)
      /\ \A v \in Workspaces \ {w} : Alone(v)
  BY <1>1, <1>2, CandidateSettles, EndsSettle DEF Alone
<1>4. RefsMove(w) /\ refs' \in [Workspaces -> SUBSET Commits]
  BY <1>1 DEF RefsMove, HistoryInv, NamesExist
<1>. QED BY <1>1, <1>3, <1>4, QuietShape

LEMMA PrepareMergeShape ==
  ASSUME HistoryInv, NEW w \in Workspaces, PrepareMerge(w)
  PROVE  Shape
<1>1. /\ pc[w] = "prepare" /\ UNCHANGED <<main, remote, refs>>
      /\ \/ commit' = Append(commit, Merge(w)) /\ Candidate(w, Len(commit) + 1)
         \/ Ends(w) /\ commit' = commit
  BY DEF PrepareMerge
<1>2. Tip(w) \in Commits /\ Far(w) \in Commits /\ Len(commit) \in Nat
  BY <1>1, HeldTips DEF Holding
<1>3. RefsMove(w) /\ MainMoves(w)
  BY <1>1 DEF RefsMove, MainMoves, HistoryInv, NamesExist
<1>4. CASE Ends(w) /\ commit' = commit
  <2>1. /\ RunTyped' /\ TipsMove(w) /\ CandMoves(w)
        /\ \A v \in Workspaces \ {w} : Alone(v)
    BY <1>1, <1>4, EndsSettle DEF Alone
  <2>2. refs' \in [Workspaces -> SUBSET Commits]
    BY <1>1 DEF HistoryInv, NamesExist
  <2>. QED BY <1>1, <1>3, <1>4, <2>1, <2>2, QuietShape
<1>5. CASE commit' = Append(commit, Merge(w)) /\ Candidate(w, Len(commit) + 1)
  <2>1. UNION {Anc(c) : c \in {Tip(w), Far(w)}} = Anc(Tip(w)) \union Anc(Far(w))
    OBVIOUS
  <2>2. Merge(w).anc = (UNION {Anc(c) : c \in {Tip(w), Far(w)}}) \union {Len(commit) + 1}
    BY <2>1 DEF Merge
  <2>3. Adds(Merge(w), {Tip(w), Far(w)})
    BY <1>2, <1>5, <2>2 DEF Adds
  <2>4. MovesOn
    BY <2>3 DEF MovesOn
  <2>5. Len(commit') = Len(commit) + 1 /\ Commits \subseteq 1..Len(commit')
    BY <2>3, AddsOne DEF HistoryInv
  <2>6. Len(commit) + 1 \in 1..Len(commit') /\ Len(commit') \in Nat
    BY <1>2, <2>5
  <2>7. /\ RunTyped' /\ TipsMove(w) /\ CandMoves(w)
        /\ \A v \in Workspaces \ {w} : Alone(v)
    BY <1>1, <1>5, <2>6, CandidateSettles DEF Alone
  <2>8. /\ origin' \in 1..Len(commit')
        /\ main' \in [Workspaces -> 1..Len(commit')]
        /\ refs' \in [Workspaces -> SUBSET (1..Len(commit'))]
    BY <1>1, <2>5 DEF HistoryInv, NamesExist, remote
  <2>. QED BY <1>3, <2>4, <2>7, <2>8, OneMoves DEF Moves
<1>. QED BY <1>1, <1>4, <1>5

LEMMA AdvanceShape ==
  ASSUME HistoryInv, NEW w \in Workspaces, Advance(w)
  PROVE  Shape
<1>1. /\ pc[w] = "advance" /\ FastForwards(w)
      /\ UNCHANGED <<commit, refs, attempt, tips, cand>>
      /\ \E step \in {"verify", "reread"} : pc' = [pc EXCEPT ![w] = step]
      /\ origin' = origin \/ origin' = cand[w]
  BY DEF Advance, Pushes, PushFails, Goes, kept, remote
<1>2. cand[w] \in Commits /\ main \in [Workspaces -> Commits] /\ origin \in Commits
  BY <1>1 DEF HistoryInv, CandExists, NamesExist
<1>3. /\ main' = [main EXCEPT ![w] = main'[w]]
      /\ main'[w] = main[w] \/ (main'[w] = cand[w] /\ main[w] \in Anc(cand[w]))
  <2>1. CASE cand[w] \in Anc(main[w])
    BY <1>1, <1>2, <2>1 DEF FastForwards
  <2>2. CASE cand[w] \notin Anc(main[w])
    BY <1>1, <1>2, <2>2 DEF FastForwards
  <2>. QED BY <2>1, <2>2
<1>4. main' \in [Workspaces -> Commits] /\ MainMoves(w)
  BY <1>1, <1>2, <1>3 DEF MainMoves, Anc, Commits
<1>5. MovesOn /\ origin' \in 1..Len(commit')
  BY <1>1, <1>2 DEF MovesOn, Commits
<1>6. RefsMove(w) /\ refs' \in [Workspaces -> SUBSET Commits]
  BY <1>1 DEF RefsMove, HistoryInv, NamesExist
<1>7. TipsMove(w) /\ CandMoves(w) /\ RunTyped'
  BY <1>1 DEF TipsMove, CandMoves, Holding, HistoryInv, RunTyped, Steps
<1>8. \A v \in Workspaces \ {w} : Alone(v)
  BY <1>1, <1>3, <1>2 DEF Alone, HistoryInv, RunTyped
<1>9. main' \in [Workspaces -> 1..Len(commit')] /\ refs' \in [Workspaces -> SUBSET (1..Len(commit'))]
  BY <1>1, <1>4, <1>6 DEF Commits
<1>. QED BY <1>4, <1>5, <1>6, <1>7, <1>8, <1>9, OneMoves DEF Moves

LEMMA ConvergeShape ==
  ASSUME HistoryInv, NEW w \in Workspaces, Converge(w), UNCHANGED <<commit, main, remote>>
  PROVE  Shape
<1>1. /\ Ends(w)
      /\ refs' = IF refs[w] \subseteq Anc(main[w]) THEN [refs EXCEPT ![w] = {}] ELSE refs
  BY DEF Converge, RefsReached
<1>2. refs \in [Workspaces -> SUBSET Commits]
  BY DEF HistoryInv, NamesExist
<1>3. RefsMove(w) /\ refs' \in [Workspaces -> SUBSET Commits]
  BY <1>1, <1>2 DEF RefsMove
<1>4. /\ RunTyped' /\ TipsMove(w) /\ CandMoves(w)
      /\ \A v \in Workspaces \ {w} : Alone(v)
  BY <1>1, <1>2, EndsSettle DEF Alone
<1>. QED BY <1>3, <1>4, QuietShape

LEMMA RetryShape ==
  ASSUME HistoryInv, NEW w \in Workspaces, NEW again \in BOOLEAN, Retry(w, again),
         UNCHANGED <<commit, main, remote>>
  PROVE  Shape
<1>1. /\ refs' = [refs EXCEPT ![w] = @ \union {main[w], origin}]
      /\ \/ Ends(w)
         \/ /\ pc' = [pc EXCEPT ![w] = "fetch"]
            /\ attempt' = [attempt EXCEPT ![w] = 1]
            /\ tips' = [tips EXCEPT ![w] = [local |-> 0, remote |-> 0]]
            /\ cand' = [cand EXCEPT ![w] = 0]
  BY DEF Retry, KeepTips, Goes, NoTips
<1>2. refs \in [Workspaces -> SUBSET Commits] /\ main[w] \in Commits /\ origin \in Commits
  BY DEF HistoryInv, NamesExist
<1>3. RefsMove(w) /\ refs' \in [Workspaces -> SUBSET Commits]
  BY <1>1, <1>2 DEF RefsMove
<1>4. /\ RunTyped' /\ TipsMove(w) /\ CandMoves(w)
      /\ \A v \in Workspaces \ {w} : Alone(v)
  <2>1. CASE Ends(w)
    BY <1>1, <1>2, <2>1, EndsSettle DEF Alone
  <2>2. CASE ~Ends(w)
    <3>1. /\ pc' = [pc EXCEPT ![w] = "fetch"]
          /\ attempt' = [attempt EXCEPT ![w] = 1]
          /\ tips' = [tips EXCEPT ![w] = [local |-> 0, remote |-> 0]]
          /\ cand' = [cand EXCEPT ![w] = 0]
      BY <1>1, <2>2
    <3>2. RunTyped'
      BY <3>1 DEF HistoryInv, RunTyped, Steps
    <3>3. TipsMove(w) /\ CandMoves(w)
      BY <3>1 DEF HistoryInv, RunTyped, TipsMove, CandMoves, Holding
    <3>4. \A v \in Workspaces \ {w} : Alone(v)
      BY <1>1, <1>2, <3>1 DEF Alone, HistoryInv, RunTyped
    <3>. QED BY <3>2, <3>3, <3>4
  <2>. QED BY <2>1, <2>2
<1>. QED BY <1>3, <1>4, QuietShape

LEMMA SyncShape ==
  ASSUME HistoryInv, NEW w \in Workspaces, Sync(w)
  PROVE  Shape
<1>1. CASE Fetch(w)
  BY <1>1, FetchShape
<1>2. CASE PrepareInPlace(w) \/ PrepareBehind(w) \/ PrepareMerge(w)
  BY <1>2, PrepareInPlaceShape, PrepareBehindShape, PrepareMergeShape
<1>3. CASE Advance(w)
  BY <1>3, AdvanceShape
<1>4. CASE Reread(w)
  <2>1. UNCHANGED <<commit, main, remote>> /\ (Converge(w) \/ Retry(w, origin # Far(w)))
    BY <1>4 DEF Reread
  <2>. QED BY <2>1, ConvergeShape, RetryShape
<1>5. CASE Verify(w)
  <2>1. UNCHANGED <<commit, main, remote>> /\ (Converge(w) \/ Retry(w, TRUE))
    BY <1>5 DEF Verify
  <2>. QED BY <2>1, ConvergeShape, RetryShape
<1>6. CASE GiveUp(w)
  BY <1>6, GiveUpShape
<1>. QED BY <1>1, <1>2, <1>3, <1>4, <1>5, <1>6 DEF Sync

(* Every step has the shape, and so keeps the invariant and the tips.       *)
LEMMA StepSound ==
  ASSUME HistoryInv, [Next]_vars
  PROVE  HistoryInv' /\ (TipsStayReachable \/ UNCHANGED vars)
<1>1. CASE UNCHANGED vars
  BY <1>1 DEF vars, HistoryInv, NamesExist, RunTyped, Ancestry, AncestorsOf, TipsKept,
              CandExists, Tip, Far, Reach, Anc, Commits
<1>2. CASE Next
  <2>1. ASSUME NEW w \in Workspaces, EditKnowledge(w) PROVE Shape
    BY <2>1, NewCommitShape DEF EditKnowledge
  <2>2. ASSUME NEW w \in Workspaces, Repair(w) PROVE Shape
    BY <2>2, NewCommitShape DEF Repair
  <2>3. ASSUME NEW w \in Workspaces, CommitElsewhere(w) PROVE Shape
    BY <2>3, NewCommitShape DEF CommitElsewhere
  <2>4. Shape
    BY <1>2, <2>1, <2>2, <2>3, SyncShape, RewindShape DEF Next
  <2>. QED BY <2>4, ShapeKeepsInv
<1>. QED BY <1>1, <1>2

LEMMA InitSound == Init => HistoryInv
<1>. SUFFICES ASSUME Init PROVE HistoryInv
  OBVIOUS
<1>1. commit \in Seq({Root}) /\ Len(commit) = 1 /\ commit[1] = Root
  BY DEF Init
<1>2. Commits = {1} /\ 1..Len(commit) = {1} /\ Anc(1) = {1}
  BY <1>1 DEF Commits, Anc, Root
<1>3. NamesExist
  BY <1>1, <1>2 DEF Init, NamesExist
<1>4. RunTyped /\ TipsKept /\ CandExists
  BY DEF Init, RunTyped, TipsKept, CandExists, NoTips, Steps, Holding
<1>5. Ancestry
  BY <1>1, <1>2 DEF Ancestry, AncestorsOf, Anc
<1>. QED BY <1>3, <1>4, <1>5 DEF HistoryInv

(* No commit that a workspace reaches from main or from a recovery ref is   *)
(* ever out of its reach, whatever syncs, users and forced pushes do; and a *)
(* sync has both tips within reach before it changes anything.              *)
THEOREM TipsAreNeverLost == Spec => [][TipsStayReachable]_vars
<1>1. Init => HistoryInv
  BY InitSound
<1>2. HistoryInv /\ [Next]_vars => HistoryInv'
  BY StepSound
<1>3. HistoryInv /\ [Next]_vars => [TipsStayReachable]_vars
  BY StepSound
<1>. QED BY <1>1, <1>2, <1>3, PTL DEF Spec

-----------------------------------------------------------------------------
(* No sync loses a line of the structural log.                             *)

Lines(c) == ToSet(LogOf(c))

(* A commit whose log has all lines of its parents' logs.                   *)
KeepsParents(c) == \A p \in ToSet(commit[c].parents) : Lines(p) \subseteq Lines(c)

(* Only a commit with one parent, made by hand, can drop lines, and then it *)
(* is flawed.                                                               *)
Recorded(c) ==
    /\ commit[c].parents \in Seq(Commits)
    /\ \E S : LogOf(c) \in Seq(S)
    /\ Len(commit[c].parents) # 1 \/ commit[c].flaw = "none" => KeepsParents(c)
    /\ 1 \in Anc(c) /\ Anc(c) \subseteq 1..c

AllRecorded == \A c \in Commits : Recorded(c)

(* Where no commit in between dropped lines, the later log has them all.    *)
RangeKept(d, c) == \A x \in Anc(c) \ Anc(d) : KeepsParents(x)

LinesGrow ==
    \A c \in Commits : \A d \in Anc(c) : RangeKept(d, c) => Lines(d) \subseteq Lines(c)

RewoundUnflawed == rewinds \in Nat /\ (rewinds > 0 => Unflawed)

(* While a sync prepares or advances, main is the tip that was read or a    *)
(* commit made on top of it since, of which the sync knows nothing.         *)
Apart(w, c) == main[w] = Tip(w) \/ main[w] \notin Anc(c)

TipHeld ==
    \A w \in Workspaces : pc[w] \in Holding =>
        Tip(w) \in Anc(main[w]) /\ Apart(w, Tip(w)) /\ Apart(w, Far(w))

(* Origin stays a descendant of what was fetched unless somebody rewinds    *)
(* it.                                                                      *)
FarReached ==
    \A w \in Workspaces : pc[w] \in Holding /\ rewinds = 0 => Far(w) \in Anc(origin)

CandKeeps(w) ==
    /\ Lines(Tip(w)) \subseteq Lines(cand[w]) /\ RangeKept(Far(w), cand[w])
    /\ Apart(w, cand[w])

CandsKeep == \A w \in Workspaces : pc[w] = "advance" => CandKeeps(w)

LineInv ==
    /\ HistoryInv /\ AllRecorded /\ LinesGrow /\ RewoundUnflawed
    /\ TipHeld /\ FarReached /\ CandsKeep

-----------------------------------------------------------------------------
(* Facts about logs.                                                        *)
LEMMA PrefixKeepsLines ==
  ASSUME NEW S, NEW T, NEW s \in Seq(S), NEW t \in Seq(T), IsPrefix(s, t)
  PROVE  ToSet(s) \subseteq ToSet(t)
<1>. DEFINE U == S \union T
<1>1. s \in Seq(U) /\ t \in Seq(U)
  BY SeqMonotonic, S \subseteq U, T \subseteq U
<1>2. Len(s) \in Nat /\ Len(t) \in Nat /\ Len(s) <= Len(t)
      /\ DOMAIN s = 1..Len(s) /\ DOMAIN t = 1..Len(t)
  BY <1>1, LenProperties DEF IsPrefix
<1>. HIDE DEF U
<1>3. ASSUME NEW i \in 1..Len(s) PROVE s[i] = t[i]
  <2>1. SubSeq(s, 1, Len(s))[i] = s[i] /\ SubSeq(t, 1, Len(s))[i] = t[i]
    BY <1>1, <1>2
  <2>. QED BY <2>1 DEF IsPrefix
<1>. QED BY <1>2, <1>3 DEF ToSet

LEMMA AppendKeepsLines ==
  ASSUME NEW S, NEW s \in Seq(S), NEW e
  PROVE  /\ \E T : Append(s, e) \in Seq(T)
         /\ ToSet(s) \subseteq ToSet(Append(s, e))
<1>1. /\ Append(s, e) \in Seq(S \union {e}) /\ Len(Append(s, e)) = Len(s) + 1
      /\ \A i \in 1..Len(s) : Append(s, e)[i] = s[i]
  BY AppendsLast
<1>2. /\ DOMAIN s = 1..Len(s) /\ Len(s) \in Nat
      /\ DOMAIN Append(s, e) = 1..Len(Append(s, e))
  BY <1>1, LenProperties
<1>. QED BY <1>1, <1>2 DEF ToSet

LEMMA AddedIsSequence ==
  ASSUME NEW S, NEW s \in Seq(S), NEW b
  PROVE  \E T : Added(b, s) \in Seq(T)
<1>. DEFINE new == {i \in DOMAIN s : s[i] \notin ToSet(b)}
            Nth(k) == CHOOSE i \in new : Cardinality(new \intersect (1..i)) = k
            T == {s[Nth(k)] : k \in 1..Cardinality(new)}
<1>1. DOMAIN s = 1..Len(s) /\ Len(s) \in Nat
  BY LenProperties
<1>2. IsFiniteSet(new)
  <2>1. IsFiniteSet(1..Len(s))
    BY <1>1, FS_Interval
  <2>. QED BY <1>1, <2>1, FS_Subset, new \subseteq 1..Len(s)
<1>3. Cardinality(new) \in Nat
  BY <1>2, FS_CardinalityType
<1>4. Added(b, s) = [k \in 1..Cardinality(new) |-> s[Nth(k)]]
  BY DEF Added
<1>. HIDE DEF new
<1>5. [k \in 1..Cardinality(new) |-> s[Nth(k)]] \in [1..Cardinality(new) -> T]
  OBVIOUS
<1>. HIDE DEF Nth, T
<1>6. Added(b, s) \in Seq(T)
  BY <1>3, <1>4, <1>5, SeqDef
<1>. QED BY <1>6

LEMMA ConcatIsSequence ==
  ASSUME NEW S, NEW s \in Seq(S), NEW T, NEW t \in Seq(T)
  PROVE  \E U : s \o t \in Seq(U)
<1>1. s \in Seq(S \union T) /\ t \in Seq(S \union T)
  BY SeqMonotonic, S \subseteq S \union T, T \subseteq S \union T
<1>. QED BY <1>1, ConcatProperties

LEMMA LineUnionIsSequence ==
  ASSUME NEW b, NEW s, NEW t, NEW e, \E S : b \in Seq(S), \E S : s \in Seq(S),
         \E S : t \in Seq(S)
  PROVE  \E S : LineUnion(b, s, t) \o <<e>> \in Seq(S)
<1>1. (\E S : Added(b, s) \in Seq(S)) /\ (\E S : Added(b, t) \in Seq(S))
  BY AddedIsSequence
<1>2. \E S : b \o Added(b, s) \in Seq(S)
  BY <1>1, ConcatIsSequence
<1>3. \E S : (b \o Added(b, s)) \o Added(b, t) \in Seq(S)
  BY <1>1, <1>2, ConcatIsSequence
<1>4. <<e>> \in Seq({e})
  OBVIOUS
<1>. QED BY <1>3, <1>4, ConcatIsSequence DEF LineUnion

-----------------------------------------------------------------------------
(* Facts about the history.                                                 *)

(* A nonempty set of numbers up to n has a greatest one.                    *)
LEMMA Greatest ==
  ASSUME NEW n \in Nat, NEW C, C \subseteq 1..n, C # {}
  PROVE  \E b \in C : \A e \in C : e <= b
<1>. DEFINE T == {n - b : b \in C}
            Less == {ss \in Nat \X Nat : ss[1] < ss[2]}
<1>1. T \subseteq Nat /\ T # {}
  <2>1. \A b \in C : n - b \in Nat
    OBVIOUS
  <2>2. PICK b \in C : TRUE
    OBVIOUS
  <2>. QED BY <2>1, <2>2
<1>2. IsWellFoundedOn(Less, Nat)
  BY NatLessThanWellFounded DEF OpToRel
<1>. HIDE DEF T
<1>3. PICK x \in T : \A y \in T : <<y, x>> \notin Less
  <2>. HIDE DEF Less
  <2>. QED BY <1>1, <1>2, WFMin
<1>. USE DEF T
<1>4. PICK b \in C : x = n - b
  OBVIOUS
<1>5. ASSUME NEW e \in C PROVE e <= b
  <2>1. n - e \in T /\ n - e \in Nat /\ n - b \in Nat
    OBVIOUS
  <2>2. <<n - e, n - b>> \notin Less
    BY <2>1, <1>3, <1>4
  <2>3. ~(n - e < n - b)
    BY <2>1, <2>2
  <2>. QED BY <2>3
<1>. QED BY <1>5

(* Two commits with a common ancestor have a merge base.                    *)
LEMMA BaseIsCommon ==
  ASSUME HistoryInv, AllRecorded, NEW c \in Commits, NEW d \in Commits,
         Common(c, d) # {}
  PROVE  MergeBase(c, d) \in Common(c, d)
<1>1. Len(commit) \in Nat
  <2>1. PICK S : commit \in Seq(S)
    BY DEF HistoryInv, NamesExist
  <2>. QED BY <2>1, LenProperties
<1>2. Common(c, d) \subseteq 1..Len(commit)
  BY DEF Common, HistoryInv, Ancestry, AncestorsOf, Anc, Commits
<1>3. PICK b \in Common(c, d) : \A e \in Common(c, d) : e <= b
  BY <1>1, <1>2, Greatest
<1>4. ASSUME NEW e \in Common(c, d), b \in Anc(e) PROVE e = b
  <2>1. e \in Commits /\ b \in Commits /\ e <= b
    BY <1>2, <1>3 DEF Commits
  <2>2. b \in 1..e
    BY <2>1, <1>4 DEF AllRecorded, Recorded
  <2>. QED BY <2>1, <2>2, <1>1 DEF Commits
<1>5. \E x \in Common(c, d) : \A e \in Common(c, d) : x \in Anc(e) => e = x
  BY <1>4
<1>. QED BY <1>5 DEF MergeBase

(* What validateStructuralLogRange accepts drops no line.                   *)
LEMMA RangeAppendsKeeps ==
  ASSUME HistoryInv, AllRecorded, NEW d, NEW c \in Commits, RangeAppends(d, c)
  PROVE  RangeKept(d, c)
<1>. SUFFICES ASSUME NEW x \in Anc(c) \ Anc(d)
              PROVE  KeepsParents(x)
  BY DEF RangeKept
<1>1. x \in Commits /\ AppendsToParents(x)
  BY DEF RangeAppends, HistoryInv, Ancestry, AncestorsOf, Anc, Commits
<1>2. Recorded(x)
  BY <1>1 DEF AllRecorded
<1>3. CASE Len(commit[x].parents) # 1
  BY <1>2, <1>3 DEF Recorded
<1>4. CASE Len(commit[x].parents) = 1
  <2>. DEFINE up == commit[x].parents
  <2>1. IsPrefix(LogOf(up[1]), LogOf(x))
    BY <1>1, <1>4 DEF AppendsToParents
  <2>2. ToSet(up) = {up[1]}
    BY <1>2, <1>4 DEF Recorded, ToSet
  <2>3. up[1] \in Commits
    BY <1>2, <1>4 DEF Recorded
  <2>4. Recorded(up[1])
    BY <2>3 DEF AllRecorded
  <2>5. (\E S : LogOf(up[1]) \in Seq(S)) /\ (\E S : LogOf(x) \in Seq(S))
    BY <1>2, <2>4 DEF Recorded
  <2>6. Lines(up[1]) \subseteq Lines(x)
    BY <2>1, <2>5, PrefixKeepsLines DEF Lines
  <2>. QED BY <2>2, <2>6 DEF KeepsParents
<1>. QED BY <1>3, <1>4

(* A commit that is added on top of commits that exist, with a log that     *)
(* keeps their lines unless it is a flawed one of a single parent.          *)
Sound(r) ==
    /\ r.parents \in Seq(Commits) /\ ToSet(r.parents) # {}
    /\ r.anc = (UNION {Anc(c) : c \in ToSet(r.parents)}) \union {Len(commit) + 1}
    /\ \E S : r.log \in Seq(S)
    /\ Len(r.parents) # 1 \/ r.flaw = "none" =>
          \A p \in ToSet(r.parents) : Lines(p) \subseteq ToSet(r.log)

Grows == commit' = commit \/ \E r : commit' = Append(commit, r) /\ Sound(r)

LEMMA OldCommitsStay ==
  ASSUME HistoryInv, NEW r, commit' = Append(commit, r)
  PROVE  /\ Len(commit) \in Nat /\ Len(commit') = Len(commit) + 1
         /\ commit'[Len(commit) + 1] = r
         /\ \A c \in Commits : commit'[c] = commit[c]
<1>1. PICK S : commit \in Seq(S)
  BY DEF HistoryInv, NamesExist
<1>. QED BY <1>1, AppendsLast, LenProperties DEF Commits

(* What a step leaves of the lines of the commits that exist.               *)
LEMMA OldLinesStay ==
  ASSUME HistoryInv, AllRecorded, Grows
  PROVE  /\ Commits \subseteq Commits'
         /\ \A c \in Commits :
              /\ Anc(c)' = Anc(c) /\ Lines(c)' = Lines(c)
              /\ KeepsParents(c)' <=> KeepsParents(c)
<1>1. /\ Commits \subseteq 1..Len(commit')
      /\ \A c \in Commits : commit'[c] = commit[c]
  <2>1. CASE commit' = commit
    BY <2>1 DEF Commits
  <2>2. CASE commit' # commit
    <3>1. PICK r : commit' = Append(commit, r)
      BY <2>2 DEF Grows
    <3>. QED BY <3>1, OldCommitsStay DEF Commits
  <2>. QED BY <2>1, <2>2
<1>2. \A c \in Commits : Anc(c)' = Anc(c) /\ Lines(c)' = Lines(c)
  BY <1>1 DEF Anc, Lines, LogOf
<1>3. ASSUME NEW c \in Commits PROVE KeepsParents(c)' <=> KeepsParents(c)
  <2>1. ToSet(commit[c].parents) \subseteq Commits
    <3>1. commit[c].parents \in Seq(Commits)
      BY DEF AllRecorded, Recorded
    <3>. QED BY <3>1 DEF ToSet
  <2>. QED BY <2>1, <1>1, <1>2 DEF KeepsParents
<1>. QED BY <1>1, <1>2, <1>3 DEF Commits

LEMMA RecordsGrow ==
  ASSUME HistoryInv, AllRecorded, Grows
  PROVE  AllRecorded'
<1>1. /\ Commits \subseteq Commits'
      /\ \A c \in Commits : /\ Anc(c)' = Anc(c) /\ Lines(c)' = Lines(c)
                            /\ KeepsParents(c)' <=> KeepsParents(c)
  BY OldLinesStay
<1>2. CASE commit' = commit
  BY <1>2 DEF AllRecorded, Recorded, Commits, LogOf, Anc, KeepsParents, Lines
<1>3. CASE commit' # commit
  <2>0. PICK n : n = Len(commit) + 1
    OBVIOUS
  <2>1. PICK r : commit' = Append(commit, r) /\ Sound(r)
    BY <1>3 DEF Grows
  <2>2. /\ Len(commit) \in Nat /\ Len(commit') = n /\ commit'[n] = r
        /\ \A c \in Commits : commit'[c] = commit[c]
    BY <2>0, <2>1, OldCommitsStay
  <2>3. ASSUME NEW c \in Commits PROVE Recorded(c)'
    <3>1. Recorded(c)
      BY DEF AllRecorded
    <3>2. commit'[c].parents \in Seq(Commits')
      BY <3>1, <2>2, <1>1, SeqMonotonic DEF Recorded
    <3>. QED BY <3>1, <3>2, <2>2, <1>1 DEF Recorded, LogOf
  <2>4. Recorded(n)'
    <3>1. commit'[n].parents \in Seq(Commits') /\ ToSet(r.parents) \subseteq Commits
      <4>1. r.parents \in Seq(Commits)
        BY <2>1 DEF Sound
      <4>. QED BY <4>1, <2>2, <1>1, SeqMonotonic DEF ToSet
    <3>2. \E S : LogOf(n)' \in Seq(S)
      BY <2>1, <2>2 DEF Sound, LogOf
    <3>3. Len(r.parents) # 1 \/ r.flaw = "none" => KeepsParents(n)'
      <4>1. \A p \in ToSet(r.parents) : Lines(p)' = Lines(p)
        BY <3>1, <1>1
      <4>. QED BY <4>1, <2>1, <2>2 DEF Sound, KeepsParents, Lines, LogOf
    <3>4. 1 \in Anc(n)' /\ Anc(n)' \subseteq 1..n
      <4>1. \A c \in Commits : Anc(c) \subseteq 1..Len(commit)
        BY DEF HistoryInv, Ancestry, AncestorsOf, Anc, Commits
      <4>2. UNION {Anc(c) : c \in ToSet(r.parents)} \subseteq 1..Len(commit)
        BY <4>1, <3>1
      <4>3. Anc(n)' = (UNION {Anc(c) : c \in ToSet(r.parents)}) \union {n}
        BY <2>0, <2>1, <2>2 DEF Sound, Anc
      <4>4. 1 \in UNION {Anc(c) : c \in ToSet(r.parents)}
        <5>1. PICK c \in ToSet(r.parents) : TRUE
          BY <2>1 DEF Sound
        <5>. QED BY <5>1, <3>1 DEF AllRecorded, Recorded
      <4>. QED BY <4>2, <4>3, <4>4, <2>0, <2>2
    <3>. QED BY <3>1, <3>2, <3>3, <3>4, <2>2 DEF Recorded
  <2>5. \A c \in Commits' : c \in Commits \/ c = n
    BY <2>0, <2>2 DEF Commits
  <2>. QED BY <2>3, <2>4, <2>5 DEF AllRecorded
<1>. QED BY <1>2, <1>3

(* A range between commits that exist is kept or not for good.              *)
LEMMA RangesStay ==
  ASSUME HistoryInv, AllRecorded, Grows, NEW c \in Commits, NEW d \in Commits
  PROVE  RangeKept(d, c)' <=> RangeKept(d, c)
<1>1. Anc(c) \subseteq Commits
  BY DEF HistoryInv, Ancestry, AncestorsOf, Anc, Commits
<1>. QED BY <1>1, OldLinesStay DEF RangeKept

LEMMA LinesStillGrow ==
  ASSUME HistoryInv, AllRecorded, LinesGrow, Grows
  PROVE  LinesGrow'
<1>1. /\ Commits \subseteq Commits'
      /\ \A c \in Commits : Anc(c)' = Anc(c) /\ Lines(c)' = Lines(c)
  BY OldLinesStay
<1>2. \A c \in Commits : Anc(c) \subseteq Commits
  BY DEF HistoryInv, Ancestry, AncestorsOf, Anc, Commits
<1>3. ASSUME NEW c \in Commits, NEW d \in Anc(c), RangeKept(d, c)'
      PROVE  Lines(d)' \subseteq Lines(c)'
  <2>1. d \in Commits
    BY <1>2
  <2>2. RangeKept(d, c)
    BY <1>3, <2>1, RangesStay
  <2>. QED BY <2>1, <2>2, <1>1 DEF LinesGrow
<1>4. CASE commit' = commit
  BY <1>1, <1>3, <1>4 DEF LinesGrow, Commits
<1>5. CASE commit' # commit
  <2>0. PICK n : n = Len(commit) + 1
    OBVIOUS
  <2>1. PICK r : commit' = Append(commit, r) /\ Sound(r)
    BY <1>5 DEF Grows
  <2>2. Len(commit) \in Nat /\ Len(commit') = n /\ commit'[n] = r
    BY <2>0, <2>1, OldCommitsStay
  <2>3. ToSet(r.parents) \subseteq Commits
    <3>1. r.parents \in Seq(Commits)
      BY <2>1 DEF Sound
    <3>. QED BY <3>1 DEF ToSet
  <2>4. Anc(n)' = (UNION {Anc(c) : c \in ToSet(r.parents)}) \union {n}
    BY <2>0, <2>1, <2>2 DEF Sound, Anc
  <2>5. ASSUME NEW d \in Anc(n)', RangeKept(d, n)'
        PROVE  Lines(d)' \subseteq Lines(n)'
    <3>1. CASE d = n
      BY <3>1
    <3>2. CASE d # n
      <4>1. PICK p \in ToSet(r.parents) : d \in Anc(p)
        BY <3>2, <2>4
      <4>2. p \in Commits /\ d \in Commits
        BY <4>1, <2>3, <1>2
      <4>3. Anc(p)' \subseteq Anc(n)'
        BY <4>1, <4>2, <2>4, <1>1
      <4>4. RangeKept(d, p)'
        BY <4>3, <2>5 DEF RangeKept
      <4>5. Lines(d)' \subseteq Lines(p)'
        BY <4>1, <4>2, <4>4, <1>3
      <4>6. n \in Anc(n)' /\ n \notin Anc(d)'
        <5>1. Anc(d)' \subseteq Commits /\ n \notin Commits
          BY <4>2, <1>1, <1>2, <2>0, <2>2 DEF Commits
        <5>. QED BY <5>1, <2>4
      <4>7. KeepsParents(n)'
        BY <4>6, <2>5 DEF RangeKept
      <4>8. Lines(p)' \subseteq Lines(n)'
        BY <4>1, <4>7, <2>2 DEF KeepsParents
      <4>. QED BY <4>5, <4>8
    <3>. QED BY <3>1, <3>2
  <2>6. \A c \in Commits' : c \in Commits \/ c = n
    BY <2>0, <2>2 DEF Commits
  <2>. QED BY <1>1, <1>3, <2>5, <2>6 DEF LinesGrow
<1>. QED BY <1>4, <1>5

-----------------------------------------------------------------------------
(* What a step does to origin and to one workspace, as far as lines go.     *)
OriginMoves ==
    \/ /\ rewinds' = rewinds /\ origin' \in Commits'
       /\ \/ origin' = origin
          \/ origin \in commit'[origin'].anc /\ Lines(origin) \subseteq Lines(origin)'
    \/ rewinds' = rewinds + 1

KeepsRewound == rewinds' \in Nat /\ (rewinds' > 0 => Unflawed')

Stays(v) ==
    \/ main'[v] = main[v]
    \/ main'[v] \in Commits' \ Commits /\ main[v] \in commit'[main'[v]].anc

Keeps(v) ==
    /\ pc'[v] \in Holding =>
          \/ pc[v] \in Holding /\ tips'[v] = tips[v] /\ Stays(v)
          \/ Reads(v) /\ UNCHANGED <<origin, commit>>
    /\ pc'[v] = "advance" =>
          \/ pc[v] = "advance" /\ cand'[v] = cand[v] /\ tips'[v] = tips[v] /\ Stays(v)
          \/ CandKeeps(v)'
    /\ pc[v] = "advance" /\ commit' = commit => Lines(main[v]) \subseteq Lines(main[v])'

LineShape ==
    /\ Grows /\ OriginMoves /\ KeepsRewound
    /\ \A v \in Workspaces : Keeps(v)

(* What was apart stays apart: a commit made since is no old one's ancestor. *)
LEMMA StaysApart ==
  ASSUME HistoryInv, AllRecorded, Grows, NEW v \in Workspaces, Stays(v), tips'[v] = tips[v],
         NEW c \in Commits, Apart(v, c)
  PROVE  Apart(v, c)'
<1>1. Anc(c)' = Anc(c) /\ Anc(c) \subseteq Commits
  BY OldLinesStay DEF HistoryInv, Ancestry, AncestorsOf, Anc, Commits
<1>2. CASE main'[v] = main[v]
  BY <1>1, <1>2 DEF Apart, Tip
<1>3. CASE main'[v] \notin Commits
  BY <1>1, <1>3 DEF Apart
<1>. QED BY <1>2, <1>3 DEF Stays

LEMMA LineShapeKeepsInv ==
  ASSUME LineInv, LineShape, HistoryInv'
  PROVE  LineInv'
<1>1. AllRecorded' /\ LinesGrow'
  BY RecordsGrow, LinesStillGrow DEF LineInv, LineShape
<1>2. RewoundUnflawed'
  BY DEF LineShape, KeepsRewound, RewoundUnflawed
<1>3. /\ Commits \subseteq Commits'
      /\ \A c \in Commits : Anc(c)' = Anc(c) /\ Lines(c)' = Lines(c)
  BY OldLinesStay DEF LineInv, LineShape
<1>4. \A v \in Workspaces : pc[v] \in Holding => Tip(v) \in Commits /\ Far(v) \in Commits
  BY HeldTips DEF LineInv
<1>5. origin \in Commits /\ \A v \in Workspaces : main[v] \in Commits
  BY DEF LineInv, HistoryInv, NamesExist
<1>6. TipHeld'
  <2>. SUFFICES ASSUME NEW v \in Workspaces, pc'[v] \in Holding
                PROVE  (Tip(v) \in Anc(main[v]) /\ Apart(v, Tip(v)) /\ Apart(v, Far(v)))'
    BY DEF TipHeld
  <2>1. CASE pc[v] \in Holding /\ tips'[v] = tips[v] /\ Stays(v)
    <3>1. PICK t, f : t = Tip(v) /\ f = Far(v)
      OBVIOUS
    <3>2. /\ t \in Commits /\ f \in Commits /\ Tip(v)' = t /\ Far(v)' = f
          /\ t \in Anc(main[v]) /\ Apart(v, t) /\ Apart(v, f)
      BY <2>1, <3>1, <1>4 DEF Tip, Far, LineInv, TipHeld
    <3>3. Apart(v, t)' /\ Apart(v, f)'
      BY <2>1, <3>1, <3>2, StaysApart DEF LineInv, LineShape
    <3>4. t \in Anc(main[v])'
      <4>1. PICK m : m = main[v]
        OBVIOUS
      <4>2. t \in commit'[m].anc
        BY <3>2, <4>1, <1>3, <1>5 DEF Anc
      <4>3. CASE main'[v] = m
        BY <4>2, <4>3 DEF Anc
      <4>4. CASE main'[v] \in Commits' /\ m \in commit'[main'[v]].anc
        BY <4>2, <4>4 DEF HistoryInv, Ancestry, AncestorsOf, Anc, Commits
      <4>. QED BY <2>1, <4>1, <4>3, <4>4 DEF Stays
    <3>. QED BY <3>2, <3>3, <3>4 DEF Apart, Anc
  <2>2. CASE Reads(v)
    <3>1. Tip(v)' = main'[v] /\ main'[v] \in Commits'
      BY <2>2, <1>3, <1>5 DEF Reads, Tip
    <3>2. main'[v] \in Anc(main[v])'
      BY <3>1 DEF HistoryInv, Ancestry, AncestorsOf, Anc, Commits
    <3>. QED BY <3>1, <3>2 DEF Apart
  <2>. QED BY <2>1, <2>2 DEF LineShape, Keeps
<1>7. FarReached'
  <2>. SUFFICES ASSUME NEW v \in Workspaces, pc'[v] \in Holding, rewinds' = 0
                PROVE  Far(v)' \in Anc(origin)'
    BY DEF FarReached
  <2>0. rewinds' # rewinds + 1
    BY DEF LineInv, RewoundUnflawed
  <2>1. /\ rewinds = 0
        /\ origin' \in Commits' /\ (origin' = origin \/ origin \in Anc(origin)')
    BY <2>0 DEF LineShape, OriginMoves, Anc
  <2>2. CASE pc[v] \in Holding /\ tips'[v] = tips[v]
    <3>1. Far(v)' = Far(v) /\ Far(v) \in Anc(origin)
      BY <2>1, <2>2 DEF Far, LineInv, FarReached
    <3>2. CASE origin' = origin
      BY <3>1, <3>2, <1>3, <1>5 DEF Anc
    <3>3. CASE origin \in Anc(origin)'
      <4>1. commit'[origin].anc \subseteq commit'[origin'].anc
        BY <2>1, <3>3 DEF HistoryInv, Ancestry, AncestorsOf, Anc, Commits
      <4>2. commit'[origin].anc = Anc(origin)
        BY <1>3, <1>5 DEF Anc
      <4>. QED BY <3>1, <4>1, <4>2 DEF Anc
    <3>. QED BY <2>1, <3>2, <3>3
  <2>3. CASE Reads(v) /\ origin' = origin
    <3>1. Far(v)' = origin'
      BY <2>3 DEF Reads, Far
    <3>. QED BY <3>1, <2>1 DEF HistoryInv, Ancestry, AncestorsOf, Anc, Commits
  <2>. QED BY <2>2, <2>3 DEF LineShape, Keeps
<1>8. CandsKeep'
  <2>. SUFFICES ASSUME NEW v \in Workspaces, pc'[v] = "advance"
                PROVE  CandKeeps(v)'
    BY DEF CandsKeep
  <2>1. CASE pc[v] = "advance" /\ cand'[v] = cand[v] /\ tips'[v] = tips[v] /\ Stays(v)
    <3>1. /\ cand[v] \in Commits /\ Tip(v) \in Commits /\ Far(v) \in Commits
          /\ CandKeeps(v)
      BY <2>1, <1>4 DEF LineInv, HistoryInv, CandExists, CandsKeep, Holding
    <3>2. RangeKept(Far(v), cand[v])' <=> RangeKept(Far(v), cand[v])
      <4>1. PICK f, c : f = Far(v) /\ c = cand[v]
        OBVIOUS
      <4>2. RangeKept(f, c)' <=> RangeKept(f, c)
        BY <3>1, <4>1, RangesStay DEF LineInv, LineShape
      <4>3. Far(v)' = f /\ cand'[v] = c
        BY <2>1, <4>1 DEF Far
      <4>. QED BY <4>1, <4>2, <4>3 DEF RangeKept, Anc
    <3>3. Lines(Tip(v))' = Lines(Tip(v)) /\ Lines(cand[v])' = Lines(cand[v])
      BY <2>1, <3>1, <1>3 DEF Lines, LogOf, Tip
    <3>4. Apart(v, cand[v])'
      <4>1. PICK c : c = cand[v]
        OBVIOUS
      <4>2. Apart(v, c)'
        BY <2>1, <3>1, <4>1, StaysApart DEF CandKeeps, LineInv, LineShape
      <4>. QED BY <2>1, <4>1, <4>2 DEF Apart, Anc
    <3>. QED BY <3>1, <3>2, <3>3, <3>4 DEF CandKeeps
  <2>. QED BY <2>1 DEF LineShape, Keeps
<1>. QED BY <1>1, <1>2, <1>6, <1>7, <1>8 DEF LineInv

LEMMA LineShapeDropsNothing ==
  ASSUME LineInv, LineShape
  PROVE  NoLineLost
<1>1. \A v \in Workspaces : pc[v] = "advance" /\ commit' = commit =>
         ToSet(commit[main[v]].log) \subseteq ToSet(commit'[main'[v]].log)
  BY DEF LineShape, Keeps, Lines, LogOf
<1>2. rewinds + 1 # rewinds
  BY DEF LineInv, RewoundUnflawed
<1>3. origin # origin' /\ rewinds = rewinds' =>
         ToSet(commit[origin].log) \subseteq ToSet(commit'[origin'].log)
  BY <1>2 DEF LineShape, OriginMoves, Lines, LogOf
<1>. QED BY <1>1, <1>3 DEF NoLineLost

(* A workspace that keeps its place in the sync, and main or its log.       *)
LEMMA InPlaceKeeps ==
  ASSUME NEW v \in Workspaces, pc'[v] = pc[v], tips'[v] = tips[v], cand'[v] = cand[v],
         Stays(v), commit' # commit \/ Lines(main[v])' = Lines(main[v])
  PROVE  Keeps(v)
BY DEF Keeps

LEMMA AloneKeeps ==
  ASSUME LineInv, Grows, NEW v \in Workspaces, Alone(v)
  PROVE  Keeps(v) /\ Lines(main[v])' = Lines(main[v])
<1>1. main[v] \in Commits
  BY DEF LineInv, HistoryInv, NamesExist
<1>2. \A c \in Commits : Lines(c)' = Lines(c)
  BY OldLinesStay DEF LineInv
<1>3. Lines(main[v])' = Lines(main[v])
  BY <1>1, <1>2 DEF Alone, Lines, LogOf
<1>. QED BY <1>3, InPlaceKeeps DEF Alone, Stays

LEMMA RewoundStays ==
  ASSUME LineInv, UNCHANGED <<commit, rewinds>>
  PROVE  KeepsRewound
BY DEF LineInv, RewoundUnflawed, KeepsRewound, Unflawed, Commits

(* A step that leaves history, main and origin alone.                       *)
LEMMA QuietLines ==
  ASSUME LineInv, NEW w \in Workspaces, UNCHANGED <<commit, main, remote>>, Keeps(w),
         \A v \in Workspaces \ {w} : Alone(v)
  PROVE  LineShape
<1>1. Grows /\ KeepsRewound
  BY RewoundStays DEF Grows, remote
<1>2. OriginMoves
  BY DEF OriginMoves, remote, LineInv, HistoryInv, NamesExist, Commits
<1>. QED BY <1>1, <1>2, AloneKeeps DEF LineShape

LEMMA NewCommitLines ==
  ASSUME LineInv, NEW w \in Workspaces, NEW log, NEW page, NEW flaw,
         NewCommit(w, log, page, flaw), \E S : log \in Seq(S),
         flaw = "none" => Lines(main[w]) \subseteq ToSet(log),
         rewinds > 0 => flaw = "none"
  PROVE  LineShape
<1>1. PICK n : n = Len(commit) + 1
  OBVIOUS
<1>. DEFINE r == [parents |-> <<main[w]>>, anc |-> Anc(main[w]) \union {n},
                  log |-> log, page |-> page, flaw |-> flaw]
<1>2. /\ commit' = Append(commit, r) /\ main' = [main EXCEPT ![w] = n]
      /\ UNCHANGED <<remote, run, kept>>
  BY <1>1 DEF NewCommit
<1>3. main[w] \in Commits /\ origin \in Commits /\ main \in [Workspaces -> Commits]
  BY DEF LineInv, HistoryInv, NamesExist
<1>4. Sound(r)
  <2>1. r.parents \in Seq(Commits) /\ ToSet(r.parents) = {main[w]} /\ Len(r.parents) = 1
    BY <1>3 DEF ToSet
  <2>2. r.anc = (UNION {Anc(c) : c \in ToSet(r.parents)}) \union {n}
    BY <2>1
  <2>3. r.log = log /\ r.flaw = flaw
    OBVIOUS
  <2>. HIDE DEF r
  <2>. QED BY <1>1, <2>1, <2>2, <2>3 DEF Sound
<1>5. r.flaw = flaw /\ r.log = log
  OBVIOUS
<1>5a. r.anc = Anc(main[w]) \union {n}
  OBVIOUS
<1>. HIDE DEF r
<1>6. Grows
  BY <1>2, <1>4 DEF Grows
<1>7. /\ Len(commit) \in Nat /\ Len(commit') = n /\ commit'[n] = r
      /\ \A c \in Commits : commit'[c] = commit[c]
  BY <1>1, <1>2, OldCommitsStay DEF LineInv
<1>8. KeepsRewound
  <2>1. rewinds' = rewinds /\ rewinds \in Nat /\ (rewinds > 0 => Unflawed)
    BY <1>2 DEF remote, LineInv, RewoundUnflawed
  <2>2. ASSUME Unflawed, flaw = "none" PROVE Unflawed'
    BY <2>2, <1>1, <1>5, <1>7 DEF Unflawed, Commits
  <2>. QED BY <2>1, <2>2 DEF KeepsRewound
<1>9. OriginMoves
  <2>1. Commits \subseteq Commits'
    BY <1>6, OldLinesStay DEF LineInv
  <2>. QED BY <2>1, <1>2, <1>3 DEF OriginMoves, remote
<1>10. Keeps(w)
  <2>1. main'[w] = n /\ n \in Commits' \ Commits /\ commit' # commit
    BY <1>1, <1>2, <1>3, <1>7 DEF Commits
  <2>2. main[w] \in commit'[n].anc
    <3>1. main[w] \in Anc(main[w])
      BY <1>3 DEF LineInv, HistoryInv, Ancestry, AncestorsOf, Anc, Commits
    <3>. QED BY <3>1, <1>7, <1>5a
  <2>3. pc'[w] = pc[w] /\ tips'[w] = tips[w] /\ cand'[w] = cand[w]
    BY <1>2 DEF run
  <2>. QED BY <2>1, <2>2, <2>3, InPlaceKeeps DEF Stays
<1>11. \A v \in Workspaces \ {w} : Alone(v)
  BY <1>2, <1>3 DEF Alone, kept, run
<1>. QED BY <1>6, <1>8, <1>9, <1>10, <1>11, AloneKeeps DEF LineShape

LEMMA EditLines ==
  ASSUME LineInv, NEW w \in Workspaces,
         EditKnowledge(w) \/ Repair(w) \/ CommitElsewhere(w)
  PROVE  LineShape
<1>. DEFINE c == Len(commit) + 1
            log == commit[main[w]].log
<1>1. main[w] \in Commits /\ Recorded(main[w])
  BY DEF LineInv, HistoryInv, NamesExist, AllRecorded
<1>2. (\E S : log \in Seq(S)) /\ Lines(main[w]) = ToSet(log)
  BY <1>1 DEF Recorded, LogOf, Lines
<1>3. /\ \E S : Append(log, <<c>>) \in Seq(S)
      /\ Lines(main[w]) \subseteq ToSet(Append(log, <<c>>))
  BY <1>2, AppendKeepsLines
<1>4. rewinds \in Nat /\ (rewinds > 0 => Unflawed)
  BY DEF LineInv, RewoundUnflawed
<1>5. rewinds > 0 => commit[main[w]].flaw = "none"
  BY <1>1, <1>4 DEF Unflawed
<1>6. CASE NewCommit(w, Append(log, <<c>>), {c}, commit[main[w]].flaw)
  <2>. HIDE DEF c, log
  <2>. QED BY <1>3, <1>5, <1>6, NewCommitLines
<1>7. ASSUME NEW flaw, rewinds = 0 \/ flaw = "none",
             NewCommit(w, Append(log, <<c>>), {c}, flaw)
      PROVE  LineShape
  <2>. HIDE DEF c, log
  <2>1. rewinds > 0 => flaw = "none"
    BY <1>7
  <2>. QED BY <1>3, <1>7, <2>1, NewCommitLines
<1>8. CASE /\ rewinds = 0 /\ Rewritten \in Flaws
           /\ NewCommit(w, <<<<c>>>>, {c}, Rewritten)
  <2>1. <<<<c>>>> \in Seq({<<c>>})
    OBVIOUS
  <2>2. Rewritten # "none" /\ ~(rewinds > 0)
    BY <1>8, KnowledgeSyncAssumption
  <2>. HIDE DEF c, log
  <2>. QED BY <1>8, <2>1, <2>2, NewCommitLines
<1>9. CASE CommitElsewhere(w)
  <2>1. NewCommit(w, log, commit[main[w]].page, commit[main[w]].flaw)
    BY <1>9 DEF CommitElsewhere
  <2>. HIDE DEF c, log
  <2>. QED BY <2>1, <1>2, <1>5, NewCommitLines
<1>10. CASE Repair(w)
  BY <1>7, <1>10 DEF Repair
<1>11. CASE EditKnowledge(w)
  BY <1>6, <1>7, <1>8, <1>11 DEF EditKnowledge
<1>. QED BY <1>9, <1>10, <1>11

LEMMA RewindLines ==
  ASSUME LineInv, Rewind
  PROVE  LineShape
<1>1. UNCHANGED <<commit, main, run, kept>> /\ rewinds' = rewinds + 1 /\ Unflawed
  BY DEF Rewind
<1>2. Grows /\ OriginMoves
  BY <1>1 DEF Grows, OriginMoves
<1>3. KeepsRewound
  BY <1>1 DEF KeepsRewound, LineInv, RewoundUnflawed, Unflawed, Commits
<1>4. \A v \in Workspaces : Alone(v)
  BY <1>1 DEF Alone, run, kept
<1>. QED BY <1>2, <1>3, <1>4, AloneKeeps DEF LineShape

(* A sync that ends, or begins an attempt, and leaves the history alone.    *)
LEMMA EndLines ==
  ASSUME LineInv, NEW w \in Workspaces, UNCHANGED <<commit, main, remote>>,
         pc'[w] \notin Holding, \A v \in Workspaces \ {w} : Alone(v)
  PROVE  LineShape
<1>1. Lines(main[w])' = Lines(main[w])
  BY DEF Lines, LogOf
<1>2. Keeps(w)
  BY <1>1 DEF Keeps, Holding
<1>. QED BY <1>2, QuietLines

LEMMA EndsLeave ==
  ASSUME LineInv, NEW w \in Workspaces, Ends(w)
  PROVE  /\ pc'[w] \notin Holding
         /\ \A v \in Workspaces \ {w} :
              pc'[v] = pc[v] /\ tips'[v] = tips[v] /\ cand'[v] = cand[v]
BY DEF Ends, Goes, LineInv, HistoryInv, RunTyped, Holding

LEMMA FetchLines ==
  ASSUME LineInv, NEW w \in Workspaces, Fetch(w)
  PROVE  LineShape
<1>1. /\ pc' = [pc EXCEPT ![w] = "prepare"] /\ pc[w] # "advance"
      /\ tips' = [tips EXCEPT ![w] = [local |-> main[w], remote |-> origin]]
      /\ UNCHANGED <<commit, main, remote, cand>>
      /\ \/ main[w] = origin /\ refs' = refs
         \/ refs' = [refs EXCEPT ![w] = @ \union {main[w], origin}]
  BY DEF Fetch, FetchTips, Goes, KeepTips
<1>2. refs \in [Workspaces -> SUBSET Commits]
  BY DEF LineInv, HistoryInv, NamesExist
<1>3. Reads(w)
  BY <1>1, <1>2 DEF Reads, LineInv, HistoryInv, RunTyped
<1>4. Keeps(w)
  BY <1>1, <1>3 DEF Keeps, remote, LineInv, HistoryInv, RunTyped
<1>5. \A v \in Workspaces \ {w} : Alone(v)
  BY <1>1, <1>2 DEF Alone, LineInv, HistoryInv, RunTyped
<1>. QED BY <1>1, <1>4, <1>5, QuietLines

LEMMA GiveUpLines ==
  ASSUME LineInv, NEW w \in Workspaces, GiveUp(w)
  PROVE  LineShape
<1>1. Ends(w) /\ UNCHANGED <<commit, main, remote, refs>>
  BY DEF GiveUp, kept
<1>. QED BY <1>1, EndsLeave, EndLines DEF Alone

LEMMA ConvergeLines ==
  ASSUME LineInv, NEW w \in Workspaces, Converge(w), UNCHANGED <<commit, main, remote>>
  PROVE  LineShape
<1>1. Ends(w) /\ (refs' = [refs EXCEPT ![w] = {}] \/ refs' = refs)
  BY DEF Converge, RefsReached
<1>2. refs \in [Workspaces -> SUBSET Commits]
  BY DEF LineInv, HistoryInv, NamesExist
<1>3. \A v \in Workspaces \ {w} : Alone(v)
  BY <1>1, <1>2, EndsLeave DEF Alone
<1>. QED BY <1>1, <1>3, EndsLeave, EndLines

LEMMA RetryLines ==
  ASSUME LineInv, NEW w \in Workspaces, NEW again \in BOOLEAN, Retry(w, again),
         UNCHANGED <<commit, main, remote>>
  PROVE  LineShape
<1>1. /\ refs' = [refs EXCEPT ![w] = @ \union {main[w], origin}]
      /\ \/ Ends(w)
         \/ /\ pc' = [pc EXCEPT ![w] = "fetch"]
            /\ tips' = [tips EXCEPT ![w] = [local |-> 0, remote |-> 0]]
            /\ cand' = [cand EXCEPT ![w] = 0]
  BY DEF Retry, KeepTips, Goes, NoTips
<1>2. refs \in [Workspaces -> SUBSET Commits]
  BY DEF LineInv, HistoryInv, NamesExist
<1>3. /\ pc'[w] \notin Holding
      /\ \A v \in Workspaces \ {w} : Alone(v)
  <2>1. CASE Ends(w)
    BY <1>1, <1>2, <2>1, EndsLeave DEF Alone
  <2>2. CASE ~Ends(w)
    BY <1>1, <1>2, <2>2 DEF Alone, LineInv, HistoryInv, RunTyped, Holding
  <2>. QED BY <2>1, <2>2
<1>. QED BY <1>3, EndLines

(* A candidate is chosen: main and the tips stay.                           *)
LEMMA CandidateKeeps ==
  ASSUME LineInv, NEW w \in Workspaces, pc[w] = "prepare", NEW c \in Commits',
         Candidate(w, c), UNCHANGED main, Grows,
         (Lines(Tip(w)) \subseteq Lines(c))', RangeKept(Far(w), c)', Apart(w, c)'
  PROVE  /\ Keeps(w)
         /\ \A v \in Workspaces \ {w} :
              pc'[v] = pc[v] /\ tips'[v] = tips[v] /\ cand'[v] = cand[v]
<1>1. /\ cand' = [cand EXCEPT ![w] = c] /\ pc' = [pc EXCEPT ![w] = "advance"]
      /\ tips' = tips
  BY DEF Candidate, Goes
<1>2. cand'[w] = c /\ pc'[w] = "advance"
  BY <1>1 DEF LineInv, HistoryInv, RunTyped
<1>3. CandKeeps(w)'
  BY <1>2 DEF CandKeeps, Lines, LogOf, RangeKept, Anc, Apart
<1>4. Lines(main[w])' = Lines(main[w])
  <2>1. main[w] \in Commits
    BY DEF LineInv, HistoryInv, NamesExist
  <2>2. \A d \in Commits : Lines(d)' = Lines(d)
    BY OldLinesStay DEF LineInv
  <2>. QED BY <2>1, <2>2 DEF Lines, LogOf
<1>5. Keeps(w)
  BY <1>1, <1>3, <1>4 DEF Keeps, Holding, Stays
<1>. QED BY <1>1, <1>5 DEF LineInv, HistoryInv, RunTyped

LEMMA InPlaceLines ==
  ASSUME LineInv, NEW w \in Workspaces, PrepareInPlace(w)
  PROVE  LineShape
<1>1. /\ pc[w] = "prepare" /\ Candidate(w, Tip(w)) /\ RangeAppends(Far(w), Tip(w))
      /\ UNCHANGED <<commit, main, remote, refs>> /\ tips' = tips
  BY DEF PrepareInPlace, kept, Candidate
<1>2. Tip(w) \in Commits
  BY <1>1, HeldTips DEF Holding, LineInv
<1>3. RangeKept(Far(w), Tip(w))
  BY <1>1, <1>2, RangeAppendsKeeps DEF LineInv
<1>4. PICK c, f : c = Tip(w) /\ f = Far(w)
  OBVIOUS
<1>5. RangeKept(Far(w), c)' /\ (Lines(Tip(w)) \subseteq Lines(c))'
  BY <1>1, <1>3, <1>4 DEF RangeKept, Anc, KeepsParents, Lines, LogOf, Far, Tip
<1>5a. Apart(w, c)'
  BY <1>1, <1>4 DEF LineInv, TipHeld, Holding, Apart, Tip, Anc
<1>6. c \in Commits' /\ Grows
  BY <1>1, <1>2, <1>4 DEF Commits, Grows
<1>7. /\ Keeps(w)
      /\ \A v \in Workspaces \ {w} : Alone(v)
  BY <1>1, <1>4, <1>5, <1>5a, <1>6, CandidateKeeps DEF Alone
<1>. QED BY <1>1, <1>7, QuietLines

LEMMA BehindLines ==
  ASSUME LineInv, NEW w \in Workspaces, PrepareBehind(w)
  PROVE  LineShape
<1>1. /\ pc[w] = "prepare" /\ Behind(w) /\ UNCHANGED <<commit, main, remote, refs>>
      /\ \/ RangeAppends(Tip(w), Far(w)) /\ Candidate(w, Far(w))
         \/ Ends(w)
  BY DEF PrepareBehind
<1>2. CASE Ends(w)
  BY <1>1, <1>2, EndsLeave, EndLines DEF Alone
<1>3. CASE RangeAppends(Tip(w), Far(w)) /\ Candidate(w, Far(w))
  <2>1. Tip(w) \in Commits /\ Far(w) \in Commits /\ Tip(w) \in Anc(Far(w))
    BY <1>1, HeldTips DEF Holding, LineInv, Behind
  <2>2. Lines(Tip(w)) \subseteq Lines(Far(w))
    BY <1>3, <2>1, RangeAppendsKeeps DEF LineInv, LinesGrow
  <2>3. PICK c : c = Far(w)
    OBVIOUS
  <2>4. tips' = tips
    BY <1>3 DEF Candidate
  <2>5. RangeKept(Far(w), c)' /\ (Lines(Tip(w)) \subseteq Lines(c))'
    BY <1>1, <2>2, <2>3, <2>4 DEF RangeKept, Anc, Lines, LogOf, Far, Tip
  <2>5a. Apart(w, c)'
    BY <1>1, <2>3, <2>4 DEF LineInv, TipHeld, Holding, Apart, Tip, Far, Anc
  <2>6. c \in Commits' /\ Grows
    BY <1>1, <2>1, <2>3 DEF Commits, Grows
  <2>7. /\ Keeps(w)
        /\ \A v \in Workspaces \ {w} : Alone(v)
    BY <1>1, <1>3, <2>3, <2>5, <2>5a, <2>6, CandidateKeeps DEF Alone
  <2>. QED BY <1>1, <2>7, QuietLines
<1>. QED BY <1>1, <1>2, <1>3

(* The commit of a merge: both logs are in its log, and what the range      *)
(* checks accepted since the merge base drops nothing.                      *)
LEMMA MergeSound ==
  ASSUME LineInv, NEW w \in Workspaces, pc[w] = "prepare", MergeAllowed(w)
  PROVE  /\ Sound(Merge(w))
         /\ Merge(w).parents = <<Tip(w), Far(w)>>
         /\ \A p \in {Tip(w), Far(w)} : Lines(p) \subseteq ToSet(Merge(w).log)
         /\ \A x \in Anc(Tip(w)) \ Anc(Far(w)) : KeepsParents(x)
<1>1. Tip(w) \in Commits /\ Far(w) \in Commits
  BY HeldTips DEF Holding, LineInv
<1>2. Base(w) \in Common(Tip(w), Far(w)) /\ Base(w) \in Commits
  <2>1. 1 \in Common(Tip(w), Far(w))
    BY <1>1 DEF LineInv, AllRecorded, Recorded, Common
  <2>2. Base(w) \in Common(Tip(w), Far(w))
    BY <1>1, <2>1, BaseIsCommon DEF LineInv, Base
  <2>. QED BY <1>1, <2>2 DEF Common, LineInv, HistoryInv, Ancestry, AncestorsOf, Anc, Commits
<1>3. \E S : MergedLog(w) \in Seq(S)
  <2>1. /\ \E S : LogOf(Base(w)) \in Seq(S)
        /\ \E S : LogOf(Tip(w)) \in Seq(S)
        /\ \E S : LogOf(Far(w)) \in Seq(S)
    BY <1>1, <1>2 DEF LineInv, AllRecorded, Recorded
  <2>. QED BY <2>1, LineUnionIsSequence DEF MergedLog
<1>4. /\ Merge(w).parents = <<Tip(w), Far(w)>> /\ Merge(w).log = MergedLog(w)
      /\ Merge(w).anc = Anc(Tip(w)) \union Anc(Far(w)) \union {Len(commit) + 1}
  BY DEF Merge
<1>5. \A p \in {Tip(w), Far(w)} : Lines(p) \subseteq ToSet(Merge(w).log)
  BY <1>4 DEF MergeAllowed, MergePreserves, Lines
<1>6. /\ <<Tip(w), Far(w)>> \in Seq(Commits)
      /\ ToSet(<<Tip(w), Far(w)>>) = {Tip(w), Far(w)}
  BY <1>1 DEF ToSet
<1>7. Sound(Merge(w))
  <2>1. UNION {Anc(c) : c \in {Tip(w), Far(w)}} = Anc(Tip(w)) \union Anc(Far(w))
    OBVIOUS
  <2>. QED BY <1>3, <1>4, <1>5, <1>6, <2>1 DEF Sound
<1>8. ASSUME NEW x \in Anc(Tip(w)) \ Anc(Far(w)) PROVE KeepsParents(x)
  <2>1. RangeKept(Base(w), Tip(w))
    BY <1>1, RangeAppendsKeeps DEF LineInv, MergeAllowed
  <2>2. Anc(Base(w)) \subseteq Anc(Far(w))
    BY <1>1, <1>2 DEF Common, LineInv, HistoryInv, Ancestry, AncestorsOf, Anc, Commits
  <2>. QED BY <2>1, <2>2 DEF RangeKept
<1>. QED BY <1>4, <1>5, <1>7, <1>8

LEMMA MergeLines ==
  ASSUME LineInv, NEW w \in Workspaces, PrepareMerge(w)
  PROVE  LineShape
<1>1. /\ pc[w] = "prepare" /\ UNCHANGED <<main, remote, refs>>
      /\ \/ MergeAllowed(w) /\ commit' = Append(commit, Merge(w)) /\ Candidate(w, Len(commit) + 1)
         \/ Ends(w) /\ commit' = commit
  BY DEF PrepareMerge
<1>2. CASE Ends(w) /\ commit' = commit
  BY <1>1, <1>2, EndsLeave, EndLines DEF Alone
<1>3. CASE /\ MergeAllowed(w) /\ commit' = Append(commit, Merge(w))
           /\ Candidate(w, Len(commit) + 1)
  <2>1. PICK n, t, f, r : n = Len(commit) + 1 /\ t = Tip(w) /\ f = Far(w) /\ r = Merge(w)
    OBVIOUS
  <2>2. /\ Sound(r) /\ r.parents = <<t, f>>
        /\ \A p \in {t, f} : Lines(p) \subseteq ToSet(r.log)
        /\ \A x \in Anc(t) \ Anc(f) : KeepsParents(x)
    BY <1>1, <1>3, <2>1, MergeSound
  <2>3. t \in Commits /\ f \in Commits
    BY <1>1, <2>1, HeldTips DEF Holding, LineInv
  <2>4. Grows
    BY <1>3, <2>1, <2>2 DEF Grows
  <2>5. /\ Len(commit) \in Nat /\ Len(commit') = n /\ commit'[n] = r
        /\ \A c \in Commits : commit'[c] = commit[c]
    BY <1>3, <2>1, OldCommitsStay DEF LineInv
  <2>6. /\ Commits \subseteq Commits'
        /\ \A c \in Commits : /\ Anc(c)' = Anc(c) /\ Lines(c)' = Lines(c)
                              /\ KeepsParents(c)' <=> KeepsParents(c)
    BY <2>4, OldLinesStay DEF LineInv
  <2>7. Anc(n)' = Anc(t) \union Anc(f) \union {n} /\ Lines(n)' = ToSet(r.log)
    BY <2>1, <2>5 DEF Merge, Anc, Lines, LogOf
  <2>8. tips' = tips /\ n \in Commits'
    BY <1>3, <2>1, <2>5 DEF Candidate, Commits
  <2>9. KeepsParents(n)'
    <3>1. AllRecorded'
      BY <2>4, RecordsGrow DEF LineInv
    <3>2. Recorded(n)'
      BY <2>8, <3>1 DEF AllRecorded
    <3>3. Len(commit'[n].parents) # 1
      BY <2>2, <2>5
    <3>. QED BY <3>2, <3>3 DEF Recorded
  <2>10. RangeKept(f, n)'
    <3>1. Anc(t) \subseteq Commits
      BY <2>3 DEF LineInv, HistoryInv, Ancestry, AncestorsOf, Anc, Commits
    <3>. QED BY <2>2, <2>3, <2>6, <2>7, <2>9, <3>1 DEF RangeKept
  <2>11. (Lines(Tip(w)) \subseteq Lines(n))' /\ RangeKept(Far(w), n)'
    <3>1. Tip(w)' = t /\ Far(w)' = f
      BY <2>1, <2>8 DEF Tip, Far
    <3>2. Lines(t)' \subseteq Lines(n)'
      BY <2>2, <2>3, <2>6, <2>7
    <3>. QED BY <3>1, <3>2, <2>10 DEF RangeKept, Anc, Lines, LogOf
  <2>11a. Apart(w, n)'
    <3>1. main'[w] = main[w] /\ main[w] \in Commits /\ main[w] # n
      BY <1>1, <2>1, <2>5 DEF LineInv, HistoryInv, NamesExist, Commits
    <3>2. Apart(w, t) /\ Apart(w, f)
      BY <1>1, <2>1 DEF LineInv, TipHeld, Holding
    <3>. QED BY <2>7, <2>8, <3>1, <3>2 DEF Apart, Tip
  <2>12. /\ Keeps(w)
         /\ \A v \in Workspaces \ {w} : Alone(v)
    BY <1>1, <1>3, <2>1, <2>4, <2>8, <2>11, <2>11a, CandidateKeeps DEF Alone
  <2>13. OriginMoves
    BY <1>1, <2>6 DEF OriginMoves, remote, LineInv, HistoryInv, NamesExist
  <2>14. KeepsRewound
    <3>1. rewinds' = rewinds /\ rewinds \in Nat /\ (rewinds > 0 => Unflawed)
      BY <1>1 DEF remote, LineInv, RewoundUnflawed
    <3>2. ASSUME Unflawed PROVE r.flaw = "none"
      <4>1. Carried(w) = "none"
        BY <2>1, <2>3, <3>2 DEF Carried, Unflawed
      <4>. QED BY <4>1, <2>1 DEF Merge, MergedFlaw
    <3>3. ASSUME Unflawed PROVE Unflawed'
      BY <3>2, <3>3, <2>1, <2>5 DEF Unflawed, Commits
    <3>. QED BY <3>1, <3>3 DEF KeepsRewound
  <2>. QED BY <2>4, <2>12, <2>13, <2>14, AloneKeeps DEF LineShape
<1>. QED BY <1>1, <1>2, <1>3

(* The fast-forward and the push: the candidate has the lines of main, as   *)
(* those of the tip, and those of origin, which descends from what was      *)
(* fetched or was rewound while no commit had dropped a line.               *)
LEMMA AdvanceLines ==
  ASSUME LineInv, NEW w \in Workspaces, Advance(w)
  PROVE  LineShape
<1>1. /\ pc[w] = "advance" /\ FastForwards(w)
      /\ UNCHANGED <<commit, refs, attempt, tips, cand, rewinds>>
      /\ \E step \in {"verify", "reread"} : pc' = [pc EXCEPT ![w] = step]
      /\ origin' = origin \/ (origin \in Anc(cand[w]) /\ origin' = cand[w])
  BY DEF Advance, Pushes, PushFails, Goes, kept, remote
<1>2. cand[w] \in Commits /\ main \in [Workspaces -> Commits] /\ origin \in Commits
  BY <1>1 DEF LineInv, HistoryInv, CandExists, NamesExist
<1>3. main' = [main EXCEPT ![w] = main'[w]] /\ (main'[w] = main[w] \/ main'[w] = cand[w])
  <2>1. CASE cand[w] \in Anc(main[w])
    BY <1>1, <1>2, <2>1 DEF FastForwards
  <2>2. CASE cand[w] \notin Anc(main[w])
    BY <1>1, <1>2, <2>2 DEF FastForwards
  <2>. QED BY <2>1, <2>2
<1>4. ASSUME main[w] \in Anc(cand[w]) PROVE Lines(main[w]) \subseteq Lines(cand[w])
  BY <1>1, <1>4 DEF LineInv, CandsKeep, CandKeeps, Apart
<1>5. Lines(main[w]) \subseteq Lines(main[w])'
  <2>1. CASE main'[w] = main[w]
    BY <1>1, <2>1 DEF Lines, LogOf
  <2>2. CASE main'[w] # main[w]
    <3>1. main[w] \in Anc(cand[w])
      BY <1>1, <1>2, <2>2 DEF FastForwards
    <3>. QED BY <1>1, <1>3, <1>4, <2>2, <3>1 DEF Lines, LogOf
  <2>. QED BY <2>1, <2>2
<1>6. ASSUME origin \in Anc(cand[w]) PROVE Lines(origin) \subseteq Lines(cand[w])
  <2>1. rewinds \in Nat
    BY DEF LineInv, RewoundUnflawed
  <2>2. CASE rewinds = 0
    <3>1. Far(w) \in Anc(origin) /\ RangeKept(Far(w), cand[w])
      BY <1>1, <2>2 DEF LineInv, FarReached, CandsKeep, CandKeeps, Holding
    <3>2. Anc(Far(w)) \subseteq Anc(origin)
      BY <1>2, <3>1 DEF LineInv, HistoryInv, Ancestry, AncestorsOf, Anc, Commits
    <3>3. RangeKept(origin, cand[w])
      BY <3>1, <3>2 DEF RangeKept
    <3>. QED BY <1>2, <1>6, <3>3 DEF LineInv, LinesGrow
  <2>3. CASE rewinds > 0
    <3>1. Unflawed
      BY <2>3 DEF LineInv, RewoundUnflawed
    <3>2. Anc(cand[w]) \subseteq Commits
      BY <1>2 DEF LineInv, HistoryInv, Ancestry, AncestorsOf, Anc, Commits
    <3>3. RangeKept(origin, cand[w])
      BY <3>1, <3>2 DEF Unflawed, RangeKept, LineInv, AllRecorded, Recorded
    <3>. QED BY <1>2, <1>6, <3>3 DEF LineInv, LinesGrow
  <2>. QED BY <2>1, <2>2, <2>3
<1>7. OriginMoves
  <2>1. CASE origin' = origin
    BY <1>1, <1>2, <2>1 DEF OriginMoves, Commits
  <2>2. CASE origin \in Anc(cand[w]) /\ origin' = cand[w]
    <3>1. Lines(origin) \subseteq Lines(origin)'
      BY <1>1, <1>6, <2>2 DEF Lines, LogOf
    <3>2. origin \in commit'[origin'].anc
      BY <1>1, <2>2 DEF Anc
    <3>. QED BY <1>1, <1>2, <2>2, <3>1, <3>2 DEF OriginMoves, Commits
  <2>. QED BY <1>1, <2>1, <2>2
<1>8. Grows /\ KeepsRewound
  BY <1>1, RewoundStays DEF Grows
<1>9. Keeps(w)
  BY <1>1, <1>5 DEF Keeps, Holding, LineInv, HistoryInv, RunTyped
<1>10. \A v \in Workspaces \ {w} : Alone(v)
  BY <1>1, <1>2, <1>3 DEF Alone, LineInv, HistoryInv, RunTyped
<1>. QED BY <1>7, <1>8, <1>9, <1>10, AloneKeeps DEF LineShape

LEMMA SyncLines ==
  ASSUME LineInv, NEW w \in Workspaces, Sync(w)
  PROVE  LineShape
<1>1. CASE Fetch(w) \/ GiveUp(w)
  BY <1>1, FetchLines, GiveUpLines
<1>2. CASE PrepareInPlace(w) \/ PrepareBehind(w) \/ PrepareMerge(w)
  BY <1>2, InPlaceLines, BehindLines, MergeLines
<1>3. CASE Advance(w)
  BY <1>3, AdvanceLines
<1>4. CASE Reread(w)
  <2>1. UNCHANGED <<commit, main, remote>> /\ (Converge(w) \/ Retry(w, origin # Far(w)))
    BY <1>4 DEF Reread
  <2>. QED BY <2>1, ConvergeLines, RetryLines
<1>5. CASE Verify(w)
  <2>1. UNCHANGED <<commit, main, remote>> /\ (Converge(w) \/ Retry(w, TRUE))
    BY <1>5 DEF Verify
  <2>. QED BY <2>1, ConvergeLines, RetryLines
<1>. QED BY <1>1, <1>2, <1>3, <1>4, <1>5 DEF Sync

LEMMA StepLines ==
  ASSUME LineInv, [Next]_vars
  PROVE  LineShape
<1>1. CASE UNCHANGED vars
  <2>1. Grows /\ KeepsRewound
    BY <1>1, RewoundStays DEF vars, Grows
  <2>2. OriginMoves
    BY <1>1 DEF vars, OriginMoves, LineInv, HistoryInv, NamesExist, Commits
  <2>3. \A v \in Workspaces : Alone(v)
    BY <1>1 DEF vars, Alone
  <2>. QED BY <2>1, <2>2, <2>3, AloneKeeps DEF LineShape
<1>2. CASE Next
  BY <1>2, SyncLines, EditLines, RewindLines DEF Next
<1>. QED BY <1>1, <1>2

LEMMA StepKeepsLines ==
  ASSUME LineInv, [Next]_vars
  PROVE  LineInv' /\ (UNCHANGED vars \/ (TipsStayReachable /\ NoLineLost))
<1>1. HistoryInv' /\ (TipsStayReachable \/ UNCHANGED vars)
  BY StepSound DEF LineInv
<1>. QED BY <1>1, StepLines, LineShapeKeepsInv, LineShapeDropsNothing

LEMMA InitHasLines == Init => LineInv
<1>. SUFFICES ASSUME Init PROVE LineInv
  OBVIOUS
<1>1. HistoryInv
  BY InitSound
<1>2. commit[1] = Root /\ Commits = {1}
  <2>1. commit = <<Root>>
    BY DEF Init
  <2>. QED BY <2>1 DEF Commits
<1>3. Anc(1) = {1} /\ LogOf(1) = <<>> /\ commit[1].parents = <<>> /\ commit[1].flaw = "none"
  BY <1>2 DEF Root, Anc, LogOf
<1>4. AllRecorded
  <2>1. <<>> \in Seq(Commits) /\ ToSet(<<>>) = {}
    BY DEF ToSet
  <2>2. KeepsParents(1)
    BY <1>3, <2>1 DEF KeepsParents
  <2>3. \E S : LogOf(1) \in Seq(S)
    BY <1>3, <2>1
  <2>4. 1 \in Anc(1) /\ Anc(1) \subseteq 1..1
    BY <1>3
  <2>5. Recorded(1)
    BY <1>3, <2>1, <2>2, <2>3, <2>4 DEF Recorded
  <2>. QED BY <1>2, <2>5 DEF AllRecorded
<1>5. LinesGrow
  BY <1>2, <1>3 DEF LinesGrow
<1>6. RewoundUnflawed /\ TipHeld /\ FarReached /\ CandsKeep
  BY DEF Init, RewoundUnflawed, TipHeld, FarReached, CandsKeep, Holding
<1>. QED BY <1>1, <1>4, <1>5, <1>6 DEF LineInv

(* Whatever two workspaces and other writers do to origin, no commit that a *)
(* workspace has gets out of its reach, and no sync loses a line of the     *)
(* structural log that was in origin/main or in the workspace.              *)
THEOREM NothingIsLost == Spec => NothingLost
<1>1. Init => LineInv
  BY InitHasLines
<1>2. LineInv /\ [Next]_vars => LineInv'
  BY StepKeepsLines
<1>3. LineInv /\ [Next]_vars => [TipsStayReachable /\ NoLineLost]_vars
  BY StepKeepsLines
<1>. QED BY <1>1, <1>2, <1>3, PTL DEF Spec, NothingLost

-----------------------------------------------------------------------------
(* No committed edit of a page is lost in silence, and only valid commits  *)
(* are published.                                                          *)

FlawOf(c) == commit[c].flaw
Publishable(c) == FlawOf(c) \in {"none", Driver, Gitlink}

(* Among the commits of A, edit e is still in the page or was edited upon.  *)
KeptIn(page, A, e) ==
    PageOf(e) = {e} =>
        e \in page \/ \E f \in A \ {e} : PageOf(f) = {f} /\ e \in Anc(f)

VariantKept(c) == \A e \in Anc(c) : KeptIn(PageOf(c), Anc(c), e)

(* A commit made by hand whose log does not append to its parent's.         *)
Rewrites(c) ==
    /\ Len(commit[c].parents) = 1
    /\ ~IsPrefix(LogOf(commit[c].parents[1]), LogOf(c))

Clean(c) == \A x \in Anc(c) : ~Rewrites(x)

(* A page has edits of ancestors only and loses none of them; a flaw of the *)
(* log goes back to the commit that rewrote it.                             *)
Noted(c) ==
    /\ FlawOf(c) \in Flaws \union {"none"}
    /\ PageOf(c) \subseteq Anc(c) /\ VariantKept(c)
    /\ FlawOf(c) = Rewritten => Rewritten \in {Driver, Gitlink} \/ ~Clean(c)

AllNoted == \A c \in Commits : Noted(c)

(* What origin is, or a sync fetched or advances to, is no rewritten        *)
(* history, and valid, except a tip that was overlooked: main had moved on  *)
(* when the workspace was validated.  No workspace has such an origin as    *)
(* its main.                                                                *)
OriginSound ==
    Clean(origin) /\ \A w \in Workspaces : main[w] = origin => Publishable(origin)

TipsSound == \A w \in Workspaces : pc[w] \in Holding => Clean(Far(w))

Overlooked(w) == cand[w] = Tip(w) /\ main[w] # Tip(w) /\ Far(w) \in Anc(Tip(w))

CandSound(w) == Clean(cand[w]) /\ (Publishable(cand[w]) \/ Overlooked(w))

CandsSound == \A w \in Workspaces : pc[w] = "advance" => CandSound(w)

(* What two workspaces have, origin has: there is no other way from one to  *)
(* the other.                                                               *)
Own(w) == Anc(main[w]) \union (IF pc[w] = "advance" THEN Anc(cand[w]) ELSE {})

Private ==
    rewinds = 0 =>
        \A v, w \in Workspaces : v # w => Own(v) \intersect Own(w) \subseteq Anc(origin)

PageInv == LineInv /\ AllNoted /\ OriginSound /\ TipsSound /\ CandsSound /\ Private

-----------------------------------------------------------------------------
(* What a step adds to the history.                                         *)
Olds(r) == UNION {Anc(c) : c \in ToSet(r.parents)}

PageSound(r) ==
    /\ r.flaw \in Flaws \union {"none"}
    /\ r.page \subseteq r.anc
    /\ \/ r.page = {Len(commit) + 1}
       \/ \A e \in Olds(r) : KeptIn(r.page, Olds(r), e)
    /\ r.flaw = Rewritten =>
          \/ Rewritten \in {Driver, Gitlink}
          \/ Len(r.parents) = 1 /\ ~IsPrefix(LogOf(r.parents[1]), r.log)
          \/ \E x \in Olds(r) : Rewrites(x)

NotesGrow ==
    \/ commit' = commit
    \/ \E r : commit' = Append(commit, r) /\ Sound(r) /\ PageSound(r)

LEMMA NotesGrowLines == NotesGrow => Grows
BY DEF NotesGrow, Grows

LEMMA OldNotesStay ==
  ASSUME LineInv, NotesGrow
  PROVE  /\ Commits \subseteq Commits'
         /\ \A c \in Commits :
              /\ commit'[c] = commit[c] /\ Anc(c)' = Anc(c) /\ PageOf(c)' = PageOf(c)
              /\ FlawOf(c)' = FlawOf(c)
              /\ Anc(c) \subseteq Commits /\ (Rewrites(c)' <=> Rewrites(c))
<1>1. Commits \subseteq Commits' /\ \A c \in Commits : commit'[c] = commit[c]
  <2>1. CASE commit' = commit
    BY <2>1 DEF Commits
  <2>2. CASE commit' # commit
    <3>1. PICK r : commit' = Append(commit, r)
      BY <2>2 DEF NotesGrow
    <3>. QED BY <3>1, OldCommitsStay DEF Commits, LineInv
  <2>. QED BY <2>1, <2>2
<1>2. ASSUME NEW c \in Commits PROVE Rewrites(c)' <=> Rewrites(c)
  <2>1. commit[c].parents \in Seq(Commits)
    BY DEF LineInv, AllRecorded, Recorded
  <2>2. CASE Len(commit[c].parents) = 1
    <3>1. commit[c].parents[1] \in Commits
      BY <2>1, <2>2
    <3>. QED BY <1>1, <3>1 DEF Rewrites, LogOf
  <2>3. CASE Len(commit[c].parents) # 1
    BY <1>1, <2>3 DEF Rewrites
  <2>. QED BY <2>2, <2>3
<1>3. \A c \in Commits : Anc(c) \subseteq Commits
  BY DEF LineInv, HistoryInv, Ancestry, AncestorsOf, Anc, Commits
<1>. QED BY <1>1, <1>2, <1>3 DEF Anc, PageOf, FlawOf

(* What held of a commit still holds.                                       *)
LEMMA OldCleanStays ==
  ASSUME LineInv, NotesGrow, NEW c \in Commits
  PROVE  (Clean(c)' <=> Clean(c)) /\ (Publishable(c)' <=> Publishable(c))
BY OldNotesStay DEF Clean, Publishable

LEMMA OldKept ==
  ASSUME LineInv, NotesGrow, NEW page, NEW A, A \subseteq Commits, NEW e \in Commits
  PROVE  KeptIn(page, A, e)' <=> KeptIn(page, A, e)
BY OldNotesStay DEF KeptIn

LEMMA OldNoted ==
  ASSUME LineInv, AllNoted, NotesGrow, NEW c \in Commits
  PROVE  Noted(c)'
<1>1. Noted(c)
  BY DEF AllNoted
<1>2. /\ Anc(c)' = Anc(c) /\ PageOf(c)' = PageOf(c) /\ FlawOf(c)' = FlawOf(c)
      /\ Anc(c) \subseteq Commits
  BY OldNotesStay
<1>3. PICK page, A : page = PageOf(c) /\ A = Anc(c)
  OBVIOUS
<1>4. VariantKept(c)'
  <2>1. \A e \in A : KeptIn(page, A, e)'
    BY <1>1, <1>2, <1>3, OldKept DEF Noted, VariantKept
  <2>. QED BY <2>1, <1>2, <1>3 DEF VariantKept, KeptIn
<1>. QED BY <1>1, <1>2, <1>4, OldCleanStays DEF Noted

LEMMA NotesStillGrow ==
  ASSUME LineInv, AllNoted, NotesGrow
  PROVE  AllNoted'
<1>1. CASE commit' = commit
  BY <1>1, OldNoted DEF AllNoted, Commits
<1>2. CASE commit' # commit
  <2>0. PICK n : n = Len(commit) + 1
    OBVIOUS
  <2>1. PICK r : commit' = Append(commit, r) /\ Sound(r) /\ PageSound(r)
    BY <1>2 DEF NotesGrow
  <2>2. Len(commit) \in Nat /\ Len(commit') = n /\ commit'[n] = r
    BY <2>0, <2>1, OldCommitsStay DEF LineInv
  <2>3. PICK O : O = Olds(r)
    OBVIOUS
  <2>4. O \subseteq Commits /\ n \notin O
    <3>1. ToSet(r.parents) \subseteq Commits
      <4>1. r.parents \in Seq(Commits)
        BY <2>1 DEF Sound
      <4>. QED BY <4>1 DEF ToSet
    <3>2. \A c \in Commits : Anc(c) \subseteq Commits
      BY OldNotesStay
    <3>3. O \subseteq Commits
      BY <2>3, <3>1, <3>2 DEF Olds
    <3>4. n \notin Commits
      BY <2>0, <2>2 DEF Commits
    <3>. QED BY <3>3, <3>4
  <2>5. Anc(n)' = O \union {n} /\ PageOf(n)' = r.page /\ FlawOf(n)' = r.flaw
    BY <2>0, <2>1, <2>2, <2>3 DEF Sound, Olds, Anc, PageOf, FlawOf
  <2>6. ASSUME NEW e \in O \union {n} PROVE KeptIn(r.page, O \union {n}, e)'
    <3>. SUFFICES ASSUME PageOf(e)' = {e}, e \notin r.page
                  PROVE  \E f \in (O \union {n}) \ {e} : PageOf(f)' = {f} /\ e \in Anc(f)'
      BY DEF KeptIn
    <3>1. e \in O
      BY <2>5
    <3>2. CASE r.page = {n}
      BY <3>1, <3>2, <2>4, <2>5
    <3>3. CASE r.page # {n}
      <4>1. KeptIn(r.page, O, e)
        BY <3>1, <3>3, <2>0, <2>1, <2>3 DEF PageSound
      <4>2. KeptIn(r.page, O, e)'
        BY <4>1, <3>1, <2>4, OldKept
      <4>. QED BY <4>2 DEF KeptIn
    <3>. QED BY <3>2, <3>3
  <2>7. VariantKept(n)'
    BY <2>5, <2>6 DEF VariantKept, KeptIn
  <2>8. r.flaw = Rewritten => Rewritten \in {Driver, Gitlink} \/ ~Clean(n)'
    <3>1. ASSUME Len(r.parents) = 1, ~IsPrefix(LogOf(r.parents[1]), r.log)
          PROVE  ~Clean(n)'
      <4>1. r.parents[1] \in Commits
        BY <2>1, <3>1 DEF Sound
      <4>2. LogOf(r.parents[1])' = LogOf(r.parents[1])
        BY <4>1, OldNotesStay DEF LogOf
      <4>3. Rewrites(n)'
        BY <2>2, <3>1, <4>2 DEF Rewrites, LogOf
      <4>. QED BY <4>3, <2>5 DEF Clean
    <3>2. ASSUME NEW x \in O, Rewrites(x) PROVE ~Clean(n)'
      <4>1. Rewrites(x)'
        BY <3>2, <2>4, OldNotesStay
      <4>. QED BY <4>1, <2>5 DEF Clean
    <3>. QED BY <2>1, <2>3, <3>1, <3>2 DEF PageSound
  <2>9. Noted(n)'
    <3>1. r.flaw \in Flaws \union {"none"} /\ r.page \subseteq O \union {n}
      BY <2>0, <2>1, <2>3 DEF PageSound, Sound, Olds
    <3>. QED BY <3>1, <2>5, <2>7, <2>8 DEF Noted
  <2>10. \A c \in Commits' : c \in Commits \/ c = n
    BY <2>0, <2>2 DEF Commits
  <2>. QED BY <2>9, <2>10, OldNoted DEF AllNoted
<1>. QED BY <1>1, <1>2

-----------------------------------------------------------------------------
(* What a step does to origin and to one workspace, as far as the flaws go. *)
OriginStaysSound ==
    \/ origin' = origin
    \/ /\ rewinds' = rewinds + 1 /\ UNCHANGED <<commit, main>>
       /\ origin' \in Anc(origin) /\ Unflawed
    \/ /\ Clean(origin)'
       /\ \/ Publishable(origin)'
          \/ /\ \E w \in Workspaces : Overtaken(w) /\ origin' = Tip(w)
             /\ FlawOf(origin)' # Rewritten
             /\ \A v \in Workspaces : main'[v] # origin'

Behaves(v) ==
    /\ pc'[v] = "advance" =>
          \/ pc[v] = "advance" /\ cand'[v] = cand[v] /\ tips'[v] = tips[v] /\ Stays(v)
          \/ CandSound(v)'
    /\ main'[v] = main[v] \/ main'[v] \notin Commits \/ Publishable(main[v])'
    /\ pc[v] = "advance" /\ commit' = commit =>
          (FlawOf(main[v]) = Gitlink) = (FlawOf(main[v])' = Gitlink)

(* A workspace gets commits from origin, or the new one of the step.        *)
NewIn(v, w) == IF v = w THEN Commits' \ Commits ELSE {}
OwnMoves ==
    rewinds' = 0 =>
        \E w : \A v \in Workspaces : Own(v)' \subseteq Own(v) \union Anc(origin) \union NewIn(v, w)

PageShape ==
    /\ LineShape /\ NotesGrow /\ OriginStaysSound /\ OwnMoves
    /\ \A v \in Workspaces : Behaves(v)

LEMMA OwnExists ==
  ASSUME PageInv, NEW v \in Workspaces
  PROVE  Own(v) \subseteq Commits
<1>1. \A c \in Commits : Anc(c) \subseteq Commits
  BY DEF PageInv, LineInv, HistoryInv, Ancestry, AncestorsOf, Anc, Commits
<1>2. main[v] \in Commits /\ (pc[v] = "advance" => cand[v] \in Commits)
  BY DEF PageInv, LineInv, HistoryInv, NamesExist, CandExists
<1>. QED BY <1>1, <1>2 DEF Own

LEMMA StaysPrivate ==
  ASSUME PageInv, PageShape, LineInv'
  PROVE  Private'
<1>. SUFFICES ASSUME rewinds' = 0, NEW v \in Workspaces, NEW u \in Workspaces, v # u,
                     NEW x \in Own(v)' \intersect Own(u)'
              PROVE  x \in Anc(origin)'
  BY DEF Private
<1>1. PICK w : \A a \in Workspaces : Own(a)' \subseteq Own(a) \union Anc(origin) \union NewIn(a, w)
  BY DEF PageShape, OwnMoves
<1>2. rewinds = 0 /\ (origin' = origin \/ origin \in commit'[origin'].anc) /\ origin' \in Commits'
  BY DEF PageShape, LineShape, OriginMoves, PageInv, LineInv, RewoundUnflawed, HistoryInv,
         NamesExist
<1>3. Own(v) \subseteq Commits /\ Own(u) \subseteq Commits
  BY OwnExists
<1>4. Anc(origin) \subseteq Commits /\ Anc(origin) \subseteq commit'[origin'].anc
  <2>1. origin \in Commits
    BY DEF PageInv, LineInv, HistoryInv, NamesExist
  <2>2. commit'[origin].anc = Anc(origin) /\ Anc(origin) \subseteq Commits
    BY <2>1, OldNotesStay DEF PageInv, PageShape, Anc
  <2>3. CASE origin \in commit'[origin'].anc
    BY <1>2, <2>2, <2>3 DEF LineInv, HistoryInv, Ancestry, AncestorsOf, Commits
  <2>. QED BY <1>2, <2>2, <2>3
<1>5. x \in Anc(origin) \/ (x \in Own(v) /\ x \in Own(u))
  <2>1. x \in Own(v) \union Anc(origin) \union NewIn(v, w)
    BY <1>1
  <2>2. x \in Own(u) \union Anc(origin) \union NewIn(u, w)
    BY <1>1
  <2>3. NewIn(v, w) = {} \/ NewIn(u, w) = {}
    BY DEF NewIn
  <2>4. x \in Commits
    BY <1>3, <1>4, <2>1, <2>2, <2>3
  <2>5. x \notin NewIn(v, w) /\ x \notin NewIn(u, w)
    BY <2>4 DEF NewIn
  <2>. QED BY <2>1, <2>2, <2>5
<1>6. x \in Anc(origin)
  BY <1>2, <1>5 DEF PageInv, Private
<1>. QED BY <1>4, <1>6 DEF Anc

LEMMA StaysOverlooked ==
  ASSUME PageInv, PageShape, NEW v \in Workspaces, pc[v] = "advance",
         cand'[v] = cand[v], tips'[v] = tips[v], Stays(v), Overlooked(v)
  PROVE  Overlooked(v)'
<1>1. PICK t, f : t = Tip(v) /\ f = Far(v)
  OBVIOUS
<1>2. t \in Commits /\ Tip(v)' = t /\ Far(v)' = f
  BY <1>1, HeldTips DEF PageInv, LineInv, Holding, Tip, Far
<1>3. f \in Anc(t)'
  BY <1>1, <1>2, OldNotesStay DEF PageInv, PageShape, Overlooked
<1>4. cand'[v] = t /\ main'[v] # t
  BY <1>1, <1>2 DEF Overlooked, Stays
<1>. QED BY <1>2, <1>3, <1>4 DEF Overlooked, Anc

LEMMA PageShapeKeepsInv ==
  ASSUME PageInv, PageShape, LineInv'
  PROVE  PageInv'
<1>1. AllNoted'
  BY NotesStillGrow DEF PageInv, PageShape
<1>2. /\ \A c \in Commits : /\ commit'[c] = commit[c] /\ FlawOf(c)' = FlawOf(c)
                            /\ Anc(c)' = Anc(c) /\ Anc(c) \subseteq Commits
                            /\ (Rewrites(c)' <=> Rewrites(c))
      /\ \A c \in Commits : /\ Clean(c)' <=> Clean(c)
                            /\ Publishable(c)' <=> Publishable(c)
  BY OldNotesStay, OldCleanStays DEF PageInv, PageShape
<1>3. origin \in Commits /\ \A v \in Workspaces : main[v] \in Commits
  BY DEF PageInv, LineInv, HistoryInv, NamesExist
<1>4. \A v \in Workspaces : pc[v] \in Holding => Tip(v) \in Commits /\ Far(v) \in Commits
  BY HeldTips DEF PageInv, LineInv
<1>5. OriginSound'
  <2>1. CASE origin' = origin
    <3>1. PICK o : o = origin
      OBVIOUS
    <3>2. Clean(o)'
      BY <3>1, <1>2, <1>3 DEF PageInv, OriginSound
    <3>3. ASSUME NEW v \in Workspaces, main'[v] = o PROVE Publishable(o)'
      <4>1. CASE main'[v] = main[v]
        <5>1. Publishable(o)
          BY <3>1, <3>3, <4>1 DEF PageInv, OriginSound
        <5>. QED BY <5>1, <3>1, <1>2, <1>3
      <4>2. CASE Publishable(main[v])'
        BY <4>2, <3>3 DEF Publishable, FlawOf
      <4>. QED BY <3>1, <3>3, <4>1, <4>2, <1>3 DEF PageShape, Behaves
    <3>. QED BY <2>1, <3>1, <3>2, <3>3 DEF OriginSound, Clean, Publishable, FlawOf, Anc
  <2>2. CASE commit' = commit /\ origin' \in Anc(origin) /\ Unflawed
    <3>1. PICK o : o = origin'
      OBVIOUS
    <3>2. o \in Commits /\ Anc(o) \subseteq Anc(origin)
      BY <2>2, <3>1, <1>2, <1>3 DEF PageInv, LineInv, HistoryInv, Ancestry, AncestorsOf, Anc, Commits
    <3>3. Clean(o)
      BY <3>2 DEF PageInv, OriginSound, Clean
    <3>4. Publishable(o)
      BY <3>2, <2>2 DEF Unflawed, Publishable, FlawOf
    <3>5. Clean(o)' /\ Publishable(o)'
      BY <3>2, <3>3, <3>4, <1>2
    <3>. QED BY <3>1, <3>5 DEF OriginSound, Clean, Publishable, FlawOf, Anc
  <2>3. CASE Clean(origin)' /\ (Publishable(origin)' \/ \A v \in Workspaces : main'[v] # origin')
    BY <2>3 DEF OriginSound
  <2>. QED BY <2>1, <2>2, <2>3 DEF PageShape, OriginStaysSound
<1>6. TipsSound'
  <2>. SUFFICES ASSUME NEW v \in Workspaces, pc'[v] \in Holding
                PROVE  Clean(Far(v))'
    BY DEF TipsSound
  <2>1. CASE pc[v] \in Holding /\ tips'[v] = tips[v]
    <3>1. PICK f : f = Far(v)
      OBVIOUS
    <3>2. f \in Commits /\ Far(v)' = f
      BY <2>1, <3>1, <1>4 DEF Far
    <3>3. Clean(f)'
      BY <2>1, <3>1, <3>2, <1>2 DEF PageInv, TipsSound
    <3>. QED BY <3>2, <3>3 DEF Clean, Anc
  <2>2. CASE Reads(v)
    <3>1. PICK o : o = origin
      OBVIOUS
    <3>2. Far(v)' = o
      BY <2>2, <3>1 DEF Reads, Far
    <3>3. Clean(o)'
      BY <3>1, <1>2, <1>3 DEF PageInv, OriginSound
    <3>. QED BY <3>2, <3>3 DEF Clean, Anc
  <2>. QED BY <2>1, <2>2 DEF PageShape, LineShape, Keeps
<1>7. CandsSound'
  <2>. SUFFICES ASSUME NEW v \in Workspaces, pc'[v] = "advance"
                PROVE  CandSound(v)'
    BY DEF CandsSound
  <2>1. CASE pc[v] = "advance" /\ cand'[v] = cand[v] /\ tips'[v] = tips[v] /\ Stays(v)
    <3>1. PICK c : c = cand[v]
      OBVIOUS
    <3>2. c \in Commits /\ Clean(c) /\ (Publishable(c) \/ Overlooked(v))
      BY <2>1, <3>1 DEF PageInv, LineInv, HistoryInv, CandExists, CandsSound, CandSound
    <3>3. Clean(c)' /\ (Publishable(c)' \/ Overlooked(v)')
      BY <2>1, <3>2, <1>2, StaysOverlooked
    <3>4. cand'[v] = c
      BY <2>1, <3>1
    <3>. QED BY <3>3, <3>4 DEF CandSound, Clean, Publishable, FlawOf, Anc
  <2>. QED BY <2>1 DEF PageShape, Behaves
<1>8. Private'
  BY StaysPrivate
<1>. QED BY <1>1, <1>5, <1>6, <1>7, <1>8 DEF PageInv

(* The step of OnlyValidPublished.                                          *)
PublishesValid ==
    /\ Pushed => \/ Valid(origin')
                 \/ /\ \E w \in Workspaces : Overtaken(w) /\ origin' = Tip(w)
                    /\ commit'[origin'].flaw # Rewritten
    /\ \A w \in Workspaces :
         /\ Converging(w) => Valid(main[w])
         /\ pc[w] = "advance" /\ commit' = commit =>
              (commit[main[w]].flaw = Gitlink) = (commit'[main'[w]].flaw = Gitlink)

LEMMA PageShapePublishesValid ==
  ASSUME PageInv, PageShape
  PROVE  PublishesValid
<1>1. rewinds + 1 # rewinds
  BY DEF PageInv, LineInv, RewoundUnflawed
<1>2. ASSUME Pushed
      PROVE  \/ Valid(origin')
             \/ /\ \E w \in Workspaces : Overtaken(w) /\ origin' = Tip(w)
                /\ commit'[origin'].flaw # Rewritten
  BY <1>1, <1>2 DEF Pushed, PageShape, OriginStaysSound, Publishable, FlawOf, Valid
<1>3. ASSUME NEW w \in Workspaces, Converging(w) PROVE Valid(main[w])
  <2>1. main[w] = origin /\ origin \in Commits
    BY <1>3 DEF Converging, PageInv, LineInv, HistoryInv, NamesExist
  <2>2. commit'[origin] = commit[origin]
    BY <2>1, OldNotesStay DEF PageInv, PageShape
  <2>. QED BY <2>1, <2>2 DEF PageInv, OriginSound, Publishable, FlawOf, Valid
<1>4. \A w \in Workspaces : pc[w] = "advance" /\ commit' = commit =>
         (commit[main[w]].flaw = Gitlink) = (commit'[main'[w]].flaw = Gitlink)
  BY DEF PageShape, Behaves, FlawOf
<1>. QED BY <1>2, <1>3, <1>4 DEF PublishesValid

-----------------------------------------------------------------------------
(* Every action has that shape.                                             *)
LEMMA AloneBehaves ==
  ASSUME PageInv, NotesGrow, NEW v \in Workspaces, Alone(v)
  PROVE  Behaves(v) /\ Own(v)' = Own(v)
<1>1. main[v] \in Commits /\ (pc[v] = "advance" => cand[v] \in Commits)
  BY DEF PageInv, LineInv, HistoryInv, NamesExist, CandExists
<1>2. \A c \in Commits : commit'[c] = commit[c]
  BY OldNotesStay DEF PageInv
<1>3. FlawOf(main[v])' = FlawOf(main[v])
  BY <1>1, <1>2 DEF Alone, FlawOf
<1>4. Own(v)' = Own(v)
  BY <1>1, <1>2 DEF Alone, Own, Anc
<1>. QED BY <1>3, <1>4 DEF Alone, Behaves, Stays

(* Only one workspace gets commits, and its own new one or what origin has. *)
LEMMA OneOwns ==
  ASSUME PageInv, NotesGrow, NEW w \in Workspaces, \A v \in Workspaces \ {w} : Alone(v),
         rewinds' = 0 => Own(w)' \subseteq Own(w) \union Anc(origin) \union (Commits' \ Commits)
  PROVE  OwnMoves
<1>. SUFFICES ASSUME rewinds' = 0, NEW v \in Workspaces
              PROVE  Own(v)' \subseteq Own(v) \union Anc(origin) \union NewIn(v, w)
  BY DEF OwnMoves
<1>1. CASE v = w
  BY <1>1 DEF NewIn
<1>2. CASE v # w
  BY <1>2, AloneBehaves
<1>. QED BY <1>1, <1>2

LEMMA EndPages ==
  ASSUME PageInv, NEW w \in Workspaces, UNCHANGED <<commit, main, remote>>,
         pc'[w] # "advance", \A v \in Workspaces \ {w} : Alone(v), LineShape
  PROVE  PageShape
<1>1. NotesGrow /\ OriginStaysSound
  BY DEF NotesGrow, OriginStaysSound, remote
<1>2. FlawOf(main[w])' = FlawOf(main[w])
  BY DEF FlawOf
<1>3. Behaves(w)
  BY <1>2 DEF Behaves
<1>4. Own(w)' \subseteq Own(w)
  BY DEF Own, Anc
<1>. QED BY <1>1, <1>3, <1>4, AloneBehaves, OneOwns DEF PageShape

LEMMA NewCommitPages ==
  ASSUME PageInv, NEW w \in Workspaces, NEW log, NEW page, NEW flaw,
         NewCommit(w, log, page, flaw), \E S : log \in Seq(S),
         flaw = "none" => Lines(main[w]) \subseteq ToSet(log),
         flaw \in Flaws \union {"none"},
         page = {Len(commit) + 1} \/ page = PageOf(main[w]),
         flaw = Rewritten => flaw = FlawOf(main[w]) \/ ~IsPrefix(LogOf(main[w]), log),
         LineShape
  PROVE  PageShape
<1>1. PICK n : n = Len(commit) + 1
  OBVIOUS
<1>. DEFINE r == [parents |-> <<main[w]>>, anc |-> Anc(main[w]) \union {n},
                  log |-> log, page |-> page, flaw |-> flaw]
<1>2. /\ commit' = Append(commit, r) /\ main' = [main EXCEPT ![w] = n]
      /\ UNCHANGED <<remote, run, kept>>
  BY <1>1 DEF NewCommit
<1>3. main[w] \in Commits /\ main \in [Workspaces -> Commits] /\ Noted(main[w])
  BY DEF PageInv, LineInv, HistoryInv, NamesExist, AllNoted
<1>4. /\ r.parents \in Seq(Commits) /\ ToSet(r.parents) = {main[w]}
      /\ Len(r.parents) = 1 /\ r.parents[1] = main[w]
  BY <1>3 DEF ToSet
<1>5. r.anc = Anc(main[w]) \union {n} /\ r.log = log /\ r.page = page /\ r.flaw = flaw
  OBVIOUS
<1>. HIDE DEF r
<1>6. Olds(r) = Anc(main[w])
  BY <1>4 DEF Olds
<1>7. Sound(r)
  <2>1. r.anc = (UNION {Anc(c) : c \in ToSet(r.parents)}) \union {Len(commit) + 1}
    BY <1>1, <1>4, <1>5
  <2>. QED BY <1>4, <1>5, <2>1 DEF Sound
<1>8. PageSound(r)
  <2>1. page = {n} \/ \A e \in Olds(r) : KeptIn(page, Olds(r), e)
    BY <1>1, <1>3, <1>6 DEF Noted, VariantKept
  <2>2. page \subseteq Anc(main[w]) \union {n}
    BY <1>1, <1>3 DEF Noted
  <2>3. flaw = Rewritten =>
           \/ Rewritten \in {Driver, Gitlink} \/ ~IsPrefix(LogOf(main[w]), log)
           \/ \E x \in Anc(main[w]) : Rewrites(x)
    BY <1>3 DEF Noted, Clean
  <2>. QED BY <1>1, <1>4, <1>5, <1>6, <2>1, <2>2, <2>3 DEF PageSound
<1>9. NotesGrow
  BY <1>2, <1>7, <1>8 DEF NotesGrow
<1>10. Behaves(w) /\ Own(w)' \subseteq Own(w) \union (Commits' \ Commits)
  <2>1. /\ commit'[n] = r /\ main'[w] = n /\ n \in Commits' \ Commits /\ commit' # commit
        /\ \A c \in Commits : commit'[c] = commit[c]
    BY <1>1, <1>2, <1>3, OldCommitsStay DEF PageInv, LineInv, Commits
  <2>2. pc'[w] = pc[w] /\ tips'[w] = tips[w] /\ cand'[w] = cand[w]
    BY <1>2 DEF run
  <2>3. main[w] \in commit'[n].anc
    BY <1>3, <1>5, <2>1 DEF PageInv, LineInv, HistoryInv, Ancestry, AncestorsOf, Anc, Commits
  <2>4. Stays(w)
    BY <2>1, <2>3 DEF Stays
  <2>5. Behaves(w)
    BY <2>1, <2>2, <2>4 DEF Behaves
  <2>6. pc[w] = "advance" => cand[w] \in Commits
    BY DEF PageInv, LineInv, HistoryInv, CandExists
  <2>7. Own(w)' \subseteq Own(w) \union {n}
    BY <1>5, <2>1, <2>2, <2>6 DEF Own, Anc
  <2>. QED BY <2>1, <2>5, <2>7
<1>11. \A v \in Workspaces \ {w} : Alone(v)
  BY <1>2, <1>3 DEF Alone, kept, run
<1>12. OriginStaysSound
  BY <1>2 DEF OriginStaysSound, remote
<1>. QED BY <1>9, <1>10, <1>11, <1>12, AloneBehaves, OneOwns DEF PageShape

LEMMA EditPages ==
  ASSUME PageInv, NEW w \in Workspaces,
         EditKnowledge(w) \/ Repair(w) \/ CommitElsewhere(w)
  PROVE  PageShape
<1>. DEFINE c == Len(commit) + 1
            log == commit[main[w]].log
<1>1. main[w] \in Commits /\ Recorded(main[w]) /\ Noted(main[w])
  BY DEF PageInv, AllNoted, LineInv, HistoryInv, NamesExist, AllRecorded
<1>2. (\E S : log \in Seq(S)) /\ Lines(main[w]) = ToSet(log) /\ LogOf(main[w]) = log
  BY <1>1 DEF Recorded, LogOf, Lines
<1>3. /\ \E S : Append(log, <<c>>) \in Seq(S)
      /\ Lines(main[w]) \subseteq ToSet(Append(log, <<c>>))
  BY <1>2, AppendKeepsLines
<1>4. commit[main[w]].flaw = FlawOf(main[w]) /\ FlawOf(main[w]) \in Flaws \union {"none"}
  BY <1>1 DEF Noted, FlawOf
<1>l. LineShape
  BY EditLines DEF PageInv
<1>5. ASSUME NEW flaw, NewCommit(w, Append(log, <<c>>), {c}, flaw),
             flaw = FlawOf(main[w]) \/ flaw \in (Flaws \union {"none"}) \ {Rewritten}
      PROVE  PageShape
  <2>1. flaw \in Flaws \union {"none"} /\ (flaw = Rewritten => flaw = FlawOf(main[w]))
    BY <1>4, <1>5
  <2>2. {c} = {Len(commit) + 1}
    OBVIOUS
  <2>. HIDE DEF c, log
  <2>. QED BY <1>l, <1>3, <1>5, <2>1, <2>2, NewCommitPages
<1>6. CASE /\ Rewritten \in Flaws /\ ~IsPrefix(log, <<<<c>>>>)
           /\ NewCommit(w, <<<<c>>>>, {c}, Rewritten)
  <2>1. <<<<c>>>> \in Seq({<<c>>}) /\ Rewritten # "none"
    BY <1>6, KnowledgeSyncAssumption
  <2>2. {c} = {Len(commit) + 1}
    OBVIOUS
  <2>. HIDE DEF c, log
  <2>. QED BY <1>l, <1>2, <1>6, <2>1, <2>2, NewCommitPages
<1>7. CASE CommitElsewhere(w)
  <2>1. NewCommit(w, log, PageOf(main[w]), FlawOf(main[w]))
    BY <1>7 DEF CommitElsewhere, PageOf, FlawOf
  <2>. HIDE DEF c, log
  <2>. QED BY <1>l, <1>2, <1>4, <2>1, NewCommitPages
<1>8. CASE Repair(w)
  <2>1. /\ NewCommit(w, Append(log, <<c>>), {c}, "none")
        /\ FlawOf(main[w]) \in Flaws \ {Rewritten}
    BY <1>8 DEF Repair, FlawOf
  <2>2. "none" # Rewritten
    BY KnowledgeSyncAssumption
  <2>. QED BY <1>5, <2>1, <2>2
<1>9. CASE EditKnowledge(w)
  BY <1>4, <1>5, <1>6, <1>9 DEF EditKnowledge
<1>. QED BY <1>7, <1>8, <1>9

LEMMA RewindPages ==
  ASSUME PageInv, Rewind
  PROVE  PageShape
<1>1. UNCHANGED <<commit, main, run, kept>> /\ NotesGrow
  BY DEF Rewind, NotesGrow
<1>2. OriginStaysSound
  BY DEF Rewind, OriginStaysSound
<1>3. \A v \in Workspaces : Alone(v)
  BY <1>1 DEF Alone, run, kept
<1>4. OwnMoves
  BY DEF OwnMoves, Rewind, PageInv, LineInv, RewoundUnflawed
<1>5. LineShape
  BY RewindLines DEF PageInv
<1>. QED BY <1>1, <1>2, <1>3, <1>4, <1>5, AloneBehaves DEF PageShape

LEMMA FetchPages ==
  ASSUME PageInv, NEW w \in Workspaces, Fetch(w)
  PROVE  PageShape
<1>1. /\ pc' = [pc EXCEPT ![w] = "prepare"]
      /\ tips' = [tips EXCEPT ![w] = [local |-> main[w], remote |-> origin]]
      /\ UNCHANGED <<commit, main, remote, cand>>
      /\ \/ main[w] = origin /\ refs' = refs
         \/ refs' = [refs EXCEPT ![w] = @ \union {main[w], origin}]
  BY DEF Fetch, FetchTips, Goes, KeepTips
<1>2. refs \in [Workspaces -> SUBSET Commits]
  BY DEF PageInv, LineInv, HistoryInv, NamesExist
<1>3. \A v \in Workspaces \ {w} : Alone(v)
  BY <1>1, <1>2 DEF Alone, PageInv, LineInv, HistoryInv, RunTyped
<1>4. pc'[w] # "advance"
  BY <1>1 DEF PageInv, LineInv, HistoryInv, RunTyped
<1>. QED BY <1>1, <1>3, <1>4, EndPages, FetchLines DEF PageInv

(* A sync that gives up, converges or tries again.                          *)
LEMMA EndingPages ==
  ASSUME PageInv, NEW w \in Workspaces,
         GiveUp(w) \/ Reread(w) \/ Verify(w)
  PROVE  PageShape
<1>1. /\ UNCHANGED <<commit, main, remote>>
      /\ \/ refs' = refs \/ refs' = [refs EXCEPT ![w] = {}]
         \/ refs' = [refs EXCEPT ![w] = @ \union {main[w], origin}]
      /\ \/ Ends(w)
         \/ /\ pc' = [pc EXCEPT ![w] = "fetch"]
            /\ tips' = [tips EXCEPT ![w] = [local |-> 0, remote |-> 0]]
            /\ cand' = [cand EXCEPT ![w] = 0]
  BY DEF GiveUp, Reread, Verify, Converge, Retry, RefsReached, KeepTips, Goes, NoTips, kept
<1>2. refs \in [Workspaces -> SUBSET Commits]
  BY DEF PageInv, LineInv, HistoryInv, NamesExist
<1>3. \A v \in Workspaces \ {w} : refs'[v] = refs[v] /\ main'[v] = main[v]
  BY <1>1, <1>2
<1>4. /\ pc'[w] # "advance"
      /\ \A v \in Workspaces \ {w} : Alone(v)
  <2>1. CASE Ends(w)
    BY <1>3, <2>1, EndsLeave DEF Alone, PageInv, Holding
  <2>2. CASE ~Ends(w)
    BY <1>1, <1>3, <2>2 DEF Alone, PageInv, LineInv, HistoryInv, RunTyped
  <2>. QED BY <2>1, <2>2
<1>5. LineShape
  BY SyncLines DEF Sync, PageInv
<1>. QED BY <1>1, <1>4, <1>5, EndPages

(* What the checks of a candidate accept.                                   *)
LEMMA ValidCleanPublishable ==
  ASSUME PageInv, NEW c \in Commits, ValidLayout(commit[c]), Clean(c)
  PROVE  Publishable(c)
<1>1. Noted(c)
  BY DEF PageInv, AllNoted
<1>2. FlawOf(c) \notin {Transformed, Hidden, Irregular, Unparsed, WrongIndex}
  BY DEF ValidLayout, ContentSound, Untransformed, Materialized, Regular, Parses, FlawOf
<1>. QED BY <1>1, <1>2, KnowledgeSyncAssumption DEF Noted, Publishable

LEMMA RangeAppendsClean ==
  ASSUME PageInv, NEW c, NEW d, RangeAppends(d, c), Clean(d)
  PROVE  Clean(c)
BY DEF RangeAppends, Clean, AppendsToParents, Rewrites

(* A candidate is chosen.                                                   *)
LEMMA CandidateBehaves ==
  ASSUME PageInv, NEW w \in Workspaces, pc[w] = "prepare", NEW c \in Commits',
         Candidate(w, c), UNCHANGED <<main, remote, refs>>, NotesGrow, LineShape,
         Clean(c)',
         Publishable(c)' \/ (c = Tip(w) /\ main[w] # Tip(w) /\ Far(w) \in Anc(Tip(w))'),
         rewinds = 0 => Anc(c)' \subseteq Anc(main[w]) \union Anc(origin) \union (Commits' \ Commits)
  PROVE  PageShape
<1>1. /\ cand' = [cand EXCEPT ![w] = c] /\ pc' = [pc EXCEPT ![w] = "advance"]
      /\ tips' = tips
  BY DEF Candidate, Goes
<1>2. cand'[w] = c
  BY <1>1 DEF PageInv, LineInv, HistoryInv, RunTyped
<1>3. CandSound(w)'
  BY <1>1, <1>2 DEF CandSound, Overlooked, Tip, Far, Clean, Publishable, FlawOf, Anc
<1>4. main[w] \in Commits /\ commit'[main[w]] = commit[main[w]]
  <2>1. main[w] \in Commits
    BY DEF PageInv, LineInv, HistoryInv, NamesExist
  <2>. QED BY <2>1, OldNotesStay DEF PageInv
<1>5. Behaves(w)
  BY <1>1, <1>3 DEF Behaves, PageInv, LineInv, HistoryInv, RunTyped
<1>6. \A v \in Workspaces \ {w} : Alone(v)
  BY <1>1 DEF Alone, PageInv, LineInv, HistoryInv, RunTyped
<1>7. ASSUME rewinds' = 0
      PROVE  Own(w)' \subseteq Own(w) \union Anc(origin) \union (Commits' \ Commits)
  <2>1. Anc(c)' \subseteq Anc(main[w]) \union Anc(origin) \union (Commits' \ Commits)
    BY <1>7 DEF remote
  <2>2. Anc(main[w])' = Anc(main[w])
    BY <1>4 DEF Anc
  <2>3. Own(w)' \subseteq Anc(main[w])' \union Anc(c)'
    BY <1>2 DEF Own, Anc
  <2>4. Anc(main[w]) \subseteq Own(w)
    BY DEF Own
  <2>. QED BY <2>1, <2>2, <2>3, <2>4
<1>8. OwnMoves
  BY <1>6, <1>7, OneOwns
<1>. QED BY <1>5, <1>6, <1>8, AloneBehaves DEF PageShape, OriginStaysSound, remote

LEMMA InPlacePages ==
  ASSUME PageInv, NEW w \in Workspaces, PrepareInPlace(w)
  PROVE  PageShape
<1>1. PICK c, f : c = Tip(w) /\ f = Far(w)
  OBVIOUS
<1>2. /\ pc[w] = "prepare" /\ Candidate(w, c) /\ RangeAppends(f, c)
      /\ ValidLayout(commit[main[w]]) /\ UNCHANGED <<commit, main, remote, refs>>
      /\ f = c \/ f \in Anc(c)
  BY <1>1 DEF PrepareInPlace, kept, Same, Ahead
<1>3. c \in Commits /\ f \in Anc(c)
  <2>1. c \in Commits
    BY <1>1, <1>2, HeldTips DEF Holding, PageInv, LineInv
  <2>. QED BY <1>2, <2>1 DEF PageInv, LineInv, HistoryInv, Ancestry, AncestorsOf, Anc, Commits
<1>4. Clean(f) /\ c \in Anc(main[w])
  BY <1>1, <1>2 DEF PageInv, TipsSound, LineInv, TipHeld, Holding
<1>5. Clean(c)
  BY <1>2, <1>4, RangeAppendsClean
<1>6. Publishable(c) \/ (c = Tip(w) /\ main[w] # Tip(w))
  BY <1>1, <1>2, <1>3, <1>5, ValidCleanPublishable
<1>7. NotesGrow /\ LineShape
  BY <1>2, InPlaceLines DEF NotesGrow, PageInv
<1>8. /\ c \in Commits' /\ Clean(c)'
      /\ Publishable(c)' \/ (c = Tip(w) /\ main[w] # Tip(w) /\ Far(w) \in Anc(Tip(w))')
  <2>1. Clean(c)' /\ (Publishable(c) => Publishable(c)')
    BY <1>3, <1>5, <1>7, OldCleanStays DEF PageInv
  <2>2. Far(w) \in Anc(Tip(w))'
    BY <1>1, <1>2, <1>3 DEF Candidate, Anc, Tip
  <2>. QED BY <1>2, <1>3, <1>6, <2>1, <2>2 DEF Commits
<1>9. Anc(c)' \subseteq Anc(main[w])
  <2>1. main[w] \in Commits
    BY DEF PageInv, LineInv, HistoryInv, NamesExist
  <2>. QED BY <2>1, <1>2, <1>4 DEF PageInv, LineInv, HistoryInv, Ancestry, AncestorsOf, Anc, Commits
<1>. QED BY <1>2, <1>7, <1>8, <1>9, CandidateBehaves

LEMMA BehindPages ==
  ASSUME PageInv, NEW w \in Workspaces, PrepareBehind(w)
  PROVE  PageShape
<1>1. PICK f : f = Far(w)
  OBVIOUS
<1>2. /\ pc[w] = "prepare" /\ UNCHANGED <<commit, main, remote, refs>>
      /\ \/ ValidLayout(commit[f]) /\ Candidate(w, f)
         \/ Ends(w)
  BY <1>1 DEF PrepareBehind
<1>3. CASE Ends(w)
  BY <1>2, <1>3, EndsLeave, EndPages, BehindLines DEF Alone, PageInv, Holding
<1>4. CASE ValidLayout(commit[f]) /\ Candidate(w, f)
  <2>1. f \in Commits /\ Clean(f)
    BY <1>1, <1>2, HeldTips DEF Holding, PageInv, LineInv, TipsSound
  <2>2. NotesGrow /\ LineShape
    BY <1>2, BehindLines DEF NotesGrow, PageInv
  <2>4. ASSUME rewinds = 0 PROVE Anc(f)' \subseteq Anc(origin)
    <3>1. f \in Anc(origin) /\ origin \in Commits
      BY <1>1, <1>2, <2>4 DEF PageInv, LineInv, FarReached, Holding, HistoryInv, NamesExist
    <3>. QED BY <1>2, <3>1 DEF PageInv, LineInv, HistoryInv, Ancestry, AncestorsOf, Anc, Commits
  <2>3. f \in Commits' /\ Clean(f)' /\ Publishable(f)'
    BY <1>4, <2>1, <2>2, OldCleanStays, OldNotesStay, ValidCleanPublishable DEF PageInv
  <2>. QED BY <1>2, <1>4, <2>2, <2>3, <2>4, CandidateBehaves
<1>. QED BY <1>2, <1>3, <1>4

(* The commit of a merge: every edit of either side is in its page or was   *)
(* edited upon, and it carries no flaw of the log.                          *)
LEMMA MergePageSound ==
  ASSUME PageInv, NEW w \in Workspaces, pc[w] = "prepare", MergeAllowed(w)
  PROVE  /\ PageSound(Merge(w)) /\ Merge(w).flaw \in {"none", Driver, Gitlink}
         /\ \A x \in Anc(Tip(w)) \union Anc(Far(w)) : ~Rewrites(x)
<1>1. PICK t, f, b, r : t = Tip(w) /\ f = Far(w) /\ b = Base(w) /\ r = Merge(w)
  OBVIOUS
<1>2. t \in Commits /\ f \in Commits
  BY <1>1, HeldTips DEF Holding, PageInv, LineInv
<1>3. b \in Anc(t) /\ b \in Anc(f) /\ b \in Commits
  <2>1. 1 \in Common(t, f)
    BY <1>2 DEF PageInv, LineInv, AllRecorded, Recorded, Common
  <2>2. b \in Common(t, f)
    BY <1>1, <1>2, <2>1, BaseIsCommon DEF PageInv, LineInv, Base
  <2>. QED BY <1>2, <2>2
           DEF Common, PageInv, LineInv, HistoryInv, Ancestry, AncestorsOf, Anc, Commits
<1>4. Anc(b) \subseteq Anc(t) /\ Anc(b) \subseteq Anc(f)
  BY <1>2, <1>3 DEF PageInv, LineInv, HistoryInv, Ancestry, AncestorsOf, Anc, Commits
<1>5. Noted(t) /\ Noted(f) /\ Noted(b)
  BY <1>2, <1>3 DEF PageInv, AllNoted
<1>6. /\ r.parents = <<t, f>> /\ r.anc = Anc(t) \union Anc(f) \union {Len(commit) + 1}
      /\ r.page = MergedPage(w)
      /\ r.flaw = "none" \/ r.flaw = FlawOf(t) \/ r.flaw = FlawOf(f)
  BY <1>1 DEF Merge, MergedFlaw, Carried, FlawOf
<1>7. r.flaw \notin {Transformed, Hidden, Irregular, Unparsed, WrongIndex}
  BY <1>1 DEF MergeAllowed, ValidLayout, ContentSound, Untransformed, Materialized, Regular, Parses
<1>8. r.flaw \in Flaws \union {"none"}
  BY <1>5, <1>6 DEF Noted
<1>9a. ASSUME NEW x \in Anc(t) \union Anc(f) PROVE ~Rewrites(x)
  <2>1. CASE x \in Anc(f)
    BY <1>1, <2>1 DEF PageInv, TipsSound, Holding, Clean
  <2>2. CASE x \notin Anc(f)
    <3>1. x \in Anc(t) \ Anc(b)
      BY <1>4, <2>2
    <3>2. AppendsToParents(x)
      BY <1>1, <3>1 DEF MergeAllowed, RangeAppends
    <3>. QED BY <3>2 DEF AppendsToParents, Rewrites
  <2>. QED BY <2>1, <2>2
<1>9. r.flaw \in {"none", Driver, Gitlink}
  <2>1. r.flaw = Rewritten => Rewritten \in {Driver, Gitlink}
    <3>1. r.flaw = Rewritten => FlawOf(t) = Rewritten \/ FlawOf(f) = Rewritten
      BY <1>6, KnowledgeSyncAssumption
    <3>2. Clean(t) /\ Clean(f)
      BY <1>9a DEF Clean
    <3>. QED BY <1>5, <3>1, <3>2 DEF Noted
  <2>. QED BY <1>7, <1>8, <2>1, KnowledgeSyncAssumption
<1>10. \/ r.page = PageOf(t) /\ PageOf(f) = PageOf(b)
       \/ r.page = PageOf(f) /\ PageOf(t) = PageOf(b)
       \/ r.page = PageOf(t) \union PageOf(f)
  BY <1>1, <1>6 DEF MergedPage, Changed
<1>11. Olds(r) = Anc(t) \union Anc(f)
  <2>1. ToSet(r.parents) = {t, f}
    BY <1>6 DEF ToSet
  <2>. QED BY <2>1 DEF Olds
<1>12. ASSUME NEW e \in Anc(t) \union Anc(f)
       PROVE  KeptIn(r.page, Anc(t) \union Anc(f), e)
  <2>. SUFFICES ASSUME PageOf(e) = {e}, e \notin r.page
                PROVE  \E g \in (Anc(t) \union Anc(f)) \ {e} : PageOf(g) = {g} /\ e \in Anc(g)
    BY DEF KeptIn
  <2>1. CASE e \in Anc(t) /\ e \notin PageOf(t)
    BY <1>5, <2>1 DEF Noted, VariantKept, KeptIn
  <2>2. CASE e \in Anc(f) /\ e \notin PageOf(f)
    BY <1>5, <2>2 DEF Noted, VariantKept, KeptIn
  <2>3. CASE e \in PageOf(t) \union PageOf(f)
    <3>1. e \in PageOf(b)
      BY <1>10, <2>3
    <3>2. e \in Anc(t) /\ e \in Anc(f)
      BY <1>4, <1>5, <3>1 DEF Noted
    <3>3. e \notin PageOf(t) \/ e \notin PageOf(f)
      BY <1>10
    <3>. QED BY <2>1, <2>2, <3>2, <3>3
  <2>. QED BY <2>1, <2>2, <2>3
<1>13. PageSound(r)
  <2>1. r.page \subseteq r.anc
    BY <1>5, <1>6, <1>10 DEF Noted
  <2>2. r.flaw = Rewritten => Rewritten \in {Driver, Gitlink}
    BY <1>9, KnowledgeSyncAssumption
  <2>3. \A e \in Olds(r) : KeptIn(r.page, Olds(r), e)
    BY <1>11, <1>12
  <2>. QED BY <1>8, <2>1, <2>2, <2>3 DEF PageSound
<1>. QED BY <1>1, <1>9, <1>9a, <1>13

LEMMA MergePages ==
  ASSUME PageInv, NEW w \in Workspaces, PrepareMerge(w)
  PROVE  PageShape
<1>1. /\ pc[w] = "prepare" /\ UNCHANGED <<main, remote, refs>>
      /\ \/ MergeAllowed(w) /\ commit' = Append(commit, Merge(w)) /\ Candidate(w, Len(commit) + 1)
         \/ Ends(w) /\ commit' = commit
  BY DEF PrepareMerge
<1>2. CASE Ends(w) /\ commit' = commit
  BY <1>1, <1>2, EndsLeave, EndPages, MergeLines DEF Alone, PageInv, Holding
<1>3. CASE /\ MergeAllowed(w) /\ commit' = Append(commit, Merge(w))
           /\ Candidate(w, Len(commit) + 1)
  <2>1. PICK n, t, f, r : n = Len(commit) + 1 /\ t = Tip(w) /\ f = Far(w) /\ r = Merge(w)
    OBVIOUS
  <2>2. /\ Sound(r) /\ PageSound(r) /\ r.flaw \in {"none", Driver, Gitlink}
        /\ r.parents = <<t, f>>
        /\ \A x \in Anc(t) \union Anc(f) : ~Rewrites(x)
    BY <1>1, <1>3, <2>1, MergeSound, MergePageSound DEF PageInv
  <2>3. t \in Commits /\ f \in Commits
    BY <1>1, <2>1, HeldTips DEF Holding, PageInv, LineInv
  <2>4. NotesGrow
    BY <1>3, <2>1, <2>2 DEF NotesGrow
  <2>5. /\ Len(commit) \in Nat /\ Len(commit') = n /\ commit'[n] = r
    BY <1>3, <2>1, OldCommitsStay DEF PageInv, LineInv
  <2>6. n \in Commits' /\ FlawOf(n)' = r.flaw /\ Anc(n)' = Anc(t) \union Anc(f) \union {n}
    BY <2>1, <2>5 DEF Commits, FlawOf, Anc, Merge
  <2>7. ~Rewrites(n)'
    BY <2>2, <2>5 DEF Rewrites
  <2>8. ASSUME NEW x \in Anc(t) \union Anc(f) PROVE ~Rewrites(x)'
    BY <2>2, <2>3, <2>4, OldNotesStay DEF PageInv
  <2>9. Clean(n)' /\ Publishable(n)'
    BY <2>2, <2>6, <2>7, <2>8 DEF Clean, Publishable
  <2>10. ASSUME rewinds = 0
         PROVE  Anc(n)' \subseteq Anc(main[w]) \union Anc(origin) \union (Commits' \ Commits)
    <3>1. /\ t \in Anc(main[w]) /\ main[w] \in Commits
          /\ f \in Anc(origin) /\ origin \in Commits
      BY <1>1, <2>1, <2>10
         DEF PageInv, LineInv, TipHeld, FarReached, Holding, HistoryInv, NamesExist
    <3>2. Anc(t) \subseteq Anc(main[w]) /\ Anc(f) \subseteq Anc(origin)
      BY <3>1 DEF PageInv, LineInv, HistoryInv, Ancestry, AncestorsOf, Anc, Commits
    <3>3. n \notin Commits
      BY <2>1, <2>5 DEF Commits
    <3>. QED BY <2>6, <3>2, <3>3
  <2>11. LineShape
    BY MergeLines DEF PageInv
  <2>. QED BY <1>1, <1>3, <2>1, <2>4, <2>6, <2>9, <2>10, <2>11, CandidateBehaves
<1>. QED BY <1>1, <1>2, <1>3

(* The fast-forward and the push.                                           *)
LEMMA AdvancePages ==
  ASSUME PageInv, NEW w \in Workspaces, Advance(w)
  PROVE  PageShape
<1>1. /\ pc[w] = "advance" /\ FastForwards(w) /\ SameGitlinks(w)
      /\ UNCHANGED <<commit, refs, attempt, tips, cand, rewinds>>
      /\ \E step \in {"verify", "reread"} : pc' = [pc EXCEPT ![w] = step]
      /\ \/ origin' = origin
         \/ origin' = cand[w] /\ cand[w] # Far(w) /\ origin \in Anc(cand[w])
  BY DEF Advance, Pushes, PushFails, Goes, kept, remote
<1>2. main \in [Workspaces -> Commits] /\ cand[w] \in Commits /\ origin \in Commits
  BY <1>1 DEF PageInv, LineInv, HistoryInv, NamesExist, CandExists
<1>3. /\ main' = [main EXCEPT ![w] = main'[w]]
      /\ main'[w] = main[w] \/ (main'[w] = cand[w] /\ main[w] \in Anc(cand[w]))
  <2>1. CASE cand[w] \in Anc(main[w])
    BY <1>1, <1>2, <2>1 DEF FastForwards
  <2>2. CASE cand[w] \notin Anc(main[w])
    BY <1>1, <1>2, <2>2 DEF FastForwards
  <2>. QED BY <2>1, <2>2
<1>4. Clean(cand[w]) /\ (Publishable(cand[w]) \/ Overlooked(w)) /\ Apart(w, cand[w])
  BY <1>1 DEF PageInv, CandsSound, CandSound, LineInv, CandsKeep, CandKeeps
<1>5. main'[w] = main[w] \/ Publishable(cand[w])
  BY <1>3, <1>4 DEF Overlooked, Apart
<1>6. ASSUME origin' = cand[w], cand[w] # Far(w), origin \in Anc(cand[w]), origin' # origin,
             ~Publishable(cand[w])
      PROVE  /\ Overtaken(w) /\ origin' = Tip(w) /\ FlawOf(cand[w]) # Rewritten
             /\ \A v \in Workspaces : main'[v] # cand[w]
  <2>1. cand[w] = Tip(w) /\ main[w] # Tip(w) /\ Far(w) \in Anc(Tip(w))
    BY <1>4, <1>6 DEF Overlooked
  <2>2. Overtaken(w)
    BY <1>1, <1>6, <2>1 DEF Overtaken, Ahead, Same
  <2>3. Noted(cand[w])
    BY <1>2 DEF PageInv, AllNoted
  <2>4. FlawOf(cand[w]) # Rewritten
    BY <1>4, <1>6, <2>3 DEF Noted, Publishable
  <2>5. rewinds = 0
    <3>1. ~Unflawed
      BY <1>2, <1>6 DEF Unflawed, Publishable, FlawOf
    <3>. QED BY <3>1 DEF PageInv, LineInv, RewoundUnflawed
  <2>6. ASSUME NEW v \in Workspaces, main'[v] = cand[w] PROVE FALSE
    <3>1. v # w /\ main[v] = cand[w]
      BY <1>2, <1>3, <1>5, <1>6, <2>1, <2>6
    <3>2. cand[w] \in Anc(cand[w])
      BY <1>2 DEF PageInv, LineInv, HistoryInv, Ancestry, AncestorsOf, Anc, Commits
    <3>3. cand[w] \in Own(v) /\ cand[w] \in Own(w)
      BY <1>1, <3>1, <3>2 DEF Own
    <3>4. cand[w] \in Anc(origin)
      BY <2>5, <3>1, <3>3 DEF PageInv, Private
    <3>5. cand[w] \in 1..origin /\ origin \in 1..cand[w]
      BY <1>2, <1>6, <3>4 DEF PageInv, LineInv, AllRecorded, Recorded
    <3>6. Len(commit) \in Nat
      BY <1>1, HeldTips DEF Holding, PageInv, LineInv
    <3>. QED BY <1>2, <1>6, <3>5, <3>6 DEF Commits
  <2>. QED BY <1>6, <2>1, <2>2, <2>4, <2>6
<1>7. OriginStaysSound
  <2>1. CASE origin' = origin
    BY <2>1 DEF OriginStaysSound
  <2>2. CASE origin' # origin
    <3>1. PICK c : c = cand[w]
      OBVIOUS
    <3>2. Clean(c)' /\ (Publishable(c) => Publishable(c)') /\ FlawOf(c)' = FlawOf(c)
      BY <1>1, <1>4, <3>1 DEF Clean, Publishable, Rewrites, LogOf, FlawOf, Anc
    <3>3. /\ Publishable(c)' \/ (/\ Overtaken(w) /\ origin' = Tip(w) /\ FlawOf(c)' # Rewritten
                                 /\ \A v \in Workspaces : main'[v] # c)
      BY <1>1, <1>6, <2>2, <3>1, <3>2
    <3>. QED BY <1>1, <2>2, <3>1, <3>2, <3>3
             DEF OriginStaysSound, Clean, Publishable, FlawOf, Anc
  <2>. QED BY <2>1, <2>2
<1>8. pc'[w] # "advance"
  BY <1>1 DEF PageInv, LineInv, HistoryInv, RunTyped
<1>9. Behaves(w)
  <2>1. (FlawOf(main[w]) = Gitlink) = (FlawOf(main[w])' = Gitlink)
    BY <1>1, <1>3 DEF SameGitlinks, FlawOf
  <2>2. main'[w] = main[w] \/ Publishable(main[w])'
    BY <1>1, <1>3, <1>5 DEF Publishable, FlawOf
  <2>. QED BY <1>8, <2>1, <2>2 DEF Behaves
<1>10. \A v \in Workspaces \ {w} : Alone(v)
  BY <1>1, <1>2, <1>3 DEF Alone, PageInv, LineInv, HistoryInv, RunTyped
<1>11. NotesGrow /\ LineShape
  BY <1>1, AdvanceLines DEF NotesGrow, PageInv
<1>12. Own(w)' \subseteq Own(w)
  BY <1>1, <1>3, <1>8 DEF Own, Anc
<1>. QED BY <1>7, <1>9, <1>10, <1>11, <1>12, AloneBehaves, OneOwns DEF PageShape

LEMMA SyncPages ==
  ASSUME PageInv, NEW w \in Workspaces, Sync(w)
  PROVE  PageShape
BY FetchPages, InPlacePages, BehindPages, MergePages, AdvancePages, EndingPages DEF Sync

LEMMA StepKeepsPages ==
  ASSUME PageInv, [Next]_vars
  PROVE  PageInv' /\ PublishesValid
<1>1. LineInv' /\ LineShape
  BY StepKeepsLines, StepLines DEF PageInv
<1>2. CASE UNCHANGED vars
  <2>1. NotesGrow /\ OriginStaysSound
    BY <1>2 DEF vars, NotesGrow, OriginStaysSound
  <2>2. \A v \in Workspaces : Alone(v)
    BY <1>2 DEF vars, Alone
  <2>3. OwnMoves
    BY <2>1, <2>2, AloneBehaves DEF OwnMoves
  <2>4. PageShape
    BY <1>1, <2>1, <2>2, <2>3, AloneBehaves DEF PageShape
  <2>. QED BY <1>1, <2>4, PageShapeKeepsInv, PageShapePublishesValid
<1>3. CASE Next
  <2>1. PageShape
    BY <1>3, SyncPages, EditPages, RewindPages DEF Next
  <2>. QED BY <1>1, <2>1, PageShapeKeepsInv, PageShapePublishesValid
<1>. QED BY <1>2, <1>3

LEMMA InitHasPages == Init => PageInv
<1>. SUFFICES ASSUME Init PROVE PageInv
  OBVIOUS
<1>1. LineInv
  BY InitHasLines
<1>2. commit[1] = Root /\ Commits = {1} /\ origin = 1
  <2>1. commit = <<Root>>
    BY DEF Init
  <2>. QED BY <2>1 DEF Commits, Init
<1>3. /\ Anc(1) = {1} /\ PageOf(1) = {} /\ FlawOf(1) = "none"
      /\ Len(commit[1].parents) # 1
  BY <1>2 DEF Root, Anc, PageOf, FlawOf
<1>4. Clean(1) /\ Publishable(1)
  BY <1>3 DEF Clean, Rewrites, Publishable
<1>5. VariantKept(1)
  BY <1>3 DEF VariantKept, KeptIn
<1>6. Noted(1)
  BY <1>3, <1>5, KnowledgeSyncAssumption DEF Noted
<1>7. AllNoted /\ OriginSound
  BY <1>2, <1>4, <1>6 DEF AllNoted, OriginSound
<1>8. TipsSound /\ CandsSound
  BY DEF Init, TipsSound, CandsSound, Holding
<1>9. Private
  BY <1>2, <1>3 DEF Init, Private, Own
<1>. QED BY <1>1, <1>7, <1>8, <1>9 DEF PageInv

(* A branch that has a commit which edited the page has that edit in the    *)
(* page, or an edit made on top of it: a merge keeps both variants.         *)
THEOREM NoEditIsLost == Spec => []NoVariantLost
<1>1. Init => PageInv
  BY InitHasPages
<1>2. PageInv /\ [Next]_vars => PageInv'
  BY StepKeepsPages
<1>3. PageInv => NoVariantLost
  <2>. SUFFICES ASSUME PageInv, NEW w \in Workspaces, NEW e \in Anc(main[w])
                PROVE  KeptIn(PageOf(main[w]), Anc(main[w]), e)
    BY DEF NoVariantLost, KeptIn, PageOf
  <2>1. main[w] \in Commits
    BY DEF PageInv, LineInv, HistoryInv, NamesExist
  <2>2. Noted(main[w])
    BY <2>1 DEF PageInv, AllNoted
  <2>. QED BY <2>2 DEF Noted, VariantKept
<1>. QED BY <1>1, <1>2, <1>3, PTL DEF Spec

(* What a sync pushes is a valid Knowledge workspace, or the tip of a       *)
(* workspace in which somebody committed on top of it beside the sync, and  *)
(* never a rewritten log; what a sync leaves as main when it converges is   *)
(* valid; and no sync moves a submodule pointer under a workspace.          *)
THEOREM OnlyValidIsPublished == Spec => OnlyValidPublished
<1>1. Init => PageInv
  BY InitHasPages
<1>2. PageInv /\ [Next]_vars => PageInv'
  BY StepKeepsPages
<1>3. PageInv /\ [Next]_vars => [PublishesValid]_vars
  BY StepKeepsPages
<1>. QED BY <1>1, <1>2, <1>3, PTL DEF Spec, OnlyValidPublished, PublishesValid

-----------------------------------------------------------------------------
(* knowledge migrate --apply: a workspace that reads as v2 is whole, and    *)
(* an apply that goes wrong costs nothing, for any number of legacy files,  *)
(* pages, failed calls, crashes, reruns and commits.                        *)

(* A control file that the plan archives, or that is archived already.     *)
Archived(w, d, c) == Archive(c) \in DOMAIN w \/ d[Archive(c)] = d[Wiki(c)]

(* What the planned writes w may be over the workspace d: only a control    *)
(* file is overwritten, and only one that is archived; its text is written *)
(* to its archive and nowhere else.                                        *)
WritesWhatIsThere(w, d) ==
  /\ DOMAIN w \subseteq Paths /\ w \in [DOMAIN w -> Contents \ {None}]
  /\ \A p \in DOMAIN w : p[1] # "wiki" => d[p] = None
  /\ \A c \in Controls : Archive(c) \in DOMAIN w => w[Archive(c)] = d[Wiki(c)]
  /\ \A c \in Controls : Wiki(c) \in DOMAIN w => d[Wiki(c)] = None \/ Archived(w, d, c)
  /\ \A c \in Controls, p \in DOMAIN w : w[p] = Text(c) => p = Archive(c)

(* A text that is written, or kept where nothing is overwritten.            *)
CarriesText(w, d, text) ==
  \/ \E p \in DOMAIN w : w[p] = text
  \/ \E p \in Paths : p[1] # "wiki" /\ d[p] = text

MemoryCarried(w, d) ==
  /\ memory.present => CarriesText(w, d, Text("memory"))
  /\ memory.section # "none" => CarriesText(w, d, Text("section"))

Accounted(w, d, left, s) ==
  s \in left \/ Flawed(s, "loose") \/ CarriesText(w, d, Text(s))

TextsInPlace(d) ==
  \A c \in Controls, p \in Paths : d[p] = Text(c) => p \in {Wiki(c), Archive(c)}

ControlsCarried(w, d) == \A c \in Controls : d[Wiki(c)] # None => Archived(w, d, c)

OnlyIssues(w) == \A c \in Controls : Wiki(c) \in DOMAIN w => c = "issues"

PlanIsRecord(plan) ==
  /\ DOMAIN plan = {"writes", "blocked", "left"}
  /\ plan.blocked \in BOOLEAN /\ plan.left \subseteq Legacy

PlanSound(plan, files) ==
  /\ PlanIsRecord(plan)
  /\ WritesWhatIsThere(plan.writes, disk) /\ OnlyIssues(plan.writes)
  /\ ~plan.blocked =>
       /\ ControlsCarried(plan.writes, disk) /\ MemoryCarried(plan.writes, disk)
       /\ \A s \in Legacy \ files :
            Accounted(plan.writes, disk, plan.left, s) \/ Flawed(s, "unknown")

PlanIsWhole(w, d, left) ==
  /\ \A p \in Pages : d[p] = None
  /\ \A c \in {"index", "log"} :
       Wiki(c) \in DOMAIN w /\ w[Wiki(c)] = Listing(DOMAIN w \intersect Pages)
  /\ MemoryCarried(w, d)
  /\ \A s \in Legacy : Accounted(w, d, left, s)

Unmarked(d) == d[Wiki("schema")] # Schema

ApplySound ==
  /\ DOMAIN apply = {"pc", "writes", "todo", "done", "before", "clean"}
  /\ WritesWhatIsThere(apply.writes, apply.before)
  /\ Unmarked(apply.before) /\ TextsInPlace(apply.before)
  /\ apply.done \subseteq DOMAIN apply.writes
  /\ apply.pc = "rename" =>
       /\ apply.todo = DOMAIN apply.writes \ apply.done
       /\ PlanIsWhole(apply.writes, apply.before, reported)
  /\ apply.pc = "rename" \/ apply.clean =>
       \A p \in Paths : disk[p] = IF p \in apply.done THEN apply.writes[p] ELSE apply.before[p]
  /\ Unmarked(disk) \/ (apply.pc = "rename" /\ apply.todo = {})

WorkspaceSound ==
  /\ memory.section # "none" => memory.present
  /\ TextsInPlace(disk)
  /\ ~Unmarked(disk) => IsWhole

PlanningSound ==
  apply.pc = "plan" =>
    /\ DOMAIN apply = {"pc", "plan", "files"}
    /\ Unmarked(disk) /\ PlanSound(apply.plan, apply.files)

ApplyingSound == apply.pc \in {"rename", "undo"} => ApplySound

MigrationInv == MigrationTypeOK /\ WorkspaceSound /\ PlanningSound /\ ApplyingSound

-----------------------------------------------------------------------------
(* Paths and contents are told apart by their tags and names.              *)

LEMMA PathsDiffer ==
  ASSUME NEW a, NEW b
  PROVE  /\ Archive(a)[1] = "archive" /\ Wiki(a)[1] = "wiki" /\ Page(a)[1] = "page"
         /\ Page2(a)[1] = "page2" /\ Diary(a)[1] = "diary"
         /\ Archive(a) = Archive(b) => a = b
         /\ Wiki(a) = Wiki(b) => a = b
         /\ Archive(a) # Wiki(b)
BY DEF Archive, Wiki, Page, Page2, Diary

LEMMA TextsDiffer ==
  ASSUME NEW a, NEW b
  PROVE  /\ Text(a) = Text(b) => a = b
         /\ Text(a) # None /\ Text(a) # Schema /\ Text(a) # Listing(b)
         /\ Schema # None /\ Listing(b) # None /\ Listing(b) # Schema
BY DEF Text, None, Schema, Listing

LEMMA ControlPaths ==
  ASSUME NEW c \in Controls
  PROVE  /\ Wiki(c) \in Paths /\ Archive(c) \in Paths /\ Archive("memory") \in Paths
         /\ c # "memory" /\ Text(c) \in Contents
BY DEF Paths, Controls, Contents, Texts

LEMMA PagePaths ==
  ASSUME NEW p \in Pages
  PROVE  /\ p \in Paths /\ p[1] # "wiki" /\ p[1] # "archive"
         /\ \A c \in Controls \union {"memory"} : p # Archive(c) /\ p # Wiki(c)
<1>1. p[1] \in {"page", "page2"}
  BY PathsDiffer DEF Pages
<1>2. QED
  BY <1>1, PathsDiffer DEF Paths

LEMMA DiaryPaths ==
  ASSUME NEW s \in Legacy
  PROVE  /\ Diary(s) \in Paths /\ Diary(s)[1] = "diary"
         /\ \A c \in Controls \union {"memory"} : Diary(s) # Archive(c) /\ Diary(s) # Wiki(c)
BY PathsDiffer DEF Paths

(* The contents that a plan makes up, and what none of them is.            *)
LEMMA OtherTexts ==
  ASSUME NEW n \in Legacy \union {"memory", "pending", "section"}
  PROVE  /\ Text(n) \in Contents \ {None}
         /\ \A c \in Controls : Text(n) # Text(c)
<1>1. n \notin Controls
  BY KnowledgeMigrationAssumption DEF Controls
<1>2. Text(n) \in Contents
  BY DEF Contents, Texts
<1>3. QED
  BY <1>1, <1>2, TextsDiffer

LEMMA GeneratedTexts ==
  ASSUME NEW S \in SUBSET Pages
  PROVE  /\ {Schema, Listing(S)} \subseteq Contents \ {None}
         /\ \A c : Text(c) # Schema /\ Text(c) # Listing(S)
BY TextsDiffer DEF Contents

-----------------------------------------------------------------------------
(* One more write, and what it does not disturb.                           *)

With(w, path, content) ==
  [p \in DOMAIN w \union {path} |-> IF p = path THEN content ELSE w[p]]

LEMMA WithIs ==
  ASSUME NEW w, NEW path, NEW content, path \notin DOMAIN w
  PROVE  /\ DOMAIN With(w, path, content) = DOMAIN w \union {path}
         /\ With(w, path, content)[path] = content
         /\ \A p \in DOMAIN w : With(w, path, content)[p] = w[p]
BY DEF With

(* A plan grows: what it writes and reports stays, and so does a blocker.  *)
Extends(plan, more) ==
  /\ plan.blocked => more.blocked
  /\ plan.left \subseteq more.left
  /\ DOMAIN plan.writes \subseteq DOMAIN more.writes
  /\ \A p \in DOMAIN plan.writes : more.writes[p] = plan.writes[p]

LEMMA ExtendsIsTransitive ==
  ASSUME NEW a, NEW b, NEW c, Extends(a, b), Extends(b, c)
  PROVE  Extends(a, c)
BY DEF Extends

LEMMA ExtendsKeeps ==
  ASSUME NEW plan, NEW more, Extends(plan, more), NEW d
  PROVE  /\ \A text : CarriesText(plan.writes, d, text) => CarriesText(more.writes, d, text)
         /\ \A c : Archived(plan.writes, d, c) => Archived(more.writes, d, c)
         /\ ControlsCarried(plan.writes, d) => ControlsCarried(more.writes, d)
         /\ MemoryCarried(plan.writes, d) => MemoryCarried(more.writes, d)
         /\ \A s : Accounted(plan.writes, d, plan.left, s) => Accounted(more.writes, d, more.left, s)
<1>1. \A text : CarriesText(plan.writes, d, text) => CarriesText(more.writes, d, text)
  BY DEF Extends, CarriesText
<1>2. \A c : Archived(plan.writes, d, c) => Archived(more.writes, d, c)
  BY DEF Extends, Archived
<1>3. QED
  BY <1>1, <1>2 DEF Extends, ControlsCarried, MemoryCarried, Accounted

(* What keeps the planned writes sound when one is added.                  *)
Fits(w, d, path, content) ==
  /\ path \in Paths /\ content \in Contents \ {None}
  /\ path[1] # "wiki" => d[path] = None
  /\ \A c \in Controls : path = Archive(c) => content = d[Wiki(c)]
  /\ \A c \in Controls : path = Wiki(c) => d[Wiki(c)] = None \/ Archived(w, d, c)
  /\ \A c \in Controls : content = Text(c) => path = Archive(c)

LEMMA OneMoreWrite ==
  ASSUME NEW w, NEW d, NEW path, NEW content, WritesWhatIsThere(w, d),
         path \notin DOMAIN w, Fits(w, d, path, content)
  PROVE  WritesWhatIsThere(With(w, path, content), d)
<1> PICK v : v = With(w, path, content)
  OBVIOUS
<1>1. /\ DOMAIN v = DOMAIN w \union {path} /\ v[path] = content
      /\ \A p \in DOMAIN w : v[p] = w[p]
  BY WithIs
<1>2. v \in [DOMAIN v -> Contents \ {None}]
  <2>1. v = [p \in DOMAIN w \union {path} |-> v[p]]
    BY DEF With
  <2>2. \A p \in DOMAIN v : v[p] \in Contents \ {None}
    BY <1>1 DEF WritesWhatIsThere, Fits
  <2>3. QED
    BY <2>1, <2>2, <1>1
<1>3. DOMAIN v \subseteq Paths /\ \A p \in DOMAIN v : p[1] # "wiki" => d[p] = None
  BY <1>1 DEF WritesWhatIsThere, Fits
<1>4. \A c \in Controls : Archive(c) \in DOMAIN v => v[Archive(c)] = d[Wiki(c)]
  BY <1>1 DEF WritesWhatIsThere, Fits
<1>5. \A c \in Controls : Wiki(c) \in DOMAIN v => d[Wiki(c)] = None \/ Archived(v, d, c)
  BY <1>1 DEF WritesWhatIsThere, Fits, Archived
<1>6. \A c \in Controls, p \in DOMAIN v : v[p] = Text(c) => p = Archive(c)
  BY <1>1 DEF WritesWhatIsThere, Fits
<1>7. QED
  BY <1>2, <1>3, <1>4, <1>5, <1>6 DEF WritesWhatIsThere

-----------------------------------------------------------------------------
(* Planning: every call keeps the plan sound and only adds to it.          *)

WithWrite(plan, path, content) == [plan EXCEPT !.writes = With(plan.writes, path, content)]

(* addWrite without leave to overwrite: it blocks, finds the content in     *)
(* place, or writes it.                                                     *)
AddedOnce(plan, path, content, r) ==
  \/ r = Blocks(plan)
  \/ r = plan /\ path \notin DOMAIN plan.writes /\ disk[path] = content
  \/ /\ path \notin DOMAIN plan.writes /\ disk[path] = None
     /\ r = WithWrite(plan, path, content)

(* With leave to overwrite what is there: it blocks or writes.             *)
Replaced(plan, path, content, r) ==
  \/ r = Blocks(plan)
  \/ r = WithWrite(plan, path, content)

(* A plan whose writes are sound over the workspace.                       *)
PlanFits(plan) == PlanIsRecord(plan) /\ WritesWhatIsThere(plan.writes, disk)

LEMMA BlockedPlan ==
  ASSUME NEW plan, PlanFits(plan), NEW r, r = Blocks(plan)
  PROVE  /\ PlanFits(r) /\ Extends(plan, r)
         /\ r.blocked /\ r.left = plan.left /\ r.writes = plan.writes
BY DEF Blocks, PlanFits, PlanIsRecord, Extends

LEMMA PlanWithOneMore ==
  ASSUME NEW plan, PlanFits(plan), NEW path, NEW content,
         path \notin DOMAIN plan.writes, Fits(plan.writes, disk, path, content),
         NEW r, r = WithWrite(plan, path, content)
  PROVE  /\ PlanFits(r) /\ Extends(plan, r)
         /\ r.blocked = plan.blocked /\ r.left = plan.left
         /\ DOMAIN r.writes = DOMAIN plan.writes \union {path}
         /\ r.writes[path] = content
<1> PICK w : w = plan.writes
  OBVIOUS
<1> PICK v : v = With(w, path, content)
  OBVIOUS
<1>1. /\ DOMAIN r = DOMAIN plan /\ r.writes = v
      /\ r.left = plan.left /\ r.blocked = plan.blocked
  BY DEF PlanFits, PlanIsRecord, WithWrite
<1>2. WritesWhatIsThere(w, disk) /\ path \notin DOMAIN w /\ Fits(w, disk, path, content)
  BY DEF PlanFits
<1>3. WritesWhatIsThere(v, disk)
  BY <1>2, OneMoreWrite
<1>4. /\ DOMAIN v = DOMAIN w \union {path} /\ v[path] = content
      /\ \A p \in DOMAIN w : v[p] = w[p]
  <2>1. DOMAIN v = DOMAIN w \union {path}
    BY DEF With
  <2>2. \A p \in DOMAIN v : v[p] = IF p = path THEN content ELSE w[p]
    BY <2>1 DEF With
  <2>3. QED
    BY <1>2, <2>1, <2>2
<1>5. PlanFits(r)
  BY <1>1, <1>3 DEF PlanFits, PlanIsRecord
<1>6. Extends(plan, r)
  BY <1>1, <1>4 DEF Extends
<1>7. QED
  BY <1>1, <1>4, <1>5, <1>6

(* A text that goes to an archive, a page or a diary is carried.           *)
LEMMA AddedIsCarried ==
  ASSUME NEW plan, PlanFits(plan), NEW path, NEW content,
         path \in Paths, content \in Contents \ {None}, path[1] # "wiki",
         \A c \in Controls : path = Archive(c) => content = disk[Wiki(c)],
         \A c \in Controls : content = Text(c) => path = Archive(c),
         NEW r, AddedOnce(plan, path, content, r)
  PROVE  /\ PlanFits(r) /\ Extends(plan, r) /\ r.left = plan.left
         /\ \A c : Wiki(c) \in DOMAIN r.writes => Wiki(c) \in DOMAIN plan.writes
         /\ ~r.blocked => CarriesText(r.writes, disk, content)
         /\ ~r.blocked => path \in DOMAIN r.writes \/ disk[path] = content
<1>1. \A c : path # Wiki(c)
  BY PathsDiffer
<1>2. CASE r = Blocks(plan)
  BY <1>2, BlockedPlan
<1>3. CASE r = plan /\ path \notin DOMAIN plan.writes /\ disk[path] = content
  BY <1>3 DEF Extends, CarriesText
<1>4. CASE /\ path \notin DOMAIN plan.writes /\ disk[path] = None
           /\ r = WithWrite(plan, path, content)
  <2>1. Fits(plan.writes, disk, path, content)
    BY <1>1, <1>4 DEF Fits
  <2>2. /\ PlanFits(r) /\ Extends(plan, r) /\ r.left = plan.left
        /\ DOMAIN r.writes = DOMAIN plan.writes \union {path} /\ r.writes[path] = content
    BY <1>4, <2>1, PlanWithOneMore
  <2>3. QED
    BY <1>1, <2>2 DEF CarriesText
<1>5. QED
  BY <1>2, <1>3, <1>4 DEF AddedOnce

(* A control file is replaced only when it is archived.                    *)
LEMMA ReplacedIsWritten ==
  ASSUME NEW plan, PlanFits(plan), NEW c \in Controls, NEW content,
         content \in Contents \ {None}, \A k \in Controls : content # Text(k),
         Wiki(c) \notin DOMAIN plan.writes,
         disk[Wiki(c)] = None \/ Archived(plan.writes, disk, c),
         NEW r, Replaced(plan, Wiki(c), content, r)
  PROVE  /\ PlanFits(r) /\ Extends(plan, r) /\ r.left = plan.left
         /\ DOMAIN r.writes \subseteq DOMAIN plan.writes \union {Wiki(c)}
         /\ ~r.blocked => Wiki(c) \in DOMAIN r.writes /\ r.writes[Wiki(c)] = content
<1>1. CASE r = Blocks(plan)
  BY <1>1, BlockedPlan
<1>2. CASE r = WithWrite(plan, Wiki(c), content)
  <2>1. PICK path : path = Wiki(c)
    OBVIOUS
  <2>2. /\ path \in Paths /\ path[1] = "wiki" /\ \A k \in Controls : path # Archive(k)
        /\ \A k \in Controls : path = Wiki(k) => k = c
    BY <2>1, ControlPaths, PathsDiffer
  <2>3. Fits(plan.writes, disk, path, content)
    BY <2>2 DEF Fits
  <2>4. path \notin DOMAIN plan.writes
        /\ r = WithWrite(plan, path, content)
    BY <1>2, <2>1
  <2>5. /\ PlanFits(r) /\ Extends(plan, r) /\ r.left = plan.left
        /\ DOMAIN r.writes = DOMAIN plan.writes \union {path} /\ r.writes[path] = content
    BY <2>3, <2>4, PlanWithOneMore
  <2>6. QED
    BY <2>1, <2>5
<1>3. QED
  BY <1>1, <1>2 DEF Replaced

(* planLegacyWikiControlArchives, one control file.                        *)
LEMMA ControlIsArchived ==
  ASSUME NEW plan, PlanFits(plan), NEW c \in Controls, Unmarked(disk),
         disk \in [Paths -> Contents], TextsInPlace(disk),
         NEW r, r = ArchiveControl(plan, c)
  PROVE  /\ PlanFits(r) /\ Extends(plan, r)
         /\ \A k : Wiki(k) \in DOMAIN r.writes => Wiki(k) \in DOMAIN plan.writes
         /\ ~r.blocked /\ disk[Wiki(c)] # None => Archived(r.writes, disk, c)
<1>1. CASE disk[Wiki(c)] = None
  BY <1>1 DEF ArchiveControl, Extends
<1>2. CASE disk[Wiki(c)] # None /\ r = Blocks(plan)
  BY <1>2 DEF Blocks, PlanFits, PlanIsRecord, Extends
<1>3. CASE disk[Wiki(c)] # None /\ r = AddWrite(plan, Archive(c), disk[Wiki(c)], FALSE, TRUE)
  <2>1. Archive(c) \in Paths /\ Archive(c)[1] # "wiki" /\ disk[Wiki(c)] \in Contents \ {None}
    BY <1>3, ControlPaths, PathsDiffer
  <2>2. \A k \in Controls : Archive(c) = Archive(k) => disk[Wiki(c)] = disk[Wiki(k)]
    BY PathsDiffer
  <2>3. \A k \in Controls : disk[Wiki(c)] = Text(k) => Archive(c) = Archive(k)
    BY ControlPaths, PathsDiffer DEF TextsInPlace
  <2>4. PICK path, content : path = Archive(c) /\ content = disk[Wiki(c)]
    OBVIOUS
  <2>5. /\ PlanFits(r) /\ Extends(plan, r)
        /\ \A k : Wiki(k) \in DOMAIN r.writes => Wiki(k) \in DOMAIN plan.writes
        /\ ~r.blocked => path \in DOMAIN r.writes \/ disk[path] = content
    <3>1. disk[path] = content => path \notin DOMAIN plan.writes
      BY <2>1, <2>4 DEF PlanFits, WritesWhatIsThere
    <3>2. AddedOnce(plan, path, content, r)
      BY <1>3, <2>4, <3>1 DEF AddWrite, AddedOnce, WithWrite, With
    <3>3. QED
      BY <2>1, <2>2, <2>3, <2>4, <3>2, AddedIsCarried
  <2>6. QED
    BY <1>3, <2>4, <2>5 DEF Archived
<1>4. QED
  BY <1>1, <1>2, <1>3 DEF ArchiveControl, Unmarked

LEMMA ControlsAreArchived ==
  ASSUME Unmarked(disk), disk \in [Paths -> Contents], TextsInPlace(disk),
         NEW r, r = ControlsArchived
  PROVE  /\ PlanFits(r) /\ (~r.blocked => ControlsCarried(r.writes, disk))
         /\ \A c : Wiki(c) \notin DOMAIN r.writes
<1> PICK e : e = EmptyPlan
  OBVIOUS
<1> PICK a1 : a1 = ArchiveControl(e, "schema")
  OBVIOUS
<1> PICK a2 : a2 = ArchiveControl(a1, "index")
  OBVIOUS
<1> PICK a3 : a3 = ArchiveControl(a2, "log")
  OBVIOUS
<1>0. r = ArchiveControl(a3, "issues")
  BY DEF ControlsArchived
<1>1. PlanFits(e) /\ \A c : Wiki(c) \notin DOMAIN e.writes
  <2>1. DOMAIN e = {"writes", "blocked", "left"} /\ e.blocked = FALSE /\ e.left = {}
    BY DEF EmptyPlan
  <2>2. DOMAIN e.writes = {}
    BY DEF EmptyPlan
  <2>3. e.writes \in [DOMAIN e.writes -> Contents \ {None}]
    BY DEF EmptyPlan
  <2>4. QED
    BY <2>1, <2>2, <2>3 DEF PlanFits, PlanIsRecord, WritesWhatIsThere
<1>c. {"schema", "index", "log", "issues"} \subseteq Controls
  BY DEF Controls
<1>2. /\ PlanFits(a1) /\ Extends(e, a1) /\ \A k : Wiki(k) \notin DOMAIN a1.writes
      /\ ~a1.blocked /\ disk[Wiki("schema")] # None => Archived(a1.writes, disk, "schema")
  BY <1>1, <1>c, ControlIsArchived
<1>3. /\ PlanFits(a2) /\ Extends(a1, a2) /\ \A k : Wiki(k) \notin DOMAIN a2.writes
      /\ ~a2.blocked /\ disk[Wiki("index")] # None => Archived(a2.writes, disk, "index")
  BY <1>2, <1>c, ControlIsArchived
<1>4. /\ PlanFits(a3) /\ Extends(a2, a3) /\ \A k : Wiki(k) \notin DOMAIN a3.writes
      /\ ~a3.blocked /\ disk[Wiki("log")] # None => Archived(a3.writes, disk, "log")
  BY <1>3, <1>c, ControlIsArchived
<1>5. /\ PlanFits(r) /\ Extends(a3, r) /\ \A k : Wiki(k) \notin DOMAIN r.writes
      /\ ~r.blocked /\ disk[Wiki("issues")] # None => Archived(r.writes, disk, "issues")
  BY <1>0, <1>4, <1>c, ControlIsArchived
<1>6. Extends(a2, r) /\ Extends(a1, r)
  BY <1>3, <1>4, <1>5, ExtendsIsTransitive
<1>7. ~r.blocked => \A c \in Controls : disk[Wiki(c)] # None => Archived(r.writes, disk, c)
  <2>1. /\ \A c : Archived(a1.writes, disk, c) => Archived(r.writes, disk, c)
        /\ \A c : Archived(a2.writes, disk, c) => Archived(r.writes, disk, c)
        /\ \A c : Archived(a3.writes, disk, c) => Archived(r.writes, disk, c)
    BY <1>5, <1>6, ExtendsKeeps
  <2>2. ~r.blocked => ~a1.blocked /\ ~a2.blocked /\ ~a3.blocked
    BY <1>5, <1>6 DEF Extends
  <2>3. QED
    BY <1>2, <1>3, <1>4, <1>5, <2>1, <2>2 DEF Controls
<1>8. QED
  BY <1>5, <1>7 DEF ControlsCarried

-----------------------------------------------------------------------------
(* planMemoryFile, the loop over the files, and the generated files.       *)

LEMMA TargetIsPage ==
  ASSUME NEW plan, NEW topic \in Topics
  PROVE  Target(plan, topic) \in Pages /\ Page(topic) \in Pages
BY DEF Target, Pages

MemoryArchived(plan) == AddWrite(plan, Archive("memory"), Text("memory"), FALSE, TRUE)

IssuesReviewed(plan) ==
  IF memory.pending /\ (disk[Wiki("issues")] # None => HasArchive(plan, "issues"))
  THEN AddWrite(plan, Wiki("issues"), Text("pending"), disk[Wiki("issues")] # None, TRUE)
  ELSE plan

SectionPlanned(plan) ==
  AddWrite(plan, Target(plan, memory.section), Text("section"), FALSE, TRUE)

LEMMA MemoryIsPlanned ==
  ASSUME NEW plan, PlanFits(plan), \A c : Wiki(c) \notin DOMAIN plan.writes,
         memory.section \in Topics \union {"none"}, memory.section # "none" => memory.present,
         NEW r, r = PlanMemory(plan)
  PROVE  /\ PlanFits(r) /\ Extends(plan, r) /\ OnlyIssues(r.writes)
         /\ ~r.blocked => MemoryCarried(r.writes, disk)
<1> PICK archived : archived = MemoryArchived(plan)
  OBVIOUS
<1> PICK reviewed : reviewed = IssuesReviewed(archived)
  OBVIOUS
<1>1. /\ PlanFits(archived) /\ Extends(plan, archived)
      /\ \A c : Wiki(c) \notin DOMAIN archived.writes
      /\ ~archived.blocked => CarriesText(archived.writes, disk, Text("memory"))
  <2>1. PICK path, content : path = Archive("memory") /\ content = Text("memory")
    OBVIOUS
  <2>2. /\ path \in Paths /\ path[1] # "wiki" /\ content \in Contents \ {None}
        /\ \A c \in Controls : content # Text(c)
        /\ \A c \in Controls : path # Archive(c)
    BY <2>1, PathsDiffer, OtherTexts DEF Paths, Controls
  <2>3. disk[path] = content => path \notin DOMAIN plan.writes
    BY <2>2 DEF PlanFits, WritesWhatIsThere
  <2>4. AddedOnce(plan, path, content, archived)
    BY <2>1, <2>3 DEF MemoryArchived, AddWrite, AddedOnce, WithWrite, With
  <2>5. /\ PlanFits(archived) /\ Extends(plan, archived)
        /\ \A c : Wiki(c) \in DOMAIN archived.writes => Wiki(c) \in DOMAIN plan.writes
        /\ ~archived.blocked => CarriesText(archived.writes, disk, content)
    BY <2>2, <2>4, AddedIsCarried
  <2>6. QED
    BY <2>1, <2>5
<1>2. /\ PlanFits(reviewed) /\ Extends(archived, reviewed) /\ OnlyIssues(reviewed.writes)
  <2>1. CASE reviewed = archived
    BY <2>1, <1>1 DEF Extends, OnlyIssues
  <2>2. CASE /\ disk[Wiki("issues")] # None => HasArchive(archived, "issues")
             /\ reviewed # archived
    <3>1. PICK content : content = Text("pending")
      OBVIOUS
    <3>2. content \in Contents \ {None} /\ \A c \in Controls : content # Text(c)
      BY <3>1, OtherTexts
    <3>3. Replaced(archived, Wiki("issues"), content, reviewed)
      <4>1. PICK path : path = Wiki("issues")
        OBVIOUS
      <4>2. path \notin DOMAIN archived.writes /\ content # None
        BY <1>1, <4>1, <3>2
      <4>3. Replaced(archived, path, content, reviewed)
        BY <2>2, <3>1, <4>1, <4>2 DEF IssuesReviewed, AddWrite, Replaced, WithWrite, With
      <4>4. QED
        BY <4>1, <4>3
    <3>4. "issues" \in Controls
      BY DEF Controls
    <3>5. disk[Wiki("issues")] = None \/ Archived(archived.writes, disk, "issues")
      BY <2>2 DEF HasArchive, Archived
    <3>6. /\ PlanFits(reviewed) /\ Extends(archived, reviewed)
          /\ DOMAIN reviewed.writes \subseteq DOMAIN archived.writes \union {Wiki("issues")}
      BY <1>1, <3>2, <3>3, <3>4, <3>5, ReplacedIsWritten
    <3>7. QED
      BY <1>1, <3>6, PathsDiffer DEF OnlyIssues
  <2>3. QED
    BY <2>1, <2>2 DEF IssuesReviewed
<1>3. /\ Extends(plan, reviewed)
      /\ ~reviewed.blocked => CarriesText(reviewed.writes, disk, Text("memory"))
  <2>1. Extends(plan, reviewed)
    BY <1>1, <1>2, ExtendsIsTransitive
  <2>2. CarriesText(archived.writes, disk, Text("memory"))
        => CarriesText(reviewed.writes, disk, Text("memory"))
    BY <1>2, ExtendsKeeps
  <2>3. ~reviewed.blocked => ~archived.blocked
    BY <1>2 DEF Extends
  <2>4. QED
    BY <1>1, <2>1, <2>2, <2>3
<1>4. CASE ~memory.present
  BY <1>4 DEF PlanMemory, Extends, OnlyIssues, MemoryCarried
<1>5. CASE memory.present /\ r = Blocks(plan)
  BY <1>5, BlockedPlan DEF OnlyIssues
<1>6. CASE memory.present /\ r = reviewed /\ memory.section = "none"
  BY <1>2, <1>3, <1>6 DEF MemoryCarried
<1>7. CASE memory.present /\ r = Blocks(reviewed)
  <2>1. PlanFits(r) /\ Extends(reviewed, r) /\ r.blocked /\ r.writes = reviewed.writes
    BY <1>2, <1>7, BlockedPlan
  <2>2. QED
    BY <1>2, <1>3, <2>1, ExtendsIsTransitive
<1>8. CASE /\ memory.present /\ memory.section # "none"
           /\ r = SectionPlanned(reviewed)
  <2>1. PICK path, content : path = Target(reviewed, memory.section) /\ content = Text("section")
    OBVIOUS
  <2>2. path \in Pages
    BY <1>8, <2>1, TargetIsPage
  <2>3. /\ path \in Paths /\ path[1] # "wiki" /\ content \in Contents \ {None}
        /\ \A c \in Controls : content # Text(c)
        /\ \A c \in Controls : path # Archive(c)
    BY <2>1, <2>2, PagePaths, OtherTexts
  <2>4. disk[path] = content => path \notin DOMAIN reviewed.writes
    BY <1>2, <2>3 DEF PlanFits, WritesWhatIsThere
  <2>5. AddedOnce(reviewed, path, content, r)
    BY <1>8, <2>1, <2>4 DEF SectionPlanned, AddWrite, AddedOnce, WithWrite, With
  <2>6. /\ PlanFits(r) /\ Extends(reviewed, r)
        /\ \A c : Wiki(c) \in DOMAIN r.writes => Wiki(c) \in DOMAIN reviewed.writes
        /\ ~r.blocked => CarriesText(r.writes, disk, content)
    BY <1>2, <2>3, <2>5, AddedIsCarried
  <2>7. ~r.blocked => CarriesText(r.writes, disk, Text("memory"))
    <3>1. CarriesText(reviewed.writes, disk, Text("memory"))
          => CarriesText(r.writes, disk, Text("memory"))
      BY <2>6, ExtendsKeeps
    <3>2. ~r.blocked => ~reviewed.blocked
      BY <2>6 DEF Extends
    <3>3. QED
      BY <1>3, <3>1, <3>2
  <2>8. QED
    BY <1>2, <1>3, <2>1, <2>6, <2>7, ExtendsIsTransitive DEF OnlyIssues, MemoryCarried
<1>9. \/ ~memory.present
      \/ memory.present /\ r = Blocks(plan)
      \/ memory.present /\ r = reviewed /\ memory.section = "none"
      \/ memory.present /\ r = Blocks(reviewed)
      \/ /\ memory.present /\ memory.section # "none"
         /\ r = SectionPlanned(reviewed)
  BY DEF PlanMemory, SectionBecomes, MemoryArchived, IssuesReviewed, SectionPlanned
<1>10. QED
  BY <1>4, <1>5, <1>6, <1>7, <1>8, <1>9

(* One file of the loop is carried over, reported, excused or blocks.      *)
LEMMA FileIsPlanned ==
  ASSUME NEW plan, PlanFits(plan), OnlyIssues(plan.writes), NEW s \in Legacy,
         route \in [Legacy -> Topics],
         NEW r, r = PlanFile(plan, s)
  PROVE  /\ PlanFits(r) /\ Extends(plan, r) /\ OnlyIssues(r.writes)
         /\ ~r.blocked => Accounted(r.writes, disk, r.left, s) \/ Flawed(s, "unknown")
<1>1. CASE r = plan /\ (Flawed(s, "unknown") \/ Flawed(s, "loose"))
  BY <1>1 DEF Extends, Accounted
<1>2. CASE r = Leaves(plan, s)
  BY <1>2 DEF Leaves, PlanFits, PlanIsRecord, Extends, Accounted
<1>3. CASE r = Blocks(plan)
  BY <1>3, BlockedPlan
<1>4. ASSUME NEW path \in Pages \union {Diary(s)}, NEW sound \in BOOLEAN,
             AddedOnce(plan, path, Text(s), r)
      PROVE  /\ PlanFits(r) /\ Extends(plan, r) /\ OnlyIssues(r.writes)
             /\ ~r.blocked => Accounted(r.writes, disk, r.left, s)
  <2>1. PICK content : content = Text(s)
    OBVIOUS
  <2>2. /\ path \in Paths /\ path[1] # "wiki" /\ content \in Contents \ {None}
        /\ \A c \in Controls : content # Text(c)
        /\ \A c \in Controls : path # Archive(c)
    BY <2>1, PagePaths, DiaryPaths, OtherTexts
  <2>3. /\ PlanFits(r) /\ Extends(plan, r)
        /\ \A c : Wiki(c) \in DOMAIN r.writes => Wiki(c) \in DOMAIN plan.writes
        /\ ~r.blocked => CarriesText(r.writes, disk, content)
    BY <1>4, <2>1, <2>2, AddedIsCarried
  <2>4. QED
    BY <2>1, <2>3 DEF OnlyIssues, Accounted
<1>5. \A path \in Pages \union {Diary(s)} :
        disk[path] = Text(s) => path \notin DOMAIN plan.writes
  <2>1. \A path \in Pages \union {Diary(s)} : path[1] # "wiki"
    BY PagePaths, DiaryPaths
  <2>2. Text(s) # None
    BY TextsDiffer
  <2>3. QED
    BY <2>1, <2>2 DEF PlanFits, WritesWhatIsThere
<1>6. CASE r = AddWrite(plan, Diary(s), Text(s), FALSE, TRUE)
  <2>1. AddedOnce(plan, Diary(s), Text(s), r)
    BY <1>5, <1>6 DEF AddWrite, AddedOnce, WithWrite, With
  <2>2. QED
    BY <2>1, <1>4
<1>7. CASE r = AddWrite(plan, Target(plan, route[s]), Text(s), FALSE, ~Flawed(s, "mismatch"))
  <2>1. PICK path \in Pages : path = Target(plan, route[s])
    BY TargetIsPage
  <2>2. AddedOnce(plan, path, Text(s), r)
    BY <1>5, <1>7, <2>1 DEF AddWrite, AddedOnce, WithWrite, With
  <2>3. QED
    BY <2>2, <1>4
<1>8. CASE r = AddWrite(plan, Page(route[s]), Text(s), FALSE, ~Flawed(s, "mismatch"))
  <2>1. PICK path \in Pages : path = Page(route[s])
    BY TargetIsPage
  <2>2. AddedOnce(plan, path, Text(s), r)
    BY <1>5, <1>8, <2>1 DEF AddWrite, AddedOnce, WithWrite, With
  <2>3. QED
    BY <2>2, <1>4
<1>9. QED
  BY <1>1, <1>2, <1>3, <1>6, <1>7, <1>8 DEF PlanFile

(* planGeneratedV2Control.                                                 *)
LEMMA ControlIsGenerated ==
  ASSUME NEW plan, PlanFits(plan), NEW c \in Controls, NEW content,
         content \in Contents \ {None}, \A k \in Controls : content # Text(k),
         Wiki(c) \notin DOMAIN plan.writes,
         NEW r, r = Generate(plan, c, content)
  PROVE  /\ PlanFits(r) /\ Extends(plan, r) /\ r.left = plan.left
         /\ DOMAIN r.writes \subseteq DOMAIN plan.writes \union {Wiki(c)}
         /\ ~r.blocked /\ ControlsCarried(plan.writes, disk) =>
              Wiki(c) \in DOMAIN r.writes /\ r.writes[Wiki(c)] = content
<1>1. CASE r = plan /\ disk[Wiki(c)] # None /\ ~HasArchive(plan, c)
  BY <1>1 DEF Extends, ControlsCarried, HasArchive, Archived
<1>2. CASE /\ disk[Wiki(c)] = None \/ HasArchive(plan, c)
           /\ r = AddWrite(plan, Wiki(c), content, disk[Wiki(c)] # None, TRUE)
  <2>1. Replaced(plan, Wiki(c), content, r)
    BY <1>2 DEF AddWrite, Replaced, WithWrite, With
  <2>2. disk[Wiki(c)] = None \/ Archived(plan.writes, disk, c)
    BY <1>2 DEF HasArchive, Archived
  <2>3. QED
    BY <2>1, <2>2, ReplacedIsWritten
<1>3. QED
  BY <1>1, <1>2 DEF Generate

(* planGeneratedV2Files and classifyUnhandledFile: a plan that is not      *)
(* blocked is whole.                                                        *)
LEMMA PlanBecomesWhole ==
  ASSUME NEW plan, PlanSound(plan, {}), disk \in [Paths -> Contents],
         NEW r, r = Unhandled(PlanGenerated(plan)), ~r.blocked
  PROVE  /\ WritesWhatIsThere(r.writes, disk) /\ PlanIsWhole(r.writes, disk, r.left)
         /\ r.left \subseteq Legacy
<1>p. PICK pages \in SUBSET Pages : pages = DOMAIN plan.writes \intersect Pages
  OBVIOUS
<1>c. PICK content : content = Listing(pages)
  OBVIOUS
<1>g1. PICK g1 : g1 = Generate(plan, "schema", Schema)
  OBVIOUS
<1>g2. PICK g2 : g2 = Generate(g1, "index", content)
  OBVIOUS
<1>g3. PICK g3 : g3 = Generate(g2, "log", content)
  OBVIOUS
<1>1. r = Unhandled(g3)
  BY <1>p, <1>c, <1>g1, <1>g2, <1>g3 DEF PlanGenerated
<1>2. /\ {"schema", "index", "log"} \subseteq Controls /\ "issues" \notin {"schema", "index", "log"}
      /\ {Schema, content} \subseteq Contents \ {None}
      /\ \A k \in Controls : Schema # Text(k) /\ content # Text(k)
      /\ Wiki("schema") # Wiki("index") /\ Wiki("schema") # Wiki("log") /\ Wiki("index") # Wiki("log")
  BY <1>c, GeneratedTexts, PathsDiffer DEF Controls
<1>3. /\ PlanFits(plan)
      /\ \A c \in {"schema", "index", "log"} : Wiki(c) \notin DOMAIN plan.writes
  BY <1>2 DEF PlanSound, PlanFits, OnlyIssues
<1>4. /\ PlanFits(g1) /\ Extends(plan, g1) /\ g1.left = plan.left
      /\ DOMAIN g1.writes \subseteq DOMAIN plan.writes \union {Wiki("schema")}
  BY <1>g1, <1>2, <1>3, ControlIsGenerated
<1>5. /\ PlanFits(g2) /\ Extends(g1, g2) /\ g2.left = g1.left
      /\ DOMAIN g2.writes \subseteq DOMAIN g1.writes \union {Wiki("index")}
      /\ ~g2.blocked /\ ControlsCarried(g1.writes, disk) =>
           Wiki("index") \in DOMAIN g2.writes /\ g2.writes[Wiki("index")] = content
  <2>1. Wiki("index") \notin DOMAIN g1.writes
    BY <1>2, <1>3, <1>4
  <2>2. "index" \in Controls /\ content \in Contents \ {None} /\ \A k \in Controls : content # Text(k)
    BY <1>2
  <2>3. PlanFits(g1)
    BY <1>4
  <2>4. QED
    BY <1>g2, <2>1, <2>2, <2>3, ControlIsGenerated
<1>6. /\ PlanFits(g3) /\ Extends(g2, g3) /\ g3.left = g2.left
      /\ DOMAIN g3.writes \subseteq DOMAIN g2.writes \union {Wiki("log")}
      /\ ~g3.blocked /\ ControlsCarried(g2.writes, disk) =>
           Wiki("log") \in DOMAIN g3.writes /\ g3.writes[Wiki("log")] = content
  <2>1. Wiki("log") \notin DOMAIN g2.writes
    BY <1>2, <1>3, <1>4, <1>5
  <2>2. "log" \in Controls /\ content \in Contents \ {None} /\ \A k \in Controls : content # Text(k)
    BY <1>2
  <2>3. PlanFits(g2)
    BY <1>5
  <2>4. QED
    BY <1>g3, <2>1, <2>2, <2>3, ControlIsGenerated
<1>7. r = g3 /\ (\A p \in Pages : disk[p] = None) /\ defect.what # "unknown"
  <2>1. r # Blocks(g3)
    BY <1>6, BlockedPlan
  <2>2. QED
    BY <1>1, <2>1 DEF Unhandled
<1>8. Extends(g1, g3) /\ Extends(plan, g3)
  BY <1>4, <1>5, <1>6, ExtendsIsTransitive
<1>9. ~g3.blocked /\ ~g2.blocked /\ ~plan.blocked
  BY <1>6, <1>7, <1>8 DEF Extends
<1>10. /\ ControlsCarried(plan.writes, disk) /\ MemoryCarried(plan.writes, disk)
       /\ \A s \in Legacy : Accounted(plan.writes, disk, plan.left, s)
  BY <1>7, <1>9 DEF PlanSound, Flawed
<1>11. ControlsCarried(g1.writes, disk) /\ ControlsCarried(g2.writes, disk)
  BY <1>4, <1>5, <1>10, ExtendsKeeps
<1>12. /\ MemoryCarried(g3.writes, disk)
       /\ \A s \in Legacy : Accounted(g3.writes, disk, g3.left, s)
  BY <1>8, <1>10, ExtendsKeeps
<1>13. DOMAIN g3.writes \intersect Pages = pages
  <2>1. \A p \in Pages : p \notin {Wiki("schema"), Wiki("index"), Wiki("log")}
    BY <1>2, PagePaths
  <2>2. DOMAIN plan.writes \subseteq DOMAIN g3.writes
    BY <1>8 DEF Extends
  <2>3. QED
    BY <1>p, <1>4, <1>5, <1>6, <2>1, <2>2
<1>14. /\ Wiki("index") \in DOMAIN g3.writes /\ g3.writes[Wiki("index")] = content
       /\ Wiki("log") \in DOMAIN g3.writes /\ g3.writes[Wiki("log")] = content
  BY <1>5, <1>6, <1>9, <1>11 DEF Extends
<1>15. PlanIsWhole(g3.writes, disk, g3.left)
  BY <1>c, <1>7, <1>12, <1>13, <1>14 DEF PlanIsWhole
<1>16. QED
  BY <1>3, <1>4, <1>5, <1>6, <1>7, <1>15 DEF PlanFits, PlanIsRecord

(* A step that completes the writes of a whole plan makes the workspace     *)
(* whole.                                                                   *)
LEMMA WholeAfterApply ==
  ASSUME NEW w, NEW d, WritesWhatIsThere(w, d), PlanIsWhole(w, d, reported)',
         \A p \in Paths : disk'[p] = IF p \in DOMAIN w THEN w[p] ELSE d[p]
  PROVE  IsWhole'
<1>1. \A n : CarriesText(w, d, Text(n)) => Holds(n)'
  <2>1. SUFFICES ASSUME NEW n, CarriesText(w, d, Text(n)) PROVE Holds(n)'
    OBVIOUS
  <2>2. CASE \E p \in DOMAIN w : w[p] = Text(n)
    BY <2>2 DEF WritesWhatIsThere, Holds
  <2>3. ASSUME NEW p \in Paths, p[1] # "wiki", d[p] = Text(n) PROVE Holds(n)'
    <3>1. p \notin DOMAIN w
      BY <2>3, TextsDiffer DEF WritesWhatIsThere
    <3>2. QED
      BY <2>3, <3>1 DEF Holds
  <2>4. QED
    BY <2>1, <2>2, <2>3 DEF CarriesText
<1>2. OnDisk' = DOMAIN w \intersect Pages
  <2>1. \A p \in Pages : p \in Paths /\ d[p] = None
    BY PagePaths DEF PlanIsWhole
  <2>2. \A p \in DOMAIN w : p \in Paths /\ w[p] # None
    BY DEF WritesWhatIsThere
  <2>3. QED
    BY <2>1, <2>2 DEF OnDisk
<1>3. (disk[Wiki("index")] = Listing(OnDisk) /\ disk[Wiki("log")] = Listing(OnDisk))'
  <2>1. \A c \in {"index", "log"} : Wiki(c) \in Paths /\ disk'[Wiki(c)] = Listing(DOMAIN w \intersect Pages)
    BY DEF PlanIsWhole, WritesWhatIsThere
  <2>2. QED
    BY <1>2, <2>1
<1>4. QED
  BY <1>1, <1>3 DEF IsWhole, PlanIsWhole, MemoryCarried, Accounted, Flawed

-----------------------------------------------------------------------------
(* The order of the renames.                                               *)

LEMMA TurnsOfPaths ==
  ASSUME NEW p \in Paths
  PROVE  /\ Turn(p) \in Nat
         /\ p # Wiki("schema") => Turn(p) < Turn(Wiki("schema"))
<1>1. Turn(Wiki("schema")) = 11
  BY DEF Turn, Wiki
<1>2. CASE p[1] = "archive" /\ p[2] \in Controls \union {"memory"}
  BY <1>1, <1>2 DEF Turn, Rank, Controls, Wiki
<1>3. CASE p[1] = "wiki" /\ p[2] \in Controls
  <2>1. p = Wiki(p[2])
    BY <1>3 DEF Paths, Archive, Wiki, Page, Page2, Diary, Pages
  <2>2. QED
    BY <1>1, <1>3, <2>1 DEF Turn, Rank, Controls, Wiki
<1>4. CASE p[1] = "diary"
  BY <1>1, <1>4 DEF Turn, Wiki
<1>5. CASE p[1] \in {"page", "page2"}
  BY <1>1, <1>5 DEF Turn, Wiki
<1>6. QED
  BY <1>2, <1>3, <1>4, <1>5 DEF Paths, Archive, Wiki, Page, Page2, Diary, Pages

LEMMA ArchiveIsEarlier ==
  ASSUME NEW c \in Controls
  PROVE  Turn(Archive(c)) < Turn(Wiki(c))
BY DEF Turn, Rank, Controls, Archive, Wiki

-----------------------------------------------------------------------------
(* The inductive invariant, one lemma per action.                          *)

LEMMA MigrationStarts == MigrationInit => MigrationInv
<1> SUFFICES ASSUME MigrationInit PROVE MigrationInv
  OBVIOUS
<1>1. PICK old \in {{}, {"index"}, {"issues"}, Controls} :
        disk = [p \in Paths |-> IF p[1] = "wiki" /\ p[2] \in old THEN Text(p[2]) ELSE None]
  BY DEF MigrationInit
<1>2. old \subseteq Controls
  BY DEF Controls
<1>3. disk \in [Paths -> Contents]
  <2>1. \A c \in Controls : Text(c) \in Contents
    BY ControlPaths
  <2>2. None \in Contents
    BY DEF Contents
  <2>3. QED
    BY <1>1, <1>2, <2>1, <2>2
<1>4. TextsInPlace(disk)
  <2>1. SUFFICES ASSUME NEW c \in Controls, NEW p \in Paths, disk[p] = Text(c)
                 PROVE  p = Wiki(c)
    BY DEF TextsInPlace
  <2>2. p[1] = "wiki" /\ Text(p[2]) = Text(c)
    BY <1>1, <2>1, TextsDiffer
  <2>3. p[2] = c
    BY <2>2, TextsDiffer
  <2>4. QED
    BY <2>2, <2>3 DEF Paths, Archive, Wiki, Page, Page2, Diary, Pages
<1>5. Unmarked(disk)
  <2>1. Wiki("schema") \in Paths
    BY ControlPaths DEF Controls
  <2>2. QED
    BY <1>1, <2>1, TextsDiffer DEF Unmarked
<1>6. apply.pc = "idle"
  BY DEF MigrationInit
<1>7. MigrationTypeOK
  BY <1>3, <1>6 DEF MigrationInit, MigrationTypeOK
<1>8. WorkspaceSound
  BY <1>4, <1>5 DEF MigrationInit, WorkspaceSound
<1>9. QED
  BY <1>6, <1>7, <1>8 DEF MigrationInv, PlanningSound, ApplyingSound

LEMMA WorkspaceStays ==
  ASSUME WorkspaceSound, UNCHANGED <<given, disk, reported>>
  PROVE  WorkspaceSound'
BY DEF WorkspaceSound, given, TextsInPlace, Unmarked, IsWhole, OnDisk, Holds, Flawed

LEMMA PlanStays ==
  ASSUME NEW plan, NEW files, PlanSound(plan, files), UNCHANGED <<given, disk>>
  PROVE  PlanSound(plan, files)'
BY DEF PlanSound, given, MemoryCarried, Accounted, Flawed

(* The apply ends, or planning does, and nothing has changed on disk.      *)
LEMMA NothingRuns ==
  ASSUME MigrationInv, apply' = [pc |-> "idle"], UNCHANGED <<given, disk, committed, reported>>
  PROVE  MigrationInv'
<1>1. MigrationTypeOK'
  BY DEF MigrationInv, MigrationTypeOK, given
<1>2. WorkspaceSound'
  BY WorkspaceStays DEF MigrationInv
<1>3. QED
  BY <1>1, <1>2 DEF MigrationInv, PlanningSound, ApplyingSound

LEMMA BeginKeeps ==
  ASSUME MigrationInv, Begin
  PROVE  MigrationInv'
<1>1. Unmarked(disk)
  <2>1. IsWhole => disk[Wiki("index")] # None
    BY TextsDiffer DEF IsWhole
  <2>2. QED
    BY <2>1 DEF Begin, IsV2, Unmarked, MigrationInv, WorkspaceSound
<1>a. PICK a : a = ControlsArchived
  OBVIOUS
<1>r. PICK r : r = PlanMemory(a)
  OBVIOUS
<1>t. /\ disk \in [Paths -> Contents] /\ TextsInPlace(disk)
      /\ memory.section \in Topics \union {"none"}
      /\ memory.section # "none" => memory.present
  BY DEF MigrationInv, MigrationTypeOK, WorkspaceSound
<1>2. /\ PlanFits(a) /\ (~a.blocked => ControlsCarried(a.writes, disk))
      /\ \A c : Wiki(c) \notin DOMAIN a.writes
  BY <1>1, <1>a, <1>t, ControlsAreArchived
<1>3. /\ PlanFits(r) /\ Extends(a, r) /\ OnlyIssues(r.writes)
      /\ ~r.blocked => MemoryCarried(r.writes, disk)
  BY <1>2, <1>r, <1>t, MemoryIsPlanned
<1>4. ~r.blocked => ControlsCarried(r.writes, disk)
  <2>1. ControlsCarried(a.writes, disk) => ControlsCarried(r.writes, disk)
    BY <1>3, ExtendsKeeps
  <2>2. ~r.blocked => ~a.blocked
    BY <1>3 DEF Extends
  <2>3. QED
    BY <1>2, <2>1, <2>2
<1>5. PlanSound(r, Legacy)
  BY <1>3, <1>4 DEF PlanSound, PlanFits
<1>6. /\ apply' = [pc |-> "plan", plan |-> r, files |-> Legacy]
      /\ UNCHANGED <<given, disk, committed, reported>>
  BY <1>a, <1>r DEF Begin
<1>7. MigrationTypeOK'
  BY <1>5, <1>6 DEF MigrationInv, MigrationTypeOK, given, PlanSound, PlanIsRecord
<1>8. WorkspaceSound'
  BY <1>6, WorkspaceStays DEF MigrationInv
<1>9. PlanningSound'
  <2>1. PlanSound(r, Legacy)'
    BY <1>5, <1>6, PlanStays
  <2>2. QED
    BY <1>1, <1>6, <2>1 DEF PlanningSound, Unmarked
<1>10. ApplyingSound'
  BY <1>6 DEF ApplyingSound
<1>11. QED
  BY <1>7, <1>8, <1>9, <1>10 DEF MigrationInv

LEMMA PlanNextKeeps ==
  ASSUME MigrationInv, PlanNext
  PROVE  MigrationInv'
<1>1. PICK s \in apply.files : apply' = [apply EXCEPT !.plan = PlanFile(@, s), !.files = @ \ {s}]
  BY DEF PlanNext
<1>p. PICK plan : plan = apply.plan
  OBVIOUS
<1>r. PICK r : r = PlanFile(plan, s)
  OBVIOUS
<1>f. PICK files : files = apply.files
  OBVIOUS
<1>2. /\ apply.pc = "plan" /\ DOMAIN apply = {"pc", "plan", "files"}
      /\ Unmarked(disk) /\ PlanSound(plan, files) /\ files \subseteq Legacy
      /\ route \in [Legacy -> Topics] /\ UNCHANGED <<given, disk, committed, reported>>
  BY <1>p, <1>f DEF PlanNext, MigrationInv, PlanningSound, MigrationTypeOK
<1>3. /\ apply'.pc = "plan" /\ DOMAIN apply' = {"pc", "plan", "files"}
      /\ apply'.plan = r /\ apply'.files = files \ {s}
  BY <1>1, <1>2, <1>p, <1>r, <1>f
<1>4. PlanFits(plan) /\ OnlyIssues(plan.writes) /\ s \in Legacy
  BY <1>2, <1>f DEF PlanSound, PlanFits
<1>5. /\ PlanFits(r) /\ Extends(plan, r) /\ OnlyIssues(r.writes)
      /\ ~r.blocked => Accounted(r.writes, disk, r.left, s) \/ Flawed(s, "unknown")
  BY <1>2, <1>4, <1>r, FileIsPlanned
<1>6. ~r.blocked =>
        /\ ControlsCarried(r.writes, disk) /\ MemoryCarried(r.writes, disk)
        /\ \A t \in Legacy \ files : Accounted(r.writes, disk, r.left, t) \/ Flawed(t, "unknown")
  <2>1. ~r.blocked => ~plan.blocked
    BY <1>5 DEF Extends
  <2>2. /\ ControlsCarried(plan.writes, disk) => ControlsCarried(r.writes, disk)
        /\ MemoryCarried(plan.writes, disk) => MemoryCarried(r.writes, disk)
        /\ \A t : Accounted(plan.writes, disk, plan.left, t) => Accounted(r.writes, disk, r.left, t)
    BY <1>5, ExtendsKeeps
  <2>3. QED
    BY <1>2, <2>1, <2>2 DEF PlanSound
<1>g. PICK rest : rest = files \ {s}
  OBVIOUS
<1>7. PlanSound(r, rest)
  BY <1>5, <1>6, <1>g DEF PlanSound, PlanFits
<1>8. MigrationTypeOK'
  BY <1>2, <1>3, <1>7 DEF MigrationInv, MigrationTypeOK, given, PlanSound, PlanIsRecord
<1>9. WorkspaceSound'
  BY <1>2, WorkspaceStays DEF MigrationInv
<1>10. PlanningSound'
  <2>1. PlanSound(r, rest)'
    BY <1>2, <1>7, PlanStays
  <2>2. QED
    BY <1>2, <1>3, <1>g, <2>1 DEF PlanningSound, Unmarked
<1>11. ApplyingSound'
  BY <1>3 DEF ApplyingSound
<1>12. QED
  BY <1>8, <1>9, <1>10, <1>11 DEF MigrationInv

LEMMA StartKeeps ==
  ASSUME MigrationInv, NEW allowDirty \in BOOLEAN, Start(allowDirty)
  PROVE  MigrationInv'
<1>p. PICK plan : plan = apply.plan
  OBVIOUS
<1>r. PICK r : r = Unhandled(PlanGenerated(plan))
  OBVIOUS
<1>1. /\ apply.pc = "plan" /\ apply.files = {} /\ ~r.blocked
      /\ apply' = [pc |-> "rename", writes |-> r.writes, todo |-> DOMAIN r.writes,
                   done |-> {}, before |-> disk, clean |-> TRUE]
      /\ reported' = r.left /\ UNCHANGED <<given, disk, committed>>
  BY <1>p, <1>r DEF Start
<1>2. /\ Unmarked(disk) /\ PlanSound(plan, {})
      /\ disk \in [Paths -> Contents] /\ TextsInPlace(disk)
  BY <1>1, <1>p DEF MigrationInv, MigrationTypeOK, PlanningSound, WorkspaceSound
<1>3. /\ WritesWhatIsThere(r.writes, disk) /\ PlanIsWhole(r.writes, disk, r.left)
      /\ r.left \subseteq Legacy
  BY <1>1, <1>2, <1>r, PlanBecomesWhole
<1>w. PICK w, left : w = r.writes /\ left = r.left
  OBVIOUS
<1>4. /\ apply'.pc = "rename" /\ apply'.writes = w /\ apply'.todo = DOMAIN w
      /\ apply'.done = {} /\ apply'.before = disk /\ apply'.clean = TRUE
      /\ DOMAIN apply' = {"pc", "writes", "todo", "done", "before", "clean"}
      /\ reported' = left /\ disk' = disk /\ left \subseteq Legacy
  BY <1>1, <1>3, <1>w
<1>5. MigrationTypeOK'
  <2>1. DOMAIN w \subseteq Paths
    BY <1>3, <1>w DEF WritesWhatIsThere
  <2>2. QED
    BY <1>1, <1>4, <2>1 DEF MigrationInv, MigrationTypeOK, given
<1>6. WorkspaceSound'
  BY <1>1, <1>2 DEF MigrationInv, WorkspaceSound, given, TextsInPlace, Unmarked
<1>7. ApplySound'
  <2>1. PlanIsWhole(w, disk, left)'
    BY <1>1, <1>3, <1>w DEF PlanIsWhole, MemoryCarried, Accounted, Flawed, given
  <2>2. WritesWhatIsThere(w, disk)'
    BY <1>3, <1>4, <1>w DEF WritesWhatIsThere, Archived
  <2>3. Unmarked(disk)' /\ TextsInPlace(disk)'
    BY <1>2, <1>4 DEF Unmarked, TextsInPlace
  <2>4. QED
    BY <1>4, <2>1, <2>2, <2>3 DEF ApplySound
<1>8. QED
  BY <1>4, <1>5, <1>6, <1>7 DEF MigrationInv, PlanningSound, ApplyingSound

(* What an action that goes on with the apply leaves alone.                *)
LEMMA ApplyFacts ==
  ASSUME MigrationInv, apply.pc \in {"rename", "undo"}
  PROVE  /\ ApplySound /\ disk \in [Paths -> Contents] /\ apply.before \in [Paths -> Contents]
         /\ apply.todo \subseteq Paths /\ apply.done \subseteq Paths
         /\ DOMAIN apply.writes \subseteq Paths /\ TextsInPlace(disk)
         /\ Unmarked(disk) \/ (apply.pc = "rename" /\ apply.todo = {})
BY DEF MigrationInv, MigrationTypeOK, ApplyingSound, ApplySound, WritesWhatIsThere, WorkspaceSound

LEMMA RenameKeeps ==
  ASSUME MigrationInv, Rename
  PROVE  MigrationInv'
<1>1. PICK path \in apply.todo :
        /\ \A other \in apply.todo : Turn(path) <= Turn(other)
        /\ disk' = [disk EXCEPT ![path] = apply.writes[path]]
        /\ apply' = [apply EXCEPT !.todo = @ \ {path}, !.done = @ \union {path}]
  BY DEF Rename
<1>v. PICK w, d, todo, done : w = apply.writes /\ d = apply.before /\ todo = apply.todo /\ done = apply.done
  OBVIOUS
<1>2. /\ apply.pc = "rename" /\ ApplySound /\ disk \in [Paths -> Contents]
      /\ d \in [Paths -> Contents] /\ todo \subseteq Paths /\ done \subseteq Paths
      /\ DOMAIN w \subseteq Paths /\ TextsInPlace(disk)
      /\ path \in todo /\ UNCHANGED <<given, committed, reported>>
  BY <1>v, ApplyFacts DEF Rename
<1>3. /\ WritesWhatIsThere(w, d) /\ Unmarked(d) /\ TextsInPlace(d)
      /\ done \subseteq DOMAIN w /\ todo = DOMAIN w \ done
      /\ PlanIsWhole(w, d, reported)
      /\ \A p \in Paths : disk[p] = IF p \in done THEN w[p] ELSE d[p]
      /\ Unmarked(disk)
      /\ DOMAIN apply = {"pc", "writes", "todo", "done", "before", "clean"}
  BY <1>2, <1>v DEF ApplySound
<1>4. /\ apply'.pc = "rename" /\ apply'.writes = w /\ apply'.before = d
      /\ apply'.todo = todo \ {path} /\ apply'.done = done \union {path}
      /\ DOMAIN apply' = {"pc", "writes", "todo", "done", "before", "clean"}
  BY <1>1, <1>2, <1>3, <1>v
<1>5. /\ path \in DOMAIN w /\ path \in Paths /\ w[path] \in Contents
      /\ DOMAIN disk' = Paths
      /\ \A p \in Paths : disk'[p] = IF p = path THEN w[path] ELSE disk[p]
  BY <1>1, <1>2, <1>3, <1>v DEF WritesWhatIsThere
<1>6. disk' \in [Paths -> Contents]
  BY <1>1, <1>2, <1>5, <1>v
<1>7. MigrationTypeOK'
  BY <1>2, <1>4, <1>5, <1>6 DEF MigrationInv, MigrationTypeOK, given
<1>8. TextsInPlace(disk)'
  <2>1. \A c \in Controls : w[path] = Text(c) => path = Archive(c)
    BY <1>3, <1>5 DEF WritesWhatIsThere
  <2>2. QED
    BY <1>2, <1>5, <2>1 DEF TextsInPlace
<1>9. \A p \in Paths : disk'[p] = IF p \in done \union {path} THEN w[p] ELSE d[p]
  BY <1>3, <1>5
<1>10. PlanIsWhole(w, d, reported)'
  BY <1>2, <1>3 DEF PlanIsWhole, MemoryCarried, Accounted, Flawed, given
<1>11. Unmarked(disk)' \/ todo \ {path} = {}
  <2>1. CASE path # Wiki("schema")
    <3>1. Wiki("schema") \in Paths
      BY ControlPaths DEF Controls
    <3>2. QED
      BY <1>3, <1>5, <2>1, <3>1 DEF Unmarked
  <2>2. CASE path = Wiki("schema")
    <3>1. \A p \in todo : p # path => Turn(p) < Turn(path)
      BY <1>2, <2>2, TurnsOfPaths
    <3>2. \A p \in todo : Turn(p) \in Nat /\ Turn(path) \in Nat /\ Turn(path) <= Turn(p)
      BY <1>1, <1>2, <1>v, TurnsOfPaths
    <3>3. \A p \in todo : p = path
      BY <3>1, <3>2
    <3>4. QED
      BY <3>3
  <2>3. QED
    BY <2>1, <2>2
<1>12. IsWhole' \/ Unmarked(disk)'
  <2>1. CASE todo \ {path} = {}
    <3>1. DOMAIN w = done \union {path}
      BY <1>3, <1>5, <2>1
    <3>2. \A p \in Paths : disk'[p] = IF p \in DOMAIN w THEN w[p] ELSE d[p]
      BY <1>9, <3>1
    <3>3. QED
      BY <1>3, <1>10, <3>2, WholeAfterApply
  <2>2. QED
    BY <1>11, <2>1
<1>13. WorkspaceSound'
  BY <1>2, <1>8, <1>12 DEF MigrationInv, WorkspaceSound, given
<1>14. ApplySound'
  BY <1>3, <1>4, <1>5, <1>9, <1>10, <1>11 DEF ApplySound
<1>15. QED
  BY <1>4, <1>7, <1>13, <1>14 DEF MigrationInv, PlanningSound, ApplyingSound

LEMMA RenameFailsKeeps ==
  ASSUME MigrationInv, RenameFails
  PROVE  MigrationInv'
<1>1. /\ apply.pc = "rename" /\ apply.todo # {}
      /\ apply' = [apply EXCEPT !.pc = "undo"] /\ UNCHANGED <<given, disk, committed, reported>>
  BY DEF RenameFails
<1>2. ApplySound /\ Unmarked(disk)
      /\ DOMAIN apply = {"pc", "writes", "todo", "done", "before", "clean"}
  BY <1>1, ApplyFacts DEF ApplySound
<1>3. /\ apply'.pc = "undo" /\ apply'.writes = apply.writes /\ apply'.before = apply.before
      /\ apply'.todo = apply.todo /\ apply'.done = apply.done /\ apply'.clean = apply.clean
      /\ DOMAIN apply' = {"pc", "writes", "todo", "done", "before", "clean"}
  BY <1>1, <1>2
<1>4. MigrationTypeOK'
  BY <1>1, <1>3 DEF MigrationInv, MigrationTypeOK, given
<1>5. WorkspaceSound'
  BY <1>1, WorkspaceStays DEF MigrationInv
<1>6. Unmarked(disk)'
  BY <1>1, <1>2 DEF Unmarked
<1>7. ApplySound'
  BY <1>1, <1>2, <1>3, <1>6 DEF ApplySound
<1>8. QED
  BY <1>3, <1>4, <1>5, <1>7 DEF MigrationInv, PlanningSound, ApplyingSound

LEMMA UndoKeeps ==
  ASSUME MigrationInv, Undo
  PROVE  MigrationInv'
<1>1. PICK path \in apply.done :
        /\ disk' = [disk EXCEPT ![path] = apply.before[path]]
        /\ apply' = [apply EXCEPT !.done = @ \ {path}]
  BY DEF Undo, Restored
<1>v. PICK w, d, done : w = apply.writes /\ d = apply.before /\ done = apply.done
  OBVIOUS
<1>2. /\ apply.pc = "undo" /\ ApplySound /\ disk \in [Paths -> Contents]
      /\ d \in [Paths -> Contents] /\ apply.todo \subseteq Paths /\ done \subseteq Paths
      /\ TextsInPlace(disk) /\ Unmarked(disk)
      /\ path \in done /\ UNCHANGED <<given, committed, reported>>
  BY <1>v, ApplyFacts DEF Undo
<1>3. /\ WritesWhatIsThere(w, d) /\ Unmarked(d) /\ TextsInPlace(d) /\ done \subseteq DOMAIN w
      /\ apply.clean => \A p \in Paths : disk[p] = IF p \in done THEN w[p] ELSE d[p]
      /\ DOMAIN apply = {"pc", "writes", "todo", "done", "before", "clean"}
  BY <1>2, <1>v DEF ApplySound
<1>4. /\ apply'.pc = "undo" /\ apply'.writes = w /\ apply'.before = d
      /\ apply'.todo = apply.todo /\ apply'.done = done \ {path} /\ apply'.clean = apply.clean
      /\ DOMAIN apply' = {"pc", "writes", "todo", "done", "before", "clean"}
  BY <1>1, <1>2, <1>3, <1>v
<1>5. /\ path \in Paths /\ DOMAIN disk' = Paths
      /\ \A p \in Paths : disk'[p] = IF p = path THEN d[path] ELSE disk[p]
  BY <1>1, <1>2, <1>v
<1>6. disk' \in [Paths -> Contents]
  BY <1>1, <1>2, <1>5, <1>v
<1>7. MigrationTypeOK'
  BY <1>2, <1>4, <1>6 DEF MigrationInv, MigrationTypeOK, given
<1>8. TextsInPlace(disk)' /\ Unmarked(disk)'
  <2>1. Wiki("schema") \in Paths
    BY ControlPaths DEF Controls
  <2>2. QED
    BY <1>2, <1>3, <1>5, <2>1 DEF TextsInPlace, Unmarked
<1>9. apply.clean => \A p \in Paths : disk'[p] = IF p \in done \ {path} THEN w[p] ELSE d[p]
  BY <1>3, <1>5
<1>10. WorkspaceSound'
  BY <1>2, <1>8 DEF MigrationInv, WorkspaceSound, given
<1>11. ApplySound'
  BY <1>3, <1>4, <1>8, <1>9 DEF ApplySound
<1>12. QED
  BY <1>4, <1>7, <1>10, <1>11 DEF MigrationInv, PlanningSound, ApplyingSound

(* A file that the rollback leaves torn is none that anything relies on.   *)
LEMMA CutShortKeeps ==
  ASSUME MigrationInv, apply.pc = "undo", UNCHANGED <<given, reported>>,
         NEW path \in apply.done, disk' = disk \/ CutShort(path)
  PROVE  disk' \in [Paths -> Contents] /\ Unmarked(disk)' /\ WorkspaceSound'
<1>1. /\ disk \in [Paths -> Contents] /\ TextsInPlace(disk) /\ Unmarked(disk)
      /\ path \in Paths
  BY ApplyFacts
<1>2. /\ Torn \in Contents /\ Torn # Schema
      /\ \A c : Torn # Text(c)
  BY DEF Torn, Contents, Schema, Text
<1>3. Wiki("schema") \in Paths
  BY ControlPaths DEF Controls
<1>4. CASE disk' = disk
  BY <1>1, <1>4 DEF MigrationInv, WorkspaceSound, given, Unmarked
<1>5. CASE disk' = [disk EXCEPT ![path] = Torn]
  <2>1. \A p \in Paths : disk'[p] = IF p = path THEN Torn ELSE disk[p]
    BY <1>1, <1>5
  <2>2. disk' \in [Paths -> Contents]
    BY <1>1, <1>2, <1>5
  <2>3. TextsInPlace(disk)' /\ Unmarked(disk)'
    BY <1>1, <1>2, <1>3, <2>1 DEF TextsInPlace, Unmarked
  <2>4. QED
    BY <2>2, <2>3 DEF MigrationInv, WorkspaceSound, given
<1>6. QED
  BY <1>4, <1>5 DEF CutShort

LEMMA UndoFailsKeeps ==
  ASSUME MigrationInv, UndoFails
  PROVE  MigrationInv'
<1>1. PICK path \in apply.done :
        /\ disk' = disk \/ CutShort(path)
        /\ apply' = [apply EXCEPT !.done = @ \ {path}, !.clean = FALSE]
  BY DEF UndoFails
<1>2. /\ apply.pc = "undo" /\ ApplySound
      /\ apply.before \in [Paths -> Contents] /\ apply.todo \subseteq Paths /\ apply.done \subseteq Paths
      /\ DOMAIN apply = {"pc", "writes", "todo", "done", "before", "clean"}
      /\ UNCHANGED <<given, committed, reported>>
  BY ApplyFacts DEF UndoFails, ApplySound
<1>3. /\ apply'.pc = "undo" /\ apply'.writes = apply.writes /\ apply'.before = apply.before
      /\ apply'.todo = apply.todo /\ apply'.done = apply.done \ {path} /\ apply'.clean = FALSE
      /\ DOMAIN apply' = {"pc", "writes", "todo", "done", "before", "clean"}
  BY <1>1, <1>2
<1>4. disk' \in [Paths -> Contents] /\ Unmarked(disk)' /\ WorkspaceSound'
  BY <1>1, <1>2, CutShortKeeps
<1>5. MigrationTypeOK'
  BY <1>2, <1>3, <1>4 DEF MigrationInv, MigrationTypeOK, given
<1>6. ApplySound'
  BY <1>2, <1>3, <1>4 DEF ApplySound
<1>7. QED
  BY <1>3, <1>4, <1>5, <1>6 DEF MigrationInv, PlanningSound, ApplyingSound

LEMMA CrashKeeps ==
  ASSUME MigrationInv, Crash
  PROVE  MigrationInv'
<1>1. /\ apply' = [pc |-> "idle"] /\ UNCHANGED <<given, committed, reported>>
  BY DEF Crash
<1>2. CASE disk' = disk
  BY <1>1, <1>2, NothingRuns
<1>3. ASSUME apply.pc = "undo", NEW path \in apply.done, CutShort(path)
      PROVE  MigrationInv'
  <2>1. disk' \in [Paths -> Contents] /\ WorkspaceSound'
    BY <1>1, <1>3, CutShortKeeps
  <2>2. MigrationTypeOK'
    BY <1>1, <2>1 DEF MigrationInv, MigrationTypeOK, given
  <2>3. QED
    BY <1>1, <2>1, <2>2 DEF MigrationInv, PlanningSound, ApplyingSound
<1>4. QED
  BY <1>2, <1>3 DEF Crash

LEMMA CommitKeeps ==
  ASSUME MigrationInv, Commit
  PROVE  MigrationInv'
<1>1. MigrationTypeOK'
  BY DEF MigrationInv, MigrationTypeOK, Commit, given
<1>2. WorkspaceSound'
  BY WorkspaceStays DEF MigrationInv, Commit
<1>3. apply' = apply /\ apply.pc = "idle"
  BY DEF Commit
<1>4. QED
  BY <1>1, <1>2, <1>3 DEF MigrationInv, PlanningSound, ApplyingSound

LEMMA MigrationStutters ==
  ASSUME MigrationInv, UNCHANGED migrationVars
  PROVE  MigrationInv'
<1>1. UNCHANGED <<given, disk, committed, reported, apply>>
  BY DEF migrationVars, given
<1>2. MigrationTypeOK'
  BY <1>1 DEF MigrationInv, MigrationTypeOK, given
<1>3. WorkspaceSound'
  BY <1>1, WorkspaceStays DEF MigrationInv
<1>4. PlanningSound'
  BY <1>1 DEF MigrationInv, PlanningSound, PlanSound, given, MemoryCarried, Accounted, Flawed, Unmarked
<1>5. ApplyingSound'
  BY <1>1 DEF MigrationInv, ApplyingSound, ApplySound, given, PlanIsWhole, MemoryCarried,
              Accounted, Flawed, Unmarked
<1>6. QED
  BY <1>2, <1>3, <1>4, <1>5 DEF MigrationInv

LEMMA MigrationInvIsInductive ==
  MigrationInv /\ [MigrationNext]_migrationVars => MigrationInv'
<1> SUFFICES ASSUME MigrationInv, [MigrationNext]_migrationVars PROVE MigrationInv'
  OBVIOUS
<1>1. CASE Begin
  BY <1>1, BeginKeeps
<1>2. CASE PlanNext
  BY <1>2, PlanNextKeeps
<1>3. ASSUME NEW allowDirty \in BOOLEAN, Start(allowDirty) PROVE MigrationInv'
  BY <1>3, StartKeeps
<1>4. CASE PlanningEnds \/ Applied \/ Failed
  BY <1>4, NothingRuns DEF PlanningEnds, Applied, Failed
<1>5. CASE Rename
  BY <1>5, RenameKeeps
<1>6. CASE RenameFails
  BY <1>6, RenameFailsKeeps
<1>7. CASE Undo
  BY <1>7, UndoKeeps
<1>8. CASE UndoFails
  BY <1>8, UndoFailsKeeps
<1>9. CASE Crash
  BY <1>9, CrashKeeps
<1>10. CASE Commit
  BY <1>10, CommitKeeps
<1>11. CASE UNCHANGED migrationVars
  BY <1>11, MigrationStutters
<1>12. QED
  BY <1>1, <1>2, <1>3, <1>4, <1>5, <1>6, <1>7, <1>8, <1>9, <1>10, <1>11 DEF MigrationNext

LEMMA MigrationInvHolds == MigrationSpec => []MigrationInv
BY MigrationStarts, MigrationInvIsInductive, PTL DEF MigrationSpec

(* Every path holds one of the contents, and an apply knows its paths,      *)
(* whichever action comes next.                                             *)
THEOREM MigrationTypeCorrect == MigrationSpec => []MigrationTypeOK
<1>1. MigrationInv => MigrationTypeOK
  BY DEF MigrationInv
<1>2. QED
  BY <1>1, MigrationInvHolds, PTL

(* A workspace that reads as v2 is whole, for any number of legacy files,   *)
(* pages, failed calls, crashes, reruns and commits.                        *)
THEOREM MigrationIsWhole == MigrationSpec => []MigratedIsWhole
<1>1. MigrationInv => MigratedIsWhole
  BY DEF MigrationInv, WorkspaceSound, Unmarked, MigratedIsWhole, IsV2
<1>2. QED
  BY <1>1, MigrationInvHolds, PTL

-----------------------------------------------------------------------------
(* What an apply that goes wrong costs.                                    *)

(* The text of a control file that is overwritten is in its archive.        *)
LEMMA RenameKeepsControls ==
  ASSUME MigrationInv, Rename, NEW c \in Controls, Holds(c)
  PROVE  Holds(c)'
<1>1. PICK path \in apply.todo :
        /\ \A other \in apply.todo : Turn(path) <= Turn(other)
        /\ disk' = [disk EXCEPT ![path] = apply.writes[path]]
  BY DEF Rename
<1>v. PICK w, d, todo, done : w = apply.writes /\ d = apply.before /\ todo = apply.todo /\ done = apply.done
  OBVIOUS
<1>2. /\ ApplySound /\ disk \in [Paths -> Contents] /\ apply.pc = "rename"
      /\ todo \subseteq Paths /\ TextsInPlace(disk) /\ path \in todo /\ path \in Paths
  BY <1>v, ApplyFacts DEF Rename
<1>3. /\ WritesWhatIsThere(w, d) /\ done \subseteq DOMAIN w /\ todo = DOMAIN w \ done
      /\ \A p \in Paths : disk[p] = IF p \in done THEN w[p] ELSE d[p]
  BY <1>2, <1>v DEF ApplySound
<1>4. \A p \in Paths : disk'[p] = IF p = path THEN w[path] ELSE disk[p]
  BY <1>1, <1>2, <1>v
<1>5. PICK q \in Paths : disk[q] = Text(c)
  BY DEF Holds
<1>6. CASE q # path
  BY <1>4, <1>5, <1>6 DEF Holds
<1>7. CASE q = path
  <2>1. path \notin done /\ d[path] = Text(c) /\ d[path] # None /\ path \in DOMAIN w
    BY <1>2, <1>3, <1>5, <1>7, TextsDiffer
  <2>2. path[1] = "wiki"
    BY <1>3, <2>1 DEF WritesWhatIsThere
  <2>3. path = Wiki(c)
    BY <1>2, <1>5, <1>7, <2>2, PathsDiffer DEF TextsInPlace
  <2>4. Archived(w, d, c)
    BY <1>3, <2>1, <2>3 DEF WritesWhatIsThere
  <2>5. Archive(c) # path /\ Archive(c) \in Paths /\ Archive(c)[1] # "wiki"
    BY <2>3, ControlPaths, PathsDiffer
  <2>6. disk[Archive(c)] = Text(c)
    <3>1. CASE Archive(c) \in DOMAIN w
      <4>1. Archive(c) \notin todo
        <5>1. Turn(Archive(c)) < Turn(path)
          BY <2>3, ArchiveIsEarlier
        <5>2. Turn(Archive(c)) \in Nat /\ Turn(path) \in Nat
          BY <1>2, <2>5, TurnsOfPaths
        <5>3. QED
          BY <1>1, <1>v, <5>1, <5>2
      <4>2. Archive(c) \in done
        BY <1>3, <3>1, <4>1
      <4>3. w[Archive(c)] = d[Wiki(c)]
        BY <1>3, <3>1 DEF WritesWhatIsThere
      <4>4. QED
        BY <1>3, <2>1, <2>3, <2>5, <4>2, <4>3
    <3>2. CASE Archive(c) \notin DOMAIN w
      BY <1>3, <2>1, <2>3, <2>4, <2>5, <3>2 DEF Archived
    <3>3. QED
      BY <3>1, <3>2
  <2>7. QED
    BY <1>4, <2>5, <2>6 DEF Holds
<1>8. QED
  BY <1>6, <1>7

(* An archive is removed only after the file it keeps is back.              *)
LEMMA UndoKeepsControls ==
  ASSUME MigrationInv, Undo, apply.clean, NEW c \in Controls, Holds(c)
  PROVE  Holds(c)'
<1>1. PICK path \in apply.done :
        /\ \A other \in apply.done : Turn(other) <= Turn(path)
        /\ disk' = [disk EXCEPT ![path] = apply.before[path]]
  BY DEF Undo, IsLastDone, Restored
<1>v. PICK w, d, done : w = apply.writes /\ d = apply.before /\ done = apply.done
  OBVIOUS
<1>2. /\ ApplySound /\ disk \in [Paths -> Contents] /\ apply.pc = "undo"
      /\ done \subseteq Paths /\ TextsInPlace(disk) /\ path \in done /\ path \in Paths
  BY <1>v, ApplyFacts DEF Undo
<1>3. /\ WritesWhatIsThere(w, d) /\ done \subseteq DOMAIN w
      /\ \A p \in Paths : disk[p] = IF p \in done THEN w[p] ELSE d[p]
  BY <1>2, <1>v DEF ApplySound
<1>4. \A p \in Paths : disk'[p] = IF p = path THEN d[path] ELSE disk[p]
  BY <1>1, <1>2, <1>v
<1>5. PICK q \in Paths : disk[q] = Text(c)
  BY DEF Holds
<1>6. CASE q # path
  BY <1>4, <1>5, <1>6 DEF Holds
<1>7. CASE q = path
  <2>1. w[path] = Text(c) /\ path \in DOMAIN w
    BY <1>2, <1>3, <1>5, <1>7
  <2>2. path = Archive(c)
    BY <1>3, <2>1 DEF WritesWhatIsThere
  <2>3. d[Wiki(c)] = Text(c)
    BY <1>3, <2>1, <2>2 DEF WritesWhatIsThere
  <2>4. Wiki(c) # path /\ Wiki(c) \in Paths
    BY <2>2, ControlPaths, PathsDiffer
  <2>5. Wiki(c) \notin done
    <3>1. Turn(path) < Turn(Wiki(c))
      BY <2>2, ArchiveIsEarlier
    <3>2. Turn(path) \in Nat /\ Turn(Wiki(c)) \in Nat
      BY <1>2, <2>4, TurnsOfPaths
    <3>3. QED
      BY <1>1, <1>v, <3>1, <3>2
  <2>6. disk[Wiki(c)] = Text(c)
    BY <1>3, <2>3, <2>4, <2>5
  <2>7. QED
    BY <1>4, <2>4, <2>6 DEF Holds
<1>8. QED
  BY <1>6, <1>7

(* What is being put back, and may be left torn, is none of the texts.      *)
LEMMA CutShortKeepsControls ==
  ASSUME MigrationInv, apply.pc = "undo", apply.clean, NEW path \in apply.done,
         disk' = disk \/ CutShort(path), NEW c \in Controls, Holds(c)
  PROVE  Holds(c)'
<1>1. CASE disk' = disk
  BY <1>1 DEF Holds
<1>2. CASE CutShort(path)
  <2>v. PICK w, d, done : w = apply.writes /\ d = apply.before /\ done = apply.done
    OBVIOUS
  <2>1. /\ ApplySound /\ disk \in [Paths -> Contents] /\ done \subseteq Paths
        /\ path \in done /\ path \in Paths
    BY <2>v, ApplyFacts
  <2>2. /\ WritesWhatIsThere(w, d) /\ done \subseteq DOMAIN w
        /\ \A p \in Paths : disk[p] = IF p \in done THEN w[p] ELSE d[p]
    BY <2>1, <2>v DEF ApplySound
  <2>3. d[path] # None /\ disk' = [disk EXCEPT ![path] = Torn]
    BY <1>2, <2>v DEF CutShort
  <2>4. w[path] # Text(c)
    BY <2>1, <2>2, <2>3, PathsDiffer DEF WritesWhatIsThere
  <2>5. PICK q \in Paths : disk[q] = Text(c)
    BY DEF Holds
  <2>6. q # path
    BY <2>1, <2>2, <2>4, <2>5
  <2>7. disk'[q] = Text(c)
    BY <2>1, <2>3, <2>5, <2>6
  <2>8. QED
    BY <2>7 DEF Holds
<1>3. QED
  BY <1>1, <1>2

LEMMA ControlsAreKept ==
  ASSUME MigrationInv, [MigrationNext]_migrationVars
  PROVE  LegacyControlKept
<1> SUFFICES ASSUME apply.pc = "undo" => apply.clean, NEW c \in Controls, Holds(c)
             PROVE  Holds(c)'
  BY DEF LegacyControlKept
<1>1. CASE UNCHANGED disk
  BY <1>1 DEF Holds
<1>2. CASE Rename
  BY <1>2, RenameKeepsControls
<1>3. CASE Undo
  BY <1>3, UndoKeepsControls DEF Undo
<1>4. CASE UndoFails \/ Crash
  <2>1. disk' = disk \/ \E path \in apply.done : apply.pc = "undo" /\ CutShort(path)
    BY <1>4 DEF UndoFails, Crash
  <2>2. QED
    BY <1>1, <2>1, CutShortKeepsControls
<1>5. QED
  BY <1>1, <1>2, <1>3, <1>4 DEF MigrationNext, migrationVars, Begin, PlanNext, Start,
                                PlanningEnds, Applied, RenameFails, Failed, Commit

LEMMA RolledBackIsAsBefore ==
  ASSUME MigrationInv
  PROVE  FailureLeavesNoTrace
<1> SUFFICES ASSUME apply.pc = "undo", apply.done = {}, apply.clean
             PROVE  disk = apply.before
  BY DEF FailureLeavesNoTrace
<1>1. disk \in [Paths -> Contents] /\ apply.before \in [Paths -> Contents]
  BY DEF MigrationInv, MigrationTypeOK
<1>2. \A p \in Paths : disk[p] = apply.before[p]
  BY DEF MigrationInv, ApplyingSound, ApplySound
<1>3. QED
  BY <1>1, <1>2

(* No apply, rollback or crash costs the text of a control file, and an     *)
(* apply that is rolled back leaves no trace, unless the rollback fails.    *)
THEOREM ApplyCostsNothing == MigrationSpec => ApplyIsSafe
<1>1. MigrationInv /\ [MigrationNext]_migrationVars =>
        [LegacyControlKept /\ FailureLeavesNoTrace]_<<disk, apply>>
  BY ControlsAreKept, RolledBackIsAsBefore
<1>2. QED
  BY <1>1, MigrationInvHolds, PTL DEF MigrationSpec, ApplyIsSafe

==============================================================================
