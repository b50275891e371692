---------------------------- MODULE RunCronPath -----------------------------
(***************************************************************************)
(* validateExplicitRunCronScript (src/src/launchd-cron-plists.ts): which   *)
(* run-cron.sh an operator may name for launchd to run. A path is the      *)
(* directories from the top to the trust directory (above), those from     *)
(* there to the script (below, only behind the one directory link that is  *)
(* allowed), and the script. An entry has an owner and modes. Spelling     *)
(* (absolute, normalized, the base name) is left out, "exists" too: a call *)
(* that fails refuses the path.                                            *)
(***************************************************************************)
EXTENDS Naturals, Sequences

CONSTANT Runners

Entries == [dir : BOOLEAN, owner : STRING, open : BOOLEAN, sticky : BOOLEAN, runs : BOOLEAN]

ASSUME RunnersAssumption ==
    \A r \in Runners :
        /\ r.above \in Seq(Entries) \ {<<>>} /\ r.below \in Seq(Entries)
        /\ r.script \in Entries /\ r.links \in Nat

Trustees == {"root", "me"}

\* validateOwnedRunCronComponent
Mine(e) == e.owner = "me" /\ ~e.open

\* Mutant: a writable ancestor passes when it is the owner's.
GuardsIfOwned(parent, child) == parent.dir /\ parent.owner \in Trustees /\ child.owner \in Trustees

\* One step of validateRunCronAncestorDirectories.
Guards(parent, child) ==
    /\ parent.dir
    /\ parent.owner \in Trustees
    /\ parent.open => (parent.sticky /\ child.owner \in Trustees)

Guarded(dirs) == \A i \in 1 .. Len(dirs) - 1 : Guards(dirs[i], dirs[i + 1])

\* The directory link: its own owner, its target beneath its directory.
LinkSound(link) == link.owner = "me" /\ ~link.parents /\ link.inside

TrustDir(r) == r.above[Len(r.above)]

Trusted(r) ==
    /\ r.links <= 1
    /\ r.script.dir = FALSE /\ r.script.runs
    /\ TrustDir(r).dir /\ Mine(TrustDir(r)) /\ Guarded(r.above)
    /\ IF r.links = 0 THEN r.below = <<>>
       ELSE LinkSound(r.link) /\ \A i \in 1 .. Len(r.below) : r.below[i].dir /\ Mine(r.below[i])
    /\ Mine(r.script)

TrustedRunners == {r \in Runners : Trusted(r)}

-----------------------------------------------------------------------------
(* The reference: who else could put another script in its place.          *)

Chain(r) == r.above \o r.below \o <<r.script>>

Swaps(parent, child) ==
    \/ parent.owner \notin Trustees
    \/ parent.open /\ (~parent.sticky \/ child.owner \notin Trustees)

Replaceable(r) ==
    \/ \E i \in 1 .. Len(Chain(r)) - 1 : Swaps(Chain(r)[i], Chain(r)[i + 1])
    \/ r.script.open \/ r.script.owner \notin Trustees
    \/ r.links = 1 /\ ~r.link.inside

Fooled == {r \in TrustedRunners : Replaceable(r)}
=============================================================================
