---------------------------- MODULE MCRuntimeGuard ----------------------------
(* RuntimeGuard for TLC. *)
EXTENDS RuntimeGuard, TLC

CONSTANTS p1, p2, p3

TwoProcs == {p1, p2}
ThreeProcs == {p1, p2, p3}

Symmetric == Permutations(ThreeProcs)

(* What a process left behind in its variables no longer matters once it   *)
(* is gone, nor do the inode, attempt and stamps of earlier steps.         *)
Live ==
  <<dir, clock, marker,
    [p \in Procs |->
       IF ~alive[p] THEN <<pc[p]>>
       ELSE <<pc[p], lock[p], snap[p], todo[p], held[p], published[p],
              IF pc[p] \in {"mkdir", "exists", "judge", "recover"} THEN attempt[p] ELSE 0,
              IF pc[p] \in {"claim", "fillClaim", "owner", "fillOwner", "check", "partial"}
              THEN inode[p] ELSE 0,
              [l \in held[p] |-> heldDir[p][l]]>>]>>
=============================================================================
