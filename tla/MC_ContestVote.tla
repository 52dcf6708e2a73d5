--------------------------- MODULE MC_ContestVote ---------------------------
(* Symmetry for the instances of ContestVote that TLC checks; the sets of  *)
(* model values and the faults come from the cfg.  Runs with a liveness    *)
(* property do not use it.                                                 *)
EXTENDS ContestVote, TLC

Symmetry ==
  Permutations(Sessions) \cup Permutations(Deliveries)
    \cup Permutations(Workers) \cup Permutations(Callers)
=============================================================================
