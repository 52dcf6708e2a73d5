-------------------------- MODULE MC_ElectionVoting --------------------------
(* Posts, maxima and ballots for the instances of ElectionVoting that TLC  *)
(* checks.  Runs with a liveness property do not use the symmetry.         *)
EXTENDS ElectionVoting, TLC

CONSTANTS p1, p2, a, b, c

At(place, post, candidate) == [place |-> place, post |-> post, candidate |-> candidate]

(* A post with a single vote and a post with two, and two ballots: one has *)
(* two choices for the post with a single vote, the other has a choice     *)
(* twice that the first one has as well.                                   *)
TwoPostsMax == (p1 :> 1) @@ (p2 :> 2)
TwoBallots == {{At(1, p1, a), At(1, p1, b), At(1, p2, a)},
               {At(1, p1, c), At(1, p2, a), At(2, p2, a)}}

(* A post with a single vote, for any of two candidates or for both.       *)
OnePostMax == p1 :> 1
SmallBallots == {{At(1, p1, a)}, {At(1, p1, a), At(1, p1, b)}}

Symmetry == Permutations(Requests) \cup Permutations(Workers)
=============================================================================
