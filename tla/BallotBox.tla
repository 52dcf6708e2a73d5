------------------------------ MODULE BallotBox ------------------------------
(***************************************************************************)
(* What voting in an election promises, whatever processes carry it out:   *)
(* votes are stored only for a ballot that their voter submitted, the      *)
(* voter is marked in the same step if not before, and neither votes nor   *)
(* marks are ever taken back.                                              *)
(***************************************************************************)
CONSTANTS
  Voters,
  Ballots   \* sets of choices

VARIABLES
  cast,     \* the ballots submitted: pairs of a voter and a ballot
  voted,    \* the voters marked as having voted
  votes     \* the votes stored, each with its voter and its choice

vars == <<cast, voted, votes>>

Init ==
  /\ cast  = {}
  /\ voted = {}
  /\ votes = {}

Cast(v, b) ==
  /\ cast' = cast \cup {<<v, b>>}
  /\ UNCHANGED <<voted, votes>>

Mark(v, b) ==
  /\ <<v, b>> \in cast
  /\ voted' = voted \cup {v}
  /\ UNCHANGED <<cast, votes>>

(* Not all of a ballot may count: posts can have the voter's vote already. *)
Store(v, b) ==
  /\ <<v, b>> \in cast
  /\ votes \subseteq votes'
  /\ \A r \in votes' \ votes : r.voter = v /\ r.choice \in b
  /\ voted' = voted \cup {v}
  /\ UNCHANGED cast

Next ==
  \E v \in Voters, b \in Ballots : Cast(v, b) \/ Mark(v, b) \/ Store(v, b)

Spec == Init /\ [][Next]_vars
=============================================================================
