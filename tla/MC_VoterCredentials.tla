------------------------ MODULE MC_VoterCredentials ------------------------
(* The instance of VoterCredentials that TLC checks.  All emails differ.   *)
EXTENDS VoterCredentials

CONSTANTS q1, q2, x1, x2

MCEmail == [v \in Voters |-> v]
=============================================================================
