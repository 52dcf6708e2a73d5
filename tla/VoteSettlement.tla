--------------------------- MODULE VoteSettlement ---------------------------
(***************************************************************************)
(* What paid voting promises, whatever processes carry it out: a session   *)
(* is paid at most once, only a paid session is counted or refunded, a     *)
(* count or a refund is never taken back, each happens at most Limit       *)
(* times for one payment, and the income of the contest changes with the   *)
(* votes and with nothing else.                                            *)
(***************************************************************************)
EXTENDS Naturals

CONSTANTS
  Sessions,  \* session ids, one per payment
  Limit      \* how often one payment may be counted, or refunded

VARIABLES
  paid,      \* sessions whose payment succeeded
  votes,     \* times each session was counted
  refunds,   \* times each session was refunded
  income     \* the payments the contest's income sums

vars == <<paid, votes, refunds, income>>

Add(f, s) == [f EXCEPT ![s] = @ + 1]

Init ==
  /\ paid    = {}
  /\ votes   = [s \in Sessions |-> 0]
  /\ refunds = [s \in Sessions |-> 0]
  /\ income  = [s \in Sessions |-> 0]

Pay(s) ==
  /\ s \notin paid
  /\ paid' = paid \cup {s}
  /\ UNCHANGED <<votes, refunds, income>>

Count(s) ==
  /\ s \in paid
  /\ votes[s] < Limit
  /\ votes'  = Add(votes, s)
  /\ income' = Add(income, s)
  /\ UNCHANGED <<paid, refunds>>

Refund(s) ==
  /\ s \in paid
  /\ refunds[s] < Limit
  /\ refunds' = Add(refunds, s)
  /\ UNCHANGED <<paid, votes, income>>

Next == \E s \in Sessions : Pay(s) \/ Count(s) \/ Refund(s)

Spec == Init /\ [][Next]_vars
=============================================================================
