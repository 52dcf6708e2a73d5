--------------------------- MODULE MC_PaidServices ---------------------------
(* The instance of PaidServices that TLC checks.                           *)
EXTENDS PaidServices

CONSTANTS h1, h2, p1, t1

MCCharges == Payments \cup Tickets
=============================================================================
