-------------------------- MODULE MC_ContestPayout --------------------------
(* The instance of ContestPayout that TLC checks.  Its sets of model       *)
(* values, its bounds and its faults come from the cfg.                    *)
EXTENDS ContestPayout

CONSTANTS c1, w1, a1, r1, s1, s2, s3

MCCallers      == Workers \cup Admins \cup {RefundCron}
MCRefundAmount == [s \in Refunds |-> IF s = s1 THEN 1 ELSE IF s = s2 THEN 2 ELSE 3]
=============================================================================
