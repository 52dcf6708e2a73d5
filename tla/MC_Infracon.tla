---------------------------- MODULE MC_Infracon ----------------------------
(* The instance of Infracon that TLC checks.                               *)
EXTENDS Infracon

CONSTANTS c1, c2, c3, e1, e2, k1, k2, u1, t1, t2, p1, p2, d1, d2, d3, f1, x1, x2
=============================================================================
