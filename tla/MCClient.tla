------------------------------ MODULE MCClient ------------------------------
(* Four replicas, so that F = 1; answers under three ids, one more than      *)
(* needed, two results and two calls of Response at once, enough for one to  *)
(* miss the other.                                                           *)
EXTENDS Client, TLC

CONSTANTS r1, r2, r3, r4, v1, v2, s1, s2

Everyone == {r1, r2, r3, r4}
MCReplicas == Everyone
Named == {r1, r2, r3}
MCIds == Named
Both == {v1, v2}
MCValues == Both
Two == {s1, s2}
MCSlots == Two
=============================================================================
