------------------------- MODULE MCTransactionState -------------------------
(* Four replicas, so F = 1: the smallest deployment, with one vote more than *)
(* each threshold needs.  The digests are the two the code produces: "" for *)
(* normal-case pre-prepares and "nil" for the gap filler of a new view.      *)
EXTENDS TransactionState

CONSTANTS r1, r2, r3, r4

MCReplicas == {r1, r2, r3, r4}
MCDigests == {"", "nil"}
=============================================================================
