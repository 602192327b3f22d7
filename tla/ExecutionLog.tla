---------------------------- MODULE ExecutionLog ----------------------------
(***************************************************************************)
(* What the store of one replica promises its node, without maps, locks or *)
(* votes: sequence numbers are executed one by one in increasing order,    *)
(* and the only way past a number without executing it is a checkpoint     *)
(* that became stable at or above it.  Store implements this.              *)
(***************************************************************************)
EXTENDS Naturals, Sequences

VARIABLES
    applied,    \* the last sequence number accounted for
    stable,     \* the sequence number of the last stable checkpoint
    log         \* the sequence numbers executed, in order

Init ==
    /\ applied = 0
    /\ stable = 0
    /\ log = <<>>

Execute ==
    /\ applied' = applied + 1
    /\ log' = Append(log, applied + 1)
    /\ UNCHANGED stable

\* A later checkpoint is stable; a replica that is behind jumps to it.
Stabilize ==
    /\ stable' \in Nat
    /\ stable' > stable
    /\ applied' = IF applied < stable' THEN stable' ELSE applied
    /\ UNCHANGED log

Next == Execute \/ Stabilize

Spec == Init /\ [][Next]_<<applied, stable, log>>
=============================================================================
