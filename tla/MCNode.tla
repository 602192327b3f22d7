------------------------------- MODULE MCNode -------------------------------
(* One replica of four.  Two sequence numbers with a checkpoint at each, so  *)
(* that numbers can be below, at and above the stable checkpoint, and one    *)
(* request may be outstanding, so that the bound is always in reach.         *)
EXTENDS Node, TLC

CONSTANTS self, p1, p2, p3

Everyone == {self, p1, p2, p3}
MCReplicas == Everyone     \* a second name, as in MCStore

\* Every operation adds one: the state after 1..n is n.
Increments == [n \in Seqs |-> [type |-> "ADD", value |-> Itoa(1)]]
MCAgreed == Increments
OneEach == [n \in Seqs |-> {Agreed[n]}]
MCProposals == OneEach
OneState == [n \in Seqs |-> {n}]
MCPeerStates == OneState

\* Round robin, with the replica leading the odd views.
LeadsOdd == [v \in Views |-> IF v % 2 = 1 THEN self ELSE p1]
MCLeadsOdd == LeadsOdd

\* Each peer's checkpoint votes arrive, or none does.
Once == [r \in Peers |-> 1]
MCOnce == Once
Never == [r \in Peers |-> 0]
MCNever == Never

\* New views come from their leader.
Rightful == [v \in Views |-> {GetLeader[v]}]
MCRightful == Rightful

Symmetry == Permutations({p2, p3})
=============================================================================
