------------------------------ MODULE MCStore -------------------------------
(* Four replicas (F = 1).  Four sequence numbers and a checkpoint every two  *)
(* give two checkpoints, room to run ahead of the first one and to jump to   *)
(* either.  The operations change the state at every number but one, whose   *)
(* value does not parse; for that one pre-prepares with either of two        *)
(* operations are about.                                                     *)
(* TLC evaluates X <- Y anew at each use of X but a constant Y only once:    *)
(* hence the second names.                                                   *)
EXTENDS Store, TLC

CONSTANTS self, p1, p2, p3

Everyone == {self, p1, p2, p3}
MCReplicas == Everyone

Op(type, i) == [type |-> type, value |-> Itoa(i)]
Chosen == <<Op("ADD", 3), [type |-> "ADD", value |-> Unparsable], Op("ADD", 2), Op("SUB", 1)>>
OperationAt == [n \in Seqs |-> Chosen[n]]
MCAgreed == OperationAt
EitherAtTwo == [n \in Seqs |-> {Chosen[n]} \cup (IF n = 2 THEN {Op("ADD", 5)} ELSE {})]
MCProposals == EitherAtTwo

\* Peers report the state of an uninterrupted execution.
OneState == [n \in Seqs |-> {StateAfter[n]}]
MCPeerStates == OneState

\* How often a peer's call arrives: twice for one of the peers, once for another,
\* and the third one is silent.  With the replica's own vote that is one vote more
\* than the quorum, or a quorum of two voters.
Repeated == [r \in Peers |-> IF r = p1 THEN 2 ELSE IF r = p2 THEN 1 ELSE 0]
MCRepeated == Repeated

\* At most once from each.
Once == [r \in Peers |-> 1]
MCOnce == Once

Symmetry == Permutations({p2, p3})
=============================================================================
