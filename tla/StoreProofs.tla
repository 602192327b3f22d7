---------------------------- MODULE StoreProofs -----------------------------
(***************************************************************************)
(* The store executes in order, once, and skips only under a stable        *)
(* checkpoint, for any number of replicas, sequence numbers, retries and   *)
(* any operations; and it implements ExecutionLog.                         *)
(***************************************************************************)
EXTENDS Store, FiniteSetTheorems, SequenceTheorems, TLAPS

LEMMA FNat == F \in Nat
  BY ReplicasAssumption, FS_CardinalityType DEF F

\* Operations are applied to integers, whatever their values parse to.
LEMMA ApplyType ==
  ASSUME NEW value \in Int, NEW op \in Operations
  PROVE  Apply(value, op) \in Int
<1>1. op.value \in Strings
  BY DEF Operations
<1>2. CASE op.value = Unparsable
  BY <1>2 DEF Apply, Parses
<1>3. CASE op.value # Unparsable
  <2>1. Atoi(op.value) \in Int
    BY <1>1, <1>3 DEF Strings, Atoi
  <2> QED
    BY <2>1 DEF Apply
<1> QED
  BY <1>2, <1>3

\* Peers name checkpoints by numbers in use and decimal digests.
LEMMA PeerCheckpointType == PeerCheckpoints \subseteq CheckpointIds
<1> SUFFICES ASSUME NEW id \in PeerCheckpoints PROVE id \in CheckpointIds
  OBVIOUS
<1>1. PICK n \in CheckpointSeqs : id \in {[seq |-> n, digest |-> Itoa(i)] : i \in PeerStates[n]}
  BY DEF PeerCheckpoints
<1>2. PICK i \in PeerStates[n] : id = [seq |-> n, digest |-> Itoa(i)]
  BY <1>1
<1>3. i \in Int
  BY <1>2, OperationsAssumption DEF CheckpointSeqs
<1> QED
  BY <1>2, <1>3 DEF CheckpointIds, Itoa

\* The history is a sequence of natural numbers.
LEMMA ExecutedType ==
  ASSUME TypeOK
  PROVE  /\ Len(executed) \in Nat
         /\ DOMAIN executed = 1..Len(executed)
         /\ \A i \in 1..Len(executed) : executed[i] \in Seqs /\ executed[i] \in Nat
<1>1. executed \in Seq(Seqs)
  BY DEF TypeOK
<1>2. \A i \in 1..Len(executed) : executed[i] \in Seqs
  BY <1>1, ElementOfSeq
<1>3. Seqs \subseteq Nat
  BY DEF Seqs
<1> QED
  BY <1>1, <1>2, <1>3, LenProperties

-----------------------------------------------------------------------------
\* What is recorded as committed still has requests in s.requests, the same ones
\* unless AddRequests has overwritten them since.
MapsInStep ==
    \A n \in Seqs : Recorded(n) => /\ requests[n] \in Operations
                                   /\ requests[n] = committedRequests[n] \/ n \in replaced

\* Inside the loop of Commit the next number is the one tested.
LoopFact ==
    /\ pc = "apply" => Recorded(lastApplied + 1)
    /\ pc = "advance" => lastApplied + 1 \in Seqs
    /\ lastApplied <= MaxSeq

\* Nothing beyond the applied prefix has been executed.
ExecutedApplied == \A i \in DOMAIN executed : executed[i] <= Applied

Inv == /\ TypeOK /\ MapsInStep /\ LoopFact /\ ExecutedApplied /\ ExecutedOnce
       /\ NoneSkipped /\ StableWithinApplied /\ WaitsOnlyAfterJump /\ VotesStillOpen

LEMMA InitInv == Init => Inv
<1> SUFFICES ASSUME Init PROVE Inv
  OBVIOUS
<1> USE DEF Init
<1>1. TypeOK
  <2>1. delivered \in Deliveries
    BY BoundsAssumption DEF Deliveries
  <2> QED
    BY <2>1, BoundsAssumption DEF TypeOK, Proofs, NoVotes
<1>2. MapsInStep /\ LoopFact /\ WaitsOnlyAfterJump
  BY BoundsAssumption DEF MapsInStep, LoopFact, WaitsOnlyAfterJump, Recorded
<1>3. ExecutedApplied /\ ExecutedOnce /\ NoneSkipped /\ StableWithinApplied /\ VotesStillOpen
  BY DEF ExecutedApplied, ExecutedOnce, NoneSkipped, StableWithinApplied, VotesStillOpen, Applied
<1> QED
  BY <1>1, <1>2, <1>3 DEF Inv

LEMMA AddRequestsInv ==
  ASSUME Inv, NEW n \in Seqs, NEW op \in Proposals[n], AddRequests(n, op)
  PROVE  Inv'
<1> USE DEF Inv
<1>0. /\ op \in Operations
      /\ requests' = [requests EXCEPT ![n] = op]
      /\ replaced' = IF committedRequests[n] \in Operations \ {op} THEN replaced \cup {n} ELSE replaced
      /\ UNCHANGED <<committedRequests, state, lastApplied, unstable, stable, pc, update, own,
                     delivered, executed>>
  BY OperationsAssumption DEF AddRequests
<1>1. TypeOK'
  BY <1>0 DEF TypeOK
<1>2. MapsInStep'
  <2>1. SUFFICES ASSUME NEW k \in Seqs, Recorded(k)'
                 PROVE  requests'[k] \in Operations /\ (requests'[k] = committedRequests[k] \/ k \in replaced')
    BY <1>0 DEF MapsInStep
  <2>2. Recorded(k) /\ committedRequests[k] \in Operations
    BY <1>0, <2>1 DEF Recorded, TypeOK
  <2>3. CASE k = n
    BY <1>0, <2>2, <2>3 DEF TypeOK
  <2>4. CASE k # n
    BY <1>0, <2>2, <2>4 DEF TypeOK, MapsInStep
  <2> QED
    BY <2>3, <2>4
<1>3. LoopFact' /\ WaitsOnlyAfterJump' /\ StableWithinApplied' /\ VotesStillOpen'
  BY <1>0 DEF LoopFact, WaitsOnlyAfterJump, StableWithinApplied, VotesStillOpen, Recorded
<1>4. ExecutedApplied' /\ ExecutedOnce' /\ NoneSkipped'
  BY <1>0 DEF ExecutedApplied, ExecutedOnce, NoneSkipped, Applied
<1> QED
  BY <1>1, <1>2, <1>3, <1>4

LEMMA CommitStartInv ==
  ASSUME Inv, NEW n \in Seqs, CommitStart(n)
  PROVE  Inv'
<1> USE DEF Inv, CommitStart
<1>1. TypeOK'
  BY DEF TypeOK
<1>2. MapsInStep'
  BY OperationsAssumption DEF MapsInStep, Recorded, TypeOK
<1>3. LoopFact' /\ WaitsOnlyAfterJump' /\ StableWithinApplied' /\ VotesStillOpen'
  BY DEF LoopFact, WaitsOnlyAfterJump, StableWithinApplied, VotesStillOpen
<1>4. ExecutedApplied' /\ ExecutedOnce' /\ NoneSkipped'
  BY DEF ExecutedApplied, ExecutedOnce, NoneSkipped, Applied
<1> QED
  BY <1>1, <1>2, <1>3, <1>4

LEMMA CommitEnterLoopInv ==
  ASSUME Inv, CommitEnterLoop
  PROVE  Inv'
<1> USE DEF Inv, CommitEnterLoop
<1>1. TypeOK'
  BY DEF TypeOK
<1>2. MapsInStep' /\ LoopFact' /\ WaitsOnlyAfterJump'
  BY DEF MapsInStep, LoopFact, WaitsOnlyAfterJump, Recorded
<1>3. StableWithinApplied' /\ VotesStillOpen'
  BY DEF StableWithinApplied, VotesStillOpen
<1>4. ExecutedApplied' /\ ExecutedOnce' /\ NoneSkipped'
  BY DEF ExecutedApplied, ExecutedOnce, NoneSkipped, Applied
<1> QED
  BY <1>1, <1>2, <1>3, <1>4

LEMMA CommitReturnInv ==
  ASSUME Inv, CommitReturn
  PROVE  Inv'
<1> USE DEF Inv, CommitReturn
<1>1. TypeOK'
  BY DEF TypeOK
<1>2. MapsInStep' /\ LoopFact' /\ WaitsOnlyAfterJump'
  BY DEF MapsInStep, LoopFact, WaitsOnlyAfterJump, Recorded
<1>3. StableWithinApplied' /\ VotesStillOpen'
  BY DEF StableWithinApplied, VotesStillOpen
<1>4. ExecutedApplied' /\ ExecutedOnce' /\ NoneSkipped'
  BY DEF ExecutedApplied, ExecutedOnce, NoneSkipped, Applied
<1> QED
  BY <1>1, <1>2, <1>3, <1>4

\* The step that executes: the number is recorded, its request is at hand, and it
\* is above everything executed so far.
LEMMA CommitApplyStep ==
  ASSUME Inv, CommitApply
  PROVE  /\ lastApplied + 1 \in Seqs
         /\ Recorded(lastApplied + 1)
         /\ \/ requests[lastApplied + 1] = committedRequests[lastApplied + 1]
            \/ lastApplied + 1 \in replaced
         /\ requests[lastApplied + 1] \in Operations
         /\ state' = Apply(state, requests[lastApplied + 1])
         /\ executed' = Append(executed, lastApplied + 1)
         /\ pc' = "advance" /\ Applied = lastApplied /\ Applied' = lastApplied + 1
<1> USE DEF Inv, CommitApply
<1>1. Recorded(lastApplied + 1) /\ lastApplied + 1 \in Seqs
  BY DEF LoopFact, Recorded
<1>2. /\ requests[lastApplied + 1] \in Operations
      /\ \/ requests[lastApplied + 1] = committedRequests[lastApplied + 1]
         \/ lastApplied + 1 \in replaced
  BY <1>1 DEF MapsInStep
<1>3. requests[lastApplied + 1] # Absent
  BY <1>2, OperationsAssumption
<1> QED
  BY <1>1, <1>2, <1>3 DEF Applied

LEMMA CommitApplyInv ==
  ASSUME Inv, CommitApply
  PROVE  Inv'
<1> USE DEF Inv
<1>0. /\ lastApplied + 1 \in Seqs
      /\ requests[lastApplied + 1] \in Operations
      /\ state' = Apply(state, requests[lastApplied + 1])
      /\ executed' = Append(executed, lastApplied + 1)
      /\ pc' = "advance" /\ Applied = lastApplied /\ Applied' = lastApplied + 1
  BY CommitApplyStep
<1>1. UNCHANGED <<requests, committedRequests, lastApplied, unstable, stable, update, delivered,
                  replaced>>
  BY DEF CommitApply
<1>2. executed \in Seq(Seqs) /\ lastApplied \in Nat
  BY DEF TypeOK
<1>3. state' \in Int
  BY <1>0, ApplyType DEF TypeOK
<1>4. own' \subseteq CheckpointIds
  BY <1>0, <1>3 DEF CommitApply, CheckpointDue, TypeOK, CheckpointIds, CheckpointSeqs, Itoa
<1>5. TypeOK'
  BY <1>0, <1>1, <1>2, <1>3, <1>4 DEF TypeOK
<1>6. MapsInStep' /\ LoopFact' /\ WaitsOnlyAfterJump'
  BY <1>0, <1>1 DEF MapsInStep, LoopFact, WaitsOnlyAfterJump, Recorded
<1>7. StableWithinApplied' /\ VotesStillOpen'
  BY <1>1 DEF StableWithinApplied, VotesStillOpen
<1>8. ExecutedApplied' /\ ExecutedOnce'
  <2>1. /\ DOMAIN executed' = 1..(Len(executed) + 1)
        /\ DOMAIN executed = 1..Len(executed)
        /\ Len(executed) \in Nat
        /\ \A i \in 1..Len(executed) : executed'[i] = executed[i] /\ executed[i] \in Nat
        /\ executed'[Len(executed) + 1] = lastApplied + 1
    BY <1>0, <1>2, ExecutedType, AppendProperties
  <2>2. \A i \in 1..Len(executed) : executed[i] <= lastApplied
    BY <1>0, <2>1 DEF ExecutedApplied
  <2> QED
    BY <1>0, <1>2, <2>1, <2>2 DEF ExecutedApplied, ExecutedOnce
<1>9. NoneSkipped'
  <2>1. SUFFICES ASSUME NEW n \in 1..(lastApplied + 1), ~(n <= stable.seq)
                 PROVE  \E i \in DOMAIN executed' : executed'[i] = n
    BY <1>0, <1>1 DEF NoneSkipped
  <2>2. CASE n = lastApplied + 1
    BY <1>0, <1>2, <2>2
  <2>3. CASE n # lastApplied + 1
    <3>1. n \in 1..Applied
      BY <1>0, <1>2, <2>3
    <3>2. PICK i \in DOMAIN executed : executed[i] = n
      BY <3>1, <2>1 DEF NoneSkipped
    <3>3. i \in DOMAIN executed' /\ executed'[i] = n
      BY <1>0, <1>2, <3>2
    <3> QED
      BY <3>3
  <2> QED
    BY <2>2, <2>3
<1> QED
  BY <1>5, <1>6, <1>7, <1>8, <1>9

LEMMA CommitAdvanceInv ==
  ASSUME Inv, CommitAdvance
  PROVE  Inv'
<1> USE DEF Inv, CommitAdvance
<1>1. TypeOK'
  BY DEF TypeOK
<1>2. MapsInStep' /\ LoopFact' /\ WaitsOnlyAfterJump'
  BY DEF MapsInStep, LoopFact, WaitsOnlyAfterJump, Recorded, Seqs
<1>3. StableWithinApplied' /\ VotesStillOpen'
  BY DEF StableWithinApplied, VotesStillOpen, TypeOK
<1>4. Applied' = Applied
  BY DEF Applied
<1>5. ExecutedApplied' /\ ExecutedOnce' /\ NoneSkipped'
  BY <1>4 DEF ExecutedApplied, ExecutedOnce, NoneSkipped
<1> QED
  BY <1>1, <1>2, <1>3, <1>5

-----------------------------------------------------------------------------
\* Stabilising: the prefix moves up to the checkpoint or stays where it was.
LEMMA StabilizeInv ==
  ASSUME Inv, NEW id \in CheckpointIds, NEW proof \in Proofs,
         pc = "idle", stable.seq < id.seq, Stabilize(id, proof),
         UNCHANGED <<pc, update, executed, replaced>>,
         own' \subseteq CheckpointIds,
         delivered' \in Deliveries
  PROVE  Inv'
<1> USE DEF Inv
<1>1. /\ stable' = [seq |-> id.seq, proof |-> proof]
      /\ id.seq \in Seqs /\ id.seq \in Nat /\ lastApplied \in Nat /\ stable.seq \in Nat
      /\ lastApplied' = IF lastApplied < id.seq THEN id.seq ELSE lastApplied
      /\ requests' = [n \in Seqs |-> IF n <= id.seq THEN Absent ELSE requests[n]]
      /\ committedRequests' = [n \in Seqs |-> IF n <= id.seq THEN Absent ELSE committedRequests[n]]
      /\ unstable' = [i \in {j \in DOMAIN unstable : j.seq > id.seq} |-> unstable[i]]
  BY DEF Stabilize, StillOpen, Above, Jump, TypeOK, CheckpointIds, CheckpointSeqs, Seqs
<1>2. state' \in Int
  <2>1. [type |-> "ADD", value |-> id.digest] \in Operations
    BY DEF CheckpointIds, Operations, Strings
  <2>2. Apply(0, [type |-> "ADD", value |-> id.digest]) \in Int
    BY <2>1, ApplyType
  <2> QED
    BY <2>2 DEF Stabilize, TypeOK
<1>3. TypeOK'
  <2>1. requests' \in [Seqs -> Operations \cup {Absent}]
    BY <1>1 DEF TypeOK
  <2>2. committedRequests' \in [Seqs -> Operations \cup {Absent, Nil}]
    BY <1>1 DEF TypeOK
  <2>3. /\ DOMAIN unstable' \subseteq CheckpointIds
        /\ \A i \in DOMAIN unstable' : unstable'[i] \in Proofs
    BY <1>1 DEF TypeOK
  <2>4. stable' \in [seq : 0..MaxSeq, proof : Proofs] /\ lastApplied' \in Nat
    BY <1>1 DEF Seqs
  <2> QED
    BY <1>2, <2>1, <2>2, <2>3, <2>4 DEF TypeOK
<1>4. MapsInStep'
  BY <1>1 DEF MapsInStep, Recorded, TypeOK
<1>5. LoopFact' /\ StableWithinApplied'
  BY <1>1 DEF LoopFact, StableWithinApplied, Seqs
<1>6. WaitsOnlyAfterJump'
  BY <1>1 DEF WaitsOnlyAfterJump, Recorded
<1>7. VotesStillOpen'
  <2> SUFFICES ASSUME NEW i \in DOMAIN unstable'
               PROVE  /\ i.seq >= stable'.seq
                      /\ unstable'[i].size > 2*F => i.seq = stable'.seq
    BY DEF VotesStillOpen
  <2>1. /\ i \in DOMAIN unstable /\ i.seq > id.seq /\ unstable'[i] = unstable[i]
        /\ i.seq \in Nat
    BY <1>1 DEF TypeOK, CheckpointIds, CheckpointSeqs, Seqs
  <2>2. ~(unstable[i].size > 2*F)
    BY <1>1, <2>1 DEF VotesStillOpen
  <2> QED
    BY <1>1, <2>1, <2>2
<1>8. Applied = lastApplied /\ Applied' = lastApplied'
  BY DEF Applied
<1>9. ExecutedApplied' /\ ExecutedOnce'
  <2>1. \A i \in DOMAIN executed : executed[i] \in Nat
    BY ExecutedType
  <2> QED
    BY <1>1, <1>8, <2>1 DEF ExecutedApplied, ExecutedOnce
<1>10. NoneSkipped'
  BY <1>1, <1>8 DEF NoneSkipped
<1> QED
  BY <1>3, <1>4, <1>5, <1>6, <1>7, <1>9, <1>10

LEMMA CountVoteInv ==
  ASSUME Inv, NEW id \in CheckpointIds, NEW r \in Replicas,
         NEW proof, proof = WithVote(VotesFor(id), r),
         pc = "idle", id.seq >= stable.seq, ~(Quorum(proof) /\ stable.seq < id.seq),
         CountVote(id, proof),
         UNCHANGED <<pc, update, executed, replaced>>,
         own' \subseteq CheckpointIds,
         delivered' \in Deliveries
  PROVE  Inv'
<1> USE DEF Inv
<1>1. VotesFor(id) \in Proofs
  BY DEF VotesFor, NoVotes, Proofs, TypeOK
<1>2. proof \in Proofs /\ proof.size = VotesFor(id).size + 1
  BY <1>1 DEF WithVote, Proofs
<1>3. /\ unstable' = [i \in DOMAIN unstable \cup {id} |-> IF i = id THEN proof ELSE unstable[i]]
      /\ UNCHANGED <<requests, committedRequests, state, lastApplied, stable>>
  BY DEF CountVote
<1>4. TypeOK'
  <2>1. /\ DOMAIN unstable' \subseteq CheckpointIds
        /\ \A i \in DOMAIN unstable' : unstable'[i] \in Proofs
    BY <1>2, <1>3 DEF TypeOK
  <2> QED
    BY <1>3, <2>1 DEF TypeOK
<1>5. MapsInStep' /\ LoopFact' /\ WaitsOnlyAfterJump'
  BY <1>3 DEF MapsInStep, LoopFact, WaitsOnlyAfterJump, Recorded
<1>6. StableWithinApplied' /\ ExecutedApplied' /\ ExecutedOnce' /\ NoneSkipped'
  BY <1>3 DEF StableWithinApplied, ExecutedApplied, ExecutedOnce, NoneSkipped, Applied
<1>7. VotesStillOpen'
  <2>1. proof.size > 2*F => id.seq = stable.seq
    <3>1. id.seq \in Nat /\ stable.seq \in Nat /\ F \in Nat /\ VotesFor(id).size \in Nat
      BY <1>1, FNat DEF TypeOK, CheckpointIds, CheckpointSeqs, Seqs, Proofs
    <3>2. CASE VotesFor(id).size > 2*F
      BY <3>1, <3>2 DEF VotesStillOpen, VotesFor, NoVotes
    <3>3. CASE ~(VotesFor(id).size > 2*F)
      BY <1>2, <3>1, <3>3 DEF Quorum
    <3> QED
      BY <3>2, <3>3
  <2> QED
    BY <1>3, <2>1 DEF VotesStillOpen
<1> QED
  BY <1>4, <1>5, <1>6, <1>7

LEMMA AddCheckpointRequestInv ==
  ASSUME Inv, NEW id \in CheckpointIds, NEW r \in Replicas,
         AddCheckpointRequest(r, id),
         own' \subseteq CheckpointIds,
         delivered' \in Deliveries
  PROVE  Inv'
<1> DEFINE proof == WithVote(VotesFor(id), r)
<1>1. pc = "idle" /\ UNCHANGED <<pc, update, executed, replaced>>
  BY DEF AddCheckpointRequest
<1>2. id.seq \in Nat /\ stable.seq \in Nat
  BY DEF Inv, TypeOK, CheckpointIds, CheckpointSeqs, Seqs
<1>3. proof \in Proofs
  BY DEF WithVote, VotesFor, NoVotes, Proofs, Inv, TypeOK
<1>4. CASE id.seq < stable.seq
  <2>1. UNCHANGED <<requests, committedRequests, state, lastApplied, unstable, stable>>
    BY <1>4 DEF AddCheckpointRequest
  <2>2. TypeOK'
    BY <1>1, <2>1 DEF Inv, TypeOK
  <2>3. MapsInStep' /\ LoopFact' /\ WaitsOnlyAfterJump'
    BY <1>1, <2>1 DEF Inv, MapsInStep, LoopFact, WaitsOnlyAfterJump, Recorded
  <2>4. StableWithinApplied' /\ VotesStillOpen' /\ ExecutedApplied' /\ ExecutedOnce' /\ NoneSkipped'
    BY <1>1, <2>1 DEF Inv, StableWithinApplied, VotesStillOpen, ExecutedApplied, ExecutedOnce,
       NoneSkipped, Applied
  <2> QED
    BY <2>2, <2>3, <2>4 DEF Inv
<1>5. CASE ~(id.seq < stable.seq) /\ Quorum(proof) /\ stable.seq < id.seq
  <2>1. Stabilize(id, proof)
    BY <1>5 DEF AddCheckpointRequest
  <2> QED
    BY <1>1, <1>3, <1>5, <2>1, StabilizeInv
<1>6. CASE ~(id.seq < stable.seq) /\ ~(Quorum(proof) /\ stable.seq < id.seq)
  <2>1. CountVote(id, proof)
    BY <1>6 DEF AddCheckpointRequest
  <2>2. id.seq >= stable.seq
    BY <1>2, <1>6
  <2> QED
    BY <1>1, <1>6, <2>1, <2>2, CountVoteInv
<1> QED
  BY <1>4, <1>5, <1>6

LEMMA PeerCheckpointInv ==
  ASSUME Inv, NEW r \in Peers, NEW id \in PeerCheckpoints, PeerCheckpoint(r, id)
  PROVE  Inv'
<1>1. id \in CheckpointIds /\ r \in Replicas
  BY PeerCheckpointType DEF Peers
<1>2. own' \subseteq CheckpointIds
  BY DEF PeerCheckpoint, Inv, TypeOK
<1>3. delivered' \in Deliveries
  <2>1. delivered \in Deliveries
    BY DEF Inv, TypeOK
  <2>2. /\ Copies[r] \in Nat /\ delivered[<<r, id>>] \in Nat
        /\ delivered[<<r, id>>] + 1 <= Copies[r]
    BY <2>1, BoundsAssumption DEF PeerCheckpoint, Deliveries
  <2>3. delivered' = [delivered EXCEPT ![<<r, id>>] = delivered[<<r, id>>] + 1]
    BY DEF PeerCheckpoint
  <2>4. delivered' \in [Peers \X PeerCheckpoints -> Nat]
    BY <2>1, <2>2, <2>3 DEF Deliveries
  <2>5. ASSUME NEW q \in Peers, NEW i \in PeerCheckpoints
        PROVE  delivered'[<<q, i>>] <= Copies[q]
    BY <2>1, <2>2, <2>3 DEF Deliveries
  <2> QED
    BY <2>4, <2>5 DEF Deliveries
<1>4. AddCheckpointRequest(r, id)
  BY DEF PeerCheckpoint
<1> QED
  BY <1>1, <1>2, <1>3, <1>4, AddCheckpointRequestInv

LEMMA OwnCheckpointInv ==
  ASSUME Inv, NEW id \in own, OwnCheckpoint(id)
  PROVE  Inv'
<1>1. id \in CheckpointIds /\ Self \in Replicas
  BY ReplicasAssumption DEF Inv, TypeOK
<1>2. own' \subseteq CheckpointIds /\ delivered' \in Deliveries
  BY DEF OwnCheckpoint, Inv, TypeOK
<1>3. AddCheckpointRequest(Self, id)
  BY DEF OwnCheckpoint
<1> QED
  BY <1>1, <1>2, <1>3, AddCheckpointRequestInv

LEMMA NextInv == Inv /\ [Next]_vars => Inv'
<1> SUFFICES ASSUME Inv, [Next]_vars PROVE Inv'
  OBVIOUS
<1>1. CASE UNCHANGED vars
  <2>1. TypeOK'
    BY <1>1 DEF vars, Inv, TypeOK
  <2>2. MapsInStep' /\ LoopFact' /\ WaitsOnlyAfterJump'
    BY <1>1 DEF vars, Inv, MapsInStep, LoopFact, WaitsOnlyAfterJump, Recorded
  <2>3. StableWithinApplied' /\ VotesStillOpen' /\ ExecutedApplied' /\ ExecutedOnce' /\ NoneSkipped'
    BY <1>1 DEF vars, Inv, StableWithinApplied, VotesStillOpen, ExecutedApplied, ExecutedOnce,
       NoneSkipped, Applied
  <2> QED
    BY <2>1, <2>2, <2>3 DEF Inv
<1>2. CASE Next
  BY <1>2, AddRequestsInv, CommitStartInv, CommitEnterLoopInv, CommitApplyInv, CommitAdvanceInv,
     CommitReturnInv, PeerCheckpointInv, OwnCheckpointInv DEF Next
<1> QED
  BY <1>1, <1>2

LEMMA InvAlways == Spec => []Inv
  BY InitInv, NextInv, PTL DEF Spec

-----------------------------------------------------------------------------
\* Types; in particular every checkpoint the replica creates has a number in use.
THEOREM TypeCorrect == Spec => []TypeOK
<1>1. Inv => TypeOK
  BY DEF Inv
<1> QED
  BY <1>1, InvAlways, PTL

\* Requests are executed in sequence order and never twice.
THEOREM ExecutionInOrder == Spec => []ExecutedOnce
<1>1. Inv => ExecutedOnce
  BY DEF Inv
<1> QED
  BY <1>1, InvAlways, PTL

\* A number is passed over only under a stable checkpoint.
THEOREM SkippedOnlyWhenStable == Spec => []NoneSkipped
<1>1. Inv => NoneSkipped
  BY DEF Inv
<1> QED
  BY <1>1, InvAlways, PTL

\* The stable checkpoint never runs ahead of the applied prefix.
THEOREM CheckpointsInStep == Spec => []StableWithinApplied
<1>1. Inv => StableWithinApplied
  BY DEF Inv
<1> QED
  BY <1>1, InvAlways, PTL

\* An idle store holds back a recorded successor only at its stable checkpoint.
THEOREM WaitsAtCheckpoint == Spec => []WaitsOnlyAfterJump
<1>1. Inv => WaitsOnlyAfterJump
  BY DEF Inv
<1> QED
  BY <1>1, InvAlways, PTL

\* No vote is kept for a checkpoint that is older or already decided.
THEOREM OldVotesDropped == Spec => []VotesStillOpen
<1>1. Inv => VotesStillOpen
  BY DEF Inv
<1> QED
  BY <1>1, InvAlways, PTL

\* Every step of the store, seen through Applied and stable.seq, is a step of
\* ExecutionLog or leaves it unchanged.
LEMMA StepRefines ==
  ASSUME Inv, [Next]_vars
  PROVE  [Log!Next]_<<Applied, stable.seq, executed>>
<1> USE DEF Inv
<1>1. ASSUME NEW r, NEW id \in CheckpointIds, AddCheckpointRequest(r, id)
      PROVE  Log!Stabilize \/ UNCHANGED <<Applied, stable.seq, executed>>
  <2>1. /\ pc = "idle" /\ UNCHANGED <<pc, executed>>
        /\ id.seq \in Nat /\ stable.seq \in Nat /\ lastApplied \in Nat
    BY <1>1 DEF AddCheckpointRequest, TypeOK, CheckpointIds, CheckpointSeqs, Seqs
  <2>2. Applied = lastApplied /\ Applied' = lastApplied'
    BY <2>1 DEF Applied
  <2>3. CASE UNCHANGED <<lastApplied, stable>>
    BY <2>1, <2>2, <2>3
  <2>4. CASE stable.seq < id.seq /\ Stabilize(id, WithVote(VotesFor(id), r))
    <3>1. stable'.seq = id.seq /\ lastApplied' = Jump(id.seq)
      BY <2>4 DEF Stabilize
    <3> QED
      BY <2>1, <2>2, <2>4, <3>1 DEF Log!Stabilize, Jump
  <2> QED
    BY <1>1, <2>3, <2>4 DEF AddCheckpointRequest, CountVote
<1>2. CASE \E r \in Peers, id \in PeerCheckpoints : PeerCheckpoint(r, id)
  BY <1>1, <1>2, PeerCheckpointType DEF PeerCheckpoint, Log!Next
<1>3. CASE \E id \in own : OwnCheckpoint(id)
  BY <1>1, <1>3 DEF OwnCheckpoint, TypeOK, Log!Next
<1>4. CASE CommitApply
  <2>1. UNCHANGED stable
    BY <1>4 DEF CommitApply
  <2> QED
    BY <1>4, <2>1, CommitApplyStep DEF Log!Next, Log!Execute
<1>5. CASE CommitAdvance
  BY <1>5 DEF CommitAdvance, Applied
<1>6. CASE (\E n \in Seqs : \E op \in Proposals[n] : AddRequests(n, op)) \/ (\E n \in Seqs : CommitStart(n))
             \/ CommitEnterLoop \/ CommitReturn
  BY <1>6 DEF AddRequests, CommitStart, CommitEnterLoop, CommitReturn, Applied
<1>7. CASE UNCHANGED vars
  BY <1>7 DEF vars, Applied
<1> QED
  BY <1>2, <1>3, <1>4, <1>5, <1>6, <1>7 DEF Next

\* The store implements the abstract log, for every instance of the constants.
THEOREM StoreImplementsLog == Spec => ImplementsLog
<1>1. Init => Log!Init
  BY DEF Init, Log!Init, Applied
<1> QED
  BY <1>1, StepRefines, InvAlways, PTL DEF Spec, ImplementsLog, Log!Spec

LEMMA ForwardStep ==
  ASSUME Inv, [Next]_vars
  PROVE  stable'.seq >= stable.seq /\ lastApplied' >= lastApplied
<1> USE DEF Inv
<1> DEFINE Forward == stable'.seq >= stable.seq /\ lastApplied' >= lastApplied
<1>0. stable.seq \in Nat /\ lastApplied \in Nat
  BY DEF TypeOK
<1>1. ASSUME NEW r, NEW id \in CheckpointIds, AddCheckpointRequest(r, id)
      PROVE  Forward
  <2>1. id.seq \in Nat
    BY DEF CheckpointIds, CheckpointSeqs, Seqs
  <2>2. CASE UNCHANGED <<lastApplied, stable>>
    BY <1>0, <2>2
  <2>3. CASE stable.seq < id.seq /\ Stabilize(id, WithVote(VotesFor(id), r))
    BY <1>0, <2>1, <2>3 DEF Stabilize, Jump
  <2> QED
    BY <1>1, <2>2, <2>3 DEF AddCheckpointRequest, CountVote
<1>2. CASE \E r \in Peers, id \in PeerCheckpoints : PeerCheckpoint(r, id)
  BY <1>1, <1>2, PeerCheckpointType DEF PeerCheckpoint
<1>3. CASE \E id \in own : OwnCheckpoint(id)
  BY <1>1, <1>3 DEF OwnCheckpoint, TypeOK
<1>4. CASE CommitAdvance
  BY <1>0, <1>4 DEF CommitAdvance
<1>5. CASE UNCHANGED <<stable, lastApplied>>
  BY <1>0, <1>5
<1> QED
  BY <1>2, <1>3, <1>4, <1>5 DEF Next, AddRequests, CommitStart, CommitEnterLoop, CommitApply,
     CommitReturn, vars

\* Neither the stable checkpoint nor the applied prefix moves back.
THEOREM NeverBackThm == Spec => NeverBack
  BY ForwardStep, InvAlways, PTL DEF Spec, NeverBack

\* Whatever is executed is what was recorded when its number committed, or was put in
\* its place by a later AddRequests for the number.
THEOREM ExecutesTheCommittedThm == Spec => ExecutesTheCommitted
<1> DEFINE Faithful ==
       executed' # executed =>
          /\ executed' = Append(executed, lastApplied + 1)
          /\ Recorded(lastApplied + 1)
          /\ \/ committedRequests[lastApplied + 1] = requests[lastApplied + 1]
             \/ lastApplied + 1 \in replaced
<1>1. Inv /\ [Next]_vars => [Faithful]_vars
  <2> SUFFICES ASSUME Inv, Next PROVE Faithful
    OBVIOUS
  <2>1. CASE CommitApply
    BY <2>1, CommitApplyStep
  <2>2. CASE UNCHANGED executed
    BY <2>2
  <2> QED
    BY <2>1, <2>2 DEF Next, AddRequests, CommitStart, CommitEnterLoop, CommitAdvance, CommitReturn,
       PeerCheckpoint, OwnCheckpoint, AddCheckpointRequest
<1> QED
  BY <1>1, InvAlways, PTL DEF Spec, ExecutesTheCommitted
=============================================================================
