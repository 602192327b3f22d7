-------------------------- MODULE CheckpointProofs --------------------------
(***************************************************************************)
(* What checkpoint votes guarantee, for any number of replicas, sequence   *)
(* numbers and operations: votes are counted without looking at who sent   *)
(* them, and yet F + 1 replicas stand behind a stable checkpoint when no   *)
(* vote arrives more than twice; and the state of the replica follows its  *)
(* applied prefix except in the three cases StateFollows names.            *)
(***************************************************************************)
EXTENDS StoreProofs, NumberLemmas

\* Replicas tolerate at least one failure, so a quorum is at least three votes.
LEMMA FPositive == F \in Nat /\ F >= 1
  BY ReplicasAssumption, FS_CardinalityType DEF F

-----------------------------------------------------------------------------
\* f holds the states of the executions of the first n operations.
Execution(f, n) ==
    /\ f \in [0..n -> Int]
    /\ \A k \in 0..n : f[k] = IF k = 0 THEN 0 ELSE Apply(f[k - 1], Agreed[k])

\* The recursive definition of StateAfter has a solution: the shortest prefix
\* without one would extend an execution of the prefix before it.
LEMMA ExecutionExists == \A n \in 0..MaxSeq : \E f : Execution(f, n)
<1> DEFINE Bad == {n \in 0..MaxSeq : ~ \E f : Execution(f, n)}
<1> SUFFICES ASSUME Bad # {} PROVE FALSE
  OBVIOUS
<1>1. Bad \in SUBSET Nat
  BY BoundsAssumption
<1>2. PICK m \in Bad : \A k \in Bad : m <= k
  <2> HIDE DEF Bad
  <2> QED
    BY <1>1, LeastExists
<1>3. m \in 0..MaxSeq /\ m \in Nat /\ ~ \E f : Execution(f, m)
  BY <1>1
<1>4. CASE m = 0
  <2>1. Execution([k \in 0..0 |-> 0], 0)
    BY DEF Execution
  <2> QED
    BY <1>3, <1>4, <2>1
<1>5. CASE m # 0
  <2>1. m - 1 \in 0..MaxSeq /\ m - 1 \in Nat /\ m \in Seqs
    BY <1>3, <1>5, BoundsAssumption DEF Seqs
  <2>2. PICK f : Execution(f, m - 1)
    <3>1. m - 1 \notin Bad
      BY <1>1, <1>2, <2>1
    <3> QED
      BY <2>1, <3>1
  <2> DEFINE last == Apply(f[m - 1], Agreed[m])
             g == [k \in 0..m |-> IF k = m THEN last ELSE f[k]]
  <2>3. f \in [0..(m - 1) -> Int] /\ f[m - 1] \in Int
    BY <2>1, <2>2 DEF Execution
  <2>4. last \in Int
    <3>1. Agreed[m] \in Operations
      BY <2>1, OperationsAssumption
    <3> QED
      BY <2>3, <3>1, ApplyType
  <2>5. g \in [0..m -> Int]
    <3>1. \A k \in 0..m : k # m => k \in 0..(m - 1)
      BY <2>1
    <3> HIDE DEF last
    <3> QED
      BY <2>3, <2>4, <3>1
  <2>6. ASSUME NEW k \in 0..m
        PROVE  g[k] = IF k = 0 THEN 0 ELSE Apply(g[k - 1], Agreed[k])
    <3>1. CASE k = m
      <4>1. g[k] = last /\ g[k - 1] = f[m - 1]
        BY <2>1, <3>1
      <4> QED
        BY <1>5, <3>1, <4>1
    <3>2. CASE k # m
      <4>1. k \in 0..(m - 1)
        BY <2>1, <3>2
      <4>2. f[k] = IF k = 0 THEN 0 ELSE Apply(f[k - 1], Agreed[k])
        BY <2>2, <4>1 DEF Execution
      <4>3. g[k] = f[k] /\ (k # 0 => g[k - 1] = f[k - 1])
        BY <2>1, <3>2
      <4> QED
        BY <4>2, <4>3
    <3> QED
      BY <3>1, <3>2
  <2>7. Execution(g, m)
    <3> HIDE DEF g
    <3> QED
      BY <2>5, <2>6 DEF Execution
  <2> QED
    BY <1>3, <2>7
<1> QED
  BY <1>4, <1>5

\* StateAfter satisfies its recursion.
LEMMA StateAfterUnfolds ==
  /\ StateAfter[0] = 0
  /\ \A n \in Seqs : StateAfter[n] = Apply(StateAfter[n - 1], Agreed[n])
<1> DEFINE Solves(f) ==
       f = [n \in 0..MaxSeq |-> IF n = 0 THEN 0 ELSE Apply(f[n - 1], Agreed[n])]
<1>1. StateAfter = CHOOSE f : Solves(f)
  BY Zenon DEF StateAfter
<1>2. \E f : Solves(f)
  <2>1. PICK f : Execution(f, MaxSeq)
    BY ExecutionExists, BoundsAssumption
  <2>2. Solves(f)
    BY <2>1 DEF Execution
  <2> QED
    BY <2>2
<1>3. Solves(StateAfter)
  <2> HIDE DEF Solves
  <2> QED
    BY <1>1, <1>2
<1>4. \A n \in 0..MaxSeq : StateAfter[n] = IF n = 0 THEN 0 ELSE Apply(StateAfter[n - 1], Agreed[n])
  <2> DEFINE s == StateAfter
  <2>1. s = [n \in 0..MaxSeq |-> IF n = 0 THEN 0 ELSE Apply(s[n - 1], Agreed[n])]
    BY <1>3
  <2> HIDE DEF s
  <2>2. \A n \in 0..MaxSeq : s[n] = IF n = 0 THEN 0 ELSE Apply(s[n - 1], Agreed[n])
    BY <2>1
  <2> QED
    BY <2>2 DEF s
<1> QED
  BY <1>4, BoundsAssumption DEF Seqs
-----------------------------------------------------------------------------
\* A checkpoint of the replica itself is made when its number is executed.
OwnApplied == \A id \in own : id.seq <= Applied

\* Behind a vote of a peer is a call that arrived; the replica's own vote is
\* counted once, after the number was executed; and no empty proof has a size.
VotesBacked ==
    \A id \in CheckpointIds :
        /\ \A r \in VotesFor(id).voters \ {Self} :
              id \in PeerCheckpoints /\ delivered[<<r, id>>] >= 1
        /\ Self \in VotesFor(id).voters => id \notin own /\ id.seq <= Applied
        /\ VotesFor(id).voters = {} => VotesFor(id).size = 0

VoteInv == Inv /\ OwnApplied /\ VotesBacked

LEMMA VotesForType ==
  ASSUME TypeOK, NEW id
  PROVE  VotesFor(id) \in Proofs
  BY DEF VotesFor, NoVotes, Proofs, TypeOK

\* A call of AddCheckpointRequest adds one vote to one checkpoint; every other
\* checkpoint keeps its votes or loses them all.
LEMMA VotesAfter ==
  ASSUME TypeOK, NEW id \in CheckpointIds, NEW r \in Replicas, AddCheckpointRequest(r, id),
         NEW j \in CheckpointIds
  PROVE  \/ VotesFor(j)' = VotesFor(j)
         \/ VotesFor(j)' = NoVotes
         \/ j = id /\ VotesFor(j)' = WithVote(VotesFor(id), r)
<1> DEFINE proof == WithVote(VotesFor(id), r)
<1>1. CASE unstable' = unstable
  BY <1>1 DEF VotesFor
<1>2. CASE Stabilize(id, proof)
  BY <1>2 DEF Stabilize, StillOpen, VotesFor
<1>3. CASE CountVote(id, proof)
  <2>1. unstable' = [i \in DOMAIN unstable \cup {id} |-> IF i = id THEN proof ELSE unstable[i]]
    BY <1>3 DEF CountVote
  <2> HIDE DEF proof
  <2>2. CASE j = id
    BY <2>1, <2>2 DEF VotesFor, proof
  <2>3. CASE j # id
    BY <2>1, <2>3 DEF VotesFor
  <2> QED
    BY <2>2, <2>3
<1> QED
  BY <1>1, <1>2, <1>3 DEF AddCheckpointRequest

\* The applied prefix does not shrink while votes are counted.
LEMMA AppliedAfterVote ==
  ASSUME TypeOK, NEW id \in CheckpointIds, NEW r, AddCheckpointRequest(r, id)
  PROVE  /\ Applied = lastApplied /\ Applied' = lastApplied'
         /\ Applied \in Nat /\ Applied' \in Nat /\ Applied <= Applied'
<1>1. pc = "idle" /\ pc' = "idle" /\ lastApplied \in Nat /\ id.seq \in Nat
  BY DEF AddCheckpointRequest, TypeOK, CheckpointIds, CheckpointSeqs, Seqs
<1>2. lastApplied' = lastApplied \/ (lastApplied < id.seq /\ lastApplied' = id.seq)
  BY DEF AddCheckpointRequest, Stabilize, CountVote, Jump
<1> QED
  BY <1>1, <1>2 DEF Applied

LEMMA InitVotes == Init => VoteInv
<1> SUFFICES ASSUME Init PROVE VoteInv
  OBVIOUS
<1>1. OwnApplied /\ VotesBacked
  BY DEF Init, OwnApplied, VotesBacked, VotesFor, NoVotes
<1> QED
  BY <1>1, InitInv DEF VoteInv

LEMMA PeerCheckpointVotes ==
  ASSUME VoteInv, NEW r \in Peers, NEW id \in PeerCheckpoints, PeerCheckpoint(r, id)
  PROVE  OwnApplied' /\ VotesBacked'
<1>1. TypeOK /\ id \in CheckpointIds /\ r \in Replicas /\ r # Self
  BY PeerCheckpointType DEF VoteInv, Inv, Peers
<1>2. AddCheckpointRequest(r, id) /\ own' = own
  BY DEF PeerCheckpoint
<1>3. Applied \in Nat /\ Applied' \in Nat /\ Applied <= Applied'
  BY <1>1, <1>2, AppliedAfterVote
<1>4. OwnApplied'
  <2>1. \A i \in own : i.seq \in Nat
    BY <1>1 DEF TypeOK, CheckpointIds, CheckpointSeqs, Seqs
  <2> QED
    BY <1>2, <1>3, <2>1 DEF VoteInv, OwnApplied
<1>5. /\ delivered \in [Peers \X PeerCheckpoints -> Nat]
      /\ delivered' = [delivered EXCEPT ![<<r, id>>] = delivered[<<r, id>>] + 1]
  BY <1>1 DEF TypeOK, Deliveries, PeerCheckpoint
<1>6. /\ delivered'[<<r, id>>] >= 1
      /\ \A q \in Peers, i \in PeerCheckpoints : delivered[<<q, i>>] >= 1 => delivered'[<<q, i>>] >= 1
  BY <1>5
<1>7. ASSUME NEW j \in CheckpointIds
      PROVE  /\ \A q \in VotesFor(j)'.voters \ {Self} :
                   j \in PeerCheckpoints /\ delivered'[<<q, j>>] >= 1
             /\ Self \in VotesFor(j)'.voters => j \notin own' /\ j.seq <= Applied'
             /\ VotesFor(j)'.voters = {} => VotesFor(j)'.size = 0
  <2>1. /\ \A q \in VotesFor(j).voters \ {Self} :
                   q \in Peers /\ j \in PeerCheckpoints /\ delivered[<<q, j>>] >= 1
        /\ Self \in VotesFor(j).voters => j \notin own /\ j.seq <= Applied
        /\ VotesFor(j).voters = {} => VotesFor(j).size = 0
        /\ j.seq \in Nat
    BY <1>1, VotesForType DEF VoteInv, VotesBacked, Proofs, Peers, CheckpointIds, CheckpointSeqs, Seqs
  <2>2. CASE VotesFor(j)' = VotesFor(j)
    BY <1>2, <1>3, <1>6, <2>1, <2>2
  <2>3. CASE VotesFor(j)' = NoVotes
    BY <2>3 DEF NoVotes
  <2>4. CASE j = id /\ VotesFor(j)' = WithVote(VotesFor(id), r)
    <3>1. VotesFor(j)'.voters = VotesFor(j).voters \cup {r}
      BY <2>4 DEF WithVote
    <3> QED
      BY <1>1, <1>2, <1>3, <1>6, <2>1, <2>4, <3>1
  <2> QED
    BY <1>1, <1>2, <2>2, <2>3, <2>4, VotesAfter
<1> QED
  BY <1>4, <1>7 DEF VotesBacked

LEMMA OwnCheckpointVotes ==
  ASSUME VoteInv, NEW id \in own, OwnCheckpoint(id)
  PROVE  OwnApplied' /\ VotesBacked'
<1>1. TypeOK /\ id \in CheckpointIds /\ Self \in Replicas /\ id.seq <= Applied
  BY ReplicasAssumption DEF VoteInv, Inv, TypeOK, OwnApplied
<1>2. AddCheckpointRequest(Self, id) /\ own' = own \ {id} /\ delivered' = delivered
  BY DEF OwnCheckpoint
<1>3. Applied \in Nat /\ Applied' \in Nat /\ Applied <= Applied'
  BY <1>1, <1>2, AppliedAfterVote
<1>4. OwnApplied'
  <2>1. \A i \in own : i.seq \in Nat
    BY <1>1 DEF TypeOK, CheckpointIds, CheckpointSeqs, Seqs
  <2> QED
    BY <1>2, <1>3, <2>1 DEF VoteInv, OwnApplied
<1>5. ASSUME NEW j \in CheckpointIds
      PROVE  /\ \A q \in VotesFor(j)'.voters \ {Self} :
                   j \in PeerCheckpoints /\ delivered'[<<q, j>>] >= 1
             /\ Self \in VotesFor(j)'.voters => j \notin own' /\ j.seq <= Applied'
             /\ VotesFor(j)'.voters = {} => VotesFor(j)'.size = 0
  <2>1. /\ \A q \in VotesFor(j).voters \ {Self} :
                   j \in PeerCheckpoints /\ delivered[<<q, j>>] >= 1
        /\ Self \in VotesFor(j).voters => j \notin own /\ j.seq <= Applied
        /\ VotesFor(j).voters = {} => VotesFor(j).size = 0
        /\ j.seq \in Nat
    BY DEF VoteInv, VotesBacked, CheckpointIds, CheckpointSeqs, Seqs
  <2>2. CASE VotesFor(j)' = VotesFor(j)
    BY <1>2, <1>3, <2>1, <2>2
  <2>3. CASE VotesFor(j)' = NoVotes
    BY <2>3 DEF NoVotes
  <2>4. CASE j = id /\ VotesFor(j)' = WithVote(VotesFor(id), Self)
    <3>1. VotesFor(j)'.voters = VotesFor(j).voters \cup {Self}
      BY <2>4 DEF WithVote
    <3> QED
      BY <1>1, <1>2, <1>3, <2>1, <2>4, <3>1
  <2> QED
    BY <1>1, <1>2, <2>2, <2>3, <2>4, VotesAfter
<1> QED
  BY <1>4, <1>5 DEF VotesBacked

LEMMA CommitApplyVotes ==
  ASSUME VoteInv, CommitApply
  PROVE  OwnApplied' /\ VotesBacked'
<1>1. /\ lastApplied \in Nat /\ Applied = lastApplied /\ Applied' = lastApplied + 1
      /\ unstable' = unstable /\ delivered' = delivered
      /\ TypeOK
  BY CommitApplyStep DEF VoteInv, Inv, TypeOK, CommitApply
<1>2. ASSUME NEW i \in own' PROVE i \in own \/ i.seq = lastApplied + 1
  BY DEF CommitApply
<1>3. OwnApplied'
  <2>1. \A i \in own : i.seq \in Nat
    BY <1>1 DEF TypeOK, CheckpointIds, CheckpointSeqs, Seqs
  <2> QED
    BY <1>1, <1>2, <2>1 DEF VoteInv, OwnApplied
<1>4. VotesBacked'
  <2>1. \A i \in CheckpointIds : i.seq \in Nat /\ VotesFor(i)' = VotesFor(i)
    BY <1>1 DEF CheckpointIds, CheckpointSeqs, Seqs, VotesFor
  <2> QED
    BY <1>1, <1>2, <2>1 DEF VoteInv, VotesBacked
<1> QED
  BY <1>3, <1>4

LEMMA VotesUnchanged ==
  ASSUME VoteInv, UNCHANGED <<unstable, delivered, own, Applied>>
  PROVE  OwnApplied' /\ VotesBacked'
  BY DEF VoteInv, OwnApplied, VotesBacked, VotesFor

LEMMA NextVotes == VoteInv /\ [Next]_vars => VoteInv'
<1> SUFFICES ASSUME VoteInv, [Next]_vars PROVE VoteInv'
  OBVIOUS
<1>1. Inv'
  BY NextInv DEF VoteInv
<1>2. OwnApplied' /\ VotesBacked'
  <2>1. CASE \/ UNCHANGED vars
             \/ \E n \in Seqs : (\E op \in Proposals[n] : AddRequests(n, op)) \/ CommitStart(n)
             \/ CommitEnterLoop \/ CommitAdvance \/ CommitReturn
    BY <2>1, VotesUnchanged DEF vars, AddRequests, CommitStart, CommitEnterLoop, CommitAdvance,
       CommitReturn, Applied
  <2> QED
    BY <2>1, PeerCheckpointVotes, OwnCheckpointVotes, CommitApplyVotes DEF Next
<1> QED
  BY <1>1, <1>2 DEF VoteInv

LEMMA VotesAlways == Spec => []VoteInv
  BY InitVotes, NextVotes, PTL DEF Spec
-----------------------------------------------------------------------------
\* The assumption of StableBackedByCorrect, true of the configuration the repository
\* comes with (max_retries: 2, resources/pbft.yaml): a call arrives at most twice.
AtMostTwice == \A r \in Peers : Copies[r] <= 2

\* The peers of a proof whose vote for id has arrived twice, when d counts arrivals.
Repeaters(proof, id, d) ==
    {r \in proof.voters \cap Peers : id \in PeerCheckpoints /\ d[<<r, id>>] >= 2}

\* A proof is no longer than its voters, each counted again if its vote came twice.
Bounded(proof, id, d) ==
    proof.size <= Cardinality(proof.voters) + Cardinality(Repeaters(proof, id, d))

VotesBounded == \A id \in CheckpointIds : Bounded(VotesFor(id), id, delivered)

BackedInv == VoteInv /\ VotesBounded /\ StableBackedByCorrect

LEMMA RepeatersFinite ==
  ASSUME NEW proof \in Proofs, NEW id, NEW d
  PROVE  /\ IsFiniteSet(proof.voters) /\ Cardinality(proof.voters) \in Nat
         /\ IsFiniteSet(Repeaters(proof, id, d)) /\ Cardinality(Repeaters(proof, id, d)) \in Nat
         /\ Cardinality(Repeaters(proof, id, d)) <= Cardinality(proof.voters)
<1>1. IsFiniteSet(proof.voters) /\ Cardinality(proof.voters) \in Nat
  BY ReplicasAssumption, FS_Subset, FS_CardinalityType DEF Proofs
<1>2. Repeaters(proof, id, d) \subseteq proof.voters
  BY DEF Repeaters
<1> QED
  BY <1>1, <1>2, FS_Subset, FS_CardinalityType

\* 2F + 1 votes, none of them counted three times, come from F + 1 replicas.
LEMMA QuorumOfDistinct ==
  ASSUME NEW proof \in Proofs, NEW id, NEW d, Bounded(proof, id, d), Quorum(proof)
  PROVE  Cardinality(proof.voters) >= F + 1
<1> DEFINE c == Cardinality(proof.voters)
           t == Cardinality(Repeaters(proof, id, d))
<1>1. c \in Nat /\ t \in Nat /\ t <= c
  BY RepeatersFinite
<1>2. 2*F + 1 <= c + t
  BY DEF Bounded, Quorum
<1> HIDE DEF c, t
<1>3. c >= F + 1
  BY <1>1, <1>2, FNat
<1> QED
  BY <1>3 DEF c

\* More arrivals leave a proof bounded.
LEMMA BoundedLater ==
  ASSUME NEW proof \in Proofs, NEW id, NEW d \in [Peers \X PeerCheckpoints -> Nat],
         NEW e \in [Peers \X PeerCheckpoints -> Nat],
         \A r \in Peers, i \in PeerCheckpoints : d[<<r, i>>] <= e[<<r, i>>],
         Bounded(proof, id, d)
  PROVE  Bounded(proof, id, e)
<1>1. Repeaters(proof, id, d) \subseteq Repeaters(proof, id, e)
  <2> SUFFICES ASSUME NEW r \in proof.voters \cap Peers, id \in PeerCheckpoints, d[<<r, id>>] >= 2
               PROVE  e[<<r, id>>] >= 2
    BY DEF Repeaters
  <2>1. d[<<r, id>>] \in Nat /\ e[<<r, id>>] \in Nat /\ d[<<r, id>>] <= e[<<r, id>>]
    OBVIOUS
  <2> QED
    BY <2>1
<1>2. Cardinality(Repeaters(proof, id, d)) <= Cardinality(Repeaters(proof, id, e))
  BY <1>1, RepeatersFinite, FS_Subset
<1> DEFINE c == Cardinality(proof.voters)
           t == Cardinality(Repeaters(proof, id, d))
           u == Cardinality(Repeaters(proof, id, e))
<1>3. c \in Nat /\ t \in Nat /\ u \in Nat /\ t <= u /\ proof.size \in Nat /\ proof.size <= c + t
  BY <1>2, RepeatersFinite DEF Bounded, Proofs
<1> HIDE DEF c, t, u
<1>4. proof.size <= c + u
  BY <1>3
<1> QED
  BY <1>4 DEF Bounded, c, u

\* A vote of a new voter adds a voter; a second vote of a peer adds a repeater;
\* a third does not arrive.
LEMMA PeerVoteBounded ==
  ASSUME VoteInv, VotesBounded, AtMostTwice,
         NEW r \in Peers, NEW id \in PeerCheckpoints, PeerCheckpoint(r, id)
  PROVE  Bounded(WithVote(VotesFor(id), r), id, delivered')
<1> DEFINE old == VotesFor(id)
           new == WithVote(old, r)
           R == Repeaters(old, id, delivered)
           S == Repeaters(new, id, delivered')
<1>1. id \in CheckpointIds /\ old \in Proofs /\ r \in Replicas /\ r # Self
  BY PeerCheckpointType, VotesForType DEF VoteInv, Inv, Peers
<1>2. new \in Proofs /\ new.size = old.size + 1 /\ new.voters = old.voters \cup {r}
  BY <1>1 DEF WithVote, Proofs
<1>3. /\ delivered \in [Peers \X PeerCheckpoints -> Nat]
      /\ delivered' = [delivered EXCEPT ![<<r, id>>] = delivered[<<r, id>>] + 1]
      /\ delivered[<<r, id>>] < 2 /\ delivered[<<r, id>>] \in Nat
  <2>1. delivered \in Deliveries /\ delivered[<<r, id>>] < Copies[r]
    BY DEF VoteInv, Inv, TypeOK, PeerCheckpoint
  <2>2. Copies[r] \in Nat /\ Copies[r] <= 2
    BY BoundsAssumption DEF AtMostTwice
  <2>3. delivered[<<r, id>>] \in Nat
    BY <2>1 DEF Deliveries
  <2> QED
    BY <2>1, <2>2, <2>3 DEF Deliveries, PeerCheckpoint
<1>4. old.size <= Cardinality(old.voters) + Cardinality(R)
  BY <1>1 DEF VotesBounded, Bounded
<1>5. R \subseteq S
  <2>1. \A q \in Peers : delivered[<<q, id>>] >= 2 => delivered'[<<q, id>>] >= 2
    BY <1>3
  <2> QED
    BY <1>2, <2>1 DEF Repeaters
<1>6. /\ IsFiniteSet(old.voters) /\ Cardinality(old.voters) \in Nat
      /\ IsFiniteSet(R) /\ Cardinality(R) \in Nat /\ IsFiniteSet(S) /\ Cardinality(S) \in Nat
      /\ Cardinality(new.voters) \in Nat
  BY <1>1, <1>2, RepeatersFinite
<1>7. Cardinality(R) <= Cardinality(S)
  BY <1>5, <1>6, FS_Subset
<1>8. CASE r \notin old.voters
  <2>1. Cardinality(new.voters) = Cardinality(old.voters) + 1
    BY <1>2, <1>6, <1>8, FS_AddElement
  <2> HIDE DEF old, new, R, S
  <2>2. old.size \in Nat
    BY <1>1 DEF Proofs
  <2>3. new.size <= Cardinality(new.voters) + Cardinality(S)
    BY <1>2, <1>4, <1>6, <1>7, <2>1, <2>2
  <2> QED
    BY <2>3 DEF Bounded, S, new, old
<1>9. CASE r \in old.voters
  <2>1. delivered[<<r, id>>] >= 1
    BY <1>1, <1>9 DEF VoteInv, VotesBacked
  <2>2. delivered'[<<r, id>>] >= 2 /\ ~(delivered[<<r, id>>] >= 2)
    BY <1>3, <2>1
  <2>3. r \in S /\ r \notin R
    BY <1>2, <2>2 DEF Repeaters
  <2>4. R \cup {r} \subseteq S /\ Cardinality(R \cup {r}) = Cardinality(R) + 1
    BY <1>5, <1>6, <2>3, FS_AddElement
  <2>5. Cardinality(R) + 1 <= Cardinality(S)
    BY <1>6, <2>4, FS_Subset
  <2>6. Cardinality(new.voters) = Cardinality(old.voters) /\ new.size = old.size + 1
    BY <1>2, <1>9
  <2> HIDE DEF old, new, R, S
  <2>7. old.size \in Nat
    BY <1>1 DEF Proofs
  <2>8. new.size <= Cardinality(new.voters) + Cardinality(S)
    BY <1>4, <1>6, <2>5, <2>6, <2>7
  <2> QED
    BY <2>8 DEF Bounded, S, new, old
<1> QED
  BY <1>8, <1>9

\* The replica votes once for its own checkpoint.
LEMMA OwnVoteBounded ==
  ASSUME VoteInv, VotesBounded, NEW id \in own, OwnCheckpoint(id)
  PROVE  Bounded(WithVote(VotesFor(id), Self), id, delivered')
<1> DEFINE old == VotesFor(id)
           new == WithVote(old, Self)
<1>1. id \in CheckpointIds /\ old \in Proofs /\ Self \in Replicas /\ delivered' = delivered
  BY VotesForType, ReplicasAssumption DEF VoteInv, Inv, TypeOK, OwnCheckpoint
<1>2. new \in Proofs /\ new.size = old.size + 1 /\ new.voters = old.voters \cup {Self}
  BY <1>1 DEF WithVote, Proofs
<1>3. Self \notin old.voters
  BY <1>1 DEF VoteInv, VotesBacked
<1>4. Repeaters(new, id, delivered') = Repeaters(old, id, delivered)
  BY <1>1, <1>2 DEF Repeaters, Peers
<1>5. /\ IsFiniteSet(old.voters) /\ Cardinality(old.voters) \in Nat
      /\ Cardinality(Repeaters(old, id, delivered)) \in Nat
  BY <1>1, RepeatersFinite
<1>6. Cardinality(new.voters) = Cardinality(old.voters) + 1
  BY <1>2, <1>3, <1>5, FS_AddElement
<1>7. old.size <= Cardinality(old.voters) + Cardinality(Repeaters(old, id, delivered))
  BY <1>1 DEF VotesBounded, Bounded
<1>8. old.size \in Nat
  BY <1>1 DEF Proofs
<1> HIDE DEF old, new
<1>9. new.size <= Cardinality(new.voters) + Cardinality(Repeaters(new, id, delivered'))
  BY <1>2, <1>4, <1>5, <1>6, <1>7, <1>8
<1> QED
  BY <1>9 DEF Bounded, new, old

\* A bounded new vote keeps every proof bounded, also the one that becomes stable.
LEMMA VoteKeepsBounds ==
  ASSUME VoteInv, VotesBounded, StableBackedByCorrect,
         NEW id \in CheckpointIds, NEW r \in Replicas, AddCheckpointRequest(r, id),
         delivered' \in [Peers \X PeerCheckpoints -> Nat],
         \A q \in Peers, i \in PeerCheckpoints : delivered[<<q, i>>] <= delivered'[<<q, i>>],
         Bounded(WithVote(VotesFor(id), r), id, delivered')
  PROVE  VotesBounded' /\ StableBackedByCorrect'
<1> DEFINE proof == WithVote(VotesFor(id), r)
<1>1. TypeOK /\ proof \in Proofs
  BY VotesForType DEF VoteInv, Inv, WithVote, Proofs
<1>2. VotesBounded'
  <2> SUFFICES ASSUME NEW j \in CheckpointIds PROVE Bounded(VotesFor(j)', j, delivered')
    BY DEF VotesBounded
  <2>1. Bounded(VotesFor(j), j, delivered')
    <3>1. VotesFor(j) \in Proofs /\ Bounded(VotesFor(j), j, delivered)
      BY <1>1, VotesForType DEF VotesBounded
    <3>2. delivered \in [Peers \X PeerCheckpoints -> Nat]
      BY <1>1 DEF TypeOK, Deliveries
    <3> QED
      BY <3>1, <3>2, BoundedLater
  <2>2. Bounded(NoVotes, j, delivered')
    <3>1. NoVotes \in Proofs /\ NoVotes.size = 0
      BY DEF NoVotes, Proofs
    <3>2. /\ Cardinality(NoVotes.voters) \in Nat
          /\ Cardinality(Repeaters(NoVotes, j, delivered')) \in Nat
      BY <3>1, RepeatersFinite
    <3> QED
      BY <3>1, <3>2 DEF Bounded
  <2> QED
    BY <1>1, <2>1, <2>2, VotesAfter
<1>3. StableBackedByCorrect'
  <2>1. CASE stable' = stable
    BY <2>1 DEF StableBackedByCorrect
  <2>2. CASE Quorum(proof) /\ Stabilize(id, proof)
    <3>1. stable'.proof = proof
      BY <2>2 DEF Stabilize
    <3>2. Cardinality(proof.voters) >= F + 1
      BY <1>1, <2>2, QuorumOfDistinct
    <3> QED
      BY <3>1, <3>2 DEF StableBackedByCorrect
  <2> QED
    BY <2>1, <2>2 DEF AddCheckpointRequest, CountVote
<1> QED
  BY <1>2, <1>3

LEMMA NextBacked ==
  ASSUME AtMostTwice
  PROVE  BackedInv /\ [Next]_vars => BackedInv'
<1> SUFFICES ASSUME BackedInv, [Next]_vars PROVE BackedInv'
  OBVIOUS
<1>1. VoteInv'
  BY NextVotes DEF BackedInv
<1>2. VotesBounded' /\ StableBackedByCorrect'
  <2>1. CASE UNCHANGED <<unstable, delivered, stable>>
    BY <2>1 DEF BackedInv, VotesBounded, Bounded, Repeaters, VotesFor, StableBackedByCorrect
  <2>2. ASSUME NEW r \in Peers, NEW id \in PeerCheckpoints, PeerCheckpoint(r, id)
        PROVE  VotesBounded' /\ StableBackedByCorrect'
    <3>1. id \in CheckpointIds /\ r \in Replicas /\ AddCheckpointRequest(r, id)
      BY <2>2, PeerCheckpointType DEF Peers, PeerCheckpoint
    <3>2. /\ delivered \in [Peers \X PeerCheckpoints -> Nat]
          /\ delivered' = [delivered EXCEPT ![<<r, id>>] = delivered[<<r, id>>] + 1]
      BY <2>2 DEF BackedInv, VoteInv, Inv, TypeOK, Deliveries, PeerCheckpoint
    <3>3. /\ delivered' \in [Peers \X PeerCheckpoints -> Nat]
          /\ \A q \in Peers, i \in PeerCheckpoints : delivered[<<q, i>>] <= delivered'[<<q, i>>]
      BY <3>2
    <3> QED
      BY <2>2, <3>1, <3>3, PeerVoteBounded, VoteKeepsBounds DEF BackedInv
  <2>3. ASSUME NEW id \in own, OwnCheckpoint(id)
        PROVE  VotesBounded' /\ StableBackedByCorrect'
    <3>1. /\ id \in CheckpointIds /\ Self \in Replicas /\ AddCheckpointRequest(Self, id)
          /\ delivered' = delivered
      BY <2>3, ReplicasAssumption DEF BackedInv, VoteInv, Inv, TypeOK, OwnCheckpoint
    <3>2. /\ delivered' \in [Peers \X PeerCheckpoints -> Nat]
          /\ \A q \in Peers, i \in PeerCheckpoints : delivered[<<q, i>>] <= delivered'[<<q, i>>]
      BY <3>1 DEF BackedInv, VoteInv, Inv, TypeOK, Deliveries
    <3> QED
      BY <2>3, <3>1, <3>2, OwnVoteBounded, VoteKeepsBounds DEF BackedInv
  <2> QED
    BY <2>1, <2>2, <2>3 DEF Next, vars, AddRequests, CommitStart, CommitEnterLoop, CommitApply,
       CommitAdvance, CommitReturn
<1> QED
  BY <1>1, <1>2 DEF BackedInv

LEMMA InitBacked == Init => BackedInv
<1> SUFFICES ASSUME Init PROVE BackedInv
  OBVIOUS
<1>1. VoteInv
  BY InitVotes
<1>2. VotesBounded
  <2> SUFFICES ASSUME NEW id \in CheckpointIds PROVE Bounded(VotesFor(id), id, delivered)
    BY DEF VotesBounded
  <2>1. VotesFor(id) \in Proofs /\ VotesFor(id).size = 0
    BY DEF Init, VotesFor, NoVotes, Proofs
  <2>2. /\ Cardinality(VotesFor(id).voters) \in Nat
        /\ Cardinality(Repeaters(VotesFor(id), id, delivered)) \in Nat
    BY <2>1, RepeatersFinite
  <2> QED
    BY <2>1, <2>2 DEF Bounded
<1>3. StableBackedByCorrect
  BY DEF Init, StableBackedByCorrect
<1> QED
  BY <1>1, <1>2, <1>3 DEF BackedInv

\* When no vote arrives a third time, every stable checkpoint was reported by
\* F + 1 different replicas, one of them correct.
THEOREM StableBacked ==
  ASSUME AtMostTwice
  PROVE  Spec => []StableBackedByCorrect
<1>1. BackedInv => StableBackedByCorrect
  BY DEF BackedInv
<1> QED
  BY <1>1, InitBacked, NextBacked, PTL DEF Spec

-----------------------------------------------------------------------------
\* The assumption of StateFollows: peers report what an uninterrupted execution
\* of the agreed operations gives.
PeersAgree == \A n \in CheckpointSeqs : PeerStates[n] = {StateAfter[n]}

\* A checkpoint that becomes stable was reported by a peer.
LEMMA StableFromPeer ==
  ASSUME VoteInv, NEW r \in Replicas, NEW id \in CheckpointIds,
         Quorum(WithVote(VotesFor(id), r)),
         (r \in Peers /\ id \in PeerCheckpoints) \/ (r = Self /\ id \in own)
  PROVE  id \in PeerCheckpoints
<1>1. CASE r = Self /\ id \in own
  <2>1. Self \notin VotesFor(id).voters
    BY <1>1 DEF VoteInv, VotesBacked
  <2>2. VotesFor(id).size # 0
    BY FPositive DEF Quorum, WithVote
  <2>3. PICK q \in VotesFor(id).voters : q # Self
    BY <2>1, <2>2 DEF VoteInv, VotesBacked
  <2> QED
    BY <2>3 DEF VoteInv, VotesBacked
<1> QED
  BY <1>1

\* Replacing the state by a digest yields the state the digest was taken of.
LEMMA DigestRestores ==
  ASSUME NEW i \in Int
  PROVE  Apply(0, [type |-> "ADD", value |-> Itoa(i)]) = i
<1>1. Itoa(i) # Unparsable /\ Itoa(i).decimal = i
  BY OperationsAssumption DEF Itoa
<1> QED
  BY <1>1 DEF Apply, Parses, Atoi

LEMMA StabilizeFollows ==
  ASSUME VoteInv, PeersAgree, NEW r \in Replicas, NEW id \in CheckpointIds,
         AddCheckpointRequest(r, id),
         (r \in Peers /\ id \in PeerCheckpoints) \/ (r = Self /\ id \in own),
         state = StateAfter[Applied]
  PROVE  \/ state' = StateAfter[Applied']
         \/ stable'.seq # stable.seq /\ MayLag(stable'.seq)
<1> DEFINE proof == WithVote(VotesFor(id), r)
<1>1. /\ TypeOK /\ lastApplied \in Nat /\ id.seq \in Nat /\ stable.seq \in Nat
      /\ id.seq \in CheckpointSeqs
      /\ Applied = lastApplied /\ Applied' = lastApplied'
  BY AppliedAfterVote DEF VoteInv, Inv, TypeOK, CheckpointIds, CheckpointSeqs, Seqs
<1>2. CASE UNCHANGED <<state, lastApplied>>
  BY <1>1, <1>2
<1>3. CASE Quorum(proof) /\ stable.seq < id.seq /\ Stabilize(id, proof)
  <2>1. stable'.seq = id.seq /\ lastApplied' = Jump(id.seq)
    BY <1>3 DEF Stabilize
  <2>2. stable'.seq # stable.seq
    BY <1>1, <1>3, <2>1
  <2>3. id.digest = Itoa(StateAfter[id.seq]) /\ StateAfter[id.seq] \in Int
    <3>1. id \in PeerCheckpoints
      BY <1>3, StableFromPeer
    <3>2. PICK n \in CheckpointSeqs : id \in {[seq |-> n, digest |-> Itoa(i)] : i \in PeerStates[n]}
      BY <3>1 DEF PeerCheckpoints
    <3>3. PICK i \in PeerStates[n] : id = [seq |-> n, digest |-> Itoa(i)]
      BY <3>2
    <3>4. i = StateAfter[n] /\ id.seq = n /\ i \in Int
      BY <3>3, OperationsAssumption DEF PeersAgree, CheckpointSeqs
    <3> QED
      BY <3>3, <3>4
  <2>4. CASE id.seq < lastApplied
    BY <2>1, <2>2, <2>4 DEF MayLag
  <2>5. CASE ~(id.seq < lastApplied) /\ StaleState(id.seq)
    <3>1. state' = StateAfter[id.seq]
      BY <1>3, <2>3, <2>5, DigestRestores DEF Stabilize
    <3>2. lastApplied' = id.seq
      BY <1>1, <2>1, <2>5 DEF Jump
    <3> QED
      BY <1>1, <3>1, <3>2
  <2>6. CASE id.seq = lastApplied /\ ~StaleState(id.seq)
    <3>1. state' = state /\ lastApplied' = lastApplied
      BY <1>3, <2>1, <2>6 DEF Stabilize, Jump
    <3> QED
      BY <1>1, <3>1
  <2>7. CASE id.seq > lastApplied /\ ~StaleState(id.seq)
    <3>1. \A n \in 1..id.seq : committedRequests[n] = Absent
      <4>1. \A n \in 1..id.seq : n \in Seqs
        BY <1>1, BoundsAssumption DEF CheckpointSeqs, Seqs
      <4> QED
        BY <2>7, <4>1 DEF StaleState
    <3> QED
      BY <2>1, <2>2, <2>7, <3>1 DEF MayLag
  <2> QED
    BY <1>1, <2>4, <2>5, <2>6, <2>7
<1> QED
  BY <1>2, <1>3 DEF AddCheckpointRequest, CountVote

LEMMA FollowsStep ==
  ASSUME VoteInv, PeersAgree, [Next]_vars, state = StateAfter[Applied]
  PROVE  \/ state' = StateAfter[Applied']
         \/ stable'.seq # stable.seq /\ MayLag(stable'.seq)
         \/ Deviates
<1>1. CASE CommitApply
  <2>1. /\ lastApplied + 1 \in Seqs /\ lastApplied \in Nat
        /\ state' = Apply(state, requests[lastApplied + 1])
        /\ executed' # executed
        /\ Applied = lastApplied /\ Applied' = lastApplied + 1
    <3>1. executed \in Seq(Seqs) /\ lastApplied + 1 \in Seqs /\ executed' = Append(executed, lastApplied + 1)
      BY <1>1, CommitApplyStep DEF VoteInv, Inv, TypeOK
    <3>2. executed' # executed
      <4>1. Len(executed') = Len(executed) + 1 /\ Len(executed) \in Nat
        BY <3>1, AppendProperties, LenProperties
      <4> QED
        BY <4>1
    <3> QED
      BY <1>1, <3>2, CommitApplyStep DEF VoteInv, Inv, TypeOK
  <2>2. CASE requests[lastApplied + 1] # Agreed[lastApplied + 1]
    BY <2>1, <2>2 DEF Deviates
  <2>3. CASE requests[lastApplied + 1] = Agreed[lastApplied + 1]
    <3>1. (lastApplied + 1) - 1 = lastApplied
      BY <2>1
    <3>2. StateAfter[lastApplied + 1] = Apply(StateAfter[lastApplied], Agreed[lastApplied + 1])
      BY <2>1, <3>1, StateAfterUnfolds
    <3> QED
      BY <2>1, <2>3, <3>2
  <2> QED
    BY <2>2, <2>3
<1>2. CASE UNCHANGED <<state, Applied>>
  BY <1>2
<1>3. ASSUME NEW r \in Peers, NEW id \in PeerCheckpoints, PeerCheckpoint(r, id)
      PROVE  \/ state' = StateAfter[Applied']
             \/ stable'.seq # stable.seq /\ MayLag(stable'.seq)
  BY <1>3, PeerCheckpointType, StabilizeFollows DEF PeerCheckpoint, Peers
<1>4. ASSUME NEW id \in own, OwnCheckpoint(id)
      PROVE  \/ state' = StateAfter[Applied']
             \/ stable'.seq # stable.seq /\ MayLag(stable'.seq)
  <2>1. id \in CheckpointIds /\ Self \in Replicas
    BY ReplicasAssumption DEF VoteInv, Inv, TypeOK
  <2> QED
    BY <1>4, <2>1, StabilizeFollows DEF OwnCheckpoint
<1> QED
  BY <1>1, <1>2, <1>3, <1>4 DEF Next, vars, AddRequests, CommitStart, CommitEnterLoop,
     CommitAdvance, CommitReturn, Applied

\* When the peers agree on the state, the replica's state follows the prefix it has
\* applied, but for a checkpoint it had passed or had nothing recorded below, and for
\* an operation that is not the agreed one.
THEOREM StateFollowsThm ==
  ASSUME PeersAgree
  PROVE  Spec => StateFollows
<1>1. VoteInv /\ [Next]_vars =>
        [state = StateAfter[Applied] =>
          \/ state' = StateAfter[Applied']
          \/ stable'.seq # stable.seq /\ MayLag(stable'.seq)
          \/ Deviates]_vars
  BY FollowsStep
<1> QED
  BY <1>1, VotesAlways, PTL DEF Spec, StateFollows
=============================================================================
