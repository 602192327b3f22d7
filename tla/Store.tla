------------------------------- MODULE Store --------------------------------
(***************************************************************************)
(* The Store of one replica, pbft/store.go: client requests by sequence    *)
(* number, the ones the protocol committed, the key-value state they are   *)
(* applied to, and the checkpoint votes that make a prefix stable.         *)
(*                                                                         *)
(* The callers (node.go) are the environment: AddRequests and Commit come  *)
(* from goroutines that may run late, twice or in either order; checkpoint *)
(* votes come from the peers, at most Copies[r] times each (the sender     *)
(* retries a call that timed out but was received), and from the replica   *)
(* itself.  AddRequests, AddCheckpointRequest and Commit hold s.mu; Commit *)
(* is split at the accesses to lastAppliedSequenceNumber because           *)
(* UpdateLastStableCheckpoint writes it without the lock.                  *)
(*                                                                         *)
(* Abstractions.  Clients never set a key, so the state is the value of    *)
(* key "".  The primary puts one client request in a pre-prepare, so a     *)
(* batch is one operation; which one a number gets may differ from one     *)
(* pre-prepare to the next (Proposals).  Agreed is what the peers execute. *)
(* A checkpoint proof is its length and its set of voters.                 *)
(***************************************************************************)
EXTENDS Integers, Sequences, FiniteSets

CONSTANTS
    Replicas, Self,
    MaxSeq,             \* bound: sequence numbers in use are 1..MaxSeq
    CheckpointInterval, \* General.CheckpointInterval
    Copies,             \* Copies[r] <= Grpc.MaxRetries: copies of a call of peer r that arrive
    Proposals,          \* Proposals[n]: the operations pre-prepares for n may carry
    Agreed,             \* Agreed[n]: the operation the peers executed at n
    PeerStates,         \* PeerStates[n]: the states peers report at checkpoint n
    Unparsable,         \* a value that strconv.Atoi rejects
    Absent, Nil         \* no map entry; an entry holding a nil slice

VARIABLES
    requests, committedRequests, \* the maps of the same name
    state,              \* state.value[""]
    lastApplied,        \* lastAppliedSequenceNumber
    unstable,           \* unstableCheckpoints
    stable,             \* lastStableCheckpoint; sequence number 0 when nil
    pc,                 \* "idle", or where the Commit that holds s.mu is
    update,             \* UpdateLastStableCheckpoint: its step and argument
    own,                \* own checkpoints, to be added by a goroutine
    delivered,          \* copies of each peer vote received so far
    executed,           \* history: sequence numbers whose requests were executed
    replaced            \* history: numbers whose requests AddRequests has changed
                        \* since they were recorded as committed

vars == <<requests, committedRequests, state, lastApplied, unstable, stable,
          pc, update, own, delivered, executed, replaced>>

Seqs == 1..MaxSeq
F == (Cardinality(Replicas) - 1) \div 3
Peers == Replicas \ {Self}

\* strconv.Itoa and strconv.Atoi: a decimal string is kept as what it denotes.
Itoa(i) == [decimal |-> i]
Parses(value) == value # Unparsable
Atoi(value) == value.decimal
Strings == [decimal : Int] \cup {Unparsable}
Operations == [type : {"GET", "ADD", "SUB"}, value : Strings]

\* newCheckpointId: sequence number and digest, the digest being the state.
CheckpointSeqs == {n \in Seqs : n % CheckpointInterval = 0}
CheckpointIds == [seq : CheckpointSeqs, digest : [decimal : Int]]
PeerCheckpoints == UNION {{[seq |-> n, digest |-> Itoa(i)] : i \in PeerStates[n]} : n \in CheckpointSeqs}

Deliveries == {d \in [Peers \X PeerCheckpoints -> Nat] :
                  \A r \in Peers, id \in PeerCheckpoints : d[<<r, id>>] <= Copies[r]}

Proofs == [size : Nat, voters : SUBSET Replicas]
NoVotes == [size |-> 0, voters |-> {}]

ASSUME ReplicasAssumption ==
    /\ IsFiniteSet(Replicas) /\ Self \in Replicas /\ Cardinality(Replicas) >= 4
ASSUME BoundsAssumption ==
    /\ MaxSeq \in Nat
    /\ CheckpointInterval \in Nat \ {0}
    /\ Copies \in [Peers -> Nat]
ASSUME OperationsAssumption ==
    /\ Proposals \in [Seqs -> SUBSET Operations]
    /\ Agreed \in [Seqs -> Operations]
    /\ PeerStates \in [Seqs -> SUBSET Int]
    /\ Absent \notin Operations /\ Nil \notin Operations /\ Absent # Nil
    /\ Unparsable \notin [decimal : Int]

-----------------------------------------------------------------------------
(* An operator MUT_X is X with a plausible slip in it; it is used only to    *)
(* show that a property notices the slip.                                    *)

\* State.apply
Apply(value, op) ==
    CASE op.type = "ADD" /\ Parses(op.value) -> value + Atoi(op.value)
      [] op.type = "SUB" /\ Parses(op.value) -> value - Atoi(op.value)
      [] OTHER -> value

\* State.digest
Digest == Itoa(state)

\* The state after the agreed 1..n are executed from the empty state, once and in order.
StateAfter[n \in 0..MaxSeq] == IF n = 0 THEN 0 ELSE Apply(StateAfter[n - 1], Agreed[n])

\* s.committedRequests[n] != nil
MUT_Recorded(n) == n \in Seqs /\ committedRequests[n] # Absent
Recorded(n) == n \in Seqs /\ committedRequests[n] \notin {Absent, Nil}

\* The entries left when those up to s are deleted from a map.
Above(map, s) == [n \in Seqs |-> IF n <= s THEN Absent ELSE map[n]]

\* haveStaleState: some committed entry, applied or not, was deleted.
MUT_StaleState(s) == s \in Seqs /\ committedRequests[s] # Absent
StaleState(s) == \E n \in 1..s : n \in Seqs /\ committedRequests[n] # Absent

\* The entries left in unstableCheckpoints once s is stable.
MUT_StillOpen(s) == DOMAIN unstable
StillOpen(s) == {id \in DOMAIN unstable : id.seq > s}

\* The checkpoint test of Commit.
MUT_CheckpointDue(n) == (n - 1) % CheckpointInterval = 0
CheckpointDue(n) == n % CheckpointInterval = 0

VotesFor(id) == IF id \in DOMAIN unstable THEN unstable[id] ELSE NoVotes

\* append(proof, checkpoint): nothing compares replica ids.
WithVote(proof, r) == [size |-> proof.size + 1, voters |-> proof.voters \cup {r}]

MUT_Quorum(proof) == proof.size = F + 1
Quorum(proof) == proof.size = 2*F + 1

MUT_Jump(s) == s
Jump(s) == IF lastApplied < s THEN s ELSE lastApplied

-----------------------------------------------------------------------------
\* NewStore
Init ==
    /\ requests = [n \in Seqs |-> Absent]
    /\ committedRequests = [n \in Seqs |-> Absent]
    /\ state = 0
    /\ lastApplied = 0
    /\ unstable = <<>>
    /\ stable = [seq |-> 0, proof |-> NoVotes]
    /\ pc = "idle"
    /\ update = [step |-> "idle", seq |-> 0]
    /\ own = {}
    /\ delivered = [v \in Peers \X PeerCheckpoints |-> 0]
    /\ executed = <<>>
    /\ replaced = {}

\* Whatever was there before is overwritten, also when n is committed already.
AddRequests(n, op) ==
    /\ pc = "idle"
    /\ requests' = [requests EXCEPT ![n] = op]
    /\ replaced' = IF committedRequests[n] \in Operations \ {op}
                     THEN replaced \cup {n} ELSE replaced
    /\ UNCHANGED <<committedRequests, state, lastApplied, unstable, stable, pc,
                   update, own, delivered, executed>>

-----------------------------------------------------------------------------
(* Commit(n).  The entry is recorded even when the request has not reached   *)
(* the store (a nil slice); then the contiguous run of recorded numbers      *)
(* after lastApplied is executed, reading s.requests.                        *)

CommitStart(n) ==
    /\ pc = "idle"
    /\ committedRequests' = [committedRequests EXCEPT ![n] =
                                IF requests[n] = Absent THEN Nil ELSE requests[n]]
    /\ replaced' = replaced \ {n}
    /\ pc' = "loop"
    /\ UNCHANGED <<requests, state, lastApplied, unstable, stable, update, own,
                   delivered, executed>>

CommitEnterLoop ==
    /\ pc = "loop"
    /\ Recorded(lastApplied + 1)
    /\ pc' = "apply"
    /\ UNCHANGED <<requests, committedRequests, state, lastApplied, unstable,
                   stable, update, own, delivered, executed, replaced>>

\* s.requests[n]: a missing entry executes nothing.
CommitApply ==
    LET n == lastApplied + 1
        present == n \in Seqs /\ requests[n] # Absent
    IN  /\ pc = "apply"
        /\ state' = IF present THEN Apply(state, requests[n]) ELSE state
        /\ executed' = IF present THEN Append(executed, n) ELSE executed
        /\ own' = IF CheckpointDue(n)
                    THEN own \cup {[seq |-> n, digest |-> Itoa(state')]} ELSE own
        /\ pc' = "advance"
        /\ UNCHANGED <<requests, committedRequests, lastApplied, unstable,
                       stable, update, delivered, replaced>>

CommitAdvance ==
    /\ pc = "advance"
    /\ lastApplied' = lastApplied + 1
    /\ pc' = "loop"
    /\ UNCHANGED <<requests, committedRequests, state, unstable, stable, update,
                   own, delivered, executed, replaced>>

MUT_CommitReturn ==
    /\ pc = "loop"
    /\ pc' = "idle"
    /\ UNCHANGED <<requests, committedRequests, state, lastApplied, unstable,
                   stable, update, own, delivered, executed, replaced>>

CommitReturn ==
    /\ pc = "loop"
    /\ ~Recorded(lastApplied + 1)
    /\ pc' = "idle"
    /\ UNCHANGED <<requests, committedRequests, state, lastApplied, unstable,
                   stable, update, own, delivered, executed, replaced>>

-----------------------------------------------------------------------------
(***************************************************************************)
(* stabilizeCheckpoint.  The state is replaced by the digest whenever a    *)
(* committed entry was deleted, also when later requests were applied, and *)
(* is left alone when there was none, also when the replica was behind.    *)
(***************************************************************************)
Stabilize(id, proof) ==
    /\ stable' = [seq |-> id.seq, proof |-> proof]
    /\ unstable' = [i \in StillOpen(id.seq) |-> unstable[i]]
    /\ requests' = Above(requests, id.seq)
    /\ committedRequests' = Above(committedRequests, id.seq)
    /\ state' = IF StaleState(id.seq)
                  THEN Apply(0, [type |-> "ADD", value |-> id.digest]) ELSE state
    /\ lastApplied' = Jump(id.seq)

CountVote(id, proof) ==
    /\ unstable' = [i \in DOMAIN unstable \cup {id} |->
                        IF i = id THEN proof ELSE unstable[i]]
    /\ UNCHANGED <<requests, committedRequests, state, lastApplied, stable>>

\* AddCheckpointRequest: a vote below the stable checkpoint is dropped.
AddCheckpointRequest(r, id) ==
    LET proof == WithVote(VotesFor(id), r)
    IN  /\ pc = "idle"
        /\ IF id.seq < stable.seq
             THEN UNCHANGED <<requests, committedRequests, state, lastApplied,
                              unstable, stable>>
             ELSE IF Quorum(proof) /\ stable.seq < id.seq
                    THEN Stabilize(id, proof)
                    ELSE CountVote(id, proof)
        /\ UNCHANGED <<pc, update, executed, replaced>>

PeerCheckpoint(r, id) ==
    /\ delivered[<<r, id>>] < Copies[r]
    /\ AddCheckpointRequest(r, id)
    /\ delivered' = [delivered EXCEPT ![<<r, id>>] = @ + 1]
    /\ UNCHANGED own

OwnCheckpoint(id) ==
    /\ AddCheckpointRequest(Self, id)
    /\ own' = own \ {id}
    /\ UNCHANGED delivered

-----------------------------------------------------------------------------
(***************************************************************************)
(* UpdateLastStableCheckpoint, called without s.mu or n.mu when a status   *)
(* response carries a later checkpoint: each test and each assignment is a *)
(* step of its own.  Some 2F+1 votes made the peer's checkpoint stable.    *)
(***************************************************************************)
UpdateStart(s) ==
    /\ update.step = "idle"
    /\ s > stable.seq
    /\ update' = [step |-> "check", seq |-> s]
    /\ UNCHANGED <<requests, committedRequests, state, lastApplied, unstable,
                   stable, pc, own, delivered, executed, replaced>>

UpdateCheck ==
    /\ update.step = "check"
    /\ update' = [update EXCEPT !.step = IF stable.seq < update.seq THEN "stable" ELSE "test"]
    /\ UNCHANGED <<requests, committedRequests, state, lastApplied, unstable,
                   stable, pc, own, delivered, executed, replaced>>

UpdateStable ==
    /\ update.step = "stable"
    /\ stable' = [seq |-> update.seq, proof |-> [size |-> 2*F + 1, voters |-> Peers]]
    /\ update' = [update EXCEPT !.step = "test"]
    /\ UNCHANGED <<requests, committedRequests, state, lastApplied, unstable, pc,
                   own, delivered, executed, replaced>>

UpdateTest ==
    /\ update.step = "test"
    /\ update' = [update EXCEPT !.step = IF lastApplied < update.seq THEN "write" ELSE "idle"]
    /\ UNCHANGED <<requests, committedRequests, state, lastApplied, unstable,
                   stable, pc, own, delivered, executed, replaced>>

UpdateWrite ==
    /\ update.step = "write"
    /\ lastApplied' = update.seq
    /\ update' = [update EXCEPT !.step = "idle"]
    /\ UNCHANGED <<requests, committedRequests, state, unstable, stable, pc, own,
                   delivered, executed, replaced>>

-----------------------------------------------------------------------------
Next ==
    \/ \E n \in Seqs : \E op \in Proposals[n] : AddRequests(n, op)
    \/ \E n \in Seqs : CommitStart(n)
    \/ CommitEnterLoop
    \/ CommitApply
    \/ CommitAdvance
    \/ CommitReturn
    \/ \E r \in Peers, id \in PeerCheckpoints : PeerCheckpoint(r, id)
    \/ \E id \in own : OwnCheckpoint(id)

\* A replica that accepts no status response: one that started with the
\* cluster, when every status response comes without a proof and is refused.
Spec == Init /\ [][Next]_vars

\* A replica that was restarted or re-enabled also hears of checkpoints.
RestartNext ==
    \/ Next
    \/ \E n \in CheckpointSeqs : UpdateStart(n)
    \/ UpdateCheck
    \/ UpdateStable
    \/ UpdateTest
    \/ UpdateWrite
RestartSpec == Init /\ [][RestartNext]_vars

-----------------------------------------------------------------------------
\* The last sequence number executed or skipped, seen from outside Commit.
Applied == IF pc = "advance" THEN lastApplied + 1 ELSE lastApplied

Log == INSTANCE ExecutionLog WITH applied <- Applied, stable <- stable.seq, log <- executed

TypeOK ==
    /\ requests \in [Seqs -> Operations \cup {Absent}]
    /\ committedRequests \in [Seqs -> Operations \cup {Absent, Nil}]
    /\ state \in Int
    /\ lastApplied \in Nat
    /\ DOMAIN unstable \subseteq CheckpointIds
    /\ \A id \in DOMAIN unstable : unstable[id] \in Proofs
    /\ stable \in [seq : 0..MaxSeq, proof : Proofs]
    /\ pc \in {"idle", "loop", "apply", "advance"}
    /\ update \in [step : {"idle", "check", "stable", "test", "write"}, seq : 0..MaxSeq]
    /\ own \subseteq CheckpointIds
    /\ delivered \in Deliveries
    /\ executed \in Seq(Seqs)
    /\ replaced \subseteq Seqs

\* Requests are executed in sequence order and no number twice, although Commit
\* is called repeatedly, late and in any order and checkpoints move lastApplied.
ExecutedOnce ==
    \A i, j \in DOMAIN executed : i < j => executed[i] < executed[j]

\* A number the replica has moved past was executed, unless a stable checkpoint
\* covers it.
NoneSkipped ==
    \A n \in 1..Applied : n <= stable.seq \/ \E i \in DOMAIN executed : executed[i] = n

\* The replica never trusts a checkpoint it has not itself moved up to.
StableWithinApplied == stable.seq <= lastApplied

\* What is executed is what was recorded when the number committed, unless the
\* requests of the number were overwritten while it waited for a predecessor: no
\* deletion, jump or late commit lets the two maps drift apart.
ExecutesTheCommitted ==
    [][executed' # executed =>
          /\ executed' = Append(executed, lastApplied + 1)
          /\ Recorded(lastApplied + 1)
          /\ \/ committedRequests[lastApplied + 1] = requests[lastApplied + 1]
             \/ lastApplied + 1 \in replaced]_vars

\* Execution stops with a recorded successor only where a checkpoint made the
\* replica jump (stabilizeCheckpoint does not resume the loop); elsewhere an idle
\* store has executed everything it can.
WaitsOnlyAfterJump ==
    pc = "idle" /\ Recorded(lastApplied + 1) => lastApplied = stable.seq

\* Votes are kept only for checkpoints that can still become stable, or that are
\* late copies for the stable one: no older or already decided entry piles up.
VotesStillOpen ==
    \A id \in DOMAIN unstable :
        /\ id.seq >= stable.seq
        /\ unstable[id].size > 2*F => id.seq = stable.seq

\* Neither the stable checkpoint nor the applied prefix ever moves back.
NeverBack == [][stable'.seq >= stable.seq /\ lastApplied' >= lastApplied]_vars

\* The store implements ExecutionLog.
ImplementsLog == Log!Spec

\* Votes are not told apart by replica, yet a stable checkpoint has been reported
\* by F + 1 different replicas, as long as a peer's vote arrives at most twice.
StableBackedByCorrect ==
    stable.seq > 0 => Cardinality(stable.proof.voters) >= F + 1

\* A replica whose state is what the agreed operations of its applied prefix produce,
\* some of which do not parse, loses it only in three ways: it stabilises a checkpoint
\* it has passed, or jumps to one with nothing recorded below it, or executes another
\* operation than the peers did.
MayLag(s) == s < lastApplied \/ (s > lastApplied /\ \A n \in 1..s : committedRequests[n] = Absent)
Deviates == executed' # executed /\ requests[lastApplied + 1] # Agreed[lastApplied + 1]
StateFollows ==
    [][state = StateAfter[Applied] =>
          \/ state' = StateAfter[Applied']
          \/ stable'.seq # stable.seq /\ MayLag(stable'.seq)
          \/ Deviates]_vars

\* Stabilising a checkpoint the replica has already passed keeps the state that
\* the later requests produced ("remove unapplied requests": applied ones stay).
AppliedKept ==
    [][stable'.seq # stable.seq /\ stable'.seq <= lastApplied => state' = state]_vars
=============================================================================
