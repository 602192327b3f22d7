----------------------------- MODULE NodeProofs -----------------------------
(***************************************************************************)
(* The node keeps the bound on outstanding requests, loses a slot of it    *)
(* only in the way the code shows, and gives its store no input that Store *)
(* does not provide for, for any number of replicas, views and sequence    *)
(* numbers and any bound on pending goroutines.                            *)
(***************************************************************************)
EXTENDS Node, CheckpointProofs

\* What is in flight is about sequence numbers and views in use.
NodeTypes ==
    /\ view \in Views
    /\ inProgress \subseteq Seqs
    /\ txns \subseteq Seqs
    /\ lastSeq \in 0..(MaxSeq + 1)
    /\ storing \subseteq Seqs
    /\ starting \subseteq Messages
    /\ proposed \subseteq Messages
    /\ ownCommits \subseteq Messages
    /\ verifiedCommits \subseteq Messages
    /\ run.at \notin {"select", "request", "assign", "status", "panic"} => run.msg \in Messages
    /\ run.at = "status" => run.msg.seq \in CheckpointSeqs /\ run.msg.view \in Views

\* While a client request is between the check of Run and its number there is room,
\* in whatever view; and if a pre-prepare is overtaken by a view in which this
\* replica leads, that view is still empty.
RoomKept ==
    /\ run.at \in {"request", "assign"} => Cardinality(inProgress) < MaxOutstanding
    /\ run.at = "preprepare" /\ isPrimary => inProgress = {}

NodeInv ==
    NodeTypes /\ RoomKept /\ OutstandingBound /\ PendingStaysEmpty

LEMMA SeqsFinite ==
  ASSUME NEW S, S \subseteq Seqs
  PROVE  IsFiniteSet(S) /\ Cardinality(S) \in Nat
<1>1. IsFiniteSet(Seqs)
  BY BoundsAssumption, FS_Interval DEF Seqs
<1> QED
  BY <1>1, FS_Subset, FS_CardinalityType

\* Removing numbers does not raise the count, adding one raises it by at most one.
LEMMA Shrink ==
  ASSUME NEW S, S \subseteq Seqs, NEW T, T \subseteq S
  PROVE  Cardinality(T) <= Cardinality(S)
  BY SeqsFinite, FS_Subset

LEMMA Grow ==
  ASSUME NEW S, S \subseteq Seqs, NEW n \in Seqs
  PROVE  Cardinality(S \cup {n}) <= Cardinality(S) + 1
  BY SeqsFinite, FS_AddElement

LEMMA EmptyCount == Cardinality({}) = 0
  BY FS_EmptySet

-----------------------------------------------------------------------------
LEMMA InitInInv ==
  ASSUME NEW v \in Views, InitIn(v)
  PROVE  NodeInv
  BY BoundsAssumption, NodeAssumption, EmptyCount
  DEF InitIn, NodeInv, NodeTypes, RoomKept, OutstandingBound,
      PendingStaysEmpty, Idle

LEMMA NodeInitInv == NodeInit => NodeInv
<1>1. 0 \in Views
  BY NodeAssumption DEF Views
<1> QED
  BY <1>1, InitInInv DEF NodeInit

\* Steps that leave the view data and the Run goroutine alone.
LEMMA FrameInv ==
  ASSUME NodeInv,
         UNCHANGED <<view, leader, inViewChange, inProgress, lastSeq, run, pending>>,
         txns \subseteq txns', txns' \subseteq Seqs,
         storing' \subseteq Seqs,
         starting' \subseteq Messages, proposed' \subseteq Messages,
         ownCommits' \subseteq Messages, verifiedCommits' \subseteq Messages
  PROVE  NodeInv'
  BY DEF NodeInv, NodeTypes, RoomKept, OutstandingBound, PendingStaysEmpty,
     isPrimary

\* Steps that take numbers out of InProgressRequests.
LEMMA RemoveInv ==
  ASSUME NodeInv,
         inProgress' \subseteq inProgress, txns' \subseteq txns,
         pending' = 0,
         UNCHANGED <<view, leader, inViewChange, lastSeq, run, storing, starting, proposed,
                     ownCommits, verifiedCommits>>
  PROVE  NodeInv'
<1> USE DEF NodeInv
<1>1. /\ Cardinality(inProgress') <= Cardinality(inProgress)
      /\ Cardinality(inProgress) \in Nat /\ Cardinality(inProgress') \in Nat
  BY Shrink, SeqsFinite DEF NodeTypes
<1>2. NodeTypes' /\ PendingStaysEmpty'
  BY DEF NodeTypes, PendingStaysEmpty
<1>3. RoomKept' /\ OutstandingBound'
  BY <1>1, NodeAssumption DEF RoomKept, OutstandingBound, isPrimary
<1> QED
  BY <1>2, <1>3

-----------------------------------------------------------------------------
\* The client-request path of Run.
LEMMA ClientRequestInv ==
  ASSUME NodeInv, RunRequest \/ handleClientRequest \/ AssignNumber \/ Propose
  PROVE  NodeInv'
<1> USE DEF NodeInv
<1>0. Cardinality(inProgress) \in Nat
  BY SeqsFinite DEF NodeTypes
<1>1. CASE RunRequest
  BY <1>1 DEF RunRequest, NodeTypes, RoomKept, OutstandingBound,
     PendingStaysEmpty, isPrimary, HasRoom, RunAt
<1>2. CASE handleClientRequest
  <2>1. Cardinality(inProgress) < MaxOutstanding /\ run.at = "request"
    BY <1>2 DEF handleClientRequest, RoomKept
  <2>2. pending' = pending
    BY <1>0, <1>2, <2>1, NodeAssumption DEF handleClientRequest
  <2>3. run' = Idle \/ run' = [at |-> "assign", msg |-> run.msg]
    BY <1>2 DEF handleClientRequest, RunAt
  <2>4. UNCHANGED <<view, leader, inProgress, lastSeq, txns, starting, storing, proposed, ownCommits,
                    verifiedCommits>>
    BY <1>2 DEF handleClientRequest
  <2> QED
    BY <2>1, <2>2, <2>3, <2>4 DEF NodeTypes, RoomKept, OutstandingBound,
       PendingStaysEmpty, isPrimary, Idle
<1>3. CASE AssignNumber
  <2>1. /\ lastSeq + 1 \in Seqs /\ lastSeq + 1 \in 0..(MaxSeq + 1)
        /\ Current(lastSeq + 1) \in Messages
    BY <1>3, BoundsAssumption DEF AssignNumber, NodeTypes, Seqs, Current, Messages
  <2>2. Cardinality(inProgress \cup {lastSeq + 1}) <= Cardinality(inProgress) + 1
    BY <2>1, Grow DEF NodeTypes
  <2>3. Cardinality(inProgress \cup {lastSeq + 1}) \in Nat
    BY <2>1, SeqsFinite DEF NodeTypes
  <2>4. Cardinality(inProgress) < MaxOutstanding
    BY <1>3 DEF AssignNumber, RoomKept
  <2>5. /\ inProgress' = inProgress \cup {lastSeq + 1} /\ txns' = txns \cup {lastSeq + 1}
        /\ lastSeq' = lastSeq + 1 /\ run' = [at |-> "propose", msg |-> Current(lastSeq + 1)]
        /\ UNCHANGED <<view, leader, pending, starting, storing, proposed, ownCommits,
                       verifiedCommits>>
    BY <1>3 DEF AssignNumber, RunAt
  <2>6. NodeTypes' /\ PendingStaysEmpty'
    BY <2>1, <2>5 DEF NodeTypes, PendingStaysEmpty, Seqs
  <2>7. Cardinality(inProgress \cup {lastSeq + 1}) <= MaxOutstanding
    BY <1>0, <2>2, <2>3, <2>4, NodeAssumption
  <2>8. RoomKept' /\ OutstandingBound'
    BY <2>5, <2>7 DEF RoomKept, OutstandingBound
  <2> QED
    BY <2>6, <2>8
<1>4. CASE Propose
  <2>1. run.msg \in Messages /\ run.msg.seq \in Seqs
    BY <1>4 DEF Propose, NodeTypes, Messages
  <2> QED
    BY <1>4, <2>1 DEF Propose, NodeTypes, RoomKept, OutstandingBound,
       PendingStaysEmpty, isPrimary, Idle
<1> QED
  BY <1>1, <1>2, <1>3, <1>4

\* Run receives a message of the agreement, and enters it under n.mu.
LEMMA ReceiveInv ==
  ASSUME NodeInv, NEW n \in Seqs,
         handlePrePrepareRequest(n) \/ handlePrepareRequest(n) \/ handleCommitRequest(n)
  PROVE  NodeInv'
<1>1. Current(n) \in Messages
  BY DEF NodeInv, NodeTypes, Current, Messages
<1> QED
  BY <1>1 DEF NodeInv, handlePrePrepareRequest, handlePrepareRequest, handleCommitRequest, RunAt,
     NodeTypes, RoomKept, OutstandingBound, PendingStaysEmpty, isPrimary

LEMMA EnterInv ==
  ASSUME NodeInv,
         EnterPrePrepare \/ StoreRequests \/ EnterPrepare \/ LookupPrepare \/ EnterCommit
  PROVE  NodeInv'
<1> USE DEF NodeInv
<1>1. CASE EnterPrePrepare
  <2>1. run.msg \in Messages /\ run.msg.seq \in Seqs
    BY <1>1 DEF EnterPrePrepare, NodeTypes, Messages
  <2>2. /\ inProgress' = inProgress \cup {run.msg.seq} /\ txns' = txns \cup {run.msg.seq}
        /\ starting' = starting \cup {run.msg} /\ run' = [at |-> "store", msg |-> run.msg]
        /\ UNCHANGED <<view, leader, lastSeq, pending, storing, proposed, ownCommits,
                       verifiedCommits>>
    BY <1>1 DEF EnterPrePrepare, RunAt
  <2>3. NodeTypes' /\ PendingStaysEmpty' /\ RoomKept'
    BY <2>1, <2>2 DEF NodeTypes, PendingStaysEmpty, RoomKept
  <2>4. OutstandingBound'
    <3>1. SUFFICES ASSUME isPrimary PROVE Cardinality(inProgress') <= MaxOutstanding
      BY <2>2 DEF OutstandingBound, isPrimary
    <3>2. inProgress = {}
      BY <1>1, <3>1 DEF EnterPrePrepare, RoomKept
    <3>3. Cardinality({} \cup {run.msg.seq}) <= 1
      BY <2>1, Grow, EmptyCount
    <3>4. Cardinality({} \cup {run.msg.seq}) \in Nat
      BY <2>1, SeqsFinite
    <3>5. Cardinality({} \cup {run.msg.seq}) <= MaxOutstanding
      BY <3>3, <3>4, NodeAssumption
    <3> QED
      BY <2>2, <3>2, <3>5
  <2> QED
    BY <2>3, <2>4
<1>2. CASE StoreRequests
  BY <1>2 DEF StoreRequests, Idle, NodeTypes, RoomKept, OutstandingBound,
     PendingStaysEmpty, isPrimary
<1>3. CASE EnterPrepare
  <2>1. run.msg \in Messages /\ run.msg.seq \in Seqs
    BY <1>3 DEF EnterPrepare, NodeTypes, Messages
  <2> QED
    BY <1>3, <2>1 DEF EnterPrepare, RunAt, NodeTypes, RoomKept, OutstandingBound,
       PendingStaysEmpty, isPrimary
<1>4. CASE LookupPrepare
  BY <1>4 DEF LookupPrepare, RunAt, Idle, NodeTypes, RoomKept, OutstandingBound,
     PendingStaysEmpty, isPrimary
<1>5. CASE EnterCommit
  <2>1. run.msg \in Messages /\ run.msg.seq \in Seqs
    BY <1>5 DEF EnterCommit, NodeTypes, Messages
  <2> QED
    BY <1>5, <2>1 DEF EnterCommit, Idle, NodeTypes, RoomKept, OutstandingBound,
       PendingStaysEmpty, isPrimary
<1> QED
  BY <1>1, <1>2, <1>3, <1>4, <1>5

\* The goroutines that handlers and callbacks leave behind.
LEMMA GoInv ==
  ASSUME NodeInv, GoStep
  PROVE  NodeInv'
<1> USE DEF NodeInv
<1>1. CASE \E n \in storing : AddToStore(n)
  BY <1>1, FrameInv DEF AddToStore, NodeTypes
<1>2. CASE \E m \in starting : AddPrePrepare(m)
  BY <1>2, FrameInv DEF AddPrePrepare, NodeTypes
<1>3. CASE \E m \in proposed : handlePreparedTxn(m)
  BY <1>3, FrameInv DEF handlePreparedTxn, NodeTypes
<1>4. CASE \E m \in proposed : handleCommittedTxn(m)
  BY <1>4, FrameInv DEF handleCommittedTxn, NodeTypes
<1>5. CASE \E m \in ownCommits : VerifyOwnCommit(m)
  BY <1>5, FrameInv DEF VerifyOwnCommit, NodeTypes
<1>6. CASE \E m \in verifiedCommits : EnterOwnCommit(m)
  BY <1>6, FrameInv DEF EnterOwnCommit, NodeTypes, Messages
<1>7. CASE StoreCommit
  BY <1>7, FrameInv DEF StoreCommit, nodeVars, NodeTypes
<1>8. CASE FinishCommittedTxn
  BY <1>8, RemoveInv DEF FinishCommittedTxn, PendingStaysEmpty
<1>9. CASE \E id \in own : handleOwnCheckpoint(id)
  BY <1>9, RemoveInv DEF handleOwnCheckpoint, CleanUp, After, PendingStaysEmpty
<1> QED
  BY <1>1, <1>2, <1>3, <1>4, <1>5, <1>6, <1>7, <1>8, <1>9 DEF GoStep

LEMMA PeerCheckpointNodeInv ==
  ASSUME NodeInv, NEW r \in Peers, NEW id \in PeerCheckpoints, handleCheckpointRequest(r, id)
  PROVE  NodeInv'
  BY RemoveInv DEF handleCheckpointRequest, CleanUp, After, NodeInv, 
     PendingStaysEmpty

\* A new view starts empty.
LEMMA NewViewInv ==
  ASSUME NodeInv, NEW v \in Views, NEW r \in Announcers[v],
         NEW low \in CheckpointSeqs \cup {0}, NEW high \in 0..MaxSeq,
         HandleNewViewRequest(v, r, low, high)
  PROVE  NodeInv'
<1> USE DEF NodeInv
<1>1. (low + 1)..high \subseteq Seqs /\ FirstNumber(low, high) \in 0..(MaxSeq + 1)
  BY BoundsAssumption DEF CheckpointSeqs, Seqs, FirstNumber
<1>2. /\ view' = v /\ inProgress' = {} /\ lastSeq' = FirstNumber(low, high)
      /\ txns' = (low + 1)..high
      /\ proposed' = proposed \cup [seq : (low + 1)..high, view : {v}]
      /\ UNCHANGED <<pending, run, starting, storing, ownCommits, verifiedCommits>>
  BY DEF HandleNewViewRequest, NewViewData, KeptProgress
<1>3. NodeTypes'
  BY <1>1, <1>2 DEF NodeTypes, Messages
<1>4. RoomKept' /\ OutstandingBound'
  BY <1>2, EmptyCount, NodeAssumption DEF RoomKept, OutstandingBound
<1>5. PendingStaysEmpty'
  BY <1>2 DEF PendingStaysEmpty
<1> QED
  BY <1>3, <1>4, <1>5

LEMMA ViewChangeInv ==
  ASSUME NodeInv, GoToViewChange
  PROVE  NodeInv'
  BY DEF GoToViewChange, NodeInv, NodeTypes, RoomKept, OutstandingBound,
     PendingStaysEmpty, isPrimary

\* A status response replaces the view data by empty ones.
LEMMA StatusInv ==
  ASSUME NodeInv,
         \/ \E s \in CheckpointSeqs, v \in Views : handleStatusResponse(s, v)
         \/ StatusUpdate \/ StatusReset
  PROVE  NodeInv'
<1> USE DEF NodeInv
<1>1. CASE \E s \in CheckpointSeqs, v \in Views : handleStatusResponse(s, v)
  BY <1>1 DEF handleStatusResponse, RunAt, NodeTypes, RoomKept, 
     OutstandingBound, PendingStaysEmpty, isPrimary
<1>2. CASE StatusUpdate
  BY <1>2, FrameInv DEF StatusUpdate, nodeVars, NodeTypes
<1>3. CASE StatusReset
  <2>1. /\ run.msg.seq \in CheckpointSeqs /\ run.msg.view \in Views
        /\ run.msg.seq + 1 \in 0..(MaxSeq + 1)
    BY <1>3, BoundsAssumption DEF StatusReset, NodeTypes, CheckpointSeqs, Seqs
  <2>2. /\ view' = run.msg.view /\ inProgress' = {} /\ lastSeq' = run.msg.seq + 1
        /\ txns' = {} /\ run' = Idle
        /\ UNCHANGED <<pending, starting, storing, proposed, ownCommits, verifiedCommits>>
    BY <1>3 DEF StatusReset, NewViewData, KeptProgress
  <2>3. NodeTypes' /\ PendingStaysEmpty'
    BY <2>1, <2>2 DEF NodeTypes, PendingStaysEmpty, Idle
  <2>4. RoomKept' /\ OutstandingBound'
    BY <2>2, EmptyCount, NodeAssumption DEF RoomKept, OutstandingBound, Idle
  <2> QED
    BY <2>3, <2>4
<1> QED
  BY <1>1, <1>2, <1>3

LEMMA NodeNextInv == NodeInv /\ [NodeNext]_allVars => NodeInv'
<1> SUFFICES ASSUME NodeInv, [NodeNext]_allVars PROVE NodeInv'
  OBVIOUS
<1>1. CASE UNCHANGED allVars
  BY <1>1 DEF allVars, nodeVars, NodeInv, NodeTypes, RoomKept, 
     OutstandingBound, PendingStaysEmpty, isPrimary
<1>2. CASE RunStep
  BY <1>2, ClientRequestInv, ReceiveInv, EnterInv, PeerCheckpointNodeInv DEF RunStep
<1>3. CASE GoStep
  BY <1>3, GoInv
<1>4. CASE ViewChangerStep
  BY <1>4, NewViewInv, ViewChangeInv DEF ViewChangerStep
<1> QED
  BY <1>1, <1>2, <1>3, <1>4 DEF NodeNext

\* What NodeInv does not say of the variables' types.
RunTypes ==
    /\ leader \in Replicas
    /\ inViewChange \in BOOLEAN
    /\ committing \in 0..MaxSeq
    /\ run \in [at : Places, msg : Args]

LEMMA RunTypesStep ==
  ASSUME NodeInv, RunTypes, [NodeRestartNext]_allVars
  PROVE  RunTypes'
<1> DEFINE Runs == [at : Places, msg : Args]
<1>1. Messages \subseteq Args /\ Idle \in Runs /\ run.msg \in Args
  <2>1. [seq |-> 0, view |-> 0] \in Args
    BY BoundsAssumption, NodeAssumption DEF Args, Views
  <2> QED
    BY <2>1, BoundsAssumption DEF Idle, Places, Args, Messages, Seqs, RunTypes
<1>2. ASSUME NEW place \in Places, NEW m \in Args, RunAt(place, m)
      PROVE  run' \in Runs
  BY <1>2 DEF RunAt
<1>3. ASSUME NEW n \in 0..(MaxSeq + 1)
      PROVE  Current(n) \in Args
  BY DEF NodeInv, NodeTypes, Current, Args
<1>4. CASE RunStep
  <2>1. UNCHANGED <<leader, inViewChange, committing>>
    BY <1>4 DEF RunStep, RunRequest, handleClientRequest, AssignNumber, Propose,
       handlePrePrepareRequest, handlePrepareRequest, handleCommitRequest, EnterPrePrepare,
       StoreRequests, EnterPrepare, LookupPrepare, EnterCommit, handleCheckpointRequest
  <2>2. CASE RunRequest \/ AssignNumber \/ (\E n \in Seqs :
               handlePrePrepareRequest(n) \/ handlePrepareRequest(n) \/ handleCommitRequest(n))
    <3>1. \A n \in Seqs : n \in 0..(MaxSeq + 1)
      BY BoundsAssumption DEF Seqs
    <3>2. lastSeq \in 0..(MaxSeq + 1) /\ (lastSeq < MaxSeq => lastSeq + 1 \in 0..(MaxSeq + 1))
      BY BoundsAssumption DEF NodeInv, NodeTypes
    <3>3. \E place \in Places, m \in Args : RunAt(place, m)
      BY <1>3, <2>2, <3>1, <3>2 DEF RunRequest, AssignNumber, handlePrePrepareRequest,
         handlePrepareRequest, handleCommitRequest, Places
    <3> QED
      BY <1>2, <2>1, <3>3 DEF RunTypes
  <2>3. CASE handleClientRequest \/ EnterPrePrepare \/ EnterPrepare \/ LookupPrepare
    <3>1. run' = Idle \/ \E place \in Places : RunAt(place, run.msg)
      BY <2>3 DEF handleClientRequest, EnterPrePrepare, EnterPrepare, LookupPrepare, Places
    <3> QED
      BY <1>1, <1>2, <2>1, <3>1 DEF RunTypes
  <2>4. CASE Propose \/ StoreRequests \/ EnterCommit
    BY <1>1, <2>1, <2>4 DEF Propose, StoreRequests, EnterCommit, RunTypes
  <2>5. CASE \E r \in Peers, id \in PeerCheckpoints : handleCheckpointRequest(r, id)
    BY <2>1, <2>5 DEF handleCheckpointRequest, RunTypes
  <2> QED
    BY <1>4, <2>2, <2>3, <2>4, <2>5 DEF RunStep
<1>5. CASE GoStep
  <2>1. UNCHANGED <<leader, inViewChange, run>>
    BY <1>5 DEF GoStep, AddToStore, AddPrePrepare, handlePreparedTxn, handleCommittedTxn,
       VerifyOwnCommit, EnterOwnCommit, StoreCommit, nodeVars, FinishCommittedTxn,
       handleOwnCheckpoint
  <2>2. committing' \in Seqs \cup {0, committing}
    BY <1>5 DEF GoStep, AddToStore, AddPrePrepare, handlePreparedTxn, handleCommittedTxn,
       VerifyOwnCommit, EnterOwnCommit, StoreCommit, nodeVars, FinishCommittedTxn,
       handleOwnCheckpoint, NodeInv, NodeTypes, Messages
  <2> QED
    BY <2>1, <2>2, BoundsAssumption DEF RunTypes, Seqs
<1>6. CASE ViewChangerStep
  BY <1>6, NodeAssumption DEF ViewChangerStep, GoToViewChange, HandleNewViewRequest,
     NewViewData, RunTypes
<1>7. CASE \E s \in CheckpointSeqs, v \in Views : handleStatusResponse(s, v)
  <2>1. PICK s \in CheckpointSeqs, v \in Views : handleStatusResponse(s, v)
    BY <1>7
  <2>2. [seq |-> s, view |-> v] \in Args
    BY BoundsAssumption DEF CheckpointSeqs, Seqs, Args
  <2> QED
    BY <1>2, <2>1, <2>2 DEF handleStatusResponse, RunTypes, Places
<1>8. CASE StatusUpdate
  BY <1>8 DEF StatusUpdate, nodeVars, RunTypes
<1>9. CASE StatusReset
  BY <1>1, <1>9, NodeAssumption DEF StatusReset, NewViewData, RunTypes, NodeInv, NodeTypes
<1>10. CASE UNCHANGED allVars
  BY <1>10 DEF allVars, nodeVars, RunTypes
<1> QED
  BY <1>4, <1>5, <1>6, <1>7, <1>8, <1>9, <1>10 DEF NodeRestartNext, NodeNext

LEMMA NodeInvAlways == NodeSpec => []NodeInv
  BY NodeInitInv, NodeNextInv, PTL DEF NodeSpec

LEMMA RestartInvAlways == NodeRestartSpec => []NodeInv
<1>1. NodeInv /\ [NodeRestartNext]_allVars => NodeInv'
  BY NodeNextInv, StatusInv DEF NodeRestartNext
<1> QED
  BY <1>1, NodeInitInv, PTL DEF NodeRestartSpec

-----------------------------------------------------------------------------
\* Through any views, any status responses and any interleaving of the node's
\* goroutines the primary stays within MaxOutstandingRequests.
THEOREM OutstandingBounded == NodeRestartSpec => []OutstandingBound
<1>1. NodeInv => OutstandingBound
  BY DEF NodeInv
<1> QED
  BY <1>1, RestartInvAlways, PTL

\* The pending queue stays unused.
THEOREM PendingEmpty == NodeRestartSpec => []PendingStaysEmpty
<1>1. NodeInv => PendingStaysEmpty
  BY DEF NodeInv
<1> QED
  BY <1>1, RestartInvAlways, PTL

\* A slot of a number that will not commit again: only a repeated pre-prepare puts the
\* number back, and only handleCommittedTxn, which then takes it out, makes the last call.
SlotInv ==
    /\ settled \subseteq Seqs
    /\ reentered \subseteq Seqs
    /\ SlotLostOnlyIfRepeated

\* Steps that neither start nor settle a number.
LEMMA SlotFrame ==
  ASSUME SlotInv, inProgress' \subseteq inProgress, UNCHANGED <<settled, reentered, committing>>
  PROVE  SlotInv'
  BY DEF SlotInv, SlotLostOnlyIfRepeated

\* Steps that make transaction states and leave InProgressRequests alone.
LEMMA SlotFresh ==
  ASSUME SlotInv, NEW ns, NewTransactionStates(ns),
         inProgress' \subseteq inProgress \cup ns, committing' = committing
  PROVE  SlotInv'
  BY DEF SlotInv, SlotLostOnlyIfRepeated, NewTransactionStates

LEMMA SlotStep ==
  ASSUME NodeInv, SlotInv, [NodeRestartNext]_allVars
  PROVE  SlotInv'
<1> USE DEF SlotInv
<1>1. CASE AssignNumber
  BY <1>1, SlotFresh DEF AssignNumber
<1>2. CASE EnterPrePrepare
  <2>1. run.msg.seq \in Seqs
    BY <1>2 DEF EnterPrePrepare, NodeInv, NodeTypes, Messages
  <2> QED
    BY <1>2, <2>1 DEF EnterPrePrepare, SlotLostOnlyIfRepeated
<1>3. CASE EnterPrepare \/ EnterCommit
  BY <1>3, SlotFresh DEF EnterPrepare, EnterCommit
<1>4. CASE \E m \in verifiedCommits : EnterOwnCommit(m)
  BY <1>4, SlotFresh DEF EnterOwnCommit
<1>5. CASE \E m \in proposed : handleCommittedTxn(m)
  <2>1. PICK m \in proposed : handleCommittedTxn(m)
    BY <1>5
  <2>2. m.seq \in Seqs
    BY DEF NodeInv, NodeTypes, Messages
  <2>3. \A n \in inProgress \cap settled : n \in reentered
    BY <2>1, BoundsAssumption DEF handleCommittedTxn, SlotLostOnlyIfRepeated, NodeInv, NodeTypes, Seqs
  <2>4. /\ inProgress' = inProgress /\ reentered' = reentered /\ committing' = m.seq
        /\ settled' \subseteq settled \cup {m.seq}
    BY <2>1 DEF handleCommittedTxn
  <2> QED
    BY <2>2, <2>3, <2>4 DEF SlotLostOnlyIfRepeated
<1>6. CASE FinishCommittedTxn
  BY <1>6 DEF FinishCommittedTxn, SlotLostOnlyIfRepeated
<1>7. CASE \E v \in Views \ {0}, low \in CheckpointSeqs \cup {0}, high \in 0..MaxSeq :
             \E r \in Announcers[v] : HandleNewViewRequest(v, r, low, high)
  BY <1>7 DEF HandleNewViewRequest, NewTransactionStates, NewViewData, KeptProgress,
     SlotLostOnlyIfRepeated
<1>8. CASE StatusReset
  BY <1>8 DEF StatusReset, NewViewData, KeptProgress, SlotLostOnlyIfRepeated
<1>9. CASE inProgress' \subseteq inProgress /\ UNCHANGED <<settled, reentered, committing>>
  BY <1>9, SlotFrame
<1>10. CASE RunStep
  BY <1>1, <1>2, <1>3, <1>9, <1>10 DEF RunStep, RunRequest, handleClientRequest, Propose,
     handlePrePrepareRequest, handlePrepareRequest, handleCommitRequest, StoreRequests,
     LookupPrepare, handleCheckpointRequest, CleanUp, After
<1>11. CASE GoStep
  BY <1>4, <1>5, <1>6, <1>9, <1>11 DEF GoStep, AddToStore, AddPrePrepare, handlePreparedTxn,
     VerifyOwnCommit, StoreCommit, nodeVars, handleOwnCheckpoint, CleanUp, After
<1>12. CASE ViewChangerStep
  BY <1>7, <1>9, <1>12 DEF ViewChangerStep, GoToViewChange
<1>13. CASE \E s \in CheckpointSeqs, v \in Views : handleStatusResponse(s, v)
  BY <1>9, <1>13 DEF handleStatusResponse
<1>14. CASE StatusUpdate \/ UNCHANGED allVars
  BY <1>9, <1>14 DEF StatusUpdate, allVars, nodeVars
<1> QED
  BY <1>8, <1>10, <1>11, <1>12, <1>13, <1>14 DEF NodeRestartNext, NodeNext

LEMMA SlotAlways == NodeRestartSpec => []SlotInv
<1>1. NodeInit => SlotInv
  BY DEF NodeInit, InitIn, SlotInv, SlotLostOnlyIfRepeated
<1> QED
  BY <1>1, SlotStep, RestartInvAlways, PTL DEF NodeRestartSpec

\* Through view changes and status responses, a number whose last commit callback has
\* run holds a slot of MaxOutstandingRequests only if a repeated pre-prepare put it back.
THEOREM SlotsGivenBack == NodeRestartSpec => []SlotLostOnlyIfRepeated
<1>1. SlotInv => SlotLostOnlyIfRepeated
  BY DEF SlotInv
<1> QED
  BY <1>1, SlotAlways, PTL

\* The types of the node's variables, for any constants.
THEOREM NodeTypesCorrect == NodeRestartSpec => []NodeTypeOK
<1>1. NodeInit => RunTypes
  <2>1. [seq |-> 0, view |-> 0] \in Args /\ 0 \in Views
    BY BoundsAssumption, NodeAssumption DEF Args, Views
  <2>2. Idle \in [at : Places, msg : Args]
    BY <2>1 DEF Idle, Places
  <2>3. GetLeader[0] \in Replicas /\ 0 \in 0..MaxSeq
    BY <2>1, BoundsAssumption, NodeAssumption
  <2>4. ASSUME NodeInit
        PROVE  leader = GetLeader[0] /\ inViewChange = FALSE /\ committing = 0 /\ run = Idle
    BY <2>4 DEF NodeInit, InitIn
  <2> QED
    BY <2>2, <2>3, <2>4 DEF RunTypes
<1>2. NodeInv /\ RunTypes /\ SlotInv => NodeTypeOK
  BY DEF NodeInv, NodeTypes, RunTypes, SlotInv, NodeTypeOK, PendingStaysEmpty
<1> QED
  BY <1>1, <1>2, RunTypesStep, RestartInvAlways, SlotAlways, PTL DEF NodeRestartSpec

\* Every step of the node is a step of its store or leaves the store alone.
LEMMA NodeStepDrives ==
  ASSUME NodeInv, [NodeNext]_allVars
  PROVE  [Next]_vars
<1> USE DEF NodeInv
<1>1. CASE \E n \in storing : AddToStore(n)
  <2>1. PICK n \in storing : AddToStore(n)
    BY <1>1
  <2>2. n \in Seqs /\ \E op \in Proposals[n] : AddRequests(n, op)
    BY <2>1 DEF AddToStore, NodeTypes
  <2> QED
    BY <2>2 DEF Next
<1>2. CASE StoreRequests
  <2>1. run.msg.seq \in Seqs
    BY <1>2 DEF StoreRequests, NodeTypes, Messages
  <2> QED
    BY <1>2, <2>1 DEF StoreRequests, Next
<1>3. CASE \E m \in proposed : handleCommittedTxn(m)
  BY <1>3 DEF handleCommittedTxn, NodeTypes, Messages, Next
<1>4. CASE StoreCommit
  BY <1>4 DEF StoreCommit, Next
<1>5. CASE \E id \in own : handleOwnCheckpoint(id)
  BY <1>5 DEF handleOwnCheckpoint, Next
<1>6. CASE \E r \in Peers, id \in PeerCheckpoints : handleCheckpointRequest(r, id)
  BY <1>6 DEF handleCheckpointRequest, Next
<1>7. CASE UNCHANGED vars
  BY <1>7
<1>8. CASE UNCHANGED allVars
  BY <1>8 DEF allVars
<1>9. CASE RunStep
  BY <1>2, <1>6, <1>7, <1>9 DEF RunStep, RunRequest, handleClientRequest, AssignNumber, Propose,
     handlePrePrepareRequest, handlePrepareRequest, handleCommitRequest, EnterPrePrepare,
     EnterPrepare, LookupPrepare, EnterCommit
<1>10. CASE GoStep
  BY <1>1, <1>3, <1>4, <1>5, <1>7, <1>10 DEF GoStep, AddPrePrepare, handlePreparedTxn,
     VerifyOwnCommit, EnterOwnCommit, FinishCommittedTxn
<1>11. CASE ViewChangerStep
  BY <1>7, <1>11 DEF ViewChangerStep, GoToViewChange, HandleNewViewRequest
<1> QED
  BY <1>8, <1>9, <1>10, <1>11 DEF NodeNext

\* So the store inside a node behaves as module Store specifies, and the theorems of
\* StoreProofs apply to it, view changes included.
LEMMA NodeDrivesStore == NodeSpec => Spec
<1>1. NodeInit => Init
  BY DEF NodeInit, InitIn
<1> QED
  BY <1>1, NodeStepDrives, NodeInvAlways, PTL DEF NodeSpec, Spec

-----------------------------------------------------------------------------
\* In one view, what a backup has taken in was below the high water mark, which
\* only rises.
Mark == stable.seq + 1 + WaterMark
WaterInv ==
    ~isPrimary =>
        /\ \A n \in txns \cup inProgress : n < Mark
        /\ run.at \in {"preprepare", "prepare", "commit"} => run.msg.seq < Mark
        /\ \A m \in verifiedCommits : m.seq < Mark
        /\ run.at # "assign"

LEMMA MarkRises ==
  ASSUME Inv, [Next]_vars
  PROVE  /\ stable.seq \in Nat /\ stable'.seq \in Nat /\ Mark \in Int /\ Mark' \in Int
         /\ Mark <= Mark'
<1>1. Inv' /\ stable'.seq >= stable.seq
  BY NextInv, ForwardStep
<1>2. stable.seq \in Nat /\ stable'.seq \in Nat
  BY <1>1, BoundsAssumption DEF Inv, TypeOK
<1> QED
  BY <1>1, <1>2, NodeAssumption DEF Mark

\* Without a view change the leader stays.
LEMMA LeaderKept ==
  ASSUME [StableViewNext]_allVars
  PROVE  leader' = leader
  BY DEF StableViewNext, RunStep, RunRequest, handleClientRequest, AssignNumber, Propose,
     handlePrePrepareRequest, handlePrepareRequest, handleCommitRequest, EnterPrePrepare,
     StoreRequests, EnterPrepare, LookupPrepare, EnterCommit, handleCheckpointRequest,
     GoStep, AddToStore, AddPrePrepare, handlePreparedTxn, handleCommittedTxn, VerifyOwnCommit,
     EnterOwnCommit, StoreCommit, nodeVars, FinishCommittedTxn, handleOwnCheckpoint, allVars

LEMMA WaterStep ==
  ASSUME Inv, NodeInv, WaterInv, [StableViewNext]_allVars, [Next]_vars
  PROVE  WaterInv'
<1>1. leader' = leader
  BY LeaderKept
<1> SUFFICES ASSUME ~isPrimary
             PROVE  WaterInv'
  BY <1>1 DEF WaterInv, isPrimary
<1>2. /\ Mark \in Int /\ Mark' \in Int /\ Mark <= Mark'
      /\ \A n \in Seqs : n \in Int /\ (n < Mark => n < Mark')
  BY MarkRises, BoundsAssumption DEF Seqs
<1>3. /\ \A n \in txns \cup inProgress : n \in Seqs /\ n < Mark
      /\ run.at \in {"preprepare", "prepare", "commit"} => run.msg.seq \in Seqs /\ run.msg.seq < Mark
      /\ \A m \in verifiedCommits : m.seq \in Seqs /\ m.seq < Mark
      /\ \A m \in ownCommits : m.seq \in Seqs
      /\ run.at # "assign"
  BY DEF WaterInv, NodeInv, NodeTypes, Messages
<1>4. \A n \in Seqs : Accepts(n) => n < Mark
  BY DEF Accepts, sequenceInWaterMark, Mark
<1>5. /\ \A n \in txns' \cup inProgress' :
           n \in txns \cup inProgress \/ n < Mark
      /\ \A m \in verifiedCommits' : m \in verifiedCommits \/ (m \in ownCommits /\ Accepts(m.seq))
      /\ \/ run' = run \/ run' = Idle
         \/ run'.at \in {"preprepare", "prepare", "commit"} /\ run'.msg.seq \in Seqs /\ Accepts(run'.msg.seq)
         \/ run'.at \in {"request", "propose", "store", "lookup", "panic"}
  <2>1. CASE UNCHANGED allVars
    BY <2>1 DEF allVars, nodeVars
  <2>2. CASE RunRequest \/ handleClientRequest
    BY <2>2 DEF RunRequest, handleClientRequest, RunAt
  <2>3. CASE AssignNumber
    BY <1>3, <2>3 DEF AssignNumber
  <2>4. CASE Propose \/ StoreRequests \/ LookupPrepare
    BY <2>4 DEF Propose, StoreRequests, LookupPrepare, RunAt
  <2>5. CASE EnterPrePrepare \/ EnterPrepare \/ EnterCommit
    BY <1>3, <2>5 DEF EnterPrePrepare, EnterPrepare, EnterCommit, RunAt
  <2>6. CASE \E n \in Seqs : \/ handlePrePrepareRequest(n) \/ handlePrepareRequest(n)
                             \/ handleCommitRequest(n)
    BY <2>6 DEF handlePrePrepareRequest, handlePrepareRequest, handleCommitRequest, RunAt, Current
  <2>7. CASE \E r \in Peers, id \in PeerCheckpoints : handleCheckpointRequest(r, id)
    BY <2>7 DEF handleCheckpointRequest, CleanUp, After
  <2>8. CASE GoStep
    BY <1>3, <2>8 DEF GoStep, AddToStore, AddPrePrepare, handlePreparedTxn, handleCommittedTxn,
       VerifyOwnCommit, EnterOwnCommit, StoreCommit, nodeVars, FinishCommittedTxn,
       handleOwnCheckpoint, CleanUp, After
  <2> QED
    BY <2>1, <2>2, <2>3, <2>4, <2>5, <2>6, <2>7, <2>8 DEF StableViewNext, RunStep
<1>6. \A n \in txns' \cup inProgress' : n < Mark'
  BY <1>2, <1>3, <1>5, NodeNextInv DEF StableViewNext, NodeNext, NodeInv, NodeTypes
<1>7. \A m \in verifiedCommits' : m.seq < Mark'
  BY <1>2, <1>3, <1>4, <1>5
<1>8. /\ run'.at \in {"preprepare", "prepare", "commit"} => run'.msg.seq < Mark'
      /\ run'.at # "assign"
  <2>1. Idle.at = "select"
    BY DEF Idle
  <2>2. CASE run' = run
    BY <1>2, <1>3, <2>2
  <2>3. CASE run' = Idle
    BY <2>1, <2>3
  <2>4. CASE /\ run'.at \in {"preprepare", "prepare", "commit"}
             /\ run'.msg.seq \in Seqs /\ Accepts(run'.msg.seq)
    BY <1>2, <1>4, <2>4
  <2>5. CASE run'.at \in {"request", "propose", "store", "lookup", "panic"}
    BY <2>5
  <2> QED
    BY <1>5, <2>2, <2>3, <2>4, <2>5
<1> QED
  BY <1>6, <1>7, <1>8 DEF WaterInv

\* In any one view a backup keeps no entry beyond its high water mark, for every
\* water mark, checkpoint interval and order of messages.
THEOREM BackupBelowHighWater == StableViewSpec => []BelowHighWater
<1>1. (\E v \in Views : InitIn(v)) => Inv /\ NodeInv /\ WaterInv
  <2> SUFFICES ASSUME NEW v \in Views, InitIn(v) PROVE Inv /\ NodeInv /\ WaterInv
    OBVIOUS
  <2>1. Inv /\ NodeInv
    BY InitInInv, InitInv DEF InitIn
  <2>2. txns = {} /\ inProgress = {} /\ verifiedCommits = {} /\ run.at = "select"
    BY DEF InitIn, Idle
  <2> QED
    BY <2>1, <2>2 DEF WaterInv
<1>2. Inv /\ NodeInv /\ WaterInv /\ [StableViewNext]_allVars => (Inv /\ NodeInv /\ WaterInv)'
  <2> SUFFICES ASSUME Inv, NodeInv, WaterInv, [StableViewNext]_allVars
               PROVE  (Inv /\ NodeInv /\ WaterInv)'
    OBVIOUS
  <2>1. [NodeNext]_allVars
    BY DEF StableViewNext, NodeNext
  <2> QED
    BY <2>1, NodeStepDrives, NextInv, NodeNextInv, WaterStep
<1>3. WaterInv => BelowHighWater
  BY DEF WaterInv, BelowHighWater, Mark
<1> QED
  BY <1>1, <1>2, <1>3, PTL DEF StableViewSpec
-----------------------------------------------------------------------------
(* The normal case: any one view, with nothing carried over.                 *)

LEMMA StableViewInit ==
  ASSUME NEW v \in Views, InitIn(v)
  PROVE  Inv /\ NodeInv
  BY InitInInv, InitInv DEF InitIn

LEMMA StableViewStep ==
  ASSUME Inv, NodeInv, [StableViewNext]_allVars
  PROVE  [Next]_vars /\ Inv' /\ NodeInv'
<1>1. [NodeNext]_allVars
  BY DEF StableViewNext, NodeNext
<1> QED
  BY <1>1, NodeStepDrives, NextInv, NodeNextInv

LEMMA StableViewAlways == StableViewSpec => [](Inv /\ NodeInv)
<1>1. (\E v \in Views : InitIn(v)) => Inv /\ NodeInv
  BY StableViewInit
<1>2. Inv /\ NodeInv /\ [StableViewNext]_allVars => (Inv /\ NodeInv)'
  BY StableViewStep
<1> QED
  BY <1>1, <1>2, PTL DEF StableViewSpec

\* AddRequests stores the requests of its number, and removes none.
LEMMA StoredByAdd ==
  ASSUME Inv, NEW k \in Seqs, NEW op \in Proposals[k], AddRequests(k, op), NEW n \in Seqs
  PROVE  /\ requests'[k] # Absent
         /\ requests[n] # Absent => requests'[n] # Absent
<1>1. requests' = [requests EXCEPT ![k] = op]
  BY DEF AddRequests
<1>2. DOMAIN requests = Seqs
  BY DEF Inv, TypeOK
<1>3. op # Absent
  BY OperationsAssumption
<1>4. requests'[k] = op /\ (n # k => requests'[n] = requests[n])
  BY <1>1, <1>2
<1> QED
  BY <1>3, <1>4

\* What is stored stays stored until a checkpoint covers it.
LEMMA StoreKeeps ==
  ASSUME Inv, [Next]_vars, NEW n \in Seqs, requests[n] # Absent \/ n <= stable.seq
  PROVE  requests'[n] # Absent \/ n <= stable'.seq
<1>1. n \in Int /\ stable.seq \in Int /\ stable'.seq \in Int /\ stable.seq <= stable'.seq
  BY ForwardStep, NextInv DEF Inv, TypeOK, Seqs
<1>2. CASE n <= stable.seq
  BY <1>1, <1>2
<1>3. CASE requests[n] # Absent
  <2>1. ASSUME NEW k \in Seqs, NEW op \in Proposals[k], AddRequests(k, op)
        PROVE  requests'[n] # Absent
    BY <1>3, <2>1, StoredByAdd
  <2>2. ASSUME NEW r, NEW id \in CheckpointIds, AddCheckpointRequest(r, id)
        PROVE  requests'[n] # Absent \/ n <= stable'.seq
    <3>1. requests' = requests \/ Stabilize(id, WithVote(VotesFor(id), r))
      BY <2>2 DEF AddCheckpointRequest, CountVote
    <3>2. id.seq \in Int
      BY DEF CheckpointIds, CheckpointSeqs, Seqs
    <3> QED
      BY <1>1, <1>3, <3>1, <3>2 DEF Stabilize, Above
  <2>3. CASE UNCHANGED requests
    BY <1>3, <2>3
  <2>4. ASSUME NEW id \in own PROVE id \in CheckpointIds
    BY DEF Inv, TypeOK
  <2> QED
    BY <2>1, <2>2, <2>3, <2>4, PeerCheckpointType DEF Next, CommitStart, CommitEnterLoop,
       CommitApply, CommitAdvance, CommitReturn, PeerCheckpoint, OwnCheckpoint, vars
<1> QED
  BY <1>2, <1>3

\* The request of a pre-prepare is in the store, or below the stable checkpoint, or
\* somebody is on the way to store it.
Coming(n) == n \in storing \/ (run.at = "store" /\ run.msg.seq = n)
StoredInv ==
    \A m \in proposed \cup starting : requests[m.seq] # Absent \/ m.seq <= stable.seq \/ Coming(m.seq)

\* Whoever was on the way still is, or has stored the request.
LEMMA ComingStep ==
  ASSUME Inv, NodeInv, [StableViewNext]_allVars, NEW n \in Seqs, Coming(n)
  PROVE  Coming(n)' \/ requests'[n] # Absent
<1>1. ASSUME NEW k \in Seqs, NEW op \in Proposals[k], AddRequests(k, op)
      PROVE  requests'[k] # Absent
  BY <1>1, StoredByAdd
<1>2. CASE \E k \in storing : AddToStore(k)
  <2>1. PICK k \in storing : AddToStore(k)
    BY <1>2
  <2>2. /\ k \in Seqs /\ \E op \in Proposals[k] : AddRequests(k, op)
        /\ storing' = storing \ {k} /\ run' = run
    BY <2>1 DEF AddToStore, NodeInv, NodeTypes
  <2> QED
    BY <1>1, <2>2 DEF Coming
<1>3. CASE StoreRequests
  <2>1. /\ run.at = "store" /\ storing' = storing
        /\ \E op \in Proposals[run.msg.seq] : AddRequests(run.msg.seq, op)
    BY <1>3 DEF StoreRequests
  <2>2. run.msg.seq \in Seqs
    BY <2>1 DEF NodeInv, NodeTypes, Messages
  <2> QED
    BY <1>1, <2>1, <2>2 DEF Coming
<1>4. CASE storing \subseteq storing' /\ (run.at # "store" \/ run' = run)
  BY <1>4 DEF Coming
<1>5. CASE RunStep
  <2>1. CASE RunRequest \/ handleClientRequest \/ AssignNumber \/ Propose \/ EnterPrePrepare
             \/ EnterPrepare \/ LookupPrepare \/ EnterCommit
    BY <1>4, <2>1 DEF RunRequest, handleClientRequest, AssignNumber, Propose, EnterPrePrepare,
       EnterPrepare, LookupPrepare, EnterCommit
  <2>2. CASE \E k \in Seqs : \/ handlePrePrepareRequest(k) \/ handlePrepareRequest(k)
                             \/ handleCommitRequest(k)
    BY <1>4, <2>2 DEF handlePrePrepareRequest, handlePrepareRequest, handleCommitRequest
  <2>3. CASE \E r \in Peers, id \in PeerCheckpoints : handleCheckpointRequest(r, id)
    BY <1>4, <2>3 DEF handleCheckpointRequest
  <2> QED
    BY <1>3, <1>5, <2>1, <2>2, <2>3 DEF RunStep
<1>6. CASE GoStep
  BY <1>2, <1>4, <1>6 DEF GoStep, AddPrePrepare, handlePreparedTxn, handleCommittedTxn,
     VerifyOwnCommit, EnterOwnCommit, StoreCommit, nodeVars, FinishCommittedTxn, handleOwnCheckpoint
<1>7. CASE UNCHANGED allVars
  BY <1>4, <1>7 DEF allVars, nodeVars
<1> QED
  BY <1>5, <1>6, <1>7 DEF StableViewNext

\* A pre-prepare that is new to the transaction states comes with its request.
LEMMA NewPrePrepare ==
  ASSUME NodeInv, [StableViewNext]_allVars, NEW m \in proposed' \cup starting'
  PROVE  m \in proposed \cup starting \/ Coming(m.seq)'
<1>1. CASE Propose
  BY <1>1 DEF Propose, Coming
<1>2. CASE EnterPrePrepare
  BY <1>2 DEF EnterPrePrepare, RunAt, Coming
<1>3. CASE \E k \in starting : AddPrePrepare(k)
  BY <1>3 DEF AddPrePrepare
<1>4. CASE UNCHANGED <<proposed, starting>>
  BY <1>4
<1> QED
  BY <1>1, <1>2, <1>3, <1>4 DEF StableViewNext, RunStep, GoStep, RunRequest, handleClientRequest,
     AssignNumber, handlePrePrepareRequest, handlePrepareRequest, handleCommitRequest,
     StoreRequests, EnterPrepare, LookupPrepare, EnterCommit, handleCheckpointRequest,
     AddToStore, handlePreparedTxn, handleCommittedTxn, VerifyOwnCommit, EnterOwnCommit,
     StoreCommit, nodeVars, FinishCommittedTxn, handleOwnCheckpoint, allVars

LEMMA StoredStep ==
  ASSUME Inv, NodeInv, StoredInv, [StableViewNext]_allVars
  PROVE  StoredInv'
<1> SUFFICES ASSUME NEW m \in proposed' \cup starting'
             PROVE  requests'[m.seq] # Absent \/ m.seq <= stable'.seq \/ Coming(m.seq)'
  BY DEF StoredInv
<1>1. [Next]_vars /\ NodeInv'
  BY StableViewStep
<1>2. m.seq \in Seqs
  BY <1>1 DEF NodeInv, NodeTypes, Messages
<1>3. CASE m \in proposed \cup starting
  BY <1>1, <1>2, <1>3, ComingStep, StoreKeeps DEF StoredInv
<1> QED
  BY <1>3, NewPrePrepare

\* A nil entry is recorded by handleCommittedTxn, for a number without a request.
LEMMA NilStep ==
  ASSUME Inv, NodeInv, [StableViewNext]_allVars, NEW n \in Seqs,
         committedRequests'[n] = Nil, committedRequests[n] # Nil
  PROVE  requests[n] = Absent /\ \E m \in proposed : m.seq = n
<1>1. CASE \E m \in proposed : handleCommittedTxn(m)
  <2>1. PICK m \in proposed : handleCommittedTxn(m)
    BY <1>1
  <2>2. /\ m.seq \in Seqs
        /\ committedRequests' = [committedRequests EXCEPT ![m.seq] =
                                   IF requests[m.seq] = Absent THEN Nil ELSE requests[m.seq]]
    BY <2>1 DEF handleCommittedTxn, CommitStart, NodeInv, NodeTypes, Messages
  <2>3. m.seq = n
    BY <2>2 DEF Inv, TypeOK
  <2>4. requests[n] = Absent \/ requests[n] = Nil
    BY <2>2, <2>3 DEF Inv, TypeOK
  <2> QED
    BY <2>3, <2>4, OperationsAssumption DEF Inv, TypeOK
<1>2. ASSUME NEW r, NEW id, AddCheckpointRequest(r, id) PROVE FALSE
  <2>1. committedRequests' = committedRequests \/ committedRequests' = Above(committedRequests, id.seq)
    BY <1>2 DEF AddCheckpointRequest, CountVote, Stabilize
  <2> QED
    BY <2>1, OperationsAssumption DEF Above
<1>3. ASSUME UNCHANGED committedRequests PROVE FALSE
  BY <1>3
<1>4. CASE UNCHANGED allVars
  BY <1>3, <1>4 DEF allVars, vars
<1>5. CASE RunStep
  BY <1>2, <1>3, <1>5 DEF RunStep, RunRequest, handleClientRequest, AssignNumber, Propose,
     handlePrePrepareRequest, handlePrepareRequest, handleCommitRequest, EnterPrePrepare,
     StoreRequests, AddRequests, EnterPrepare, LookupPrepare, EnterCommit, handleCheckpointRequest,
     PeerCheckpoint, vars
<1>6. CASE GoStep
  BY <1>1, <1>2, <1>3, <1>6 DEF GoStep, AddToStore, AddRequests, AddPrePrepare, handlePreparedTxn,
     VerifyOwnCommit, EnterOwnCommit, StoreCommit, CommitEnterLoop, CommitApply, CommitAdvance,
     CommitReturn, FinishCommittedTxn, handleOwnCheckpoint, OwnCheckpoint, vars
<1> QED
  BY <1>4, <1>5, <1>6 DEF StableViewNext

\* In the normal case a commit records a nil entry only while somebody is about to
\* store the request (AddToStore at the primary, Store.AddRequests at a backup), or
\* below the stable checkpoint.
THEOREM NilOnlyInWindowThm == StableViewSpec => NilOnlyInWindow
<1>1. (\E v \in Views : InitIn(v)) => StoredInv
  BY DEF InitIn, StoredInv
<1>2. Inv /\ NodeInv /\ StoredInv /\ [StableViewNext]_allVars => StoredInv'
  BY StoredStep
<1>3. Inv /\ NodeInv /\ StoredInv /\ [StableViewNext]_allVars =>
        [\A n \in Seqs : committedRequests'[n] = Nil /\ committedRequests[n] # Nil =>
            \/ n <= stable.seq
            \/ n \in storing
            \/ run.at = "store" /\ run.msg.seq = n]_allVars
  BY NilStep DEF StoredInv, Coming
<1> QED
  BY <1>1, <1>2, <1>3, StableViewAlways, PTL DEF StableViewSpec, NilOnlyInWindow

-----------------------------------------------------------------------------
(* Fresh numbers: in its own view a primary takes in no pre-prepare but its  *)
(* own, and those are numbered up to LastSequenceNumber.                     *)

FreshInv ==
    /\ isPrimary =>
         /\ run.at # "preprepare"
         /\ starting = {}
         /\ \A m \in proposed : m.seq <= lastSeq
         /\ run.at = "propose" => run.msg.seq <= lastSeq
    /\ ~isPrimary => run.at # "assign"

LEMMA FreshStep ==
  ASSUME NodeInv, FreshInv, [StableViewNext]_allVars
  PROVE  FreshInv'
<1>1. leader' = leader /\ lastSeq \in Int
  BY LeaderKept DEF NodeInv, NodeTypes
<1>2. \A m \in proposed : m.seq \in Int
  BY DEF NodeInv, NodeTypes, Messages, Seqs
<1>3. run.at = "propose" => run.msg.seq \in Int
  BY DEF NodeInv, NodeTypes, Messages, Seqs
<1> USE DEF FreshInv, isPrimary
<1>4. CASE RunRequest \/ handleClientRequest
  BY <1>1, <1>4 DEF RunRequest, handleClientRequest, RunAt, Idle
<1>5. CASE AssignNumber
  BY <1>1, <1>2, <1>5 DEF AssignNumber, RunAt, Current
<1>6. CASE Propose
  BY <1>1, <1>6 DEF Propose, Idle
<1>7. CASE \E n \in Seqs : \/ handlePrePrepareRequest(n) \/ handlePrepareRequest(n)
                           \/ handleCommitRequest(n)
  BY <1>1, <1>7 DEF handlePrePrepareRequest, handlePrepareRequest, handleCommitRequest, RunAt
<1>8. CASE EnterPrePrepare \/ StoreRequests \/ EnterPrepare \/ LookupPrepare \/ EnterCommit
  BY <1>1, <1>8 DEF EnterPrePrepare, StoreRequests, EnterPrepare, LookupPrepare, EnterCommit,
     RunAt, Idle
<1>9. CASE \E r \in Peers, id \in PeerCheckpoints : handleCheckpointRequest(r, id)
  BY <1>1, <1>9 DEF handleCheckpointRequest
<1>10. CASE \E m \in starting : AddPrePrepare(m)
  BY <1>1, <1>10 DEF AddPrePrepare
<1>11. CASE UNCHANGED <<lastSeq, run, starting, proposed>>
  BY <1>1, <1>11
<1> QED
  BY <1>4, <1>5, <1>6, <1>7, <1>8, <1>9, <1>10, <1>11 DEF StableViewNext, RunStep, GoStep,
     AddToStore, handlePreparedTxn, handleCommittedTxn, VerifyOwnCommit, EnterOwnCommit,
     StoreCommit, nodeVars, FinishCommittedTxn, handleOwnCheckpoint, allVars

\* Only AssignNumber raises LastSequenceNumber.
LEMMA NumberAssigned ==
  ASSUME NodeInv, FreshInv, [StableViewNext]_allVars, lastSeq' = lastSeq + 1
  PROVE  run'.msg \notin proposed
<1>1. lastSeq \in Int
  BY DEF NodeInv, NodeTypes
<1>2. lastSeq' # lastSeq
  BY <1>1
<1>3. AssignNumber
  BY <1>2 DEF StableViewNext, RunStep, RunRequest, handleClientRequest, Propose,
     handlePrePrepareRequest, handlePrepareRequest, handleCommitRequest, EnterPrePrepare,
     StoreRequests, EnterPrepare, LookupPrepare, EnterCommit, handleCheckpointRequest,
     GoStep, AddToStore, AddPrePrepare, handlePreparedTxn, handleCommittedTxn, VerifyOwnCommit,
     EnterOwnCommit, StoreCommit, nodeVars, FinishCommittedTxn, handleOwnCheckpoint, allVars
<1>4. isPrimary /\ run'.msg.seq = lastSeq + 1
  BY <1>3 DEF AssignNumber, RunAt, Current, FreshInv
<1>5. \A m \in proposed : m.seq \in Int /\ m.seq <= lastSeq
  BY <1>4 DEF FreshInv, NodeInv, NodeTypes, Messages, Seqs
<1> QED
  BY <1>1, <1>4, <1>5

\* In the normal case the primary gives no number to two requests, however its
\* handlers interleave with the agreement and with checkpoints.
THEOREM FreshNumbersThm == StableViewSpec => FreshNumbers
<1>1. (\E v \in Views : InitIn(v)) => FreshInv
  BY DEF InitIn, FreshInv, Idle
<1>2. NodeInv /\ FreshInv /\ [StableViewNext]_allVars => FreshInv'
  BY FreshStep
<1>3. NodeInv /\ FreshInv /\ [StableViewNext]_allVars =>
        [lastSeq' = lastSeq + 1 /\ run'.at = "propose" => run'.msg \notin proposed]_allVars
  BY NumberAssigned
<1> QED
  BY <1>1, <1>2, <1>3, StableViewAlways, PTL DEF StableViewSpec, FreshNumbers

-----------------------------------------------------------------------------
(* The entry that handlePrepareRequest has just made.                        *)

\* Below a quorum that makes the node delete entries the checkpoint is stable.
LEMMA CompletedIsStable ==
  ASSUME Inv, NEW r, NEW id \in CheckpointIds, AddCheckpointRequest(r, id), Completes(r, id)
  PROVE  id.seq <= stable'.seq
<1>1. id.seq \in Int /\ stable.seq \in Int
  BY DEF Inv, TypeOK, CheckpointIds, CheckpointSeqs, Seqs
<1>2. CASE stable.seq < id.seq
  BY <1>1, <1>2 DEF AddCheckpointRequest, Completes, Stabilize
<1>3. CASE id.seq = stable.seq
  BY <1>1, <1>3 DEF AddCheckpointRequest, CountVote
<1> QED
  BY <1>1, <1>2, <1>3 DEF Completes

LEMMA MissingStep ==
  ASSUME Inv, NodeInv, MissingOnlyIfStable, [StableViewNext]_allVars
  PROVE  MissingOnlyIfStable'
<1>1. /\ stable.seq \in Int /\ stable'.seq \in Int /\ stable.seq <= stable'.seq
  BY StableViewStep, ForwardStep DEF Inv, TypeOK
<1>2. run.at = "lookup" => run.msg.seq \in Seqs
  BY DEF NodeInv, NodeTypes, Messages
<1> USE DEF MissingOnlyIfStable
<1>3. CASE EnterPrepare
  BY <1>3 DEF EnterPrepare, RunAt
<1>4. CASE LookupPrepare
  BY <1>4 DEF LookupPrepare, RunAt, Idle, vars
<1>5. CASE run'.at \notin {"lookup", "panic"}
  BY <1>5
<1>6. CASE \E id \in own : handleOwnCheckpoint(id) /\ run.at # "panic"
  <2>1. PICK id \in own : handleOwnCheckpoint(id) /\ run.at # "panic"
    BY <1>6
  <2>2. id \in CheckpointIds /\ id.seq \in Int
    BY DEF Inv, TypeOK, CheckpointIds, CheckpointSeqs, Seqs
  <2>3. AddCheckpointRequest(Self, id) /\ CleanUp(Self, id) /\ run' = run
    BY <2>1 DEF handleOwnCheckpoint, OwnCheckpoint
  <2>4. CASE Completes(Self, id)
    <3>1. id.seq <= stable'.seq /\ txns' = After(txns, id.seq)
      BY <2>2, <2>3, <2>4, CompletedIsStable DEF CleanUp
    <3> QED
      BY <1>1, <1>2, <2>1, <2>2, <2>3, <3>1 DEF After, Seqs
  <2>5. CASE ~Completes(Self, id)
    BY <1>1, <1>2, <2>1, <2>3, <2>5 DEF CleanUp, Seqs
  <2> QED
    BY <2>4, <2>5
<1>7. CASE txns \subseteq txns' /\ run' = run /\ run.at # "panic"
  BY <1>1, <1>2, <1>7 DEF Seqs
<1>8. CASE UNCHANGED allVars
  BY <1>8 DEF allVars, nodeVars, vars
<1>9. CASE RunStep /\ run.at # "panic"
  BY <1>3, <1>4, <1>5, <1>7, <1>9 DEF RunStep, RunRequest, handleClientRequest, AssignNumber, Propose,
     handlePrePrepareRequest, handlePrepareRequest, handleCommitRequest, EnterPrePrepare,
     StoreRequests, EnterCommit, handleCheckpointRequest, RunAt, Idle
<1>10. CASE GoStep /\ run.at # "panic"
  BY <1>6, <1>7, <1>10 DEF GoStep, AddToStore, AddPrePrepare, handlePreparedTxn, handleCommittedTxn,
     VerifyOwnCommit, EnterOwnCommit, StoreCommit, nodeVars, FinishCommittedTxn
<1> QED
  BY <1>8, <1>9, <1>10 DEF StableViewNext

\* Within one view the second look-up of handlePrepareRequest misses the entry, and
\* the process panics, only after a checkpoint at or above its number became stable.
THEOREM MissingOnlyIfStableThm == StableViewSpec => []MissingOnlyIfStable
<1>1. (\E v \in Views : InitIn(v)) => MissingOnlyIfStable
  BY DEF InitIn, MissingOnlyIfStable, Idle
<1>2. Inv /\ NodeInv /\ MissingOnlyIfStable /\ [StableViewNext]_allVars => MissingOnlyIfStable'
  BY MissingStep
<1> QED
  BY <1>1, <1>2, StableViewAlways, PTL DEF StableViewSpec

-----------------------------------------------------------------------------
(* What the theorems of StoreProofs say of the store inside a node.          *)

\* However views change and goroutines interleave, the store of a node executes the
\* requests like a log: in order, each number once, none skipped but by a stable
\* checkpoint, and nothing that is stable ever goes back.
THEOREM NodeImplementsLog ==
  NodeSpec => []ExecutedOnce /\ []NoneSkipped /\ NeverBack /\ ImplementsLog
  BY NodeDrivesStore, ExecutionInOrder, SkippedOnlyWhenStable, NeverBackThm, StoreImplementsLog

\* Its stable checkpoints have F + 1 replicas behind them, if a call arrives at most twice.
THEOREM NodeCheckpointsBacked ==
  ASSUME AtMostTwice
  PROVE  NodeSpec => []StableBackedByCorrect
  BY StableBacked, NodeDrivesStore
=============================================================================
