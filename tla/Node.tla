-------------------------------- MODULE Node --------------------------------
(***************************************************************************)
(* The Node of one replica, pbft/node.go, on top of its Store.  Four kinds *)
(* of goroutine work on it: the loop of Run, which handles one input at a  *)
(* time; the `go` statements its handlers leave behind; the callbacks of   *)
(* the transaction states; and the view changer.  n.mu is only held around *)
(* the map accesses marked MUTEX, by HandleNewViewRequest, by the          *)
(* checkpoint handler and by handleCommittedTxn; what a handler checks     *)
(* before it, it checks unprotected.  So a handler is cut where it takes   *)
(* or releases n.mu or starts a goroutine, and `run` says where the loop   *)
(* is and with which message.                                              *)
(*                                                                         *)
(* The rest of the cluster is the environment: any message of the current  *)
(* view may arrive at any time (messages of other views are dropped by the *)
(* verify functions without a trace).  The votes inside a transaction      *)
(* state are module TransactionState's.  Here it may call back as soon as  *)
(* its pre-prepare is there; it commits again only while one more commit   *)
(* can make the count equal 2F + 1 (a repeated one does), so some call is  *)
(* the last, and which one is left open (settled).                         *)
(***************************************************************************)
EXTENDS Store

CONSTANTS
    MaxOutstanding,     \* General.MaxOutstandingRequests
    WaterMark,          \* General.WaterMarkInterval
    MaxView,            \* bound: views are 0..MaxView
    MaxGoroutines,      \* bound: handler goroutines started and not yet done
    Followed,           \* bound: numbers of which the last commit is told apart
    GetLeader,          \* LeaderElection.GetLeader, a function of the view
    Announcers          \* Announcers[v]: who sends a NewView for view v

VARIABLES
    view, leader, inViewChange, \* ViewData: CurrentView, LeaderId, IsInViewChange
    inProgress,         \* ViewData.InProgressRequests
    lastSeq,            \* ViewData.LastSequenceNumber
    txns,               \* the keys of ViewData.TransactionStates
    pending,            \* len(PendingRequests)
    committing,         \* the number for which handleCommittedTxn holds n.mu, or 0
    run,                \* the Run goroutine: where it is, with which message
    starting,           \* `go AddPrePrepare` goroutines not yet run
    storing,            \* AddToStore goroutines not yet run
    proposed,           \* pre-prepares that reached a transaction state
    ownCommits,         \* `go handleCommitRequest` with the own commit: not yet
    verifiedCommits,    \* verified, and verified but not yet entered
    settled,            \* numbers that no transaction state made so far commits again
    reentered           \* history: settled numbers a repeated pre-prepare has put
                        \* back into InProgressRequests

nodeVars == <<view, leader, inViewChange, inProgress, lastSeq, txns, pending,
              committing, run, starting, storing, proposed, ownCommits,
              verifiedCommits, settled, reentered>>
allVars == <<vars, nodeVars>>

Views == 0..MaxView
Messages == [seq : Seqs, view : Views]

ASSUME NodeAssumption ==
    /\ MaxOutstanding \in Nat \ {0}
    /\ WaterMark \in Nat
    /\ MaxView \in Nat
    /\ MaxGoroutines \in Nat
    /\ Followed \subseteq Seqs
    /\ GetLeader \in [Views -> Replicas]
    /\ Announcers \in [Views -> SUBSET Replicas]

-----------------------------------------------------------------------------
(* An operator MUT_X is X with a plausible slip in it.                       *)

isPrimary == leader = Self

\* sequenceInWaterMark
MUT_sequenceInWaterMark(n) == n >= stable.seq + 1
sequenceInWaterMark(n) == stable.seq + 1 <= n /\ n < stable.seq + 1 + WaterMark

\* The checks before a pre-prepare, prepare or commit is taken in; the view of
\* the message is the current one at this point.
Accepts(n) == ~inViewChange /\ sequenceInWaterMark(n)

\* The check of Run before a client request is handled at all.
MUT_HasRoom == TRUE
HasRoom == Cardinality(inProgress) < MaxOutstanding

\* What a stable checkpoint at s leaves in InProgressRequests and TransactionStates.
After(set, s) == {n \in set : n > s}

\* NewViewData
MUT_KeptProgress == inProgress
KeptProgress == {}
NewViewData(v, first, id) ==
    /\ view' = v
    /\ leader' = id
    /\ inViewChange' = FALSE
    /\ inProgress' = KeptProgress
    /\ lastSeq' = first

\* LastSequenceNumber in a new view: the lowest number carried over, else the
\* lowest stable one.  MaxSeq + 2 stands for math.MaxInt64.
MUT_FirstNumber(low, high) == IF low < high THEN low + 1 ELSE MaxSeq + 2
FirstNumber(low, high) == IF low < high THEN low + 1 ELSE low

Places == {"select", "request", "assign", "propose", "preprepare", "store",
           "prepare", "lookup", "commit", "status", "panic"}
Args == [seq : 0..(MaxSeq + 1), view : Views]
Idle == [at |-> "select", msg |-> [seq |-> 0, view |-> 0]]
Current(n) == [seq |-> n, view |-> view]
RunAt(place, m) == run' = [at |-> place, msg |-> m]

\* NewTransactionState for the numbers in ns: these may commit (again).
NewTransactionStates(ns) == settled' = settled \ ns /\ reentered' = reentered \ ns

MayStart == Cardinality(starting) + Cardinality(storing) + Cardinality(ownCommits)
                + Cardinality(verifiedCommits) < MaxGoroutines

InitIn(v) ==
    /\ Init
    /\ view = v /\ leader = GetLeader[v] /\ inViewChange = FALSE
    /\ inProgress = {} /\ lastSeq = 0 /\ txns = {}
    /\ pending = 0
    /\ committing = 0
    /\ run = Idle
    /\ starting = {} /\ storing = {} /\ proposed = {}
    /\ ownCommits = {} /\ verifiedCommits = {}
    /\ settled = {} /\ reentered = {}
NodeInit == InitIn(0)

-----------------------------------------------------------------------------
(* Run: a client request.  handleClientRequest re-reads the length that Run  *)
(* compared, assigns a number under n.mu, then hands the pre-prepare to the  *)
(* transaction state and leaves AddToStore to a goroutine.                   *)

RunRequest ==
    /\ run.at = "select"
    /\ HasRoom
    /\ RunAt("request", Current(lastSeq))
    /\ UNCHANGED <<vars, view, leader, inViewChange, inProgress, lastSeq, txns, pending, committing,
                   starting, storing, proposed, ownCommits, verifiedCommits, settled, reentered>>

handleClientRequest ==
    /\ run.at = "request"
    /\ LET full == Cardinality(inProgress) >= MaxOutstanding
           mine == isPrimary /\ ~inViewChange
       IN  /\ pending' = IF mine /\ full THEN pending + 1 ELSE pending
           /\ IF mine /\ ~full /\ lastSeq < MaxSeq THEN RunAt("assign", run.msg) ELSE run' = Idle
    /\ UNCHANGED <<vars, view, leader, inViewChange, inProgress, lastSeq, txns, committing,
                   starting, storing, proposed, ownCommits, verifiedCommits, settled, reentered>>

AssignNumber ==
    /\ run.at = "assign"
    /\ committing = 0
    /\ lastSeq < MaxSeq
    /\ lastSeq' = lastSeq + 1
    /\ inProgress' = inProgress \cup {lastSeq + 1}
    /\ txns' = txns \cup {lastSeq + 1}
    /\ NewTransactionStates({lastSeq + 1})
    /\ RunAt("propose", Current(lastSeq + 1))
    /\ UNCHANGED <<vars, view, leader, inViewChange, pending, committing,
                   starting, storing, proposed, ownCommits, verifiedCommits>>

MUT_Propose ==
    /\ run.at = "propose"
    /\ proposed' = proposed \cup {run.msg}
    /\ run' = Idle
    /\ UNCHANGED <<vars, view, leader, inViewChange, inProgress, lastSeq, txns, pending, committing,
                   starting, storing, ownCommits, verifiedCommits, settled, reentered>>

Propose ==
    /\ run.at = "propose"
    /\ MayStart
    /\ proposed' = proposed \cup {run.msg}
    /\ storing' = storing \cup {run.msg.seq}
    /\ run' = Idle
    /\ UNCHANGED <<vars, view, leader, inViewChange, inProgress, lastSeq, txns, pending, committing,
                   starting, ownCommits, verifiedCommits, settled, reentered>>

\* The goroutine carries the requests of the pre-prepare it was started with,
\* or of another one for the number (the next number need not be fresh): which is left open.
AddToStore(n) ==
    /\ \E op \in Proposals[n] : AddRequests(n, op)
    /\ storing' = storing \ {n}
    /\ UNCHANGED <<view, leader, inViewChange, inProgress, lastSeq, txns, pending, committing, run,
                   starting, proposed, ownCommits, verifiedCommits, settled, reentered>>

-----------------------------------------------------------------------------
(* Run: a pre-prepare.  The goroutine with AddPrePrepare is started before   *)
(* the requests are put into the store.                                      *)

MUT_handlePrePrepareRequest(n) ==
    /\ run.at = "select"
    /\ Accepts(n)
    /\ RunAt("preprepare", Current(n))
    /\ UNCHANGED <<vars, view, leader, inViewChange, inProgress, lastSeq, txns, pending, committing,
                   starting, storing, proposed, ownCommits, verifiedCommits, settled, reentered>>
handlePrePrepareRequest(n) ==
    /\ run.at = "select"
    /\ ~isPrimary
    /\ Accepts(n)
    /\ RunAt("preprepare", Current(n))
    /\ UNCHANGED <<vars, view, leader, inViewChange, inProgress, lastSeq, txns, pending, committing,
                   starting, storing, proposed, ownCommits, verifiedCommits, settled, reentered>>

EnterPrePrepare ==
    /\ run.at = "preprepare"
    /\ committing = 0
    /\ MayStart
    /\ inProgress' = inProgress \cup {run.msg.seq}
    /\ txns' = txns \cup {run.msg.seq}
    /\ settled' = settled \ ({run.msg.seq} \ txns)
    /\ reentered' = IF run.msg.seq \in settled \cap txns
                      THEN reentered \cup {run.msg.seq} ELSE reentered \ ({run.msg.seq} \ txns)
    /\ starting' = starting \cup {run.msg}
    /\ RunAt("store", run.msg)
    /\ UNCHANGED <<vars, view, leader, inViewChange, lastSeq, pending, committing,
                   storing, proposed, ownCommits, verifiedCommits>>

MUT_StoreRequests ==
    /\ run.at = "store"
    /\ run' = Idle
    /\ UNCHANGED <<vars, view, leader, inViewChange, inProgress, lastSeq, txns, pending, committing,
                   starting, storing, proposed, ownCommits, verifiedCommits, settled, reentered>>
StoreRequests ==
    /\ run.at = "store"
    /\ \E op \in Proposals[run.msg.seq] : AddRequests(run.msg.seq, op)
    /\ run' = Idle
    /\ UNCHANGED <<view, leader, inViewChange, inProgress, lastSeq, txns, pending, committing,
                   starting, storing, proposed, ownCommits, verifiedCommits, settled, reentered>>

\* The goroutine works on the transaction state it was started with, whatever
\* became of the map.
AddPrePrepare(m) ==
    /\ starting' = starting \ {m}
    /\ proposed' = proposed \cup {m}
    /\ UNCHANGED <<vars, view, leader, inViewChange, inProgress, lastSeq, txns, pending, committing,
                   run, storing, ownCommits, verifiedCommits, settled, reentered>>

-----------------------------------------------------------------------------
(* Run: a prepare.  The entry is looked up a second time after n.mu was      *)
(* released; calling AddPrepare on a missing one is a nil dereference, and   *)
(* the process is gone.                                                      *)

handlePrepareRequest(n) ==
    /\ run.at = "select"
    /\ Accepts(n)
    /\ RunAt("prepare", Current(n))
    /\ UNCHANGED <<vars, view, leader, inViewChange, inProgress, lastSeq, txns, pending, committing,
                   starting, storing, proposed, ownCommits, verifiedCommits, settled, reentered>>

MUT_EnterPrepare ==
    /\ run.at = "prepare"
    /\ committing = 0
    /\ RunAt("lookup", run.msg)
    /\ UNCHANGED <<vars, view, leader, inViewChange, inProgress, lastSeq, txns, pending, committing,
                   starting, storing, proposed, ownCommits, verifiedCommits, settled, reentered>>
EnterPrepare ==
    /\ run.at = "prepare"
    /\ committing = 0
    /\ txns' = txns \cup {run.msg.seq}
    /\ NewTransactionStates({run.msg.seq} \ txns)
    /\ RunAt("lookup", run.msg)
    /\ UNCHANGED <<vars, view, leader, inViewChange, inProgress, lastSeq, pending, committing,
                   starting, storing, proposed, ownCommits, verifiedCommits>>

LookupPrepare ==
    /\ run.at = "lookup"
    /\ IF run.msg.seq \in txns THEN run' = Idle ELSE RunAt("panic", run.msg)
    /\ UNCHANGED <<vars, view, leader, inViewChange, inProgress, lastSeq, txns, pending, committing,
                   starting, storing, proposed, ownCommits, verifiedCommits, settled, reentered>>

-----------------------------------------------------------------------------
(* A commit of a peer, handled by Run, and the own commit, which             *)
(* handlePreparedTxn broadcasts and hands to a goroutine of its own.         *)

handleCommitRequest(n) ==
    /\ run.at = "select"
    /\ Accepts(n)
    /\ RunAt("commit", Current(n))
    /\ UNCHANGED <<vars, view, leader, inViewChange, inProgress, lastSeq, txns, pending, committing,
                   starting, storing, proposed, ownCommits, verifiedCommits, settled, reentered>>

EnterCommit ==
    /\ run.at = "commit"
    /\ committing = 0
    /\ txns' = txns \cup {run.msg.seq}
    /\ NewTransactionStates({run.msg.seq} \ txns)
    /\ run' = Idle
    /\ UNCHANGED <<vars, view, leader, inViewChange, inProgress, lastSeq, pending, committing,
                   starting, storing, proposed, ownCommits, verifiedCommits>>

\* The broadcast goes with the new element of ownCommits.
handlePreparedTxn(m) ==
    /\ MayStart
    /\ ownCommits' = ownCommits \cup {m}
    /\ UNCHANGED <<vars, view, leader, inViewChange, inProgress, lastSeq, txns, pending, committing,
                   run, starting, storing, proposed, verifiedCommits, settled, reentered>>

VerifyOwnCommit(m) ==
    /\ ownCommits' = ownCommits \ {m}
    /\ verifiedCommits' = IF m.view = view /\ Accepts(m.seq)
                            THEN verifiedCommits \cup {m} ELSE verifiedCommits
    /\ UNCHANGED <<vars, view, leader, inViewChange, inProgress, lastSeq, txns, pending, committing,
                   run, starting, storing, proposed, settled, reentered>>

EnterOwnCommit(m) ==
    /\ committing = 0
    /\ verifiedCommits' = verifiedCommits \ {m}
    /\ txns' = txns \cup {m.seq}
    /\ NewTransactionStates({m.seq} \ txns)
    /\ UNCHANGED <<vars, view, leader, inViewChange, inProgress, lastSeq, pending, committing,
                   run, starting, storing, proposed, ownCommits>>

-----------------------------------------------------------------------------
(* handleCommittedTxn holds n.mu over Store.Commit and what follows it.  The *)
(* pending queue is emptied by starting handleClientRequest for each entry;  *)
(* PendingStaysEmpty shows that there never is one.                          *)

handleCommittedTxn(m) ==
    /\ committing = 0
    /\ m.seq \notin settled
    /\ CommitStart(m.seq)
    /\ committing' = m.seq
    /\ settled' \in {settled, settled \cup ({m.seq} \cap Followed)}
    /\ UNCHANGED <<view, leader, inViewChange, inProgress, lastSeq, txns, pending, run,
                   starting, storing, proposed, ownCommits, verifiedCommits, reentered>>

StoreCommit ==
    /\ CommitEnterLoop \/ CommitApply \/ CommitAdvance \/ CommitReturn
    /\ UNCHANGED nodeVars

MUT_FinishCommittedTxn ==
    /\ committing # 0
    /\ pc = "idle"
    /\ inProgress' = IF committing <= lastApplied THEN inProgress \ {committing} ELSE inProgress
    /\ pending' = IF Cardinality(inProgress') < MaxOutstanding THEN 0 ELSE pending
    /\ committing' = 0
    /\ UNCHANGED <<vars, view, leader, inViewChange, lastSeq, txns, run,
                   starting, storing, proposed, ownCommits, verifiedCommits, settled, reentered>>
FinishCommittedTxn ==
    /\ committing # 0
    /\ pc = "idle"
    /\ inProgress' = inProgress \ {committing}
    /\ pending' = IF Cardinality(inProgress') < MaxOutstanding THEN 0 ELSE pending
    /\ committing' = 0
    /\ UNCHANGED <<vars, view, leader, inViewChange, lastSeq, txns, run,
                   starting, storing, proposed, ownCommits, verifiedCommits, settled, reentered>>

-----------------------------------------------------------------------------
\* handleCheckpointRequest: AddCheckpointRequest returns a number when the vote
\* completes a quorum, also one for a checkpoint that is stable already.
Completes(r, id) == id.seq >= stable.seq /\ Quorum(WithVote(VotesFor(id), r))

\* The deletions after a quorum.
CleanUp(r, id) ==
    /\ txns' = IF Completes(r, id) THEN After(txns, id.seq) ELSE txns
    /\ inProgress' = IF Completes(r, id) THEN After(inProgress, id.seq) ELSE inProgress

\* From a peer, through the loop of Run.
handleCheckpointRequest(r, id) ==
    /\ run.at = "select"
    /\ committing = 0
    /\ PeerCheckpoint(r, id)
    /\ CleanUp(r, id)
    /\ UNCHANGED <<view, leader, inViewChange, lastSeq, pending, committing, run,
                   starting, storing, proposed, ownCommits, verifiedCommits, settled, reentered>>

\* The own checkpoint, from the goroutine handleCommittedTxn started.
handleOwnCheckpoint(id) ==
    /\ committing = 0
    /\ OwnCheckpoint(id)
    /\ CleanUp(Self, id)
    /\ UNCHANGED <<view, leader, inViewChange, lastSeq, pending, committing, run,
                   starting, storing, proposed, ownCommits, verifiedCommits, settled, reentered>>

-----------------------------------------------------------------------------
(* The view changer.                                                         *)

GoToViewChange ==
    /\ inViewChange' = TRUE
    /\ UNCHANGED <<vars, view, leader, inProgress, lastSeq, txns, pending, committing, run,
                   starting, storing, proposed, ownCommits, verifiedCommits, settled, reentered>>

(***************************************************************************)
(* HandleNewViewRequest.  createPreprepareMessages numbers its pre-prepares *)
(* without gaps from one above the lowest stable checkpoint it was told of, *)
(* low, up to high; with none the numbering goes on from low.  The sender   *)
(* becomes the leader, whoever GetLeader names.                             *)
(***************************************************************************)
HandleNewViewRequest(v, r, low, high) ==
    LET carried == (low + 1)..high
    IN  /\ committing = 0
        /\ v >= view
        /\ NewViewData(v, FirstNumber(low, high), r)
        /\ txns' = carried
        /\ proposed' = proposed \cup [seq : carried, view : {v}]
        /\ NewTransactionStates(carried)
        /\ UNCHANGED <<vars, pending, committing, run, starting, storing, ownCommits,
                       verifiedCommits>>

-----------------------------------------------------------------------------
(***************************************************************************)
(* handleStatusResponse, after a restart or an Enable: a checkpoint s at or *)
(* above the own stable one, whose votes were sent in view v.  ViewData is  *)
(* replaced on every response, without n.mu.                                *)
(***************************************************************************)
handleStatusResponse(s, v) ==
    /\ run.at = "select"
    /\ s >= stable.seq
    /\ IF s > stable.seq THEN UpdateStart(s) ELSE UNCHANGED vars
    /\ RunAt("status", [seq |-> s, view |-> v])
    /\ UNCHANGED <<view, leader, inViewChange, inProgress, lastSeq, txns, pending, committing,
                   starting, storing, proposed, ownCommits, verifiedCommits, settled, reentered>>

StatusUpdate ==
    /\ UpdateCheck \/ UpdateStable \/ UpdateTest \/ UpdateWrite
    /\ UNCHANGED nodeVars

StatusReset ==
    /\ run.at = "status"
    /\ update.step = "idle"
    /\ NewViewData(run.msg.view, run.msg.seq + 1, GetLeader[run.msg.view])
    /\ txns' = {}
    /\ run' = Idle
    /\ UNCHANGED <<vars, pending, committing, starting, storing, proposed, ownCommits,
                   verifiedCommits, settled, reentered>>

-----------------------------------------------------------------------------
RunStep ==
    \/ RunRequest \/ handleClientRequest \/ AssignNumber \/ Propose
    \/ \E n \in Seqs : \/ handlePrePrepareRequest(n)
                       \/ handlePrepareRequest(n)
                       \/ handleCommitRequest(n)
    \/ EnterPrePrepare \/ StoreRequests \/ EnterPrepare \/ LookupPrepare \/ EnterCommit
    \/ \E r \in Peers, id \in PeerCheckpoints : handleCheckpointRequest(r, id)

GoStep ==
    \/ \E n \in storing : AddToStore(n)
    \/ \E m \in starting : AddPrePrepare(m)
    \/ \E m \in proposed : handlePreparedTxn(m) \/ handleCommittedTxn(m)
    \/ \E m \in ownCommits : VerifyOwnCommit(m)
    \/ \E m \in verifiedCommits : EnterOwnCommit(m)
    \/ StoreCommit \/ FinishCommittedTxn
    \/ \E id \in own : handleOwnCheckpoint(id)

ViewChangerStep ==
    \/ GoToViewChange
    \/ \E v \in Views \ {0}, low \in CheckpointSeqs \cup {0}, high \in 0..MaxSeq :
         \E r \in Announcers[v] : HandleNewViewRequest(v, r, low, high)

\* Nothing happens after a panic.
NodeNext == run.at # "panic" /\ (RunStep \/ GoStep \/ ViewChangerStep)
NodeSpec == NodeInit /\ [][NodeNext]_allVars

\* The primary's or a backup's normal case: any one view, entered with nothing to
\* carry over, and no view change.
StableViewNext == run.at # "panic" /\ (RunStep \/ GoStep)
StableViewSpec == (\E v \in Views : InitIn(v)) /\ [][StableViewNext]_allVars

\* With status responses.
NodeRestartNext ==
    \/ NodeNext
    \/ /\ run.at # "panic"
       /\ \/ \E s \in CheckpointSeqs, v \in Views : handleStatusResponse(s, v)
          \/ StatusUpdate \/ StatusReset
NodeRestartSpec == NodeInit /\ [][NodeRestartNext]_allVars

-----------------------------------------------------------------------------
NodeTypeOK ==
    /\ view \in Views
    /\ leader \in Replicas
    /\ inViewChange \in BOOLEAN
    /\ inProgress \subseteq Seqs
    /\ lastSeq \in 0..(MaxSeq + 1)
    /\ txns \subseteq Seqs
    /\ pending \in Nat
    /\ committing \in 0..MaxSeq
    /\ run \in [at : Places, msg : Args]
    /\ starting \subseteq Messages
    /\ storing \subseteq Seqs
    /\ proposed \subseteq Messages
    /\ ownCommits \subseteq Messages
    /\ verifiedCommits \subseteq Messages
    /\ settled \subseteq Seqs
    /\ reentered \subseteq Seqs

\* A number that will not commit again holds a slot of MaxOutstandingRequests only if
\* a repeated pre-prepare has put it back (handlePrePrepareRequest does so without
\* looking whether the number is through): then the slot is lost until a checkpoint or
\* a new view.  No other order of messages, callbacks and new views loses one.
SlotLostOnlyIfRepeated ==
    \A n \in inProgress : n \in settled => n = committing \/ n \in reentered

\* The primary never has more requests in progress than configured, although the
\* length is compared outside n.mu, twice, and backups do not compare it.
OutstandingBound == isPrimary => Cardinality(inProgress) <= MaxOutstanding

\* The pending queue is never used: what handleClientRequest would queue, Run has
\* dropped.  (So handleCommittedTxn never starts a second, concurrent
\* handleClientRequest, and no request waits in a queue nobody empties.)
PendingStaysEmpty == pending = 0

\* A number below the high water mark of the last stable checkpoint: a backup keeps
\* no transaction state beyond it, however late checkpoints and messages come.
BelowHighWater ==
    ~isPrimary => \A n \in txns \cup inProgress : n < stable.seq + 1 + WaterMark

\* Store.Commit finds no request only in the window between starting the
\* transaction state and storing the request, or under the stable checkpoint.
NilOnlyInWindow ==
    [][\A n \in Seqs : committedRequests'[n] = Nil /\ committedRequests[n] # Nil =>
          \/ n <= stable.seq
          \/ n \in storing
          \/ run.at = "store" /\ run.msg.seq = n]_allVars

\* The process does not dereference a missing transaction state (the map accesses
\* of handlePrepareRequest are between the MUTEX comments).
NoPanic == run.at # "panic"

\* Within one view the entry that handlePrepareRequest has just made and looks up again
\* is gone only if a checkpoint at or above its number became stable in between.
MissingOnlyIfStable ==
    run.at \in {"lookup", "panic"} => run.msg.seq \in txns \/ run.msg.seq <= stable.seq

\* A message enters the transaction states of its own view only ("preprepare view
\* mismatch").
ViewChecked ==
    [][run.at \in {"preprepare", "prepare", "commit"} /\ run' # run =>
          run.msg.view = view]_allVars

\* The primary assigns a number no pre-prepare of its view has yet, whether it made
\* the pre-prepare, took it from a peer, or carried it over into a new view.
FreshNumbers ==
    [][lastSeq' = lastSeq + 1 /\ run'.at = "propose" => run'.msg \notin proposed]_allVars
=============================================================================
