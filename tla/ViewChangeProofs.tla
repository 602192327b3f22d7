-------------------------- MODULE ViewChangeProofs --------------------------
(***************************************************************************)
(* A view change loses no committed request and leaves the node in the     *)
(* newest view, for any number of views and goroutines, any leaders and    *)
(* any votes.  The first needs at most 4F + 1 replicas: then two sets of   *)
(* 2F + 1 meet, which fails for six replicas, where F is 1.                *)
(***************************************************************************)
EXTENDS ViewChange, FiniteSetTheorems, NumberLemmas, TLAPS

\* What is recorded: votes of replicas, each one it may cast.
VotesOK(votes, v) ==
    /\ votes = [r \in DOMAIN votes |-> votes[r]]
    /\ DOMAIN votes \subseteq Replicas
    /\ \A r \in DOMAIN votes : votes[r] \in Votes[r][v]

\* The own NewView is what createPreprepareMessages makes of a quorum.
NewViewOK ==
    /\ newView.view \in Views
    /\ newView.view > 0 =>
        /\ VotesOK(newView.proof, newView.view)
        /\ Quorum(newView.proof)
        /\ newView.preprepares \in Preprepares(newView.proof)

\* A view newer than the node's is on its way to the node.
NewestPending ==
    /\ nodeView \in entered \cup {0}
    /\ \A t \in tasks : t.at = "node" => t.view \in entered
    /\ \A v \in entered : v <= nodeView \/ \E t \in tasks : t.at = "node" /\ t.view = v

VotesTyped == \A v \in NewViews : VotesOK(viewChanges[v], v)

Inv == TypeOK /\ VotesTyped /\ NewViewOK /\ NewestPending

LEMMA ViewsInt == /\ NewViews \subseteq Views /\ Views \subseteq Int /\ 0 \in Views
                  /\ \A v \in NewViews : v > 0
  BY ViewsAssumption DEF Views, NewViews

LEMMA TaskType ==
  ASSUME NEW who \in {"loop", "vote", "elect"}, NEW v \in NewViews,
         NEW at \in {"collect", "leader", "check", "set", "announce", "adopt", "node", "panic"}
  PROVE  Task(who, at, v) \in Tasks
  BY DEF Task, Tasks

\* Moving a task keeps its owner and view.
LEMMA MoveType ==
  ASSUME NEW t \in Tasks,
         NEW at \in {"collect", "leader", "check", "set", "announce", "adopt", "node", "panic"}
  PROVE  /\ [t EXCEPT !.at = at] \in Tasks
         /\ [t EXCEPT !.at = at].at = at /\ [t EXCEPT !.at = at].view = t.view
  BY DEF Tasks

\* Recording a vote.
LEMMA RecordType ==
  ASSUME TypeOK, NEW r \in Replicas, NEW v \in NewViews, NEW m \in Votes[r][v],
         viewChanges' = [viewChanges EXCEPT ![v] = WithVote(@, r, m)]
  PROVE  /\ DOMAIN viewChanges' = NewViews
         /\ \A w \in NewViews : VotesOK(viewChanges[w], w) => VotesOK(viewChanges'[w], w)
<1>1. DOMAIN viewChanges' = NewViews
  BY DEF TypeOK
<1> SUFFICES ASSUME NEW w \in NewViews, VotesOK(viewChanges[w], w)
             PROVE  VotesOK(viewChanges'[w], w)
  BY <1>1
<1>2. CASE w # v
  BY <1>2 DEF TypeOK
<1>3. CASE w = v
  <2> DEFINE old == viewChanges[v]
  <2>1. viewChanges'[v] = [x \in DOMAIN old \cup {r} |-> IF x = r THEN m ELSE old[x]]
    BY DEF TypeOK, WithVote
  <2> HIDE DEF old
  <2> QED
    BY <1>3, <2>1 DEF VotesOK, old
<1> QED
  BY <1>2, <1>3

\* What a step that leaves the node and the tasks at it alone keeps.
LEMMA NodeKept ==
  ASSUME NewestPending, UNCHANGED <<nodeView, entered>>,
         \A t : t.at = "node" => (t \in tasks <=> t \in tasks')
  PROVE  NewestPending'
  BY DEF NewestPending

\* A task that ends, or moves on to a place before the node, leaves them alone.
LEMMA TaskMoves ==
  ASSUME TypeOK, NEW t \in tasks, t.at # "node",
         NEW at \in {"collect", "leader", "check", "set", "announce", "adopt", "panic"},
         Finish(t) \/ Move(t, at)
  PROVE  /\ tasks' \subseteq Tasks
         /\ \A u : u.at = "node" => (u \in tasks <=> u \in tasks')
<1> DEFINE moved == [t EXCEPT !.at = at]
<1>1. moved \in Tasks /\ moved.at # "node"
  BY MoveType DEF TypeOK
<1>2. tasks' = tasks \ {t} \/ tasks' = (tasks \ {t}) \cup {moved}
  BY DEF Finish, Move
<1> HIDE DEF moved
<1> QED
  BY <1>1, <1>2 DEF TypeOK

LEMMA InitInv == Init => Inv
<1> SUFFICES ASSUME Init PROVE Inv
  OBVIOUS
<1>1. VotesTyped
  BY DEF Init, VotesTyped, VotesOK
<1>2. TypeOK
  BY <1>1, ViewsInt DEF Init, TypeOK, NoNewView, VotesTyped, VotesOK
<1>3. NewViewOK
  BY ViewsInt DEF Init, NewViewOK, NoNewView
<1>4. NewestPending
  BY DEF Init, NewestPending
<1> QED
  BY <1>1, <1>2, <1>3, <1>4 DEF Inv

\* The timer counts up and starts a vote and an election.
LEMMA TimerInv == Inv /\ TimerStep => Inv'
<1> SUFFICES ASSUME Inv, TimerStep PROVE Inv'
  OBVIOUS
<1> USE DEF Inv
<1>1. CASE TimerFires
  <2>1. TypeOK'
    BY <1>1, ViewsAssumption DEF TypeOK, TimerFires, Views, nodeVars, history
  <2>2. VotesTyped' /\ NewViewOK'
    BY <1>1 DEF TimerFires, history, VotesTyped, NewViewOK, VotesOK, Quorum, Preprepares
  <2>3. NewestPending'
    BY <1>1, NodeKept DEF TimerFires, nodeVars, history
  <2> QED
    BY <2>1, <2>2, <2>3
<1>2. CASE TimerStarts
  <2>1. timer \in NewViews
    BY <1>2, ViewsAssumption DEF TypeOK, TimerStarts, Views, NewViews
  <2> DEFINE elect == Task("elect", "check", timer)
             vote == Task("vote", "collect", timer)
  <2>a. elect \in Tasks /\ vote \in Tasks /\ elect.at # "node" /\ vote.at # "node"
    BY <2>1, TaskType DEF Task
  <2>2. Started(timer) \subseteq Tasks /\ \A t \in Started(timer) : t.at # "node"
    BY <2>a DEF Started
  <2>3. TypeOK'
    BY <1>2, <2>2, ViewsInt DEF TypeOK, TimerStarts, history
  <2>4. VotesTyped' /\ NewViewOK'
    BY <1>2 DEF TimerStarts, history, VotesTyped, NewViewOK, VotesOK, Quorum, Preprepares
  <2>5. NewestPending'
    BY <1>2, <2>2, NodeKept DEF TimerStarts, history
  <2> QED
    BY <2>3, <2>4, <2>5
<1> QED
  BY <1>1, <1>2 DEF TimerStep

\* A message starts the loop on a vote or a NewView.
LEMMA MessageInv == Inv /\ MessageStep => Inv'
<1> SUFFICES ASSUME Inv, MessageStep PROVE Inv'
  OBVIOUS
<1> USE DEF Inv
<1>1. ASSUME NEW r \in Peers, NEW v \in NewViews, NEW m \in Votes[r][v], ReceiveViewChange(r, v, m)
      PROVE  Inv'
  <2>1. Task("loop", "leader", v) \in Tasks /\ Task("loop", "leader", v).at # "node"
    BY TaskType DEF Task
  <2>2. DOMAIN viewChanges' = NewViews /\ VotesTyped'
    BY <1>1, RecordType DEF ReceiveViewChange, Peers, VotesTyped
  <2>3. TypeOK'
    BY <1>1, <2>1, <2>2 DEF TypeOK, ReceiveViewChange, nodeVars, history, VotesTyped, VotesOK
  <2>4. NewViewOK'
    BY <1>1 DEF ReceiveViewChange, history, NewViewOK, VotesOK, Quorum, Preprepares
  <2>5. NewestPending'
    BY <1>1, <2>1, NodeKept DEF ReceiveViewChange, nodeVars, history
  <2> QED
    BY <2>2, <2>3, <2>4, <2>5
<1>2. ASSUME NEW v \in NewViews, ReceiveNewView(v) PROVE Inv'
  <2>1. Task("loop", "adopt", v) \in Tasks /\ Task("loop", "adopt", v).at # "node"
    BY TaskType DEF Task
  <2>2. TypeOK'
    BY <1>2, <2>1 DEF TypeOK, ReceiveNewView, nodeVars, history
  <2>3. VotesTyped' /\ NewViewOK'
    BY <1>2 DEF ReceiveNewView, history, VotesTyped, NewViewOK, VotesOK, Quorum, Preprepares
  <2>4. NewestPending'
    BY <1>2, <2>1, NodeKept DEF ReceiveNewView, nodeVars, history
  <2> QED
    BY <2>2, <2>3, <2>4
<1> QED
  BY <1>1, <1>2 DEF MessageStep

\* One step of one goroutine.
LEMMA TaskInv ==
  ASSUME Inv, NEW t \in tasks, TaskStep(t)
  PROVE  Inv'
<1> USE DEF Inv
<1>0. t \in Tasks /\ t.view \in NewViews
  BY DEF TypeOK, Tasks
<1>1. CASE ElectionChecks(t)
  <2>1. tasks' \subseteq Tasks /\ \A u : u.at = "node" => (u \in tasks <=> u \in tasks')
    BY <1>1, TaskMoves DEF ElectionChecks
  <2>2. TypeOK'
    BY <1>1, <2>1 DEF TypeOK, ElectionChecks, nodeVars, history
  <2>3. VotesTyped' /\ NewViewOK'
    BY <1>1 DEF ElectionChecks, history, VotesTyped, NewViewOK, VotesOK, Quorum, Preprepares
  <2>4. NewestPending'
    BY <1>1, <2>1, NodeKept DEF ElectionChecks, nodeVars, history
  <2> QED
    BY <2>2, <2>3, <2>4
<1>2. CASE ElectionSets(t)
  <2>1. tasks' \subseteq Tasks /\ \A u : u.at = "node" => (u \in tasks <=> u \in tasks')
    BY <1>2, TaskMoves DEF ElectionSets
  <2>2. leaderForView' \in Replicas
    BY <1>0, <1>2, ViewsInt, ViewsAssumption DEF ElectionSets
  <2>3. TypeOK'
    BY <1>2, <2>1, <2>2 DEF TypeOK, ElectionSets, nodeVars, history
  <2>4. VotesTyped' /\ NewViewOK'
    BY <1>2 DEF ElectionSets, history, VotesTyped, NewViewOK, VotesOK, Quorum, Preprepares
  <2>5. NewestPending'
    BY <1>2, <2>1, NodeKept DEF ElectionSets, nodeVars, history
  <2> QED
    BY <2>3, <2>4, <2>5
<1>3. ASSUME NEW m \in Votes[Self][t.view], voteViewChange(t, m) PROVE Inv'
  <2>1. tasks' \subseteq Tasks /\ \A u : u.at = "node" => (u \in tasks <=> u \in tasks')
    BY <1>3, TaskMoves DEF voteViewChange
  <2>2. DOMAIN viewChanges' = NewViews /\ VotesTyped'
    <3>1. CASE UNCHANGED viewChanges
      BY <3>1 DEF TypeOK, VotesTyped, VotesOK
    <3>2. CASE viewChanges' = [viewChanges EXCEPT ![t.view] = WithVote(@, Self, m)]
      BY <1>0, <1>3, <3>2, RecordType, ReplicasAssumption DEF VotesTyped
    <3> QED
      BY <1>3, <3>1, <3>2 DEF voteViewChange
  <2>3. TypeOK'
    BY <1>3, <2>1, <2>2 DEF TypeOK, voteViewChange, nodeVars, history, VotesTyped, VotesOK
  <2>4. NewViewOK'
    BY <1>3 DEF voteViewChange, history, NewViewOK, VotesOK, Quorum, Preprepares
  <2>5. NewestPending'
    BY <1>3, <2>1, NodeKept DEF voteViewChange, nodeVars, history
  <2> QED
    BY <2>2, <2>3, <2>4, <2>5
<1>4. CASE CheckLeader(t)
  <2>1. tasks' \subseteq Tasks /\ \A u : u.at = "node" => (u \in tasks <=> u \in tasks')
    BY <1>4, TaskMoves DEF CheckLeader
  <2>2. TypeOK'
    BY <1>4, <2>1 DEF TypeOK, CheckLeader, nodeVars, history
  <2>3. VotesTyped' /\ NewViewOK'
    BY <1>4 DEF CheckLeader, history, VotesTyped, NewViewOK, VotesOK, Quorum, Preprepares
  <2>4. NewestPending'
    BY <1>4, <2>1, NodeKept DEF CheckLeader, nodeVars, history
  <2> QED
    BY <2>2, <2>3, <2>4
<1>5. CASE tryAnnounceAsLeader(t)
  <2>1. tasks' \subseteq Tasks /\ \A u : u.at = "node" => (u \in tasks <=> u \in tasks')
    <3>1. t.at # "node" /\ (Finish(t) \/ Move(t, "panic") \/ Move(t, "adopt"))
      BY <1>5 DEF tryAnnounceAsLeader
    <3> QED
      BY <3>1, TaskMoves
  <2>2. NewViewOK'
    <3>1. CASE UNCHANGED newView
      BY <3>1 DEF NewViewOK, VotesOK, Quorum, Preprepares
    <3>2. CASE newView' # newView
      <4> DEFINE votes == viewChanges[t.view]
      <4>1. PICK p \in Preprepares(votes) :
               newView' = [view |-> t.view, proof |-> votes, preprepares |-> p]
        BY <1>5, <3>2 DEF tryAnnounceAsLeader
      <4>2. Quorum(votes)
        BY <1>5, <3>2 DEF tryAnnounceAsLeader, MayAnnounce
      <4>3. VotesOK(votes, t.view)
        BY <1>0 DEF VotesTyped
      <4>4. newView'.view = t.view /\ newView'.proof = votes /\ newView'.preprepares = p
        BY <4>1
      <4> HIDE DEF votes
      <4> QED
        BY <1>0, <4>1, <4>2, <4>3, <4>4, ViewsInt DEF NewViewOK, VotesOK, Quorum, Preprepares
    <3> QED
      BY <3>1, <3>2
  <2>3. TypeOK'
    BY <1>5, <2>1, <2>2 DEF TypeOK, tryAnnounceAsLeader, nodeVars, NewViewOK
  <2>4. VotesTyped'
    BY <1>5 DEF tryAnnounceAsLeader, VotesTyped, VotesOK
  <2>5. NewestPending'
    BY <1>5, <2>1, NodeKept DEF tryAnnounceAsLeader, nodeVars
  <2> QED
    BY <2>2, <2>3, <2>4, <2>5
<1>6. CASE Adopt(t)
  <2> DEFINE moved == [t EXCEPT !.at = "node"]
  <2>1. moved \in Tasks /\ moved.at = "node" /\ moved.view = t.view
    BY <1>0, MoveType
  <2>2. tasks' = (tasks \ {t}) \cup {moved} /\ t.at # "node"
    BY <1>6 DEF Adopt, Move
  <2> HIDE DEF moved
  <2>3. TypeOK'
    BY <1>0, <1>6, <2>1, <2>2, ViewsInt DEF TypeOK, Adopt, nodeVars, NoNewView
  <2>4. VotesTyped' /\ NewViewOK'
    BY <1>6, ViewsInt DEF Adopt, VotesTyped, VotesOK, NewViewOK, NoNewView
  <2>5. NewestPending'
    BY <1>6, <2>1, <2>2 DEF Adopt, nodeVars, NewestPending
  <2> QED
    BY <2>3, <2>4, <2>5
<1>7. CASE EnterNode(t)
  <2>1. tasks' = tasks \ {t} /\ t.at = "node"
    BY <1>7 DEF EnterNode, Finish
  <2>2. TypeOK'
    BY <1>0, <1>7, <2>1, ViewsInt DEF TypeOK, EnterNode, nodeVars, history
  <2>3. VotesTyped' /\ NewViewOK'
    BY <1>7 DEF EnterNode, history, VotesTyped, NewViewOK, VotesOK, Quorum, Preprepares
  <2>4. NewestPending'
    <3>1. nodeView \in Int /\ t.view \in Int /\ entered \subseteq Int
      BY <1>0, ViewsInt DEF TypeOK
    <3>2. nodeView' >= nodeView /\ nodeView' >= t.view /\ nodeView' \in {nodeView, t.view}
      BY <1>7, <3>1 DEF EnterNode, nodeVars
    <3>3. entered' = entered /\ nodeView' \in Int
      BY <1>7, <3>1, <3>2 DEF EnterNode, history
    <3> QED
      BY <2>1, <3>1, <3>2, <3>3 DEF NewestPending
  <2> QED
    BY <2>2, <2>3, <2>4
<1> QED
  BY <1>1, <1>2, <1>3, <1>4, <1>5, <1>6, <1>7 DEF TaskStep

LEMMA Invariant == Spec => []Inv
<1>1. Inv /\ [Next]_vars => Inv'
  <2> SUFFICES ASSUME Inv, [Next]_vars PROVE Inv'
    OBVIOUS
  <2>1. CASE Next
    BY <2>1, TimerInv, TaskInv, MessageInv DEF Next
  <2>2. CASE UNCHANGED vars
    BY <2>2 DEF vars, Inv, TypeOK, VotesTyped, VotesOK, NewViewOK, NewestPending,
                Quorum, Preprepares
  <2> QED
    BY <2>1, <2>2
<1> QED
  BY <1>1, InitInv, PTL DEF Spec

\* Every field of the view changer has its type.
THEOREM ChangerTypes == Spec => []TypeOK
<1>1. Inv => TypeOK
  BY DEF Inv
<1> QED
  BY <1>1, Invariant, PTL

\* The node ends in the newest view it was told of (handleNewView and
\* node.HandleNewViewRequest), for any number of goroutines between the two.
THEOREM NewestViewWins == Spec => []NodeInNewestView
<1>1. Inv => NodeInNewestView
  BY DEF Inv, NewestPending, NodeInNewestView
<1> QED
  BY <1>1, Invariant, PTL

\* Two sets of 2F + 1 out of at most 4F + 1 replicas meet.
LEMMA QuorumsMeet ==
  ASSUME Cardinality(Replicas) <= 4*F + 1,
         NEW P, P \subseteq Replicas, Cardinality(P) >= 2*F + 1,
         NEW Q, Q \subseteq Replicas, Cardinality(Q) >= 2*F + 1
  PROVE  P \cap Q # {}
<1> SUFFICES ASSUME P \cap Q = {} PROVE FALSE
  OBVIOUS
<1>1. IsFiniteSet(P) /\ IsFiniteSet(Q)
  BY FS_Subset, ReplicasAssumption
<1>2. Cardinality(P \cup Q) = Cardinality(P) + Cardinality(Q) - Cardinality({})
  BY <1>1, FS_Union
<1>3. Cardinality(P \cup Q) <= Cardinality(Replicas)
  BY FS_Subset, ReplicasAssumption
<1>4. Cardinality({}) = 0
  BY FS_EmptySet
<1>5. Cardinality(P) \in Nat /\ Cardinality(Q) \in Nat /\ Cardinality(Replicas) \in Nat
  BY <1>1, FS_CardinalityType, ReplicasAssumption
<1>6. F \in Int
  BY <1>5 DEF F
<1> QED
  BY <1>2, <1>3, <1>4, <1>5, <1>6

\* A request that 2F + 1 replicas report as prepared is in the new view, or below a
\* stable checkpoint of one of the voters: createPreprepareMessages loses no request
\* that is reported so.
THEOREM CertifiedIsCarried ==
  ASSUME Cardinality(Replicas) <= 4*F + 1
  PROVE  Spec => []CertifiedSurvives
<1>1. Inv => CertifiedSurvives
  <2> SUFFICES ASSUME Inv, newView.view > 0, NEW c \in Certified, c.view = newView.view
               PROVE  \/ \E r \in DOMAIN newView.proof : Content[newView.proof[r]].stable >= c.seq
                      \/ /\ c.seq \in DOMAIN newView.preprepares
                         /\ newView.preprepares[c.seq] = c.digest
    BY DEF CertifiedSurvives
  <2> DEFINE votes == newView.proof
             Reports(r, u) ==
               \A m \in Votes[r][c.view] :
                    \/ Content[m].stable >= c.seq
                    \/ \E e \in Content[m].prepared : /\ e.seq = c.seq /\ e.view = u
                                                /\ e.digest = c.digest /\ Valid(e)
  <2>1. PICK u \in Views :
           /\ Cardinality({r \in Replicas : Reports(r, u)}) >= 2*F + 1
           /\ \A r \in Replicas : \A m \in Votes[r][c.view] : \A e \in Content[m].prepared :
                    e.seq = c.seq /\ e.view >= u => e.digest = c.digest
    BY DEF Certified
  <2>2. /\ VotesOK(votes, c.view) /\ Quorum(votes)
        /\ newView.preprepares \in Preprepares(votes)
    BY DEF Inv, NewViewOK
  <2>3. PICK r \in DOMAIN votes : Reports(r, u)
    <3> DEFINE Q == {r \in Replicas : Reports(r, u)}
    <3>1. Q \cap DOMAIN votes # {}
      BY <2>1, <2>2, QuorumsMeet DEF VotesOK, Quorum
    <3> QED
      BY <3>1
  <2> HIDE DEF votes
  <2>4. r \in Replicas /\ votes[r] \in Votes[r][c.view]
    BY <2>2, <2>3 DEF VotesOK
  <2>5. CASE Content[votes[r]].stable >= c.seq
    BY <2>3, <2>5 DEF votes
  <2>6. CASE ~(Content[votes[r]].stable >= c.seq)
    <3>1. PICK e \in Content[votes[r]].prepared :
             e.seq = c.seq /\ e.view = u /\ e.digest = c.digest /\ Valid(e)
      BY <2>3, <2>4, <2>6
    <3>2. c.seq \in Seqs /\ c.seq \in Int
      BY ViewsAssumption DEF Certified, Seqs
    <3>3. Content[votes[r]].stable \in Int
      <4>1. c.view \in NewViews
        BY DEF Certified
      <4>2. votes[r] \in DOMAIN Content
        BY <2>4, <4>1, ViewsAssumption
      <4>3. Content[votes[r]] \in VoteContents
        BY <4>2, ViewsAssumption
      <4> QED
        BY <4>3, ViewsAssumption DEF VoteContents
    <3>4. c.seq \in SequenceRange(votes)
      BY <2>3, <2>6, <3>1, <3>2, <3>3 DEF SequenceRange
    <3>5. e \in Reported(votes, c.seq)
      BY <2>3, <3>1 DEF Reported
    <3>6. PICK h \in Highest(votes, c.seq) : newView.preprepares[c.seq] = h.digest
      BY <2>2, <3>4, <3>5 DEF Preprepares
    <3>7. h \in Reported(votes, c.seq) /\ e.view <= h.view
      BY <3>5, <3>6 DEF Highest
    <3>8. PICK q \in DOMAIN votes : h \in Content[votes[q]].prepared /\ h.seq = c.seq
      BY <3>7 DEF Reported
    <3>9. h.view >= u
      BY <3>1, <3>7
    <3>10. h.digest = c.digest
      BY <2>1, <2>2, <3>8, <3>9 DEF VotesOK
    <3>11. c.seq \in DOMAIN newView.preprepares
      BY <2>2, <3>4 DEF Preprepares
    <3> QED
      BY <3>6, <3>10, <3>11
  <2> QED
    BY <2>5, <2>6
<1> QED
  BY <1>1, Invariant, PTL
-----------------------------------------------------------------------------
\* Some goroutine of view v is at one of the places.
Pending(v, places) == \E t \in tasks : t.view = v /\ t.at \in places
Electing == {"check", "set"}
Counting == {"leader", "announce", "adopt", "panic"}

\* While the replica has not entered its own view, the timer is still to start the
\* election for it, or the election is still to store the leader, or it has, and a
\* quorum then has somebody left to count it.
AnnouncementPending ==
    viewId \notin entered =>
        /\ timer # 0 => timer = viewId
        /\ timer = 0 /\ viewId > 0 /\ GetLeader[viewId] = Self /\ ~overwritten =>
              \/ Pending(viewId, Electing)
              \/ leaderForView = Self /\ (Quorum(viewChanges[viewId]) => Pending(viewId, Counting))

\* What is pending stays so until a goroutine of that view leaves its place.
LEMMA StaysPending ==
  ASSUME NEW v, NEW places, Pending(v, places), NEW t,
         tasks \ {t} \subseteq tasks', t.view # v \/ t.at \notin places
  PROVE  \E u \in tasks' : u.view = v /\ u.at \in places
<1>1. PICK u \in tasks : u.view = v /\ u.at \in places
  BY DEF Pending
<1>2. u # t
  BY <1>1
<1> QED
  BY <1>1, <1>2

\* A goroutine that moves is pending at the new place, for the same view.
LEMMA MovedPending ==
  ASSUME NEW t \in Tasks, NEW at, NEW places, at \in places, Move(t, at)
  PROVE  \E u \in tasks' : u.view = t.view /\ u.at \in places
<1>1. [t EXCEPT !.at = at].view = t.view /\ [t EXCEPT !.at = at].at = at
  BY DEF Tasks
<1> QED
  BY <1>1 DEF Move

LEMMA TimerPending ==
  ASSUME Inv, AnnouncementPending, TimerStep
  PROVE  AnnouncementPending'
<1>1. CASE TimerFires
  <2>1. timer' = viewId' /\ timer' # 0
    BY <1>1 DEF TimerFires, Inv, TypeOK, Views
  <2> QED
    BY <2>1 DEF AnnouncementPending
<1>2. CASE TimerStarts
  <2>1. /\ timer # 0 /\ timer' = 0 /\ viewId' = viewId /\ entered' = entered
        /\ Task("elect", "check", timer) \in tasks'
    BY <1>2 DEF TimerStarts, Started
  <2>2. viewId \notin entered => Pending(viewId, Electing)'
    BY <2>1 DEF AnnouncementPending, Pending, Electing, Task
  <2> QED
    BY <2>1, <2>2 DEF AnnouncementPending
<1> QED
  BY <1>1, <1>2 DEF TimerStep

LEMMA MessagePending ==
  ASSUME Inv, AnnouncementPending, MessageStep
  PROVE  AnnouncementPending'
<1>1. /\ UNCHANGED <<viewId, leaderForView, timer, entered, overwritten>>
      /\ tasks \subseteq tasks'
  BY DEF MessageStep, ReceiveViewChange, ReceiveNewView, history
<1>0. viewId > 0 => viewId \in NewViews
  BY ViewsAssumption DEF Inv, TypeOK, Views, NewViews
<1>2. \/ viewId > 0 => viewChanges'[viewId] = viewChanges[viewId]
      \/ \E t \in tasks' : t.view = viewId /\ t.at = "leader"
  <2>1. ASSUME NEW r \in Peers, NEW v \in NewViews, NEW m \in Votes[r][v], ReceiveViewChange(r, v, m)
        PROVE  \/ viewId > 0 => viewChanges'[viewId] = viewChanges[viewId]
               \/ \E t \in tasks' : t.view = viewId /\ t.at = "leader"
    <3>1. CASE v = viewId
      <4>1. Task("loop", "leader", v).view = v /\ Task("loop", "leader", v).at = "leader"
        BY DEF Task
      <4>2. Task("loop", "leader", v) \in tasks'
        BY <2>1 DEF ReceiveViewChange
      <4> QED
        BY <3>1, <4>1, <4>2
    <3>2. CASE v # viewId
      BY <1>0, <2>1, <3>2 DEF ReceiveViewChange, Inv, TypeOK
    <3> QED
      BY <3>1, <3>2
  <2>2. ASSUME NEW v \in NewViews, ReceiveNewView(v) PROVE viewChanges' = viewChanges
    BY <2>2 DEF ReceiveNewView
  <2> QED
    BY <2>1, <2>2 DEF MessageStep
<1> QED
  BY <1>1, <1>2 DEF AnnouncementPending, Pending, Electing, Counting

LEMMA TaskPending ==
  ASSUME Inv, AnnouncementPending, NEW t \in tasks, TaskStep(t)
  PROVE  AnnouncementPending'
<1>0. t \in Tasks /\ t.view \in NewViews /\ viewId \in Views /\ (viewId > 0 => viewId \in NewViews)
  BY ViewsAssumption DEF Inv, TypeOK, Tasks, Views, NewViews
<1> DEFINE Elects == \E u \in tasks' : u.view = viewId /\ u.at \in Electing
           Counts == \E u \in tasks' : u.view = viewId /\ u.at \in Counting
<1>1. CASE ElectionChecks(t)
  <2>1. /\ UNCHANGED <<viewId, leaderForView, viewChanges, timer, entered, overwritten>>
        /\ t.at = "check" /\ tasks \ {t} \subseteq tasks'
    BY <1>1 DEF ElectionChecks, history, Move, Finish
  <2>2. Pending(viewId, Electing) => Elects
    <3>1. CASE viewId = t.view
      BY <1>0, <1>1, <3>1, MovedPending DEF ElectionChecks, Electing
    <3>2. CASE viewId # t.view
      BY <2>1, <3>2, StaysPending
    <3> QED
      BY <3>1, <3>2
  <2>3. Pending(viewId, Counting) => Counts
    BY <2>1, StaysPending DEF Counting
  <2> QED
    BY <2>1, <2>2, <2>3 DEF AnnouncementPending, Pending
<1>2. CASE ElectionSets(t)
  <2>1. /\ UNCHANGED <<viewId, viewChanges, timer, entered>>
        /\ leaderForView' = GetLeader[t.view]
        /\ t.at = "set" /\ tasks \ {t} \subseteq tasks'
    BY <1>2 DEF ElectionSets, Move, Finish
  <2>2. CASE t.view = viewId /\ GetLeader[viewId] = Self
    <3>1. Counts
      BY <1>0, <1>2, <2>2, MovedPending DEF ElectionSets, Counting
    <3> QED
      BY <2>1, <2>2, <3>1 DEF AnnouncementPending, Pending
  <2>3. CASE t.view # viewId
    <3>1. overwritten' = (overwritten \/ GetLeader[t.view] # GetLeader[viewId])
      BY <1>2, <2>3 DEF ElectionSets
    <3>2. /\ Pending(viewId, Electing) => Elects
          /\ Pending(viewId, Counting) => Counts
      BY <2>1, <2>3, StaysPending
    <3> QED
      BY <2>1, <3>1, <3>2 DEF AnnouncementPending, Pending
  <2> QED
    BY <2>1, <2>2, <2>3 DEF AnnouncementPending
<1>3. ASSUME NEW m \in Votes[Self][t.view], voteViewChange(t, m) PROVE AnnouncementPending'
  <2>1. /\ UNCHANGED <<viewId, leaderForView, timer, entered, overwritten>>
        /\ t.at = "collect" /\ tasks \ {t} \subseteq tasks'
    BY <1>3 DEF voteViewChange, history, Move, Finish
  <2>2. /\ Pending(viewId, Electing) => Elects
        /\ Pending(viewId, Counting) => Counts
    BY <2>1, StaysPending DEF Electing, Counting
  <2>3. (viewId > 0 => viewChanges'[viewId] = viewChanges[viewId]) \/ Counts
    <3>1. CASE t.view = viewId
      <4>1. ~(t.view < viewId)
        BY <1>0, <3>1 DEF Views
      <4> QED
        BY <1>0, <1>3, <3>1, <4>1, MovedPending DEF voteViewChange, Counting
    <3>2. CASE t.view # viewId
      BY <1>0, <1>3, <3>2 DEF voteViewChange, Inv, TypeOK
    <3> QED
      BY <3>1, <3>2
  <2> QED
    BY <2>1, <2>2, <2>3 DEF AnnouncementPending, Pending
<1>4. CASE CheckLeader(t)
  <2>1. /\ UNCHANGED <<viewId, leaderForView, viewChanges, timer, entered, overwritten>>
        /\ t.at = "leader" /\ leaderForView # Self /\ tasks \ {t} \subseteq tasks'
    BY <1>4 DEF CheckLeader, history, Finish
  <2>2. Pending(viewId, Electing) => Elects
    BY <2>1, StaysPending DEF Electing
  <2> QED
    BY <2>1, <2>2 DEF AnnouncementPending, Pending
<1>5. CASE tryAnnounceAsLeader(t)
  <2>1. /\ UNCHANGED <<viewId, leaderForView, viewChanges, timer, entered, overwritten>>
        /\ t.at \in {"announce", "leader"} /\ tasks \ {t} \subseteq tasks'
    BY <1>5 DEF tryAnnounceAsLeader, Move, Finish
  <2>2. Pending(viewId, Electing) => Elects
    BY <2>1, StaysPending DEF Electing
  <2>3. Quorum(viewChanges[viewId]) /\ Pending(viewId, Counting) => Counts
    <3>1. CASE t.view = viewId /\ Quorum(viewChanges[viewId])
      <4>1. Move(t, "panic") \/ Move(t, "adopt")
        BY <1>5, <3>1 DEF tryAnnounceAsLeader, MayAnnounce
      <4> QED
        BY <1>0, <3>1, <4>1, MovedPending DEF Counting
    <3>2. CASE t.view # viewId
      BY <2>1, <3>2, StaysPending
    <3> QED
      BY <3>1, <3>2
  <2> QED
    BY <2>1, <2>2, <2>3 DEF AnnouncementPending, Pending
<1>6. CASE Adopt(t)
  <2>1. viewId' \in entered'
    BY <1>6 DEF Adopt
  <2> QED
    BY <2>1 DEF AnnouncementPending
<1>7. CASE EnterNode(t)
  <2>1. /\ UNCHANGED <<viewId, leaderForView, viewChanges, timer, entered, overwritten>>
        /\ t.at = "node" /\ tasks \ {t} \subseteq tasks'
    BY <1>7 DEF EnterNode, history, Finish
  <2>2. /\ Pending(viewId, Electing) => Elects
        /\ Pending(viewId, Counting) => Counts
    BY <2>1, StaysPending DEF Electing, Counting
  <2> QED
    BY <2>1, <2>2 DEF AnnouncementPending, Pending
<1> QED
  BY <1>1, <1>2, <1>3, <1>4, <1>5, <1>6, <1>7 DEF TaskStep

\* Whatever order elections and votes take their last steps in, the leader with a
\* quorum of votes announces its view, unless an older election overwrote the leader.
THEOREM NoAnnouncementLost == Spec => []NoLostAnnouncement
<1>1. Init => AnnouncementPending
  BY ViewsAssumption DEF Init, AnnouncementPending, Views
<1>2. Inv /\ AnnouncementPending /\ [Next]_vars => AnnouncementPending'
  <2> SUFFICES ASSUME Inv, AnnouncementPending, [Next]_vars PROVE AnnouncementPending'
    OBVIOUS
  <2>1. CASE UNCHANGED vars
    BY <2>1 DEF vars, AnnouncementPending, Pending
  <2> QED
    BY <2>1, TimerPending, TaskPending, MessagePending DEF Next
<1>3. AnnouncementPending => NoLostAnnouncement
  BY DEF AnnouncementPending, NoLostAnnouncement, Pending
<1> QED
  BY <1>1, <1>2, <1>3, Invariant, PTL DEF Spec
-----------------------------------------------------------------------------
\* What the voters of a view report is well formed.
LEMMA ReportedTypes ==
  ASSUME NEW v \in NewViews, NEW votes, VotesOK(votes, v)
  PROVE  \A r \in DOMAIN votes :
            /\ Content[votes[r]].stable \in 0..MaxSeq
            /\ \A e \in Content[votes[r]].prepared : e \in Prepared
<1> SUFFICES ASSUME NEW r \in DOMAIN votes PROVE Content[votes[r]] \in VoteContents
  BY DEF VoteContents
<1>1. r \in Replicas /\ votes[r] \in Votes[r][v]
  BY DEF VotesOK
<1>2. votes[r] \in DOMAIN Content
  BY <1>1, ViewsAssumption
<1> QED
  BY <1>2, ViewsAssumption

\* getSequenceRange yields an interval: above the lowest stable checkpoint, up to
\* the highest number reported.
LEMMA RangeIsInterval ==
  ASSUME NEW v \in NewViews, NEW votes, VotesOK(votes, v), DOMAIN votes # {}
  PROVE  \E low, high \in 0..MaxSeq :
            /\ SequenceRange(votes) = (low + 1)..high
            /\ \E r \in DOMAIN votes : Content[votes[r]].stable = low
            /\ \E r \in DOMAIN votes : \/ Content[votes[r]].stable = high
                                       \/ \E e \in Content[votes[r]].prepared : e.seq = high
            /\ \A r \in DOMAIN votes :
                  /\ low <= Content[votes[r]].stable /\ Content[votes[r]].stable <= high
                  /\ \A e \in Content[votes[r]].prepared : e.seq <= high
<1> DEFINE Stable == {Content[votes[r]].stable : r \in DOMAIN votes}
           Entries == UNION {Content[votes[r]].prepared : r \in DOMAIN votes}
           Top == Stable \cup {e.seq : e \in Entries}
<1>1. \A s \in Stable : s \in 0..MaxSeq
  BY ReportedTypes
<1>2. \A e \in Entries : e.seq \in Seqs
  BY ReportedTypes DEF Prepared
<1>3. Stable \in SUBSET Nat /\ Stable # {}
  BY <1>1, ViewsAssumption
<1>4. \A n \in Top : n \in 0..MaxSeq
  BY <1>1, <1>2 DEF Seqs
<1>5. Top \in SUBSET Nat /\ Top # {}
  <2>1. \A n \in Top : n \in Nat
    BY <1>4, ViewsAssumption
  <2>2. Stable \subseteq Top
    OBVIOUS
  <2> HIDE DEF Stable, Top
  <2> QED
    BY <1>3, <2>1, <2>2
<1>6. PICK low \in Stable : \A s \in Stable : low <= s
  <2> HIDE DEF Stable
  <2> QED
    BY <1>3, LeastExists
<1>7. PICK high \in Top : \A n \in Top : n <= high
  <2>1. \A n \in Top : n <= MaxSeq
    BY <1>4, ViewsAssumption
  <2> HIDE DEF Top
  <2> QED
    BY <1>5, <2>1, GreatestExists, ViewsAssumption
<1>8. low \in 0..MaxSeq /\ high \in 0..MaxSeq
  BY <1>1, <1>4, <1>6, <1>7
<1>9. SequenceRange(votes) =
        {n \in Seqs : (\E s \in Stable : s < n) /\ (\E m \in Top : m >= n)}
  BY DEF SequenceRange
<1>10. SequenceRange(votes) = (low + 1)..high
  <2> HIDE DEF Stable, Top
  <2>1. ASSUME NEW n \in Seqs, NEW s \in Stable, s < n, NEW m \in Top, m >= n
        PROVE  n \in (low + 1)..high
    <3>1. low <= s /\ m <= high /\ s \in Nat /\ m \in Nat /\ n \in Nat
      BY <1>3, <1>5, <1>6, <1>7 DEF Seqs
    <3> QED
      BY <1>8, <2>1, <3>1
  <2>2. ASSUME NEW n \in (low + 1)..high
        PROVE  n \in Seqs /\ low < n /\ high >= n
    BY <1>8, ViewsAssumption DEF Seqs
  <2> QED
    BY <1>6, <1>7, <1>9, <2>1, <2>2
<1>11. \E r \in DOMAIN votes : Content[votes[r]].stable = low
  BY <1>6
<1>12. \E r \in DOMAIN votes : \/ Content[votes[r]].stable = high
                              \/ \E e \in Content[votes[r]].prepared : e.seq = high
  <2>1. CASE high \in Stable
    BY <2>1
  <2>2. CASE high \in {e.seq : e \in Entries}
    BY <2>2
  <2> QED
    BY <1>7, <2>1, <2>2
<1>13. ASSUME NEW r \in DOMAIN votes
       PROVE  /\ low <= Content[votes[r]].stable /\ Content[votes[r]].stable <= high
              /\ \A e \in Content[votes[r]].prepared : e.seq <= high
  <2>1. Content[votes[r]].stable \in Stable /\ Content[votes[r]].stable \in Top
    OBVIOUS
  <2>2. \A e \in Content[votes[r]].prepared : e.seq \in Top
    OBVIOUS
  <2> HIDE DEF Stable, Top
  <2> QED
    BY <1>6, <1>7, <2>1, <2>2
<1> QED
  BY <1>8, <1>10, <1>11, <1>12, <1>13

\* A quorum has a member.
LEMMA QuorumNotEmpty ==
  ASSUME NEW v, NEW votes, VotesOK(votes, v), Quorum(votes)
  PROVE  DOMAIN votes # {}
<1>1. F \in Nat
  <2>1. Cardinality(Replicas) \in Nat /\ Cardinality(Replicas) >= 4
    BY ReplicasAssumption, FS_CardinalityType
  <2> QED
    BY <2>1 DEF F
<1>2. Cardinality({}) = 0
  BY FS_EmptySet
<1> QED
  BY <1>1, <1>2 DEF Quorum

\* createPreprepareMessages numbers the new view the way the node reads it.
THEOREM NewViewHasNoGaps == Spec => []NewViewFits
<1>1. Inv => NewViewFits
  <2> SUFFICES ASSUME Inv, newView.view > 0 PROVE NewViewFits
    BY DEF NewViewFits
  <2> DEFINE votes == newView.proof
  <2>1. newView.view \in NewViews
    BY ViewsAssumption DEF Inv, NewViewOK, Views, NewViews
  <2>2. VotesOK(votes, newView.view) /\ Quorum(votes) /\ newView.preprepares \in Preprepares(votes)
    BY DEF Inv, NewViewOK
  <2>3. DOMAIN newView.preprepares = SequenceRange(votes)
    BY <2>2 DEF Preprepares
  <2>4. DOMAIN votes # {}
    BY <2>2, QuorumNotEmpty
  <2> HIDE DEF votes
  <2>5. PICK low \in 0..MaxSeq, high \in 0..MaxSeq :
            /\ SequenceRange(votes) = (low + 1)..high
            /\ \E r \in DOMAIN votes : Content[votes[r]].stable = low
            /\ \E r \in DOMAIN votes : \/ Content[votes[r]].stable = high
                                       \/ \E e \in Content[votes[r]].prepared : e.seq = high
            /\ \A r \in DOMAIN votes :
                  /\ low <= Content[votes[r]].stable /\ Content[votes[r]].stable <= high
                  /\ \A e \in Content[votes[r]].prepared : e.seq <= high
    BY <2>1, <2>2, <2>4, RangeIsInterval
  <2> QED
    BY <2>3, <2>5 DEF NewViewFits, votes
<1> QED
  BY <1>1, Invariant, PTL

\* Whatever a quorum reports, there is a list of pre-prepares for it: the entry of
\* the highest view exists for every number with a valid certificate.
THEOREM NewViewExists ==
  ASSUME NEW v \in NewViews, NEW votes, VotesOK(votes, v)
  PROVE  Preprepares(votes) # {}
<1>1. ASSUME NEW n, Reported(votes, n) # {}
      PROVE  \E e \in Highest(votes, n) : e.digest \in Digests
  <2> DEFINE At == {e.view : e \in Reported(votes, n)}
  <2>1. \A e \in Reported(votes, n) : e.view \in Views /\ e.digest \in Digests
    BY ReportedTypes DEF Reported, Prepared
  <2>2. At \in SUBSET Nat /\ At # {} /\ \A u \in At : u <= MaxView
    BY <1>1, <2>1, ViewsAssumption DEF Views
  <2>3. PICK top \in At : \A u \in At : u <= top
    <3> HIDE DEF At
    <3> QED
      BY <2>2, GreatestExists, ViewsAssumption
  <2>4. PICK e \in Reported(votes, n) : e.view = top
    OBVIOUS
  <2>5. e \in Highest(votes, n)
    BY <2>3, <2>4 DEF Highest
  <2> QED
    BY <2>1, <2>4, <2>5
<1> DEFINE p == [n \in SequenceRange(votes) |->
                   IF Reported(votes, n) = {} THEN "nil"
                   ELSE (CHOOSE e \in Highest(votes, n) : e.digest \in Digests).digest]
<1>2. ASSUME NEW n \in SequenceRange(votes)
      PROVE  /\ p[n] \in Digests
             /\ IF Reported(votes, n) = {} THEN p[n] = "nil"
                                           ELSE \E e \in Highest(votes, n) : p[n] = e.digest
  <2>1. CASE Reported(votes, n) = {}
    BY <2>1 DEF Digests
  <2>2. CASE Reported(votes, n) # {}
    <3> DEFINE c == CHOOSE e \in Highest(votes, n) : e.digest \in Digests
    <3>1. c \in Highest(votes, n) /\ c.digest \in Digests
      BY <1>1, <2>2
    <3>2. p[n] = c.digest
      BY <2>2
    <3> QED
      BY <2>2, <3>1, <3>2
  <2> QED
    BY <2>1, <2>2
<1>3. p \in [SequenceRange(votes) -> Digests]
  <2>1. \A n \in SequenceRange(votes) : p[n] \in Digests
    BY <1>2
  <2>2. p = [n \in SequenceRange(votes) |-> p[n]]
    OBVIOUS
  <2> HIDE DEF p
  <2> QED
    BY <2>1, <2>2
<1> QED
  BY <1>2, <1>3 DEF Preprepares
=============================================================================
