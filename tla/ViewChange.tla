----------------------------- MODULE ViewChange -----------------------------
(***************************************************************************)
(* One replica's view changer, pbft/view_changer/view_changer.go, with the *)
(* view and the flag of the node it drives.  Four kinds of goroutine share *)
(* its fields, of which only viewId is atomic: the message loop of Run,    *)
(* the timer, one `go voteViewChange` per expiry and one election per      *)
(* expiry.  Each is cut where another may come between; `tasks` says where *)
(* they are.                                                               *)
(*                                                                         *)
(* The timer may expire at any moment, so RequestExecuted and the doubling *)
(* of the timeout, which only move that moment, do not appear.  The peers  *)
(* are the environment: their votes and NewView messages come in any       *)
(* order, repeatedly, or never.                                            *)
(***************************************************************************)
EXTENDS Integers, FiniteSets

CONSTANTS
    Replicas, Self,
    GetLeader,      \* RoundRobin: the leader of each view
    Nobody,         \* the empty leader id
    MaxView,        \* bound: views are 0..MaxView
    MaxSeq,         \* bound: sequence numbers are 1..MaxSeq
    MaxTasks,       \* bound: goroutines pending at once, the loop's included
    Votes,          \* Votes[r][v]: the votes r may cast for view v
    Content         \* Content[m]: what the vote m carries

VARIABLES
    viewId, inViewChange, leaderForView, viewChanges,   \* PbftViewChange
    nodeView, nodeInViewChange,     \* the node's CurrentView, IsInViewChange
    timer,          \* the view runTimer has counted up to but not started, or 0
    tasks,          \* the other goroutines: whose, where, for which view
    newView,        \* the own NewView message, from broadcast to adoption
    entered,        \* the views for which a NewView was handled, own or not
    overwritten     \* an election of an older view stored its leader over viewId's

vars == <<viewId, inViewChange, leaderForView, viewChanges, nodeView,
          nodeInViewChange, timer, tasks, newView, entered, overwritten>>
nodeVars == <<nodeView, nodeInViewChange>>
history == <<newView, entered, overwritten>>

Views == 0..MaxView
NewViews == 1..MaxView
Seqs == 1..MaxSeq
F == (Cardinality(Replicas) - 1) \div 3

\* The primary sends no digest; "nil" is the digest of a gap.
Digests == {"", "nil"}

\* A prepared request as GetCurrentPreparedRequests reports it: the pre-prepare
\* and the replicas whose prepares match it.  It reads IsPrepared, GetPreprepare
\* and GetPrepares under three locks, so the prepares may have gone meanwhile, and
\* IsPrepared does not ask for the pre-prepare: then the message is headless.
Prepared == [seq : Seqs, view : Views, digest : Digests, prepares : SUBSET Replicas]
VoteContents == [stable : 0..MaxSeq, prepared : SUBSET Prepared, headless : BOOLEAN]

Tasks == [who : {"loop", "vote", "elect"}, view : NewViews,
          at : {"collect", "leader", "check", "set", "announce", "adopt", "node", "panic"}]
Task(who, at, v) == [who |-> who, at |-> at, view |-> v]

ASSUME ReplicasAssumption ==
    /\ IsFiniteSet(Replicas) /\ Self \in Replicas /\ Cardinality(Replicas) >= 4
    /\ Nobody \notin Replicas
ASSUME ViewsAssumption ==
    /\ MaxView \in Nat /\ MaxSeq \in Nat /\ MaxTasks \in Nat
    /\ GetLeader \in [Views -> Replicas]
    /\ Content \in [DOMAIN Content -> VoteContents]
    /\ Votes \in [Replicas -> [NewViews -> SUBSET DOMAIN Content]]

-----------------------------------------------------------------------------
(* createPreprepareMessages.  `votes` maps each voter to its message.        *)
(* An operator MUT_X is X with a plausible slip in it.                       *)

Quorum(votes) == Cardinality(DOMAIN votes) >= 2*F + 1

\* validatePrepareProof
Valid(e) == Cardinality(e.prepares) >= 2*F

\* getSequenceRange: above the lowest stable checkpoint, up to the highest number
\* reported, valid or not.
MUT_SequenceRange(votes) ==
    {n \in Seqs : /\ \E r \in DOMAIN votes : Content[votes[r]].stable < n
                  /\ \E r \in DOMAIN votes : \E e \in Content[votes[r]].prepared : e.seq = n}
SequenceRange(votes) ==
    {n \in Seqs : /\ \E r \in DOMAIN votes : Content[votes[r]].stable < n
                  /\ \E r \in DOMAIN votes : \/ Content[votes[r]].stable >= n
                                             \/ \E e \in Content[votes[r]].prepared : e.seq >= n}

\* extractPreprepareRequests: the map is visited in any order, so any entry of the
\* highest view may be the one that stays.
Reported(votes, n) ==
    {e \in UNION {Content[votes[r]].prepared : r \in DOMAIN votes} : e.seq = n /\ Valid(e)}
MUT_Highest(votes, n) ==
    {e \in Reported(votes, n) : \A f \in Reported(votes, n) : f.view >= e.view}
Highest(votes, n) ==
    {e \in Reported(votes, n) : \A f \in Reported(votes, n) : f.view <= e.view}

Preprepares(votes) ==
    {p \in [SequenceRange(votes) -> Digests] :
        \A n \in SequenceRange(votes) :
            IF Reported(votes, n) = {} THEN p[n] = "nil"
                                       ELSE \E e \in Highest(votes, n) : p[n] = e.digest}

\* A prepared message without its pre-prepare is dereferenced by getSequenceRange.
Headless(votes) == \E r \in DOMAIN votes : Content[votes[r]].headless

MUT_WithVote(votes, r, m) ==
    [x \in DOMAIN votes \cup {Self} |-> IF x = Self THEN m ELSE votes[x]]
WithVote(votes, r, m) == [x \in DOMAIN votes \cup {r} |-> IF x = r THEN m ELSE votes[x]]

NoNewView == [view |-> 0, proof |-> <<>>, preprepares |-> <<>>]

-----------------------------------------------------------------------------
\* NewPbftViewChange, with the node in view 0.
Init ==
    /\ viewId = 0 /\ inViewChange = FALSE /\ leaderForView = Nobody
    /\ viewChanges = [v \in NewViews |-> <<>>]
    /\ nodeView = 0 /\ nodeInViewChange = FALSE
    /\ timer = 0
    /\ tasks = {}
    /\ newView = NoNewView
    /\ entered = {}
    /\ overwritten = FALSE

Idle == Cardinality(tasks) < MaxTasks /\ \A t \in tasks : t.who # "loop"
Move(t, at) == tasks' = (tasks \ {t}) \cup {[t EXCEPT !.at = at]}
Finish(t) == tasks' = tasks \ {t}

-----------------------------------------------------------------------------
(* runTimer *)

TimerFires ==
    /\ timer = 0
    /\ viewId < MaxView
    /\ inViewChange' = TRUE
    /\ viewId' = viewId + 1
    /\ timer' = viewId + 1
    /\ UNCHANGED <<leaderForView, viewChanges, nodeVars, tasks, history>>

\* leaderForView = "", node.GoToViewChange(), startLeaderElection, whose channel is
\* filled before its goroutine starts, and go voteViewChange
Started(v) == {Task("elect", "check", v), Task("vote", "collect", v)}
TimerStarts ==
    /\ timer # 0
    /\ Cardinality(tasks) + 2 <= MaxTasks
    /\ leaderForView' = Nobody
    /\ nodeInViewChange' = TRUE
    /\ tasks' = tasks \cup Started(timer)
    /\ timer' = 0
    /\ overwritten' = FALSE
    /\ UNCHANGED <<viewId, inViewChange, viewChanges, nodeView, newView, entered>>

-----------------------------------------------------------------------------
(* The election goroutine: check the view, store the leader, announce.       *)

ElectionChecks(t) ==
    /\ t.at = "check"
    /\ IF viewId = t.view THEN Move(t, "set") ELSE Finish(t)
    /\ UNCHANGED <<viewId, inViewChange, leaderForView, viewChanges, nodeVars, timer, history>>

ElectionSets(t) ==
    /\ t.at = "set"
    /\ leaderForView' = GetLeader[t.view]
    /\ overwritten' = /\ t.view # viewId
                      /\ overwritten \/ GetLeader[t.view] # GetLeader[viewId]
    /\ IF GetLeader[t.view] = Self THEN Move(t, "announce") ELSE Finish(t)
    /\ UNCHANGED <<viewId, inViewChange, viewChanges, nodeVars, timer, newView, entered>>

-----------------------------------------------------------------------------
(* handleViewChange, by the loop for a peer's vote and by the vote goroutine *)
(* for the own one.  A vote below viewId is dropped.                         *)

ReceiveViewChange(r, v, m) ==
    /\ Idle
    /\ v >= viewId
    /\ viewChanges' = [viewChanges EXCEPT ![v] = WithVote(@, r, m)]
    /\ tasks' = tasks \cup {Task("loop", "leader", v)}
    /\ UNCHANGED <<viewId, inViewChange, leaderForView, nodeVars, timer, history>>

\* voteViewChange: it reports what the node prepared in its current view.  The
\* broadcast after it changes nothing here.
voteViewChange(t, m) ==
    /\ t.at = "collect"
    /\ \A e \in Content[m].prepared : e.view = nodeView
    /\ IF t.view < viewId
         THEN Finish(t) /\ UNCHANGED viewChanges
         ELSE /\ viewChanges' = [viewChanges EXCEPT ![t.view] = WithVote(@, Self, m)]
              /\ Move(t, "leader")
    /\ UNCHANGED <<viewId, inViewChange, leaderForView, nodeVars, timer, history>>

MUT_CheckLeader(t) ==
    /\ t.at = "leader"
    /\ Finish(t)
    /\ UNCHANGED <<viewId, inViewChange, leaderForView, viewChanges, nodeVars, timer, history>>
CheckLeader(t) ==
    /\ t.at = "leader"
    /\ leaderForView # Self
    /\ Finish(t)
    /\ UNCHANGED <<viewId, inViewChange, leaderForView, viewChanges, nodeVars, timer, history>>

\* tryAnnounceAsLeader, up to the broadcast: from handleViewChange right after its
\* check of the leader, and from the election.
MayAnnounce(v) == viewId = v /\ Quorum(viewChanges[v])
tryAnnounceAsLeader(t) ==
    LET votes == viewChanges[t.view]
    IN  /\ t.at = "announce" \/ (t.at = "leader" /\ leaderForView = Self)
        /\ \/ ~MayAnnounce(t.view) /\ Finish(t) /\ UNCHANGED newView
           \/ MayAnnounce(t.view) /\ Headless(votes) /\ Move(t, "panic") /\ UNCHANGED newView
           \/ /\ MayAnnounce(t.view) /\ ~Headless(votes)
              /\ \E p \in Preprepares(votes) :
                    newView' = [view |-> t.view, proof |-> votes, preprepares |-> p]
              /\ Move(t, "adopt")
        /\ UNCHANGED <<viewId, inViewChange, leaderForView, viewChanges, nodeVars, timer,
                       entered, overwritten>>

-----------------------------------------------------------------------------
(* handleNewView, for a peer's message and for the own one.                  *)

ReceiveNewView(v) ==
    /\ Idle
    /\ tasks' = tasks \cup {Task("loop", "adopt", v)}
    /\ UNCHANGED <<viewId, inViewChange, leaderForView, viewChanges, nodeVars, timer, history>>

Adopt(t) ==
    /\ t.at = "adopt"
    /\ viewId' = t.view
    /\ inViewChange' = FALSE
    /\ entered' = entered \cup {t.view}
    /\ newView' = NoNewView
    /\ Move(t, "node")
    /\ UNCHANGED <<leaderForView, viewChanges, nodeVars, timer, overwritten>>

\* node.HandleNewViewRequest
MUT_EnterNode(t) ==
    /\ t.at = "node"
    /\ nodeView' = t.view /\ nodeInViewChange' = FALSE
    /\ Finish(t)
    /\ UNCHANGED <<viewId, inViewChange, leaderForView, viewChanges, timer, history>>
EnterNode(t) ==
    /\ t.at = "node"
    /\ IF t.view >= nodeView THEN nodeView' = t.view /\ nodeInViewChange' = FALSE
                             ELSE UNCHANGED nodeVars
    /\ Finish(t)
    /\ UNCHANGED <<viewId, inViewChange, leaderForView, viewChanges, timer, history>>

-----------------------------------------------------------------------------
Panicked == \E t \in tasks : t.at = "panic"
Peers == Replicas \ {Self}

TimerStep == TimerFires \/ TimerStarts
TaskStep(t) ==
    \/ ElectionChecks(t) \/ ElectionSets(t)
    \/ \E m \in Votes[Self][t.view] : voteViewChange(t, m)
    \/ CheckLeader(t) \/ tryAnnounceAsLeader(t)
    \/ Adopt(t) \/ EnterNode(t)
MessageStep ==
    \/ \E r \in Peers, v \in NewViews : \E m \in Votes[r][v] : ReceiveViewChange(r, v, m)
    \/ \E v \in NewViews : ReceiveNewView(v)

\* Nothing happens after a panic.
Next == ~Panicked /\ (TimerStep \/ (\E t \in tasks : TaskStep(t)) \/ MessageStep)
Spec == Init /\ [][Next]_vars

-----------------------------------------------------------------------------
TypeOK ==
    /\ viewId \in Views
    /\ inViewChange \in BOOLEAN
    /\ leaderForView \in Replicas \cup {Nobody}
    /\ DOMAIN viewChanges = NewViews
    /\ \A v \in NewViews : /\ DOMAIN viewChanges[v] \subseteq Replicas
                           /\ \A r \in DOMAIN viewChanges[v] : viewChanges[v][r] \in Votes[r][v]
    /\ nodeView \in Views
    /\ nodeInViewChange \in BOOLEAN
    /\ timer \in Views
    /\ tasks \subseteq Tasks
    /\ newView.view \in Views /\ entered \subseteq NewViews
    /\ overwritten \in BOOLEAN

\* What the votes of 2F + 1 replicas certify survives: when each of these replicas, in
\* whatever it votes, reports the prepared certificate of a request or a stable checkpoint
\* above it, and nobody reports another digest from that view or a later one, then any
\* quorum a NewView is built on either puts the request into the new view or has a voter
\* whose stable checkpoint covers it.  It says nothing of a request that committed and is
\* not reported: a replica reports only what it prepared in the view it is in (the node
\* drops its transaction states at every new view), so a request of view 0 that is not yet
\* prepared again in view 1 has no such votes for view 2.
Certified ==
    {c \in [view : NewViews, seq : Seqs, digest : Digests] :
        \E u \in Views :
            /\ Cardinality({r \in Replicas : \A m \in Votes[r][c.view] :
                    \/ Content[m].stable >= c.seq
                    \/ \E e \in Content[m].prepared : /\ e.seq = c.seq /\ e.view = u
                                                /\ e.digest = c.digest /\ Valid(e)}) >= 2*F + 1
            /\ \A r \in Replicas : \A m \in Votes[r][c.view] : \A e \in Content[m].prepared :
                    e.seq = c.seq /\ e.view >= u => e.digest = c.digest}
CertifiedSurvives ==
    newView.view > 0 => \A c \in Certified : c.view = newView.view =>
        \/ \E r \in DOMAIN newView.proof : Content[newView.proof[r]].stable >= c.seq
        \/ /\ c.seq \in DOMAIN newView.preprepares
           /\ newView.preprepares[c.seq] = c.digest

\* The new view has a pre-prepare for every number above the lowest stable checkpoint
\* of a voter, up to the highest number any voter reports, as prepared or as stable, and
\* for no other: what node.HandleNewViewRequest, which looks for the lowest of them,
\* takes for granted.
NewViewFits ==
    newView.view > 0 =>
        LET Voted == {Content[newView.proof[r]] : r \in DOMAIN newView.proof}
        IN  \E low, high \in 0..MaxSeq :
                /\ DOMAIN newView.preprepares = (low + 1)..high
                /\ \E c \in Voted : c.stable = low
                /\ \E c \in Voted : c.stable = high \/ \E e \in c.prepared : e.seq = high
                /\ \A c \in Voted : /\ low <= c.stable /\ c.stable <= high
                                    /\ \A e \in c.prepared : e.seq <= high

\* Elections and votes race for the last step, the one storing the leader and then
\* counting the votes, the other storing the vote and then reading the leader: when
\* all are through and this replica, the leader of its view, has a quorum of votes,
\* it announced the view, unless an older election took leaderForView from it.
NoLostAnnouncement ==
    /\ tasks = {} /\ timer = 0
    /\ viewId > 0 /\ GetLeader[viewId] = Self
    /\ Quorum(viewChanges[viewId])
    => viewId \in entered \/ overwritten

\* The node ends in the newest view it was told of, whatever the order: NewView
\* messages may take viewId back, and come through the loop, a vote or an election.
NodeInNewestView ==
    (\A t \in tasks : t.at # "node") =>
        /\ nodeView \in entered \cup {0}
        /\ \A v \in entered : v <= nodeView
=============================================================================
