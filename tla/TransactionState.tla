-------------------------- MODULE TransactionState --------------------------
(***************************************************************************)
(* One TransactionState object of pbft/transaction_state.go: what a        *)
(* replica knows of one sequence number in one view.  Votes arrive from    *)
(* goroutines that the node starts with `go`, in any order and possibly    *)
(* more than once (the sender retries), the pre-prepare included.  Every   *)
(* method runs under t.mu, so a method is one action; what stays open      *)
(* between methods is the `go t.checkCallbacks()` each of them leaves      *)
(* behind.                                                                 *)
(*                                                                         *)
(* A message is abstracted to the request digest it carries: view and      *)
(* sequence number are the object's own.  The digest "" is at once a       *)
(* digest (the one every normal-case pre-prepare carries) and the zero     *)
(* value of t.digest, "no pre-prepare seen yet": Empty plays both roles,   *)
(* as in the code.                                                         *)
(***************************************************************************)
EXTENDS Integers, FiniteSets

CONSTANTS
    Replicas,   \* the ids a vote can come from
    Digests,    \* the request digests messages carry
    Empty,      \* the digest ""
    Nil         \* a nil pointer, or no entry in a map

VARIABLES
    digest,         \* t.digest
    preprepare,     \* t.preprepare (its digest), or Nil
    prepares,       \* t.prepares: the vote of each replica, or Nil
    commits,        \* t.commits
    prepared,       \* t.prepared: a prepared certificate not yet reported
    committed,      \* t.committed
    checks,         \* some checkCallbacks goroutine has not run yet
    preparedCalls,  \* digests preparedCallback has been started with
    committedCalls, \* digests committedCallback has been started for
    keptPrepares,   \* history: the last change of digest kept 2F prepares or
                    \* more of a map that had been reported before
    keptCommits     \* history: the same for 2F + 1 commits

vars == <<digest, preprepare, prepares, commits, prepared, committed, checks,
          preparedCalls, committedCalls, keptPrepares, keptCommits>>

\* config.F() = (N - 1) / 3
F == (Cardinality(Replicas) - 1) \div 3

(***************************************************************************)
(* With fewer than four replicas F is 0 and the thresholds 2F = 0 of       *)
(* AddPrepare is never met by a vote; the deployment has four nodes.       *)
(***************************************************************************)
ASSUME ReplicasAssumption == IsFiniteSet(Replicas) /\ Cardinality(Replicas) >= 4
ASSUME DigestsAssumption == Empty \in Digests /\ Nil \notin Digests

Votes == [Replicas -> Digests \cup {Nil}]

-----------------------------------------------------------------------------
(* An operator MUT_X is X with a plausible slip in it; it is used only to    *)
(* show that a property notices the slip.                                    *)

\* The keys of a vote map; len(t.prepares) is Cardinality(Voters(prepares)).
Voters(votes) == {r \in Replicas : votes[r] # Nil}
NumVotes(votes) == Cardinality(Voters(votes))

\* The deletion loops of AddPrePrepare: only votes for digest d stay.
MUT_Matching(votes, d) == votes
Matching(votes, d) == [r \in Replicas |-> IF votes[r] = d THEN d ELSE Nil]

\* A vote for d is turned away only when another digest is already known.
MUT_Acceptable(d) == digest \in Digests
Acceptable(d) == digest \in {Empty, d}

\* The flags AddPrePrepare leaves after dropping votes, and the thresholds
\* at which AddPrepare and AddCommit raise them: equality, not >=.
MUT_KeepPrepared(votes) == prepared
KeepPrepared(votes) == prepared /\ NumVotes(votes) >= 2*F
KeepCommitted(votes) == committed /\ NumVotes(votes) > 2*F

MUT_PreparedBy(votes) == prepared \/ NumVotes(votes) = 2*F + 1
PreparedBy(votes) == prepared \/ NumVotes(votes) = 2*F
MUT_CommittedBy(votes) == committed \/ NumVotes(votes) = 2*F + 3
CommittedBy(votes) == committed \/ NumVotes(votes) = 2*F + 1

\* checkCallbacks reports a raised flag once the pre-prepare is there.
MUT_Reportable(flag) == flag
Reportable(flag) == flag /\ preprepare # Nil
Reported(flag) == IF Reportable(flag) THEN {preprepare} ELSE {}

\* A flag that cannot be reported yet stays up for the next checkCallbacks.
MUT_StillPending(flag) == FALSE
StillPending(flag) == flag /\ ~Reportable(flag)

-----------------------------------------------------------------------------
\* NewTransactionState
Init ==
    /\ digest = Empty
    /\ preprepare = Nil
    /\ prepares = [r \in Replicas |-> Nil]
    /\ commits = [r \in Replicas |-> Nil]
    /\ prepared = FALSE
    /\ committed = FALSE
    /\ checks = FALSE
    /\ preparedCalls = {}
    /\ committedCalls = {}
    /\ keptPrepares = FALSE
    /\ keptCommits = FALSE

(***************************************************************************)
(* A pre-prepare with another digest than the known one wins: the votes    *)
(* for other digests are dropped, and a flag that is no longer covered by  *)
(* the remaining votes is taken back.  A flag already reported is not      *)
(* raised again by the votes that stay, even if they are a certificate.    *)
(***************************************************************************)
AddPrePrepare(d) ==
    /\ IF d = digest
         THEN UNCHANGED <<digest, prepares, commits, prepared, committed,
                          keptPrepares, keptCommits>>
         ELSE /\ digest' = d
              /\ prepares' = Matching(prepares, d)
              /\ commits' = Matching(commits, d)
              /\ prepared' = KeepPrepared(prepares')
              /\ committed' = KeepCommitted(commits')
              /\ keptPrepares' = (preparedCalls # {} /\ NumVotes(prepares') >= 2*F)
              /\ keptCommits' = (committedCalls # {} /\ NumVotes(commits') > 2*F)
    /\ preprepare' = d
    /\ checks' = TRUE
    /\ UNCHANGED <<preparedCalls, committedCalls>>

AddPrepare(r, d) ==
    /\ Acceptable(d)
    /\ prepares' = [prepares EXCEPT ![r] = d]
    /\ prepared' = PreparedBy(prepares')
    /\ checks' = TRUE
    /\ UNCHANGED <<digest, preprepare, commits, committed, preparedCalls,
                   committedCalls, keptPrepares, keptCommits>>

AddCommit(r, d) ==
    /\ Acceptable(d)
    /\ commits' = [commits EXCEPT ![r] = d]
    /\ committed' = CommittedBy(commits')
    /\ checks' = TRUE
    /\ UNCHANGED <<digest, preprepare, prepares, prepared, preparedCalls,
                   committedCalls, keptPrepares, keptCommits>>

(***************************************************************************)
(* checkCallbacks.  Several pending goroutines are kept as the one bit     *)
(* `checks`: after one has run nothing is reportable until the next Add,   *)
(* which leaves a goroutine of its own.                                    *)
(***************************************************************************)
CheckCallbacks ==
    /\ checks
    /\ checks' = FALSE
    /\ prepared' = StillPending(prepared)
    /\ committed' = StillPending(committed)
    /\ preparedCalls' = preparedCalls \cup Reported(prepared)
    /\ committedCalls' = committedCalls \cup Reported(committed)
    /\ UNCHANGED <<digest, preprepare, prepares, commits, keptPrepares,
                   keptCommits>>

Next ==
    \/ \E d \in Digests : AddPrePrepare(d)
    \/ \E r \in Replicas, d \in Digests : AddPrepare(r, d)
    \/ \E r \in Replicas, d \in Digests : AddCommit(r, d)
    \/ CheckCallbacks

Spec == Init /\ [][Next]_vars

\* A goroutine that has been started gets to run and to take t.mu.
FairSpec == Spec /\ WF_vars(CheckCallbacks)

-----------------------------------------------------------------------------
\* Every variable keeps its type; in particular checkCallbacks never
\* dereferences a nil pre-prepare, which would put Nil among the calls.
TypeOK ==
    /\ digest \in Digests
    /\ preprepare \in Digests \cup {Nil}
    /\ prepares \in Votes
    /\ commits \in Votes
    /\ prepared \in BOOLEAN
    /\ committed \in BOOLEAN
    /\ checks \in BOOLEAN
    /\ preparedCalls \in SUBSET Digests
    /\ committedCalls \in SUBSET Digests
    /\ keptPrepares \in BOOLEAN
    /\ keptCommits \in BOOLEAN

\* A raised flag is always covered by a quorum still in the map, although
\* AddPrePrepare removes votes after the flag was raised.
FlagsBacked ==
    /\ prepared => NumVotes(prepares) >= 2*F
    /\ committed => NumVotes(commits) > 2*F

\* Once a digest other than "" is known, the votes counted are all for it:
\* votes that came before the pre-prepare were filtered, later ones refused.
VotesMatchDigest ==
    digest # Empty => \A r \in Replicas : /\ prepares[r] \in {digest, Nil}
                                          /\ commits[r] \in {digest, Nil}

\* No wakeup is lost: when no checkCallbacks is pending and the pre-prepare is
\* there, a quorum in the map has been reported for the digest of that very
\* pre-prepare, in whatever order the pre-prepare and the votes came and
\* although the thresholds test equality.  There is one exception, which the
\* code has: a pre-prepare with another digest came after a report and kept a
\* quorum of votes, so that the count never meets the equality again.
NoLostCallback ==
    (~checks /\ preprepare # Nil) =>
        /\ NumVotes(prepares) >= 2*F => preprepare \in preparedCalls \/ keptPrepares
        /\ NumVotes(commits) > 2*F => preprepare \in committedCalls \/ keptCommits

\* A step that starts preparedCallback for a digest other than "" does so with
\* 2F prepares for that very digest in the map, and committedCallback with
\* 2F + 1 commits for it.
CallbackJustified ==
    [][/\ \A d \in preparedCalls' \ preparedCalls :
            d # Empty => Cardinality({r \in Replicas : prepares[r] = d}) >= 2*F
       /\ \A d \in committedCalls' \ committedCalls :
            d # Empty => Cardinality({r \in Replicas : commits[r] = d}) > 2*F]_vars

\* A prepared certificate under a pre-prepare is eventually reported for the
\* digest of that pre-prepare, unless another pre-prepare takes its place first
\* or the exception of NoLostCallback applies; the same for commits.
PreparedReported ==
    \A d \in Digests :
        (preprepare = d /\ NumVotes(prepares) >= 2*F)
            ~> (d \in preparedCalls \/ preprepare # d \/ keptPrepares)
CommittedReported ==
    \A d \in Digests :
        (preprepare = d /\ NumVotes(commits) > 2*F)
            ~> (d \in committedCalls \/ preprepare # d \/ keptCommits)
=============================================================================
