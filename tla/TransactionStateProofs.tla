----------------------- MODULE TransactionStateProofs -----------------------
(***************************************************************************)
(* The safety of a TransactionState object for any number of replicas and  *)
(* any digests.                                                            *)
(***************************************************************************)
EXTENDS TransactionState, FiniteSetTheorems, TLAPS

\* Voters of a map, and the thresholds, are natural numbers.
LEMMA ThresholdType == F \in Nat /\ F >= 1
  BY ReplicasAssumption, FS_CardinalityType DEF F

LEMMA VotersFinite ==
  ASSUME NEW votes
  PROVE  IsFiniteSet(Voters(votes)) /\ NumVotes(votes) \in Nat
  BY ReplicasAssumption, FS_Subset, FS_CardinalityType DEF Voters, NumVotes

\* t.prepares[id] = prepare adds at most one key to the map.
LEMMA AddVote ==
  ASSUME NEW votes \in Votes, NEW r \in Replicas, NEW d \in Digests
  PROVE  /\ [votes EXCEPT ![r] = d] \in Votes
         /\ \/ NumVotes([votes EXCEPT ![r] = d]) = NumVotes(votes)
            \/ NumVotes([votes EXCEPT ![r] = d]) = NumVotes(votes) + 1
<1> DEFINE new == [votes EXCEPT ![r] = d]
<1>1. new \in Votes
  BY DEF Votes
<1>2. Voters(new) = Voters(votes) \cup {r}
  BY DigestsAssumption DEF Voters, Votes
<1>3. Cardinality(Voters(votes) \cup {r}) \in
        {Cardinality(Voters(votes)), Cardinality(Voters(votes)) + 1}
  BY VotersFinite, FS_AddElement
<1> QED
  BY <1>1, <1>2, <1>3 DEF NumVotes

\* The deletion loops of AddPrePrepare leave a sub-map whose votes are for d.
LEMMA DropVotes ==
  ASSUME NEW votes \in Votes, NEW d \in Digests
  PROVE  /\ Matching(votes, d) \in Votes
         /\ NumVotes(Matching(votes, d)) <= NumVotes(votes)
         /\ \A r \in Replicas : Matching(votes, d)[r] \in {d, Nil}
<1>1. Matching(votes, d) \in Votes /\ \A r \in Replicas : Matching(votes, d)[r] \in {d, Nil}
  BY DEF Matching, Votes
<1>2. Voters(Matching(votes, d)) \subseteq Voters(votes)
  BY DigestsAssumption DEF Matching, Voters, Votes
<1> QED
  BY <1>1, <1>2, VotersFinite, FS_Subset DEF NumVotes

-----------------------------------------------------------------------------
\* The strengthening that makes NoLostCallback inductive: a quorum in the map
\* is flagged, reported under the pre-prepare of now, or one that outlived a
\* report for another digest; and a flag that could be reported has a
\* checkCallbacks on its way.
QuorumNoticed ==
    /\ NumVotes(prepares) >= 2*F => prepared \/ preprepare \in preparedCalls \/ keptPrepares
    /\ NumVotes(commits) > 2*F => committed \/ preprepare \in committedCalls \/ keptCommits
KeptWasReported ==
    /\ keptPrepares => preparedCalls # {}
    /\ keptCommits => committedCalls # {}
FlagAwaitsCheck == preprepare # Nil /\ (prepared \/ committed) => checks
PreprepareIsDigest == preprepare \in {digest, Nil}

Inv == TypeOK /\ FlagsBacked /\ VotesMatchDigest /\ PreprepareIsDigest
         /\ QuorumNoticed /\ KeptWasReported /\ FlagAwaitsCheck

LEMMA InitInv == Init => Inv
<1> SUFFICES ASSUME Init PROVE Inv
  OBVIOUS
<1>1. Voters(prepares) = {} /\ Voters(commits) = {}
  BY DEF Init, Voters
<1>2. NumVotes(prepares) = 0 /\ NumVotes(commits) = 0
  BY <1>1, FS_EmptySet DEF NumVotes
<1>3. TypeOK /\ VotesMatchDigest /\ PreprepareIsDigest /\ FlagAwaitsCheck
  BY DigestsAssumption DEF Init, TypeOK, Votes, VotesMatchDigest,
     PreprepareIsDigest, FlagAwaitsCheck
<1>4. FlagsBacked /\ QuorumNoticed /\ KeptWasReported
  BY <1>2, ThresholdType DEF Init, FlagsBacked, QuorumNoticed, KeptWasReported
<1> QED
  BY <1>3, <1>4 DEF Inv

LEMMA AddPrePrepareInv ==
  ASSUME Inv, NEW d \in Digests, AddPrePrepare(d)
  PROVE  Inv'
<1> USE DEF Inv
<1>1. CASE d = digest
  <2>1. TypeOK' /\ VotesMatchDigest' /\ PreprepareIsDigest' /\ FlagAwaitsCheck'
    BY <1>1 DEF AddPrePrepare, TypeOK, VotesMatchDigest, PreprepareIsDigest, FlagAwaitsCheck
  <2>2. NumVotes(prepares)' = NumVotes(prepares) /\ NumVotes(commits)' = NumVotes(commits)
    BY <1>1 DEF AddPrePrepare, NumVotes, Voters
  <2>3. preprepare \in Digests => preprepare' = preprepare
    BY <1>1, DigestsAssumption DEF AddPrePrepare, PreprepareIsDigest
  <2>4. FlagsBacked' /\ KeptWasReported'
    BY <1>1, <2>2 DEF AddPrePrepare, FlagsBacked, KeptWasReported
  <2>5. QuorumNoticed'
    <3>1. UNCHANGED <<prepared, committed, preparedCalls, committedCalls, keptPrepares, keptCommits>>
      BY <1>1 DEF AddPrePrepare
    <3>2. /\ preprepare \in preparedCalls => preprepare' \in preparedCalls
          /\ preprepare \in committedCalls => preprepare' \in committedCalls
      BY <2>3 DEF TypeOK
    <3> QED
      BY <2>2, <3>1, <3>2 DEF QuorumNoticed
  <2> QED
    BY <2>1, <2>4, <2>5
<1>2. CASE d # digest
  <2>1. /\ prepares' = Matching(prepares, d) /\ commits' = Matching(commits, d)
        /\ prepared' = KeepPrepared(prepares') /\ committed' = KeepCommitted(commits')
        /\ digest' = d /\ preprepare' = d /\ checks' = TRUE
        /\ keptPrepares' = (preparedCalls # {} /\ NumVotes(prepares') >= 2*F)
        /\ keptCommits' = (committedCalls # {} /\ NumVotes(commits') > 2*F)
        /\ UNCHANGED <<preparedCalls, committedCalls>>
    BY <1>2 DEF AddPrePrepare
  <2>2. prepares \in Votes /\ commits \in Votes
    BY DEF TypeOK
  <2>3. /\ prepares' \in Votes /\ commits' \in Votes
        /\ Cardinality(Voters(prepares')) <= NumVotes(prepares)
        /\ Cardinality(Voters(commits')) <= NumVotes(commits)
        /\ \A r \in Replicas : prepares'[r] \in {d, Nil} /\ commits'[r] \in {d, Nil}
    BY <2>1, <2>2, DropVotes DEF NumVotes
  <2>4. /\ NumVotes(prepares) \in Nat /\ NumVotes(commits) \in Nat
        /\ Cardinality(Voters(prepares')) \in Nat /\ Cardinality(Voters(commits')) \in Nat
    BY VotersFinite DEF NumVotes
  <2>5. /\ prepared' <=> prepared /\ Cardinality(Voters(prepares')) >= 2*F
        /\ committed' <=> committed /\ Cardinality(Voters(commits')) > 2*F
    BY <2>1 DEF KeepPrepared, KeepCommitted, NumVotes
  <2>6. prepared' \in BOOLEAN /\ committed' \in BOOLEAN
    BY <2>1 DEF KeepPrepared, KeepCommitted
  <2>9. /\ keptPrepares' <=> preparedCalls # {} /\ Cardinality(Voters(prepares')) >= 2*F
        /\ keptCommits' <=> committedCalls # {} /\ Cardinality(Voters(commits')) > 2*F
        /\ keptPrepares' \in BOOLEAN /\ keptCommits' \in BOOLEAN
    BY <2>1 DEF NumVotes
  <2>7. TypeOK' /\ VotesMatchDigest' /\ PreprepareIsDigest' /\ FlagAwaitsCheck'
    BY <2>1, <2>3, <2>6, <2>9 DEF TypeOK, VotesMatchDigest, PreprepareIsDigest, FlagAwaitsCheck
  <2>8. FlagsBacked'
    BY <2>5 DEF FlagsBacked, NumVotes
  <2>10. KeptWasReported'
    BY <2>1, <2>9 DEF KeptWasReported
  <2>11. /\ Cardinality(Voters(prepares')) >= 2*F =>
              prepared \/ preparedCalls # {}
         /\ Cardinality(Voters(commits')) > 2*F =>
              committed \/ committedCalls # {}
    BY <2>3, <2>4, ThresholdType DEF QuorumNoticed, KeptWasReported
  <2>12. QuorumNoticed'
    BY <2>1, <2>5, <2>9, <2>11 DEF QuorumNoticed, NumVotes
  <2> QED
    BY <2>7, <2>8, <2>10, <2>12
<1> QED
  BY <1>1, <1>2

LEMMA AddPrepareInv ==
  ASSUME Inv, NEW r \in Replicas, NEW d \in Digests, AddPrepare(r, d)
  PROVE  Inv'
<1> USE DEF Inv
<1>1. /\ prepares' = [prepares EXCEPT ![r] = d]
      /\ prepared' = PreparedBy(prepares')
      /\ checks' = TRUE
      /\ UNCHANGED <<digest, preprepare, commits, committed, preparedCalls, committedCalls,
                     keptPrepares, keptCommits>>
  BY DEF AddPrepare
<1>2. digest # Empty => d = digest
  BY DEF AddPrepare, Acceptable
<1>3. /\ prepares' \in Votes
      /\ \/ Cardinality(Voters(prepares')) = NumVotes(prepares)
         \/ Cardinality(Voters(prepares')) = NumVotes(prepares) + 1
  BY <1>1, AddVote DEF TypeOK, NumVotes
<1>4. NumVotes(prepares) \in Nat /\ Cardinality(Voters(commits')) = NumVotes(commits)
  BY <1>1, VotersFinite DEF NumVotes
<1>5. /\ prepared' <=> prepared \/ Cardinality(Voters(prepares')) = 2*F
      /\ prepared' \in BOOLEAN
  BY <1>1 DEF PreparedBy, NumVotes, TypeOK
<1>6. TypeOK' /\ PreprepareIsDigest' /\ FlagAwaitsCheck'
  BY <1>1, <1>3, <1>5 DEF TypeOK, PreprepareIsDigest, FlagAwaitsCheck
<1>7. VotesMatchDigest'
  BY <1>1, <1>2 DEF VotesMatchDigest, TypeOK, Votes
<1>8. FlagsBacked'
  BY <1>1, <1>3, <1>4, <1>5, ThresholdType DEF FlagsBacked, NumVotes
<1>9. QuorumNoticed' /\ KeptWasReported'
  BY <1>1, <1>3, <1>4, <1>5, ThresholdType DEF QuorumNoticed, KeptWasReported, NumVotes
<1> QED
  BY <1>6, <1>7, <1>8, <1>9

LEMMA AddCommitInv ==
  ASSUME Inv, NEW r \in Replicas, NEW d \in Digests, AddCommit(r, d)
  PROVE  Inv'
<1> USE DEF Inv
<1>1. /\ commits' = [commits EXCEPT ![r] = d]
      /\ committed' = CommittedBy(commits')
      /\ checks' = TRUE
      /\ UNCHANGED <<digest, preprepare, prepares, prepared, preparedCalls, committedCalls,
                     keptPrepares, keptCommits>>
  BY DEF AddCommit
<1>2. digest # Empty => d = digest
  BY DEF AddCommit, Acceptable
<1>3. /\ commits' \in Votes
      /\ \/ Cardinality(Voters(commits')) = NumVotes(commits)
         \/ Cardinality(Voters(commits')) = NumVotes(commits) + 1
  BY <1>1, AddVote DEF TypeOK, NumVotes
<1>4. NumVotes(commits) \in Nat /\ Cardinality(Voters(prepares')) = NumVotes(prepares)
  BY <1>1, VotersFinite DEF NumVotes
<1>5. /\ committed' <=> committed \/ Cardinality(Voters(commits')) = 2*F + 1
      /\ committed' \in BOOLEAN
  BY <1>1 DEF CommittedBy, NumVotes, TypeOK
<1>6. TypeOK' /\ PreprepareIsDigest' /\ FlagAwaitsCheck'
  BY <1>1, <1>3, <1>5 DEF TypeOK, PreprepareIsDigest, FlagAwaitsCheck
<1>7. VotesMatchDigest'
  BY <1>1, <1>2 DEF VotesMatchDigest, TypeOK, Votes
<1>8. FlagsBacked'
  BY <1>1, <1>3, <1>4, <1>5, ThresholdType DEF FlagsBacked, NumVotes
<1>9. QuorumNoticed' /\ KeptWasReported'
  BY <1>1, <1>3, <1>4, <1>5, ThresholdType DEF QuorumNoticed, KeptWasReported, NumVotes
<1> QED
  BY <1>6, <1>7, <1>8, <1>9

LEMMA CheckCallbacksInv ==
  ASSUME Inv, CheckCallbacks
  PROVE  Inv'
<1> USE DEF Inv
<1>1. /\ prepared' = StillPending(prepared) /\ committed' = StillPending(committed)
      /\ preparedCalls' = preparedCalls \cup Reported(prepared)
      /\ committedCalls' = committedCalls \cup Reported(committed)
      /\ UNCHANGED <<digest, preprepare, prepares, commits, keptPrepares, keptCommits>>
      /\ checks' = FALSE
  BY DEF CheckCallbacks
<1>2. CASE preprepare = Nil
  <2>1. prepared' = prepared /\ committed' = committed
    BY <1>1, <1>2 DEF StillPending, Reportable, TypeOK
  <2>2. preparedCalls' = preparedCalls /\ committedCalls' = committedCalls
    BY <1>1, <1>2 DEF Reported, Reportable
  <2>3. TypeOK' /\ VotesMatchDigest' /\ PreprepareIsDigest' /\ FlagAwaitsCheck'
    BY <1>1, <1>2, <2>1, <2>2 DEF TypeOK, VotesMatchDigest, PreprepareIsDigest, FlagAwaitsCheck
  <2>4. FlagsBacked' /\ QuorumNoticed' /\ KeptWasReported'
    BY <1>1, <2>1, <2>2 DEF FlagsBacked, QuorumNoticed, KeptWasReported, NumVotes, Voters
  <2> QED
    BY <2>3, <2>4
<1>3. CASE preprepare # Nil
  <2>1. prepared' = FALSE /\ committed' = FALSE
    BY <1>1, <1>3 DEF StillPending, Reportable, TypeOK
  <2>2. /\ preparedCalls' \in SUBSET Digests /\ committedCalls' \in SUBSET Digests
        /\ preparedCalls \subseteq preparedCalls' /\ committedCalls \subseteq committedCalls'
        /\ prepared => preprepare \in preparedCalls'
        /\ committed => preprepare \in committedCalls'
    BY <1>1, <1>3 DEF Reported, Reportable, TypeOK
  <2>3. TypeOK' /\ FlagsBacked' /\ VotesMatchDigest' /\ PreprepareIsDigest' /\ FlagAwaitsCheck'
    BY <1>1, <1>3, <2>1, <2>2 DEF TypeOK, FlagsBacked, VotesMatchDigest, PreprepareIsDigest,
       FlagAwaitsCheck
  <2>4. QuorumNoticed' /\ KeptWasReported'
    BY <1>1, <2>2 DEF QuorumNoticed, KeptWasReported, NumVotes, Voters
  <2> QED
    BY <2>3, <2>4
<1> QED
  BY <1>2, <1>3

LEMMA NextInv == Inv /\ [Next]_vars => Inv'
<1> SUFFICES ASSUME Inv, [Next]_vars PROVE Inv'
  OBVIOUS
<1>1. CASE UNCHANGED vars
  BY <1>1 DEF vars, Inv, TypeOK, FlagsBacked, VotesMatchDigest, PreprepareIsDigest,
     QuorumNoticed, KeptWasReported, FlagAwaitsCheck, NumVotes, Voters
<1>2. CASE Next
  BY <1>2, AddPrePrepareInv, AddPrepareInv, AddCommitInv, CheckCallbacksInv DEF Next
<1> QED
  BY <1>1, <1>2

-----------------------------------------------------------------------------
\* Types, and with them that no callback is built from a nil pre-prepare.
THEOREM TypeCorrect == Spec => []TypeOK
<1>1. Inv => TypeOK
  BY DEF Inv
<1> QED
  BY <1>1, InitInv, NextInv, PTL DEF Spec

\* For any number of replicas: raised flags are covered by votes.
THEOREM CertificatesSound == Spec => []FlagsBacked
<1>1. Inv => FlagsBacked
  BY DEF Inv
<1> QED
  BY <1>1, InitInv, NextInv, PTL DEF Spec

\* The votes counted under a known digest are for that digest.
THEOREM VotesCounted == Spec => []VotesMatchDigest
<1>1. Inv => VotesMatchDigest
  BY DEF Inv
<1> QED
  BY <1>1, InitInv, NextInv, PTL DEF Spec

\* For any number of replicas and any order of arrivals: with no goroutine
\* pending, a quorum in the map has been reported for the digest of the
\* pre-prepare of now, unless it outlived a report for another digest.
THEOREM NoLostCallbackThm == Spec => []NoLostCallback
<1>1. Inv => NoLostCallback
  BY DEF Inv, NoLostCallback, QuorumNoticed, FlagAwaitsCheck
<1> QED
  BY <1>1, InitInv, NextInv, PTL DEF Spec

\* What a callback is started with is what its quorum voted for.
THEOREM CallbackJustifiedThm == Spec => CallbackJustified
<1> DEFINE Justified ==
       /\ \A d \in preparedCalls' \ preparedCalls :
            d # Empty => Cardinality({r \in Replicas : prepares[r] = d}) >= 2*F
       /\ \A d \in committedCalls' \ committedCalls :
            d # Empty => Cardinality({r \in Replicas : commits[r] = d}) > 2*F
<1>1. Inv /\ [Next]_vars => [Justified]_vars
  <2> SUFFICES ASSUME Inv, Next PROVE Justified
    OBVIOUS
  <2>1. CASE UNCHANGED <<preparedCalls, committedCalls>>
    BY <2>1
  <2>2. CASE CheckCallbacks
    <3>1. preparedCalls' \ preparedCalls \subseteq Reported(prepared)
      BY <2>2 DEF CheckCallbacks
    <3>2. committedCalls' \ committedCalls \subseteq Reported(committed)
      BY <2>2 DEF CheckCallbacks
    <3>3. ASSUME NEW d \in Reported(prepared), d # Empty
          PROVE  Cardinality({r \in Replicas : prepares[r] = d}) >= 2*F
      <4>1. prepared /\ d = digest /\ d # Nil
        BY <3>3 DEF Reported, Reportable, Inv, PreprepareIsDigest
      <4>2. Voters(prepares) = {r \in Replicas : prepares[r] = d}
        BY <3>3, <4>1 DEF Voters, Inv, VotesMatchDigest
      <4> QED
        BY <4>1, <4>2 DEF Inv, FlagsBacked, NumVotes
    <3>4. ASSUME NEW d \in Reported(committed), d # Empty
          PROVE  Cardinality({r \in Replicas : commits[r] = d}) > 2*F
      <4>1. committed /\ d = digest /\ d # Nil
        BY <3>4 DEF Reported, Reportable, Inv, PreprepareIsDigest
      <4>2. Voters(commits) = {r \in Replicas : commits[r] = d}
        BY <3>4, <4>1 DEF Voters, Inv, VotesMatchDigest
      <4> QED
        BY <4>1, <4>2 DEF Inv, FlagsBacked, NumVotes
    <3> QED
      BY <3>1, <3>2, <3>3, <3>4
  <2> QED
    BY <2>1, <2>2 DEF Next, AddPrePrepare, AddPrepare, AddCommit
<1> QED
  BY <1>1, InitInv, NextInv, PTL DEF Spec, CallbackJustified
=============================================================================
