# A TLA+ model of AdaptiveLeader's PBFT

The program is a PBFT implementation in Go: replicas (`pbft/`) that order
client operations on a small key-value state, a view changer
(`pbft/view_changer/`) with a pluggable leader election, a client with an HTTP
front (`client/`), and a load tester that disables and enables replicas while it
measures. These modules model the replica, its view changer, the
way messages reach it and the client, check them with TLC and prove their main
properties with TLAPS. All paths below are relative to the
repository (`src/`).

## Inventory

| Component | State | Operations | Talks to |
|---|---|---|---|
| Transaction state, `pbft/transaction_state.go` | per sequence number and view: digest, pre-prepare, two vote maps, two flags | `AddPrePrepare`, `AddPrepare`, `AddCommit`, `AddToStore`, `checkCallbacks` | called by the node from goroutines; calls the node back from goroutines |
| Store, `pbft/store.go` | requests and committed requests by number, key-value state, `lastAppliedSequenceNumber`, checkpoint votes, stable checkpoint | `AddRequests`, `Commit`, `AddCheckpointRequest`, `stabilizeCheckpoint`, `UpdateLastStableCheckpoint` | called by the node; read by the view changer without a lock |
| Node, `pbft/node.go` | `ViewData` (view, leader, view-change flag, last number, requests in progress, transaction states), pending queue, enabled flag | the `Run` loop with one handler per message; the two transaction callbacks; `GoToViewChange`, `HandleNewViewRequest`, `GetCurrentPreparedRequests` for the view changer | sender, store, transaction states, view changer |
| View changer, `pbft/view_changer/view_changer.go` | view number, flag, timer and timeout, votes per view, elected leader | timer, `handleViewChange`, `handleNewView`, `voteViewChange`, `startLeaderElection`, `tryAnnounceAsLeader`, `RequestExecuted` | node, store, leader election, its own sender |
| Leader election, `pbft/leader_election/round_robin.go` | none | `GetLeader`, `FindLeaderForView` | node and view changer |
| Service, `pbft/service.go` | enabled flag | one RPC per message, `Enable`, `Disable` | node, over unbuffered channels |
| Sender, `pbft/sender.go` | client connections, a worker pool | `Broadcast`, `SendRPCToPeer` (with retries), `SendRPCToClient` | peers, clients |
| View-change sender, `pbft/view_changer/sender.go` | client connections | `Broadcast`, one peer after the other, no retries | peers' view changers |
| Client, `client/` | responses and callback channels by time stamp | `SendRequest`, `Response`, HTTP handlers | replicas |
| Load tester, commands, configuration, monitoring | counters, wiring | | |

What is hard here:

* **Concurrency.** `Run` handles one message at a time, but almost every handler
  leaves goroutines behind, transaction states call back from goroutines of
  their own, and the view changer changes the node's view from two more.
  `n.mu` covers only the map accesses marked `MUTEX`; the checks before them
  are not protected. `UpdateLastStableCheckpoint` takes no lock at all. In the view
  changer only `viewId` is atomic; the leader, the flag and the votes are shared
  by the timer, the message loop, votes and elections. The client counts a
  response under one lock and acts on the count under another.
* **Ordering.** Votes overtake their pre-prepare, commits overtake the storing
  of their requests, checkpoints overtake commits, a new view overtakes
  everything, responses overtake the return of the request.
* **Delivery.** The sender retries a call that timed out though it arrived, and
  gives up after `MaxRetries`: messages are lost and duplicated. `Enable` and
  `Disable` signal on unbuffered channels that `Run` may not be listening to.
* **Restart.** A replica that starts or is enabled again asks for status and
  rebuilds its view data from each answer.

What should hold, component by component: a certificate is reported exactly when
it is there (transaction state); operations are executed once, in order, as they
committed, and skipped only under a stable checkpoint (store); the outstanding bound
holds, a committed request gives its slot back, no entry is beyond the high water mark,
messages stay in their view (node); a new view carries what its voters certify, a leader
with a quorum announces, the node ends in the newest view (view changer); a message let
through is taken, service and node agree on being enabled (transport); a result handed
out came under F + 1 ids and none that did is lost (client). Where the code falls short
of one of these, the property names the exception, and the list of hazards in
`PROJECT.json` the line.

## Modules

| Module | Content |
|---|---|
| `TransactionState` | one transaction state: an action per method, `CheckCallbacks` for the goroutines |
| `ExecutionLog` | abstract specification: a log executed in order, with jumps to stable checkpoints |
| `Store` | one replica's store; `Log == INSTANCE ExecutionLog` is its refinement mapping |
| `Node` | `EXTENDS Store`: the node's handlers composed with the store's actions |
| `ViewChange` | the view changer, with the view and the flag of the node it drives |
| `Transport` | `SendRPCToPeer`, the methods of `Service` and the select loop of `Run` |
| `Client` | one request: `SendRequest`, the `Response` calls, the waiting HTTP handler |
| `MCTransactionState`, `MCStore`, `MCNode`, `MCViewChange`, `MCTransport`, `MCClient` | values for the constants, symmetry |
| `TransactionStateProofs`, `StoreProofs`, `NodeProofs`, `ViewChangeProofs`, `TransportProofs`, `ClientProofs` | theorems |
| `CheckpointProofs` | theorems on `Store` about votes and the state, on top of `StoreProofs` |
| `NumberLemmas` | least and greatest elements of sets of numbers, for the proofs of two modules |

Names follow the source. Where a method is one action it has the method's name;
where it is cut, the pieces are named for what they do:

* `Store.Commit` is `CommitStart` (record), `CommitEnterLoop`, `CommitApply`
  (execute, perhaps make a checkpoint), `CommitAdvance`, `CommitReturn`; it is
  cut where it reads and writes `lastAppliedSequenceNumber`, the variable that
  `UpdateLastStableCheckpoint` (`UpdateStart`, `UpdateCheck`, `UpdateStable`,
  `UpdateTest`, `UpdateWrite`) writes without the lock. While `pc` is not
  `"idle"` the lock is taken and no other locked operation runs.
* A handler of `Node` is cut where it takes `n.mu`, releases it or starts a
  goroutine. `run` is the place and the message of the `Run` goroutine, so
  messages are handled one at a time; `storing`, `starting`, `ownCommits`,
  `verifiedCommits` and `own` are goroutines started and not yet run.
  `committing` is the number for which `handleCommittedTxn` holds `n.mu`
  across `Store.Commit`. The checks a handler makes before its lock (role, view-change
  flag, view, water marks) are one step; what matters to the runs is that they
  are a step apart from the locked section.
* `Node.settled` holds the numbers of which no transaction state made so far will call
  `handleCommittedTxn` again. `checkCallbacks` fires at an equality, so it may fire once
  or more often; `handleCommittedTxn` therefore may or may not put its number there, and
  a number leaves the set when a transaction state is made for it (`NewTransactionStates`).
  `reentered` is history: the settled numbers whose pre-prepare came again.
* `ViewChange.tasks` holds the goroutines of the view changer other than the
  timer: whose (the message loop, a vote, an election), where, and for which
  view. `handleViewChange` is `ReceiveViewChange` or `voteViewChange` (store the vote), then
  `CheckLeader` or `tryAnnounceAsLeader`; an election is `ElectionChecks`,
  `ElectionSets`, `tryAnnounceAsLeader`; `handleNewView` is `Adopt`, then
  `EnterNode` for the node's part. `Preprepares` is `createPreprepareMessages`, and
  allows every outcome the order of Go's map iteration allows. `newView`, `entered` and
  `overwritten` are history, which no action of the code reads: the own new view until it is
  adopted, the views for which one was handled, and whether an election of a view other than the current
  one stored another leader over the current view's since the last timer.
* In `Transport`, `method[m][k]` is the gRPC method run by the k-th attempt of
  call `m`. A node disabled by default starts in `"leaving"`: it broadcasts its `GetStatus` before it
  waits for an `Enable`. `Enable` and `Disable` are a signal (`EnablePut`, `DisablePut`), sent only if
  `Run` is at the other end, and an assignment (`ToggleSets`).
* In `Client` each `Response` is cut between its three locks: `Lookup`,
  `AddResponse`, `CountResponses`, `ChooseResponse`, `SendResult`.

Data are abstracted to what the properties tell apart. A message of the
transaction state is its digest. A batch is one operation, since the primary
puts one request in a pre-prepare; `Proposals` says which operations the pre-prepares for a
number may carry, since two may differ, and `Agreed` which one the peers execute. Keys are dropped,
since clients leave the key empty. Decimal strings are kept as what they denote, with one string that does
not parse; `StateAfter` is the state an uninterrupted execution of `Agreed` reaches, and what the peers of
run `store` report. A checkpoint proof is its length and its voters, because the code
counts messages and the question is how many replicas they come from. A
view-change vote is what `Content` says of it: a stable checkpoint and prepared
entries, each a number, a view, a digest and the replicas in its proof.

`Node` replaces the votes inside a transaction state by "the callback may run once
the pre-prepare is there", the guarantee of `TransactionState`, and replaces the
cluster by "any message of the current view may arrive". Its actions are conjunctions with the
store's, so whatever the node does without status responses is allowed by the store's own
specification (lemma `NodeDrivesStore`), and what is proved of every behaviour of `Store` holds in the
node. `Node` takes any new view from `Announcers`;
`ViewChange` shows what such a view may contain: `NewViewFits` is the form in which
`HandleNewViewRequest` of `Node` takes it, an interval above the lowest stable checkpoint.

The client's environment answers under any id with any result: `Response` takes the replica id from
the message, and nothing ties it to the sender.

### Bounds

`MaxSeq` (sequence numbers), `MaxView` (views), `MaxGoroutines` and `MaxTasks` (goroutines
pending at once) are bounds of the model, and so are the constant `Copies` (how often a
peer's call arrives), `Followed` (the numbers `settled` may hold), `Slots` (`Response` calls at once)
and the small values of the configuration fields.

* Transaction state: four replicas (F = 1) and the two digests the code
  produces, `""` and `"nil"`. Two digests give conflicts, four replicas one vote
  beyond each threshold, so equality and order matter. No other bound: the state space
  is finite.
* Store: four numbers, a checkpoint every two: a replica can be behind,
  at and beyond a checkpoint while the other is open. One peer's votes arrive twice, another's once, the
  third one is silent: with the own vote that is one more than the quorum, or a quorum of two voters. Number 2
  has two proposals, the others one, so a request can be overwritten before and after it commits.
* Node: two numbers, one outstanding request, so the bound is always in reach.
  `MCNodeStable` has a checkpoint at each number, two goroutines pending
  at once, and starts in a view the replica leads or in one it does not;
  messages can be below, at and above the stable checkpoint and the high water mark; `settled` follows one
  number. `MCNodeViews` has a
  checkpoint at the second number, two views and status responses, but no
  checkpoint votes of peers, and does not follow `settled`; a new view can carry none, one or two pre-prepares. The
  theorems cover the combinations.
* View change: four replicas, two views after view 0, three numbers, three
  goroutines. The votes are those of one history, told in `MCViewChange`: a
  stable checkpoint at one voter only, a gap, a request prepared in view 0 and again
  in view 1, a voter that missed view 1, a certificate that lost its
  prepares, one without its pre-prepare. Every quorum for view 2 can occur.
* Transport: one message with up to three attempts, so that a copy can be
  late twice, and one place in the request channel.
* Client: four replicas, answers under three ids, one more than F + 1, two results, two
  calls at once: enough to overlap. Each id may come with either result any number of times.

The largest runs, `node_stable` and `node_views` (3.9 million distinct states each),
`view_change` (2.6 million), `store` (1.2 million) and `txn` (0.3 million), take one to three
minutes with two workers; the others take seconds.

### Runs

| Run | Shows |
|---|---|
| `txn` | flags and callbacks stay tied to a quorum in the vote maps (`FlagsBacked`, `VotesMatchDigest`, `CallbackJustified`); a quorum in a map has been reported for the digest of the pre-prepare there (`NoLostCallback`), and a complete certificate eventually is. The exception: a pre-prepare with another digest, after a report, that keeps a quorum of votes; the count does not meet the equality again and the new certificate is not reported |
| `store` | each number executed once and in order, skipped only under a stable checkpoint, as it committed unless its request was overwritten after that; duplicates cannot make a checkpoint stable with fewer than F + 1 voters; the state follows the applied prefix over operations that do not parse and over jumps to checkpoints, with three exceptions (`StateFollows`); the refinement of `ExecutionLog` |
| `node_stable` | the normal case of either role: no entry beyond a backup's high water mark, a commit misses its request only in the window the code leaves open, no number is assigned twice, `handlePrepareRequest` misses its own entry only under a stable checkpoint, a number that will not commit again holds a slot only if its pre-prepare was repeated (`SlotLostOnlyIfRepeated`) |
| `node_views` | the types and the outstanding bound across view changes and status responses, with a replica that becomes primary; the pending queue is never used |
| `view_change` | a request that 2F + 1 replicas report in every vote they may cast is in the new view or under a voter's stable checkpoint (`CertifiedSurvives`), the new view has no gap and runs from a voter's checkpoint to the highest number reported (`NewViewFits`), a leader that has its quorum has announced when all goroutines are through, unless an older election overwrote it (`NoLostAnnouncement`), the node ends in the newest view it was told of (`NodeInNewestView`) |
| `transport` | service and node disagree only after an `Enable` that came before `Run` waited for it, at its start or after a `Disable`; a waiting message is taken; repeated `Enable` calls bring the node back |
| `client` | a result handed out came under F + 1 ids; one that did is lost only when two calls counted each other's response; a call blocks for ever only if the HTTP handler has left |

Two of these properties say less than their names may suggest. `SlotLostOnlyIfRepeated` does not say that no slot
leaks: a pre-prepare that comes again after its commit takes a slot that only a checkpoint or a new view
gives back, and `Run` drops requests meanwhile. `CertifiedSurvives` is about one
view change. A request that committed is not safe over two: the node drops its transaction states at every new
view and reports only what it prepared since, so a request of view 0 that is not prepared again in view 1
is in no vote for view 2, and `CertifiedSurvives` does not speak of it.

The node and view-change runs turn deadlock checking off because a panic ends the
process; the client's, because a request that was answered or given up has nothing left to do. `Transport` has no
final state and is checked for deadlock.

### Fairness

Three specifications state fairness, each only of goroutines that can run.

* `txn`: weak fairness of `CheckCallbacks`: a goroutine that was started is
  scheduled and gets the mutex, which no other goroutine keeps.
* `client`: weak fairness of `RequestReturns`, whose context expires, and of the steps of
  each `Response`. None for the arrival of answers, nor for the HTTP handler's time-out.
* `transport`: weak fairness of `ToSelect` (a handler ends), `Park` and
  `ToggleSets`; strong fairness of `TakeInput`, because Go's select picks at
  random among the channels that are ready and blocked senders queue up, so
  a waiting method is not passed over for ever. Weak fairness would not do: `Run` leaves its
  select again and again for requests.

No fairness is put on messages, which the sender may lose;
therefore no eventual commit and no eventual view change is claimed.

### Disagreements with comments, logs and tests

Five runs expect a violation.

| Run | What the trace shows |
|---|---|
| `store_rollback` | a replica has executed past a checkpoint when it becomes stable; the state goes back to the checkpoint's and later operations are lost |
| `store_restart` | the unlocked update of a status response takes `lastAppliedSequenceNumber` back under a running `Commit`, which executes again |
| `node_panic` | a checkpoint removes the transaction state between the unlock and the second lookup in `handlePrepareRequest` |
| `node_stale_view` | a new view between check and lock lets a message of the old view in |
| `node_fresh` | after a new view with two pre-prepares the primary assigns a number already in use |

## Proofs

Each holds for every value of the constants under the named assumptions:
at least four replicas (with fewer, F is 0 and the threshold 2F of `AddPrepare` is never
met), a positive checkpoint interval and outstanding bound, a leader function that yields replicas,
finitely many ids at the client, and distinct special values.

* `TransactionStateProofs`. The invariant `Inv` adds three facts to the checked ones:
  the stored pre-prepare is the known digest (`PreprepareIsDigest`), a quorum in a
  map is still flagged, reported for the pre-prepare of now, or left over from a report for another digest
  (`QuorumNoticed`), and a flag that can be reported has a check on its way (`FlagAwaitsCheck`). `NoLostCallback` is not
  inductive alone: a vote beyond the threshold does not raise the flag again, so the
  proof needs that the flag or the report was there before. Proved: `TypeOK`,
  `FlagsBacked`, `VotesMatchDigest`, `NoLostCallback`, `CallbackJustified`.
* `StoreProofs`. The invariant adds `MapsInStep` (a number recorded as committed still has a stored
  request, the same unless it was replaced), `LoopFact` (what `pc` says of the number being
  executed) and `ExecutedApplied` (nothing beyond the applied prefix is in the log).
  Proved: every property of run `store` but the two of `CheckpointProofs`, and `StableWithinApplied`; the refinement
  `StoreImplementsLog` is among them.
  They hold for any `Proposals`, so also when two views, or a faulty primary, give a number two requests.
* `CheckpointProofs`. `StableBackedByCorrect`, assuming that a call arrives at most twice
  (`AtMostTwice`; `max_retries` is 2 in `resources/pbft.yaml`). The code counts messages and not senders,
  so the invariant (`VotesBounded`) bounds the length of a proof by its voters, each once more if its vote
  has come twice, and `OwnApplied`, that the own vote is cast once per checkpoint, keeps the replica
  itself from being counted again. 2F + 1 messages then come from F + 1 replicas. With three
  deliveries the bound fails, and so would the property.
  `StateFollows`, assuming that peers report what their log leads to (`PeersAgree`, as the
  run does): the checkpoint that becomes stable was reported by a peer
  (`VotesBacked`), and its digest is then `StateAfter` of its number. `StateAfter` is recursive; that the
  recursion has a solution is proved by the shortest prefix without one (`ExecutionExists`). The
  jumps it excepts (`MayLag`) are the ones the code leaves wrong or stale: back to a checkpoint the
  replica has passed (run `store_rollback`), and forward to one below which nothing was recorded, when
  `stabilizeCheckpoint` does not reset the state. The third exception (`Deviates`) is the execution of
  another operation than the agreed one.
* `NodeProofs`. `NodeInv` adds `RoomKept`: between the check of `Run` and the assignment of a
  number nothing raises the count, because only `Run` does, and view changes and commits lower it; and a
  pre-prepare overtaken by a view this replica leads finds that view empty.
  Proved under `NodeRestartSpec`, that is with view changes and status
  responses: `NodeTypeOK`, `OutstandingBound`, `PendingStaysEmpty` and
  `SlotLostOnlyIfRepeated`. Under `StableViewSpec`: `BelowHighWater`, which a new view may
  break, since it carries pre-prepares the replica did not choose; `NilOnlyInWindow`, by
  `StoredInv` (the request of a pre-prepare is stored, covered by the stable checkpoint, or somebody is
  on the way to store it); `FreshNumbers`, by `FreshInv` (a primary takes in no pre-prepare but its
  own), which a new view breaks too (run `node_fresh`); and `MissingOnlyIfStable`. Without status
  responses, by lemma `NodeDrivesStore` and `StoreProofs`, `NodeImplementsLog`: the store inside a node refines
  `ExecutionLog`, through view changes; and `NodeCheckpointsBacked`, the same for `StableBackedByCorrect`.
  `StateFollows` is not carried over: a view change may give a number another operation, for which its third
  exception would stand. Status responses break the refinement (run `store_restart`).
* `ViewChangeProofs`. The invariant adds that recorded votes are votes their
  sender may cast (`VotesTyped`), that the own new view is computed from a
  quorum of them (`NewViewOK`), and that a view newer than the node's is on its way to it
  (`NewestPending`). `CertifiedSurvives` then follows by quorum intersection: the
  2F + 1 replicas that report a certificate whatever they vote and the 2F + 1 voters share one,
  whose entry has the highest view. This needs `Cardinality(Replicas) <= 4*F + 1`, an
  assumption of the theorem and not of the module: `F()` rounds down while quorums are
  2F + 1, so with six replicas two quorums may meet nowhere. `NewViewExists` shows that
  `Preprepares` has a member for every set of votes, so that announcing is never stuck on it;
  `NewViewFits` needs that a quorum has a lowest checkpoint and a highest number.
  `NoLostAnnouncement` rests on `AnnouncementPending`: while the view of this leader is not
  entered, either its election still has a step to take, or the leader is stored and any quorum of votes
  has a goroutine that has not counted it yet. An election or a vote that finds the other's write
  missing leaves its successor a step, which is the argument a test of the race would
  hardly make.
* `TransportProofs`. `Overtaken` says when an enabled service can face a parked node, for each stage of a
  toggle. Proved: `TypeOK`, with the bound on the attempts, and `DeafOnlyIfOvertaken`.
* `ClientProofs`. `CallOK` is what each stage of a call knows: before the choice, that some group has
  F + 1 members; after it, that the group of the chosen value has, although groups grow in between.
  `Noticed` says that a group of F + 1 has been, or will be, counted by some call unless calls
  overlapped. Proved: `TypeOK`, `AnswerBacked`, `LostOnlyOnOverlap`.
  That a backed answer is right needs more than at most F faulty replicas: that no more than F ids are used
  for wrong results.

Only model-checked: the liveness properties, which the prover does not reach: `PreparedReported` and
`CommittedReported` (`txn`), `WaitingIsTaken` and `RepeatedEnableWorks` (`transport`), `ResponseReturns`
(`client`). Every invariant and action property of a passing run is a theorem.
The one recursive definition, `StateAfter`, is a function; where a proof would use induction on numbers it
takes the least counterexample (`NumberLemmas`), because the library's induction theorems take an operator
as a parameter.

## Not modelled, and the plan

1. A cluster module: four replicas' transaction states and view changes over an
   unreliable network, with agreement on the operation at each number as the invariant. The unset digest
   (`pbft/node.go:213`) and the primary's missing high water check belong here. So does what
   becomes of a request that committed over several view changes: `ViewChange` speaks of what replicas report in
   one, which is the interface such a module needs.
2. The view-change sender. Its deliveries are the environment of `ViewChange`, lost, repeated
   and reordered at will. One defect of it is not visible there: in cluster mode it adds 1000 to the port of
   the address entry that `GetAddress` shares with the node's own sender
   (`pbft/view_changer/sender.go:53`).
3. `SendRPCToClient` with its worker pool, called under `n.mu`.
4. `handleStatusRequest`, which only reads the store, and client replies.

Races on plain Go maps (`viewChanges` is written by the message loop and by votes) end
the process or do no harm; the modules have the harmless outcome. There is no liveness of a
view change: no replica joins one before its own timer fires, so it would need
assumptions on the timeouts of several replicas.

Left out altogether: the load tester (its `Enable` and `Disable` calls are the toggles of
`Transport`), metrics, logging, configuration loading, command line, HTTP pages, gRPC set-up, generated code and
dashboards, which keep no state that the protocol reads.
