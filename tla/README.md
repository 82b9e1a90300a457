# Verification of babble

TLA+ specifications of [babble](../src/README.md), a consensus middleware that
projects a hashgraph onto a blockchain. Paths such as `hashgraph/hashgraph.go`
are relative to `src/src/`, and `docs/` to `src/`.

Contents: 1 the system, 2 modules, 3 runs, 4 fairness, 5 where the code and its
documentation disagree, 6 proofs, 7 not modelled.

## 1. The system

A babble node gossips *events* with its peers. An event names two parents, the
last event of its creator and the last event it received, so that all events
form a graph (DAG). Every node runs the same algorithm on its copy of the graph:
it gives events rounds, elects famous witnesses, orders the events and commits
them to the application as blocks. Nodes never exchange votes, and they insert
events in different orders; all that is computed must come out the same.

| Component | Operations | What makes it correct |
|---|---|---|
| Peer-sets (`peers/peer_set.go`, `hashgraph/caches.go`) | super-majority, trust count, add, remove, set, get | a round's peer-set never changes once used |
| Consensus engine (`hashgraph/hashgraph.go`, `roundInfo.go`, `event.go`) | InsertEvent, DivideRounds, DecideFame, DecideRoundReceived, ProcessDecidedRounds, Reset, Bootstrap | nodes decide the same fame, frames and blocks, and revise nothing |
| Core and gossip (`node/core.go`, `node.go`, `node_rpc.go`) | pull, push, sync, addSelfEvent, eventDiff | no fork; a transaction is in one event, which spreads |
| Membership (`node/core.go`, `promise.go`) | join, leave, processAcceptedInternalTransactions | nodes count the same peers in every round |
| Fast-forward (`node/node.go`, `core.go`) | getBestFastForwardResponse, CheckBlock, Restore, Reset | a reset node computes what the others compute |
| Node life cycle (`node/node.go`, `state/state.go`) | Run, Suspend, Leave, Shutdown, GoFunc | pending work is done before the store closes |
| Control timer, peer selector (`node/control_timer.go`, `peer_selector.go`) | tick, reset; next, updateLast | every peer is gossiped with again and again |
| Stores (`inmem_store.go`, `badger_store.go`, `common/rolling_index.go`, `lru.go`, `babble/babble.go`) | get, set, evict, roll, reset, restart | caches forget without lying; a restart continues the same history |
| Transport (`net/net_transport.go`) | pool, request, response, close | a response belongs to its request |
| Application proxy (`proxy/socket/app`) | commit and snapshot with timeout and retry | what is acknowledged was applied |

**Interaction.** The control timer ticks and `babble` picks a peer and launches
a gossip goroutine. It pulls through the transport, takes `coreLock` and calls
`core.sync`, which inserts events one at a time. Each insertion runs
`Hashgraph.InsertEventAndRunConsensus` against the store and may end in
`core.commit`, the call of the application through a proxy. The receipts of a
block change the peer-set that the engine uses six rounds later, and answer the
promises that join and leave requests wait for. A node that is far behind
fast-forwards instead; a node that restarts loads its database.

**What is hard.** Any two nodes insert in different orders; a round may be
decided before an earlier one, and a witness may come after its round was
decided; peer-sets change during elections; caches are never invalidated.
Around the engine: goroutines that check and then act, timeouts and retries of
what was already done, lost messages, crashes between two writes, options that
change between two runs. `PROJECT.json` lists these hazards with their lines.

## 2. Modules

| Module | Models |
|---|---|
| `PeerSets`, `Voting` | peer-sets and the arithmetic of one vote; shared by the two below |
| `FameElection` | the election of one witness, for all graphs and all nodes at once |
| `Hashgraph`, `HashgraphProperties` | the engine of each node on graphs of events, and the commit callback; its properties and reference definitions |
| `FastForward` | fast-forward and `Reset`, composed with `Hashgraph` |
| `Gossip` | pull and push, heads, pools and the core lock |
| `Membership` | join and leave requests, promises, target and removal rounds |
| `NodeState` | the state machine of `Run`, `GoFunc`, `Suspend`, `Leave`, `Shutdown` |
| `ControlTimer` | the heartbeat and those who reset it |
| `PeerSelector` | the loop of `babble`: selection of peers, composed with `ControlTimer` |
| `EventLog`, `RollingIndex` | an abstract log, and the cache that implements it |
| `Store` | caches, database, coordinates and restarts with any options |
| `Transport` | pooled connections and the handler at their other end |
| `AppProxy` | the socket client, the application's server and its state |
| `ComponentProofs` | theorems about `FameElection`, `RollingIndex`, `NodeState` and `Transport` |
| `NodeProofs` | theorems about `Membership`, `ControlTimer` and `AppProxy` |
| `HashgraphProofs`, `HashgraphOrderProofs`, `HashgraphReceptionProofs` | theorems about `Hashgraph`, each module extending the one before |
| `FastForwardProofs`, `GossipProofs`, `StoreProofs` | theorems about the module each is named after; the first extends `HashgraphOrderProofs` |
| `MCFameElection`, `MCHashgraph`, `MCFastForward`, `MCGossip`, `MCMembership`, `MCStore` | instances for TLC |

Operators carry the names of the methods they translate. An operator whose name
ends in `Mutant` is the definition before which it stands with a plausible
mistake; `PROJECT.json` says which property notices it. No specification uses
them. Where one module of proofs is about several specifications, these have
different names for the same thing, such as `ElectionNext` and `CacheNext`.

**`FameElection`** abstracts from the graph. The vote of a witness depends on
its ancestors only, so it is the same on all nodes; what nodes do not share is
which witnesses they know. The state is the votes of the current round and the
set of all fame values that any witness has decided. One step is one more round
of witnesses. A ballot is the number of yes and no votes that a witness strongly
sees, a super-majority in all. That a witness of the next round sees a
super-majority, and that a peer has one witness in a round, is what the graph
contributes; `WitnessesCount` checks it of `Hashgraph`. The history variable
`lateWitness` says that the first votes had a super-majority of noes.

**`Hashgraph`** has one record `hg[n]` per node, with the fields of the code:
`known`, `la` (lastAncestors), `fd` (firstDescendants), `round`, `lamport`,
`witness`, `famous`, `rr` (roundReceived), `undetermined`, `decided`, `pending`
(PendingRounds), `lastConsensusRound`, `frames`, `blocks`, `anchor`, `sigPool`,
`peerSets`, `validators` and so on. There are two actions:
`InsertEventAndRunConsensus(n, x)`, the whole pipeline from `InsertEvent` to
`ProcessDecidedRounds` and the commit callback, and `ProcessSigPool(n)`. An event
is named `<<creator, index>>`: `InsertEvent` refuses a second event at a height,
so the name stands for the hash. The middle bit of a hash, the rank of a
signature and a timestamp are attributes of the event. A block signature is who
signed which block. `FameDecisions` returns every outcome that the iteration
order of the Go maps allows. The application may refuse an internal transaction
(`Refused`) or fail on a block (`AppFailures`).

**`FastForward`** extends it. A node in `CatchingUp` asks for anchor blocks;
answers may be lost or fail the checks (`Faults`). It restores its application,
resets its hashgraph from the frame and goes on with events from gossip, by the
same pipeline as everybody else.

**`Gossip`** has nodes with a store of events in order of insertion, a head, a
transaction pool and the heads that `recordHeads` will use, and goroutines that
take one step per critical section: ask, answer, sync, ask for what to push,
push. Between two steps others run, messages are lost, and the consensus methods
may fail in the middle of a sync. A sync inserts its events one by one up to
`SyncLimit`, and stops at the first refusal.

**`Membership`** takes consensus as `Hashgraph` shows it to be, one sequence of
rounds that all nodes process at their own pace, and has everything around it:
`pending` internal transactions arrive in some later round, joiners time out and
ask again, promises are replaced, `leave` gives up, a removed node suspends, a
joiner fast-forwards over changes that are not in effect yet.

**`NodeState`** has the goroutine of `Run`, the background goroutine with the
signal handler, callers of `Shutdown`, and the goroutines of `GoFunc`. Tests of
the state and what follows them are separate steps, as in the code.

**`ControlTimer`** and **`PeerSelector`**: unbuffered channels are rendezvous;
the unsynchronised reads of `isSet` and of `last` are separate steps.

**`Store`** is one node's store through several runs of the program. `InsertEvent`
is split at every write to the database, and `Crash` may fall between any two.
A cache holds `CacheSize` events and evicts any of them; each participant has a
rolling window of hashes; the database has events by hash, hashes by participant
and index, and hashes by topological index. A restart picks options, renames the
old database or loads it (`initStore`, `validateConfig`), bootstraps, and sets the
head. `forgot` says that the program gave up what it knew of its own events: an
in-memory store, a database renamed at a start without bootstrap, or lost writes.

**`Transport`** has a link for each connection with its two directions. A request
is a type byte, a value and a newline; the newline may arrive later. A caller
times out at any point, and the handler may answer after that.

**`AppProxy`**: the field `rpc` is read and written without a lock, so a caller's
attempt is several steps. A call that timed out may still be handled later.

## 3. Runs

Twelve runs; all but one pass.

| Run | Instance | What it shows |
|---|---|---|
| `fame` | 4 peers, 5 from the third round, 10 rounds | one value is decided (`FameAgreement`); a late witness is never famous (`LateWitnessNeverFamous`) |
| `hashgraph` | 8 graphs of 9 to 34 events, 2 nodes, all orders | frames agree whatever the order of insertion, and are processed in the order of rounds (`FramesAgree`, `SameEventsSameFrames`, `RoundsInOrder`); nothing is revised or received too late (`EventsFrozen`, `FamousWitnessesFrozen`, `NoLateReception`); commits respect causality (`CausalOrder`); rounds are as defined (`RoundsByDefinition`, `WitnessesCount`); the anchor and the peer-sets follow the blocks (`AnchorIsHighest`, `MembershipFollowsBlocks`) |
| `hashgraph_leave` | two of four validators leave in one block | `FramesAgree`, **violated** (section 5) |
| `fast_forward` | 3 founders, 44 events, a joiner that resets at any point | a reset node computes the same frames (`FramesAgree`); its application is at its last block (`AppFollowsBlocks`) |
| `rolling_index` | size 5, indexes to 8 | reads are complete or refused (`GetIsComplete`); `ImplementsLog` is a refinement |
| `heartbeat` | 2 callers, 2 peers, one change of the peers | `isSet` means a tick to come (`SetMeansTick`); traffic revives the timer (`RevivedByTraffic`); every peer is visited again and again (`Visits`) |
| `node_lifecycle` | 1 caller, 2 goroutines, all states to start in | what `Shutdown` waits for is done when the store closes (`Drained`); `Run` follows a state that stays (`RunReturns`, `SuspendQuiets`) |
| `gossip` | 2 nodes endlessly, 3 nodes, 2 nodes with 2 goroutines and a failure | messages are accepted whatever happened since they were asked for (`SyncAccepted`); no fork; a transaction is in one event, which reaches everyone (`NoFork`, `TxOnce`, `TxSpreads`) |
| `membership` | 2 genesis peers and a joiner; refusals, leaving and rejoining, fast-sync | peer-sets agree (`PeerSetsAgree`), who left is out (`LeftIsOut`), a joiner gets in (`JoinerGetsIn`) |
| `store` | 7 configurations, see below | coordinates survive evictions and crashes (`CoordinatesExact`); peers are sent all they lack, or nothing when that has left an in-memory window (`DiffComplete`); what is known was inserted (`StoredIsInserted`); no fork after a restart (`NoFork`); Bootstrap loads everything, or fails on a window that rolled (`BootstrapComplete`); no run loses what another wrote (`HistoryKept`) |
| `transport` | 2 callers, 2 calls each, a pool of 1 | a caller gets its own response (`OwnReply`); every call returns (`RPCReturns`) |
| `app_proxy` | 2 blocks, 1 snapshot, 2 attempts | what is acknowledged was applied (`AckedIsApplied`); every call ends, by returning or in the nil panic of section 5, and one that no other call overlaps returns (`CallReturns`) |

A module that needs several instances has a constant set `Confs`; its variable
`conf` is chosen from it at the start and never changes, so that one run covers
all of them. `fame`, `hashgraph` and `fast_forward` have sets of graphs or
peer-sets to the same end.

**Bounds, and why they are enough to see the cases.**

- `MaxDiff` bounds the rounds of an election. Coin rounds come every fourth
  round (`COIN_ROUND_FREQ`), so ten rounds have two of them with normal rounds on
  either side. Four is the smallest number of peers of which a super-majority is
  not everyone. All initial votes, ballots and coin bits are explored.
- The runs of `Hashgraph` do not explore all graphs, which is out of reach: for
  given graphs they explore **every** pair of insertion orders of two nodes and
  every point at which signatures are processed. Each graph was chosen because
  one case happens in it: a witness after its round was decided, a witness
  decided not famous, split votes over three rounds, a round decided before an
  earlier one, two blocks with signatures, members that leave and join again
  while changes are pending (one leave refused, one block on which the
  application of b fails), short first descendants. `RootDepth` has the value of
  the code, except in `fast_forward`, where 4 makes a frame leave events out of
  44. What is said of other graphs is limited to section 6.
- `Gossip`: `syncLimit` 1 makes messages partial; `maxIndex` stops events without
  transactions and `maxStored` the graph where several goroutines run. The first
  configuration is not cut short, and the liveness property is checked there.
- `Membership`: a change takes effect six rounds after it is received, so 17
  rounds hold two changes that overlap, and 18 a join, a leave and a second join.
  `maxDelay` and `maxLag` are how late a transaction and a node may be.
- `Store`: cache sizes 3 and 2 evict events, 2 also rolls windows; two restarts
  with a crash between any two writes; one crash that loses writes; two
  fast-forwards and two restarts; three creators in memory; and all sixteen
  combinations of the four options over three runs of the program.
- `Transport`: two callers on a pool of one compete for it and overflow it; two
  calls each reuse a connection. `AppProxy`: two attempts are a retry; two blocks
  are an order; the snapshot is the second user of the client.
- `Routines` in `NodeState` and `PeerSelector` bounds goroutines at a time.

Deadlock is not checked where the instance ends by its bounds, or where the
program really stops (Shutdown, a panic). It is checked in `hashgraph` and
`rolling_index`, which stutter when all is done. Symmetry is not used: the
participants of a graph, and initiators and their peers, are not interchangeable,
and it is unsound for liveness.

**Conditions in the properties of `Store`.** Some promises hold only under
conditions that the code does not state. They are spelled out in the properties:
`Rolled` (an event left the cache and its hash left the window), `Unmixed` (not
both a restart and a fast-forward), `forgot`. Section 5 says what happens without
them.

## 4. Fairness

| Module | Fairness | Why |
|---|---|---|
| `ControlTimer`, `PeerSelector` | weak for the timer goroutine and for steps with the lock held; strong for taking the lock and for ending a gossip | a goroutine that can run does; a Go mutex goes to its waiters in starvation mode; a gossip has deadlines. Nothing is assumed of the random choice among more than two peers |
| `NodeState` | weak for goroutines; strong for `select` on a closed channel and for `WaitRoutines` | a select with a channel that stays ready takes that case; requests and `leave` have timeouts. Strong fairness of `Run` makes up for the bound on goroutines |
| `Gossip` | every exchange ends; every node completes a pull from every other again and again | requests have deadlines; `heartbeat` shows the visits (`Visits`); not every request fails |
| `Membership` | rounds go on while somebody has work; nodes process what is decided; a joiner that was answered goes on | `busy` keeps gossip going |
| `Transport`, `AppProxy` | the calling goroutine runs, and its deadline passes | nothing is assumed of the other end |

The other modules state no fairness: their properties are safety properties.
Where a property needs more than the code gives, it is conditional:
`RevivedByTraffic` promises a tick only while requests keep coming, `RunReturns`
and `SuspendQuiets` speak of a state that stays, and `CallReturns` promises that a
call returns only when no other overlaps it; otherwise the program may panic
instead. The unconditional forms are false (section 5).

## 5. Where the code and its documentation disagree

The run `hashgraph_leave` is a counterexample. The other items are properties
that are stated in the modules and that TLC refutes when the property is added to
the configuration named; they are not in a run of their own.

1. **Peers that leave** (`hashgraph_leave`). `DecideFame` compares the votes of
   round j-1 with the super-majority of the peer-set of round j
   (`hashgraph/hashgraph.go:967`). When the peer-set shrinks in between, less
   than a super-majority of the voters decides. `docs/dynamic_membership.rst:201-203`
   and `node/core.go:566-568` say that with a delay of six rounds all nodes do the
   same. In the run two of four validators leave, the peer-set shrinks at round 7,
   and a witness of round 5 is famous on one node only; the frames of round 5 have
   different timestamps. One peer of five suffices for two witnesses to decide
   differently: `FameAgreement` with `PeersAt <- LeavingPeersAt` in
   `MCFameElection.cfg`.
2. **Strongly seeing.** `updateAncestorFirstDescendant` stops at witnesses
   (`hashgraph/hashgraph.go:509`), so `stronglySee` can say no where the
   definition in `docs/consensus.rst:162-163` says yes (`StronglySeeByDefinition`,
   `MCHashgraph.cfg`). Rounds do not depend on the difference in the graphs
   checked (`RoundsByDefinition`).
3. **Heartbeat.** The timer sends its tick before it clears `isSet`
   (`node/control_timer.go:57`), so `resetTimer` after the tick may set no timer
   (`HeartbeatGoesOn`, `PeerSelector.cfg`; `node/node.go:414-415` says gossip is
   periodic). A second reset can wait, with `coreLock` held, for a timer that
   waits for `babble` (`ResetReturns`, `PeerSelector.cfg`).
4. **Peer selection.** `next` reads `last` once per peer without a lock
   (`node/peer_selector.go:97`). With two peers and a write in between it leaves
   both out, and `rand.Intn(0)` panics (`NextReturns`, `PeerSelector.cfg`).
5. **Shutdown** (all in `NodeState.cfg`). `fastForward` ends with
   `transition(Babbling)`, which overwrites a Shutdown that came meanwhile
   (`node/node.go:663`), and `Run` does not return (`ShutdownEndsRun`;
   `node.go:233` "exit any non-shutdown state immediately"). Two callers can both
   close `shutdownCh` (`NoPanic`, `node.go:237`). `WaitRoutines` does not wait for
   `Run` itself (`NoWorkAfterClose`; `node.go:227-228` "waiting for pending work
   to be finished"). `GoFunc` decrements its counter before the function runs
   (`state/state.go:93`), so `WGLIMIT` limits nothing (`AtMostLimit`).
6. **Membership** (`MCMembership.cfg`). A node that asks to join a second time is
   answered with a round before the one at which it becomes a validator
   (`AcceptedRoundTakesEffect`; `node/core.go:48-49`). A node that has left can be
   among the validators (`LeftStaysOut`; `node/node.go:207-208`): the application
   refuses the leave and `leave` ends all the same, or (no refusals, three
   requests, `maxDelay` 20, `maxRound` 30, `maxLag` 1) a late second copy of the
   join is accepted after the leave. After a fast-forward `validators` is the
   peer-set of the frame, without the changes that are pending
   (`node/core.go:399`), and the next change builds on it: `PeerSetsAgree` fails
   with two joiners, `fastSync` without refusals and leaves, `maxDelay` 2,
   `maxRound` 12.
7. **Fast-forward** (`MCFastForward.cfg`). A peer whose anchor is block 0 is never
   chosen (`CatchesUp`; `node/node.go:672`, `docs/fastsync.rst:35-36`). The
   application is restored before the block is checked; if the check fails and the
   next attempt is not answered, the application is ahead of the hashgraph
   (`AppFollowsBlocks` with `Faults = {"check", "lost"}`; `node/node.go:641`,
   `docs/fastsync.rst:41-44`).
8. **Store** (`MCStore.cfg`). `docs/usage.rst:258-261` promises that a node with
   the bootstrap option proceeds from the state of its database.
   - After a fast-forward the topological indexes start again at 0, and Bootstrap
     can fail (`BootstrapAlwaysSucceeds`; `hashgraph/hashgraph.go:1441`). It can
     also fail when a window rolls during the replay: the update of an ancestor
     that was evicted and has left its window is refused
     (`hashgraph/hashgraph.go:502`; the same with `Crashing` at `cacheSize` 2).
   - With fast-sync and bootstrap together, a node that finds no anchor block
     babbles without a head (`HeadIsLast`; `node/node.go:635`).
   - Badger does not sync its writes (`hashgraph/badger_store.go:41`): a crash of
     the machine loses events that others have, and the node forks (`NoFork`
     without `~forgot`). So does a restarted node that fast-forwards to a frame
     without its last event (`NoFork` without `Unmixed`).
   - `InsertEvent` returns half done when an ancestor was evicted and has rolled
     out of its window (`hashgraph/hashgraph.go:502`; `StoredIsInserted` without
     `~Rolled`). After a restart and a fast-forward, `GetEvent` still finds events
     of the earlier run (the same without `Unmixed`).
   - During Bootstrap updates of ancestors go to the cache only, and an eviction
     loses them (`CoordinatesExact` without its condition on the cache).
   - After a fast-forward `ParticipantEvents` answers an index below the frame with
     an empty list and no error (`hashgraph/badger_store.go:293`; `DiffComplete`
     without `resets = 0`).
9. **Rolling index.** `roll` keeps all items of a window of size one, which then
   grows for ever (`UpToSize` with `Size = 1` in `RollingIndex.cfg`;
   `common/rolling_index.go:15` "contains up to size items").
10. **Transport.** If the newline that ends a request arrives after the handler has
    decoded it, the handler takes it for the next command and hangs up on a
    connection that the caller has pooled (`PooledIsUsable`, `Transport.cfg`;
    `net/net_transport.go:364`). The next RPC on it fails, and no more.
11. **Application proxy** (`AppProxy.cfg`). A block whose commit timed out is sent
    again, and may be applied twice or after the next one (`BlocksInOrder`;
    `dummy/state.go:55-56`). Two users of the client can both reset `rpc`, and the
    second dereferences nil (`NoNilPanic`;
    `proxy/socket/app/socket_app_proxy_client.go:73`).

## 6. Proofs

All theorems are checked by TLAPS and hold for every value of the constants
that meets the assumptions named in the modules.

**`ComponentProofs`, `FameElection`**

- `ElectionTypeCorrect`: `ElectionSpec => []ElectionTypeOK`.
- `Agreement`, `Finality`: if `SafePeerSets`, an election decides at most one
  value, and every later witness votes for it.
- `LateWitness`: if `SafePeerSets`, a witness that a super-majority of the next
  round does not see is never famous. `WitnessesDecided` relies on it.

`FameAgreement` is not inductive: that nothing contradictory was decided says
nothing about the next round. The inductive invariant is
`ElectionInv`, which adds `DecisionIsFinal`. The argument has two parts.
`UnanimityPersists`: when all voters agree, the next witness counts a
super-majority for their value, so it votes for it even in a coin round.
`DeciderConvinces`: a decider has counted more than two thirds of the voters, so
any other witness of its round counts a majority for the same value.

Both compare the quorum of one round with the votes of the round before, and
need `SafePeerSets`: the super-majority does not shrink at a normal round, nor
grow at a coin round. It holds when the peer-set does not change, and in the run
`fame`. It is an assumption on the peer-sets, which the code does not enforce;
item 1 of section 5 shows that agreement can fail without it. For the late
witness the invariant `LateInv` adds that when `lateWitness` is set, all votes after
the first round are no.

**`HashgraphProofs`**

- `GraphCorrect`: `Spec => []GraphInvariant`.
- `SeeCorrect`: seeing through coordinates is the recursive definition of
  ancestry: x sees y iff x is y or a parent of x sees y.
- `TimestampsCorrect`: what x sees has a lower Lamport timestamp and no higher
  round.
- `NothingRevised`: no step changes the coordinates, round, timestamp, witness
  flag, defined fame or round-received of a known event, or reopens a round.

`SeeByParents` is not inductive either, because coordinates are computed once,
from those of the parents. `GraphInvariant` states why they stay right: parents
of known events are known (`ParentsKnown`); `la[x][p]` is the maximum over the
parents and names a known event (`LastAncestorsKnown`); parents do not see their
children (`ParentsBelow`), so an insertion does not change what older events
see. `SeenIsLower` carries timestamps and rounds along, and
`UndeterminedIsUnreceived` ties the queue of undetermined events to their
round-received. The proof follows the pipeline: one lemma for each stage that
says which fields it leaves alone, one that the stage keeps the invariant, and
`NextInvariant` puts them together. The assumptions are that participants are
finitely many and that events are named by participants and indexes.

**`HashgraphOrderProofs`**, for any graph, order of insertion and application:

- `RoundsCorrect`: `Spec => []RoundsInOrder`.
- `AnchorCorrect`: `Spec => []AnchorIsHighest`.
- `MembershipCorrect`: `Spec => []MembershipFollowsBlocks`, the validators are
  what the accepted internal transactions of the blocks make of the genesis peers.

The inductive invariant is `OrderInvariant`, on top of `GraphInvariant`. It says
how rounds become frames: each round up to the last has an event (`RoundInv`), so
that rounds join `PendingRounds` one by one; the rounds up to `LastConsensusRound`
have a frame and those after it are pending (`PendingInv`); peer-sets, blocks, the
anchor and the validators are those that these rounds leave (`ChainInv`). Between
steps `PendingRounds` does not begin with a decided round (`NextUndecided`): this
is where `ProcessDecidedRounds` stopped, and why a pass goes on with the round
after `LastConsensusRound`. The anchor needs that the peers of a round do not
change once it has a block, which holds because internal transactions take
effect six rounds later (`PeerSetsInv`). Loops are recursive functions; that a
loop of k passes keeps an invariant is proved with a least counterexample
(`LeastNatural`), which a well-founded order gives without an induction rule.

**`HashgraphReceptionProofs`**

- `ReceptionCorrect`: `Spec /\ []DecidedByFive => []NoLateReception`.
- `WitnessesCorrect`: `Spec /\ []DecidedByFive => []WitnessesCount`.

Both depend on which peer-set governs a round, and need the premise that
`processAcceptedInternalTransactions` states and does not enforce (`core.go` 566
to 568): a round is decided by the fifth round after it. Without it an internal
transaction may change the peer-set of a round that has witnesses already, and
what was a super-majority is none. `DecidedByFive` holds in every state of the run
`hashgraph`. `ReceptionInvariant` adds what the two theorems need: an undetermined
event is not seen by all famous witnesses of a processed round, and no later event
changes that (`ReceivedInTime`); every event strongly sees a super-majority of the
witnesses of the round before its own (`SeesRoundBefore`), since
`firstDescendants` of an event only grow.

**`GossipProofs`**, for any nodes, goroutines and `SyncLimit`, any messages lost
and any failures of the consensus methods:

- `SyncCorrect`: `Spec => []SyncAccepted`.
- `NoForkCorrect`: `Spec => []NoFork`.
- `TxOnceCorrect`: `Spec => []TxOnce`.

The inductive invariant `GossipInv` has a part for the cores and one for what is
under way. Stores are in topological order; an event is in its creator's store,
which has one event for an index; `seq` and `heads` name stored events
(`StoresInv`). The transactions of pools and events are all different, but for
those of an event on which the consensus methods failed: these stay in the pool,
and their creator is stuck behind that event, so no second event takes them
(`PoolStuck`). A message fits its receiver (`Fits`): each event finds its parents
there or earlier in the message. This survives whatever the receiver inserts in the
meantime, since stores only grow, and the cut at `SyncLimit`, since a prefix fits
as the whole does. A sync inserts many events and creates others, so the lemmas
speak of any cores (`w`, `v`) and go through it event by event. The assumptions are
that nodes are finitely many and that `SyncLimit` is a natural number.

**`FastForwardProofs`**, for any peers, any graph and any of them catching up:

- `AppCorrect`: `FFSpec => []AppFollowsBlocks`, if `Faults` is not both of
  `"check"` and `"lost"`.

The hypothesis is needed: item 7 of section 5 is the counterexample with both
faults. What `HashgraphOrderProofs` shows of blocks does not apply to a hashgraph
that was reset, which starts from a block other than 0. The invariant `FFInv` keeps
what carries over: blocks have no gap, each comes from a round with a frame, the
anchor is one of them (`BlocksNumbered`), and what a node inserts or resets from is
finite, so that the highest block exists (`FramesFinite`). A node that catches up
has an empty application, or one restored before a check failed; then some peer
keeps an anchor, so `NoAnswer`, which would make it babble with that application,
cannot happen unless answers are lost (`CanCatchUp`). The model assumes that the
application fails on no block.

**`StoreProofs`**, for any creators, cache size and bounds, any options of each run
and a crash between any two writes:

- `HistoryIsKept`: `Spec => HistoryKept`, an action property.
- `StoredInserted`, `NoForks`, `BootstrapIsComplete`, `DiffIsComplete`:
  `StoredIsInserted`, `NoFork`, `BootstrapComplete` and `DiffComplete` are invariants.

The last four follow from one invariant (`Invariance`: `Spec => []Inv`). It turns on
`Base`, the events that this run of the program has taken in: those that went through
`InsertEvent` with the in-memory store, those that the database holds, or while it is
replayed those replayed so far. Caches, windows and coordinates lead to events of
`Base` only (`EntriesOK`), a window is the end of a creator's events (`WindowOK`), no
two events of `Base` have one index (`EventsOK`), and without evictions `Base` is
what was inserted (`ListOK`). The database is a log in which parents come first
(`LogInv`), and coordinates on disk lead back in it (`LaInv`); that is why a replay
finds the parents of each event although the entries were written by an earlier run.
The node's own events that others have are in its store (`OwnOK`), since they are
written before they are sent. `Inv` says this of nodes that have not both restarted
and fast-forwarded, with separate parts for either (`ReplayInv`, `FirstRunInv`,
`ResetInv`). `StoreAssumption` gives the constants their types.

**`NodeProofs`, `Membership`**, for any peers, configurations and numbers of
rounds:

- `PeerSetsCorrect`: `Spec => [](~FastSync => PeerSetsAgree)`.
- `LeftCorrect`: `Spec => []LeftIsOut`.

With fast-sync `PeerSetsAgree` does not hold for all constants (item 6 of section 5).
Without it there is one history `H`: `H[k]` is what the receipts of the first `k`
rounds make of the genesis peers. A node at round `r` has the validators and
peer-sets of `H[r + 1]` (`IsAt`), and what the rounds after the first `k` add takes
effect after round `k + 5` (`Grows`), so two nodes agree up to there whichever is
ahead. `LeftIsOut` speaks of runs with at most two requests; the proof says what was
asked for. Until the second request nobody but one joiner is in the receipts, the
peer-sets or `pending` (`JoinsAlone`). If the second is a leave, it is that
joiner's, its join has been received, and its removal is the last receipt of all
(`Leaver`); no later change puts it back, so the peer-set of the round of its removal
stays the last one (`Out`). This uses that a joiner is no genesis peer
(`MembershipAssumption`).

**`ComponentProofs`, `Transport`**: `ReplyCorrect`, `OneUserCorrect` and
`NoLeakCorrect`, for any number of callers, calls and pooled connections, with
newlines that arrive late and transports that close. A connection that is pooled, or
about to be used, is quiet (`PoolQuiet`): no reply is due on it. One on which a caller
waits has at most one reply due, to that caller, somewhere between the two ends
(`Using`). Both need that a connection has one user, so all are proved together.

**`ComponentProofs`, `RollingIndex`**: `WindowCorrect` (the window is the end of what
was written), `GetCorrect`, `HalfKept` (a write evicts at most half), `Bounded` (for a
size of at least two) and `Refinement`, `CacheSpec => ImplementsLog`: the rolling index
implements `EventLog`, with `written` as the log and the oldest cached index as the
lowest one that is readable. The invariant `CacheInv` is the types, `WindowOfLog` and
`HalfFull`: that a cache that has forgotten something is at least half full is what
makes `KeepsHalf` inductive.

**`ComponentProofs`, `NodeState`**: `DrainedCorrect`. `Drained` rests on
`WaitRoutines` having returned once (`Ordered`), after which only goroutines that came
too late are launched (`Kept`), and on nobody entering `Shutdown` twice (`Once`).

**`NodeProofs`, `ControlTimer`**: `SetCorrect` (`isSet` means that a tick is to come) and
`SenderCorrect` (who sends on `resetCh` holds `coreLock`), for any number of
goroutines. They are inductive together with the types, and assume that the
goroutines differ. They are about `TimerSpec`; the run checks the composition with
`PeerSelector`, whose steps are steps of the timer or leave it alone.

**`NodeProofs`, `AppProxy`**: `AckedCorrect`, for any number of attempts, blocks
and snapshots. A reply names the call it answers, not the block, so the
invariant `Numbered` says that the `n`-th call of `CommitBlock` commits block `n`,
that every request of it does, late ones included, and that a reply to it means
that block `n` was applied.

**Only model-checked.** All liveness, which is out of the prover's reach.
Agreement on frames (`FramesAgree`, `SameEventsSameFrames`): it rests on fame being
the same at all nodes, which `Agreement` shows for one election given
`SafePeerSets`; item 1 of section 5 shows that it fails without.
`FamousWitnessesFrozen`, which needs the theorem `LateWitness` about the election of
each witness of a graph, and `CausalOrder`, which needs that famous witnesses are
frozen: an event may be received before its ancestors when a later round is decided
first. `RoundsByDefinition` and `CoordinatesExact`, whose references are recursions
over the graph: what a recursion computes for every input is out of the prover's
reach. `PeerSetsAgree` with fast-sync, which holds in the run and not for all
constants.


## 7. Not modelled

- Cryptography, hashes, encodings and JSON files: represented by names, by who
  signed what, and by content. Peers files and keys are input and output.
- In the database, rounds, blocks, frames, roots and peer-sets: Bootstrap computes
  them again from the events. `badger_store_mobile.go` is the same code as
  `badger_store.go` under another build tag.
- Eviction of rounds and blocks from the in-memory store: it takes as many rounds
  as the cache has entries.
- Block signatures in the pools of the core: which event carries one is an
  attribute of the graph in `Hashgraph`.
- The in-memory transport (for tests), the TCP stream layer, WebRTC and WAMP
  signaling: wiring of libraries behind the stream that `Transport` uses.
- The in-memory proxy (direct calls), the direction from the application to
  babble (`SubmitTx`, no retries), the HTTP service (read-only), the mobile
  bindings, the command line and the chat interface of the dummy application.
- Data races on Go slices and maps below the level of the steps named in the
  modules, such as a backing array shared by two peer-sets
  (`peers/peer_set.go:51`), or receipts that `fastForward` processes without
  `coreLock` (`node/node.go:656`).
- Signatures that never verify stay in the pool for ever
  (`hashgraph/hashgraph.go:1363`); no property bounds the pool.
