----------------------------- MODULE Hashgraph -----------------------------
(***************************************************************************)
(* The consensus engine of a node: src/hashgraph/hashgraph.go with the     *)
(* RoundInfo, PendingRoundsCache, SigPool and InmemStore it works on, and  *)
(* the commit callback of src/node/core.go it ends in.                     *)
(*                                                                         *)
(* dag is the graph of all the events that the network creates; each node  *)
(* inserts them in an order of its own, parents first.  An event is named  *)
(* <<creator, index>>: InsertEvent refuses a second event of a creator at  *)
(* the same height, so the name stands for the hash.  The self-parent of   *)
(* <<p, i>> is <<p, i-1>>, and an index of -1 stands for no event.         *)
(*                                                                         *)
(* hg[n] is the Hashgraph of node n.  The operators below take a hashgraph *)
(* h and return what the method of the same name computes, or the          *)
(* hashgraph it leaves.                                                    *)
(***************************************************************************)
EXTENDS Voting, Sequences, SequencesExt

CONSTANTS
    Nodes,          \* the nodes whose hashgraphs are followed
    Participants,   \* everyone who is ever a member of a peer-set
    Genesis,        \* the peer-set of round 0
    Dags,           \* the graphs of events considered
    RootDepth,      \* ROOT_DEPTH
    Refused,        \* internal transactions that the application refuses
    AppFailures     \* <<n, i>>: the application of n fails on block i

ASSUME ParticipantsAssumption ==
    /\ IsFiniteSet(Participants)
    /\ Genesis \subseteq Participants
    /\ Nodes \subseteq Participants

ASSUME RootDepthAssumption == RootDepth \in Nat

\* Events are named <<creator, index>>; an event names its other-parent, and may
\* carry internal transactions.  No two events have the same signature: rank is
\* its place among the signatures.
ASSUME DagsAssumption ==
    \A g \in Dags : \A x \in DOMAIN g :
        /\ x \in Participants \X Nat
        /\ g[x].op \in Participants \X (Nat \cup {-1})
        /\ g[x].itxs \in Seq(Range(g[x].itxs))
        /\ \A i \in DOMAIN g[x].itxs : g[x].itxs[i].peer \in Participants
        /\ g[x].rank \in Int
        /\ \A y \in DOMAIN g : g[x].rank = g[y].rank => x = y

VARIABLES dag, hg

vars == <<dag, hg>>

Creator(x) == x[1]
Index(x) == x[2]
SelfParent(x) == <<x[1], x[2] - 1>>
OtherParent(x) == dag[x].op

Events == DOMAIN dag

\* The largest number of S, or -1.
MaxOrNone(S) == IF S = {} THEN -1 ELSE CHOOSE m \in S : \A k \in S : k <= m

-----------------------------------------------------------------------------
(***************************************************************************)
(* Coordinates: la[x][p] is the index of the last ancestor of x by p, and  *)
(* fd[x][p] of the first descendant of x by p, or -1.                      *)
(***************************************************************************)

KnownParents(h, x) == {SelfParent(x), OtherParent(x)} \cap h.known

\* ancestor, and see, which is the same.
See(h, x, y) == x = y \/ h.la[x][Creator(y)] >= Index(y)

\* stronglySee: x sees y through a super-majority of the peers P.
StronglySee(h, x, y, P) ==
    LET through == {p \in P : h.fd[y][p] # -1 /\ h.la[x][p] >= h.fd[y][p]}
    IN  Cardinality(through) >= SuperMajority(P)

\* initEventCoordinates: the highest ancestors of the parents that are known.
LastAncestors(h, x) ==
    [p \in Participants |->
        IF p = Creator(x)
        THEN Index(x)
        ELSE MaxOrNone({h.la[y][p] : y \in KnownParents(h, x)})]

\* a is known and has no descendant by the creator of x yet.
LacksDescendant(h, x, a) == a \in h.known /\ h.fd[a][Creator(x)] = -1

ReachedFromMutant(h, x, a) ==
    /\ LacksDescendant(h, x, a)
    /\ Index(a) <= h.la[x][Creator(a)]
    /\ \A k \in Index(a) .. h.la[x][Creator(a)] :
           LET above == <<Creator(a), k>>
           IN  LacksDescendant(h, x, above) /\ ~h.witness[above]

\* updateAncestorFirstDescendant, from the last ancestor of x by each peer down
\* its self-parents: until one that already has a descendant by the creator of
\* x, is not known, or comes below a witness.
ReachedFrom(h, x, a) ==
    /\ LacksDescendant(h, x, a)
    /\ Index(a) <= h.la[x][Creator(a)]
    /\ \A k \in Index(a) + 1 .. h.la[x][Creator(a)] :
           LET above == <<Creator(a), k>>
           IN  LacksDescendant(h, x, above) /\ ~h.witness[above]

UpdateAncestorFirstDescendant(h, x) ==
    [h EXCEPT !.fd = [a \in Events |->
        IF ReachedFrom(h, x, a)
        THEN [h.fd[a] EXCEPT ![Creator(x)] = Index(x)]
        ELSE h.fd[a]]]

\* checkSelfParent and checkOtherParent: the creator belongs to some peer-set,
\* x comes right after the creator's last known event, and its other-parent, if
\* it has one, is known.
CanInsert(h, x) ==
    /\ Creator(x) \in Repertoire(h.peerSets)
    /\ \A y \in h.known : Creator(y) = Creator(x) => Index(y) < Index(x)
    /\ Index(x) = 0 \/ SelfParent(x) \in h.known
    /\ Index(OtherParent(x)) = -1 \/ OtherParent(x) \in h.known

\* Event.IsLoaded.
IsLoaded(x) == Index(x) = 0 \/ dag[x].txs \/ dag[x].itxs # <<>>

InsertEventAliasMutant(h, x) ==
    UpdateAncestorFirstDescendant(
        [h EXCEPT !.la = [y \in Events |-> IF y = x \/ y = SelfParent(x)
                                           THEN LastAncestors(h, x) ELSE h.la[y]],
                  !.fd[x][Creator(x)] = Index(x),
                  !.known = @ \cup {x},
                  !.undetermined = @ \cup {x},
                  !.loaded = IF IsLoaded(x) THEN @ + 1 ELSE @,
                  !.sigPool = @ \cup dag[x].sigs],
        x)

\* InsertEvent.
InsertEvent(h, x) ==
    UpdateAncestorFirstDescendant(
        [h EXCEPT !.la[x] = LastAncestors(h, x),
                  !.fd[x][Creator(x)] = Index(x),
                  !.known = @ \cup {x},
                  !.undetermined = @ \cup {x},
                  !.loaded = IF IsLoaded(x) THEN @ + 1 ELSE @,
                  !.sigPool = @ \cup dag[x].sigs],
        x)

-----------------------------------------------------------------------------
(***************************************************************************)
(* Rounds and witnesses.                                                   *)
(***************************************************************************)

GetPeerSet(h, r) == PeerSetAt(h.peerSets, r)

\* RoundInfo.Witnesses of round r, and Store.LastRound.
Witnesses(h, r) == {w \in h.known : h.round[w] = r /\ h.witness[w]}
LastRound(h) == MaxOrNone({h.round[x] : x \in h.known})

ParentRound(h, x) == MaxOrNone({h.round[y] : y \in KnownParents(h, x)})

StronglySeenWitnesses(h, x, r) ==
    {w \in Witnesses(h, r) : StronglySee(h, x, w, GetPeerSet(h, r))}

\* round: one more than the parents' if x strongly sees a super-majority of the
\* witnesses of the parents' round.
RoundOf(h, x) ==
    LET r == ParentRound(h, x)
    IN  CASE r = -1 -> 0
          [] r # -1 /\ Cardinality(StronglySeenWitnesses(h, x, r))
                         >= SuperMajority(GetPeerSet(h, r)) -> r + 1
          [] OTHER -> r

IsWitnessMutant(h, x, r) ==
    /\ Creator(x) \in GetPeerSet(h, r)
    /\ SelfParent(x) \in h.known => r >= h.round[SelfParent(x)]

\* witness: the first event in round r of a member of that round's peer-set.
IsWitness(h, x, r) ==
    /\ Creator(x) \in GetPeerSet(h, r)
    /\ SelfParent(x) \in h.known => r > h.round[SelfParent(x)]

\* lamportTimestamp: one more than the parents'.
LamportTimestamp(h, x) == MaxOrNone({h.lamport[y] : y \in KnownParents(h, x)}) + 1

\* Round r enters PendingRounds unless it is there, was decided, or lies below
\* what a Reset started from.
Queue(h, r) ==
    IF r \in DOMAIN h.pending \cup h.decided \/ r <= h.lowerBound
    THEN h.pending
    ELSE [k \in DOMAIN h.pending \cup {r} |-> k # r /\ h.pending[k]]

\* DivideRounds: x is the only event without a round.
DivideRounds(h, x) ==
    LET r == RoundOf(h, x)
    IN  [h EXCEPT !.round[x] = r,
                  !.witness[x] = IsWitness(h, x, r),
                  !.lamport[x] = LamportTimestamp(h, x),
                  !.pending = Queue(h, r)]

-----------------------------------------------------------------------------
(***************************************************************************)
(* Fame.  famous[x] is a Trilean: "undefined", "true" or "false".          *)
(***************************************************************************)

\* The yays and nays that y, a witness of round j, collects when yes are the
\* witnesses of round j-1 that vote yes.
Count(h, yes, y, j) ==
    LET seen == StronglySeenWitnesses(h, y, j - 1)
    IN  [yays |-> Cardinality(seen \cap yes), nays |-> Cardinality(seen \ yes)]

\* VotesOn(h, x)[j]: the witnesses of round j that vote yes on the fame of x.
VotesOn(h, x) ==
    LET r == h.round[x]
        yes[j \in r + 1 .. LastRound(h)] ==
            IF j = r + 1
            THEN {y \in Witnesses(h, j) : See(h, y, x)}
            ELSE LET before == yes[j - 1]
                     q      == SuperMajority(GetPeerSet(h, j))
                     vote(c, y) == Vote(c.yays, c.nays, j - r, q, dag[y].bit)
                 IN  {y \in Witnesses(h, j) : vote(Count(h, before, y, j), y)}
    IN  yes

\* The witnesses of round j that decide the fame of x, when yes are the
\* witnesses of round j-1 that vote yes.
Deciders(h, x, yes, j) ==
    LET q == SuperMajority(GetPeerSet(h, j))
        decides(c) == Decides(c.yays, c.nays, j - h.round[x], q)
    IN  {y \in Witnesses(h, j) : decides(Count(h, yes, y, j))}

\* The values that the witnesses of round j decide for the fame of x.
DecidedValues(h, x, votes, j) ==
    LET yes == votes[j]
    IN  {(y \in yes) : y \in Deciders(h, x, votes[j - 1], j)}

\* The values that DecideFame may give to the fame of x: those of the deciders
\* of the first round that has any.  Which one it meets first depends on the
\* iteration order of a map.
FameOutcomes(h, x) ==
    LET votes  == VotesOn(h, x)
        values == [j \in h.round[x] + 2 .. LastRound(h) |-> DecidedValues(h, x, votes, j)]
        rounds == {j \in DOMAIN values : values[j] # {}}
    IN  IF rounds = {} THEN {} ELSE values[CHOOSE j \in rounds : \A k \in rounds : j <= k]

\* The outcomes of one pass over the undecided witnesses of PendingRounds.
FameDecisions(h) ==
    LET undecided == {x \in h.known : /\ h.witness[x] /\ h.famous[x] = "undefined"
                                      /\ h.round[x] \in DOMAIN h.pending}
        outcomes  == [x \in undecided |-> FameOutcomes(h, x)]
        decided   == {x \in undecided : outcomes[x] # {}}
    IN  {fame \in [decided -> BOOLEAN] : \A x \in decided : fame[x] \in outcomes[x]}

WitnessesDecidedMutant(h, r) ==
    \/ r \in h.decided
    \/ Cardinality({w \in Witnesses(h, r) : h.famous[w] # "undefined"})
           >= SuperMajority(GetPeerSet(h, r))

\* RoundInfo.WitnessesDecided: no witness is undecided and a super-majority is
\* decided.  A decided round stays decided.
WitnessesDecided(h, r) ==
    \/ r \in h.decided
    \/ /\ \A w \in Witnesses(h, r) : h.famous[w] # "undefined"
       /\ Cardinality(Witnesses(h, r)) >= SuperMajority(GetPeerSet(h, r))

FamousWitnessesMutant(h, r) == {w \in Witnesses(h, r) : h.famous[w] # "false"}

\* RoundInfo.FamousWitnesses.
FamousWitnesses(h, r) == {w \in Witnesses(h, r) : h.famous[w] = "true"}

SetFame(h, fame) ==
    [h EXCEPT !.famous = [x \in Events |->
        CASE x \notin DOMAIN fame -> h.famous[x]
          [] x \in DOMAIN fame /\ fame[x] -> "true"
          [] OTHER -> "false"]]

\* DecideFame: fame is one of FameDecisions(h).
DecideFame(h, fame) ==
    LET f == SetFame(h, fame)
        decided == {r \in DOMAIN h.pending : WitnessesDecided(f, r)}
    IN  [f EXCEPT !.decided = @ \cup decided,
                  !.pending = [r \in DOMAIN h.pending |-> h.pending[r] \/ r \in decided]]

-----------------------------------------------------------------------------
(***************************************************************************)
(* Round received and consensus order.                                     *)
(***************************************************************************)

\* x is seen by all the famous witnesses of round i, a super-majority at least.
SeenByFamous(h, x, i) ==
    LET famous == FamousWitnesses(h, i)
    IN  /\ \A w \in famous : See(h, w, x)
        /\ Cardinality(famous) >= SuperMajority(GetPeerSet(h, i))

\* The loop over the rounds after the round of x gets as far as round i: those
\* before it are decided, or lie below what a Reset started from, and the store
\* has them all.
LoopReaches(h, x, i) ==
    \A k \in h.round[x] + 1 .. i :
        /\ \E y \in h.known : h.round[y] = k
        /\ k < i => k \in h.decided \/ k <= h.lowerBound

RoundReceived(h, x) ==
    LET rounds == {i \in h.round[x] + 1 .. LastRound(h) :
                      i \in h.decided /\ LoopReaches(h, x, i) /\ SeenByFamous(h, x, i)}
    IN  IF rounds = {} THEN -1 ELSE CHOOSE i \in rounds : \A k \in rounds : i <= k

\* DecideRoundReceived.
DecideRoundReceived(h) ==
    LET rr == [x \in Events |-> IF x \in h.undetermined THEN RoundReceived(h, x) ELSE h.rr[x]]
    IN  [h EXCEPT !.rr = rr, !.undetermined = {x \in @ : rr[x] = -1}]

LessMutant(h, x, y) == dag[x].rank < dag[y].rank

\* SortedFrameEvents.Less: by Lamport timestamp, then by signature.
Less(h, x, y) ==
    \/ h.lamport[x] < h.lamport[y]
    \/ h.lamport[x] = h.lamport[y] /\ dag[x].rank < dag[y].rank

SortEvents(h, S) ==
    [i \in 1..Cardinality(S) |->
        CHOOSE x \in S : Cardinality({y \in S : Less(h, y, x)}) = i - 1]

\* Median of the timestamps of the events S: the middle one of an odd number,
\* the mean of the middle two, rounded down, of an even number.
Median(S) ==
    LET n == Cardinality(S)
        ts(x) == dag[x].ts
        kth(k) == CHOOSE t \in {ts(x) : x \in S} :
                     /\ Cardinality({x \in S : ts(x) < t}) < k
                     /\ Cardinality({x \in S : ts(x) <= t}) >= k
    IN  CASE n = 0     -> 0
          [] n % 2 = 1 -> kth(n \div 2 + 1)
          [] OTHER     -> (kth(n \div 2) + kth(n \div 2 + 1)) \div 2

-----------------------------------------------------------------------------
(***************************************************************************)
(* Frames.                                                                 *)
(***************************************************************************)

PositionsOf(events, p) == {i \in DOMAIN events : Creator(events[i]) = p}

\* createRoot: the event head and up to RootDepth events before it.
CreateRoot(h, p, head) == {<<p, k>> : k \in head - RootDepth .. head} \cap h.known

\* The index below which p's events in the frame begin: the self-parent of its
\* first event there, or its last consensus event.
RootHead(h, events, p) ==
    LET pos == PositionsOf(events, p)
    IN  IF pos = {}
        THEN h.lastConsensus[p]
        ELSE Index(events[CHOOSE i \in pos : \A k \in pos : i <= k]) - 1

\* What createFrameEvent adds to an event.
FrameEvents(h, S) ==
    [x \in S |-> [round |-> h.round[x], lamport |-> h.lamport[x], witness |-> h.witness[x]]]

\* GetFrame, for a round that has no frame yet.
GetFrame(h, r) ==
    LET events == SortEvents(h, {x \in h.known : h.rr[x] = r})
        owners == {Creator(events[i]) : i \in DOMAIN events}
                    \cup {p \in Repertoire(h.peerSets) : AddedBy(h.peerSets, p, r)}
        roots  == [p \in owners |-> CreateRoot(h, p, RootHead(h, events, p))]
    IN  [round    |-> r,
         peers    |-> GetPeerSet(h, r),
         events   |-> events,
         roots    |-> roots,
         info     |-> FrameEvents(h, Range(events) \cup UNION {roots[p] : p \in owners}),
         peerSets |-> h.peerSets,
         ts       |-> Median(FamousWitnesses(h, r))]

-----------------------------------------------------------------------------
(***************************************************************************)
(* Blocks.                                                                 *)
(***************************************************************************)

\* NewBlockFromFrame: the payload of the frame's events, in order.  The
\* transactions of an event are represented by the event.
NewBlockFromFrame(i, frame) ==
    [index |-> i, round |-> frame.round, peers |-> frame.peers, ts |-> frame.ts,
     txs   |-> SelectSeq(frame.events, LAMBDA x : dag[x].txs),
     itxs  |-> FlattenSeq([k \in DOMAIN frame.events |-> dag[frame.events[k]].itxs]),
     committed |-> FALSE, sigs |-> {}]

HasPayload(b) == b.txs # <<>> \/ b.itxs # <<>>

\* Store.LastBlockIndex.
LastBlockIndex(h) == MaxOrNone(DOMAIN h.blocks)

\* Store.SetBlock.
SetBlock(h, b) ==
    [h EXCEPT !.blocks = [i \in DOMAIN h.blocks \cup {b.index} |->
                             IF i = b.index THEN b ELSE h.blocks[i]]]

\* SetAnchorBlock: the highest block with more than a third of signatures.
SetAnchorBlock(h, b) ==
    IF Cardinality(b.sigs) > TrustCount(GetPeerSet(h, b.round)) /\ b.index > h.anchor
    THEN [h EXCEPT !.anchor = b.index]
    ELSE h

\* How many rounds after the round-received of an internal transaction the new
\* peer-set takes effect.
EffectiveDelay == 6

\* processAcceptedInternalTransactions: the accepted joins and leaves of block
\* b, one after the other.  What only gossip and the join protocol read (peers,
\* targetRound, removedRound, lastPeerChangeRound, promises) is left out.
ApplyInternal(P, t) ==
    IF t.type = "PEER_ADD" THEN WithNewPeer(P, t.peer) ELSE WithRemovedPeer(P, t.peer)

ApplyAccepted(P, itxs) ==
    LET after[i \in 0..Len(itxs)] ==
            CASE i = 0 -> P
              [] i > 0 /\ itxs[i] \in Refused -> after[i - 1]
              [] OTHER -> ApplyInternal(after[i - 1], itxs[i])
    IN  after[Len(itxs)]

AllRefused(b) == \A i \in DOMAIN b.itxs : b.itxs[i] \in Refused

ProcessAcceptedMutant(h, b) ==
    LET validators == ApplyAccepted(GetPeerSet(h, b.round), b.itxs)
        effective  == b.round + EffectiveDelay
    IN  IF AllRefused(b) \/ effective \in DOMAIN h.peerSets
        THEN h
        ELSE [h EXCEPT !.validators = validators,
                       !.peerSets = SetPeerSet(@, effective, validators)]

ProcessAccepted(h, b) ==
    LET validators == ApplyAccepted(h.validators, b.itxs)
        effective  == b.round + EffectiveDelay
    IN  IF AllRefused(b) \/ effective \in DOMAIN h.peerSets
        THEN h
        ELSE [h EXCEPT !.validators = validators,
                       !.peerSets = SetPeerSet(@, effective, validators)]

\* core.commit on node n: unless the application fails, the block gets its
\* state hash, is signed by a member of its peer-set, and its receipts are
\* processed.  The copy of the signature that the next self-event carries is
\* part of the graph: dag[x].sigs.
Commit(h, n, b) ==
    IF <<n, b.index>> \in AppFailures
    THEN h
    ELSE LET signer == {n} \cap GetPeerSet(h, b.round)
             signed == [b EXCEPT !.committed = TRUE, !.sigs = signer]
         IN  ProcessAccepted(SetAnchorBlock(SetBlock(h, signed), signed), signed)

\* The body of the loop of ProcessDecidedRounds: the frame of round r, its
\* events as consensus events, and its block, if it has a payload.
ProcessRound(h, n, r) ==
    LET frame == GetFrame(h, r)
        last(p) == LET pos == PositionsOf(frame.events, p)
                   IN  CHOOSE i \in pos : \A k \in pos : k <= i
        g == [h EXCEPT
                !.frames = [k \in DOMAIN h.frames \cup {r} |-> IF k = r THEN frame ELSE h.frames[k]],
                !.lastConsensus = [p \in Participants |->
                    IF PositionsOf(frame.events, p) = {}
                    THEN h.lastConsensus[p]
                    ELSE Index(frame.events[last(p)])],
                !.loaded = @ - Cardinality({x \in Range(frame.events) : IsLoaded(x)})]
        block == NewBlockFromFrame(LastBlockIndex(h) + 1, frame)
    IN  IF HasPayload(block) THEN Commit(SetBlock(g, block), n, block) ELSE g

ProcessableMutant(h) == {r \in DOMAIN h.pending : h.pending[r]}

\* The decided rounds that no undecided pending round precedes.
Processable(h) ==
    {r \in DOMAIN h.pending : \A k \in DOMAIN h.pending : k <= r => h.pending[k]}

Ascending(S) ==
    [i \in 1..Cardinality(S) |-> CHOOSE r \in S : Cardinality({k \in S : k < r}) = i - 1]

\* The loop: ProcessRounds(h, n, rounds)[i] is what i passes leave.
ProcessRounds(h, n, rounds) ==
    LET after[i \in 0..Len(rounds)] ==
            IF i = 0 THEN h ELSE ProcessRound(after[i - 1], n, rounds[i])
    IN  after

\* ProcessDecidedRounds.
ProcessDecidedRounds(h, n) ==
    LET rounds == Processable(h)
        g == ProcessRounds(h, n, Ascending(rounds))[Cardinality(rounds)]
    IN  [h EXCEPT !.frames = g.frames, !.blocks = g.blocks, !.anchor = g.anchor,
                  !.peerSets = g.peerSets, !.validators = g.validators,
                  !.lastConsensus = g.lastConsensus, !.loaded = g.loaded,
                  !.pending = [r \in DOMAIN h.pending \ rounds |-> h.pending[r]],
                  !.lastConsensusRound = MaxOrNone({@} \cup rounds)]

-----------------------------------------------------------------------------
(***************************************************************************)
(* Block signatures.  A signature is genuine for a block that was          *)
(* committed: it covers the state hash that the application returned.      *)
(***************************************************************************)

\* A pooled signature that ProcessSigPool appends to its block: the block is
\* known, the validator belongs to its peer-set, and the signature verifies.
Verifies(h, s) ==
    /\ s.index \in DOMAIN h.blocks
    /\ LET block == h.blocks[s.index]
       IN  /\ s.validator \in GetPeerSet(h, block.round)
           /\ block.committed
           /\ s.round = block.round

AppendSignaturesMutant(h) ==
    LET valid == {s \in h.sigPool : Verifies(h, s)}
        sigs(i) == {s.validator : s \in {t \in valid : t.index = i}}
        blocks == [i \in DOMAIN h.blocks |-> [h.blocks[i] EXCEPT !.sigs = @ \cup sigs(i)]]
        touched == {blocks[s.index] : s \in valid}
        anchors == {b.index : b \in {c \in touched :
                        Cardinality(c.sigs) >= TrustCount(GetPeerSet(h, c.round))}}
    IN  [h EXCEPT !.blocks = blocks,
                  !.sigPool = @ \ valid,
                  !.anchor = MaxOrNone({@} \cup anchors)]

\* ProcessSigPool: the order in which the pool is visited does not matter.
AppendSignatures(h) ==
    LET valid == {s \in h.sigPool : Verifies(h, s)}
        sigs(i) == {s.validator : s \in {t \in valid : t.index = i}}
        blocks == [i \in DOMAIN h.blocks |-> [h.blocks[i] EXCEPT !.sigs = @ \cup sigs(i)]]
        touched == {blocks[s.index] : s \in valid}
        anchors == {b.index : b \in {c \in touched :
                        Cardinality(c.sigs) > TrustCount(GetPeerSet(h, c.round))}}
    IN  [h EXCEPT !.blocks = blocks,
                  !.sigPool = @ \ valid,
                  !.anchor = MaxOrNone({@} \cup anchors)]

-----------------------------------------------------------------------------

\* NewHashgraph and Init.
NewHashgraph ==
    [known         |-> {},
     la            |-> [x \in Events |-> [p \in Participants |-> -1]],
     fd            |-> [x \in Events |-> [p \in Participants |-> -1]],
     round         |-> [x \in Events |-> -1],
     lamport       |-> [x \in Events |-> -1],
     witness       |-> [x \in Events |-> FALSE],
     famous        |-> [x \in Events |-> "undefined"],
     rr            |-> [x \in Events |-> -1],
     undetermined  |-> {},
     decided       |-> {},
     pending       |-> [r \in {} |-> FALSE],
     lowerBound    |-> -1,
     lastConsensusRound |-> -1,
     lastConsensus |-> [p \in Participants |-> -1],
     loaded        |-> 0,
     frames        |-> [r \in {} |-> FALSE],
     blocks        |-> [i \in {} |-> FALSE],
     anchor        |-> -1,
     sigPool       |-> {},
     peerSets      |-> [r \in {0} |-> Genesis],
     validators    |-> Genesis]

Init ==
    /\ dag \in Dags
    /\ hg = [n \in Nodes |-> NewHashgraph]

InsertEventAndRunConsensusMutant(n, x) ==
    /\ x \notin hg[n].known
    /\ CanInsert(hg[n], x)
    /\ LET h == DivideRounds(InsertEvent(hg[n], x), x)
       IN  \E fame \in FameDecisions(h) :
               hg' = [hg EXCEPT ![n] =
                        DecideRoundReceived(ProcessDecidedRounds(DecideFame(h, fame), n))]
    /\ UNCHANGED dag

\* InsertEventAndRunConsensus.
InsertEventAndRunConsensus(n, x) ==
    /\ x \notin hg[n].known
    /\ CanInsert(hg[n], x)
    /\ LET h == DivideRounds(InsertEvent(hg[n], x), x)
       IN  \E fame \in FameDecisions(h) :
               hg' = [hg EXCEPT ![n] =
                        ProcessDecidedRounds(DecideRoundReceived(DecideFame(h, fame)), n)]
    /\ UNCHANGED dag

\* ProcessSigPool, at the end of every sync.
ProcessSigPool(n) ==
    /\ hg' = [hg EXCEPT ![n] = AppendSignatures(hg[n])]
    /\ UNCHANGED dag

Next ==
    \E n \in Nodes :
        \/ \E x \in Events : InsertEventAndRunConsensus(n, x)
        \/ ProcessSigPool(n)

Spec == Init /\ [][Next]_vars
=============================================================================
