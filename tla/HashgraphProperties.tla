------------------------ MODULE HashgraphProperties ------------------------
(***************************************************************************)
(* What makes the consensus engine correct, and the reference definitions  *)
(* its shortcuts are compared with.                                        *)
(***************************************************************************)
EXTENDS Hashgraph

Trilean == {"undefined", "true", "false"}

\* The part of a hashgraph that events, rounds and fame make up.
GraphTypeOK(h) ==
    /\ DOMAIN h = DOMAIN NewHashgraph
    /\ h.known \subseteq Events
    /\ h.la \in [Events -> [Participants -> Int]]
    /\ h.fd \in [Events -> [Participants -> Int]]
    /\ h.round \in [Events -> Int]
    /\ h.lamport \in [Events -> Int]
    /\ h.witness \in [Events -> BOOLEAN]
    /\ h.famous \in [Events -> Trilean]
    /\ h.rr \in [Events -> Int]
    /\ h.undetermined \subseteq h.known
    /\ h.decided \subseteq Int
    /\ DOMAIN h.pending \subseteq Int
    /\ h.pending \in [DOMAIN h.pending -> BOOLEAN]

-----------------------------------------------------------------------------
(***************************************************************************)
(* Agreement between nodes.                                                *)
(***************************************************************************)

\* Two nodes that processed the same round, whatever the order in which they
\* inserted events, computed the same frame (GetFrame): events, order, roots,
\* peer-sets and timestamp.
FramesAgree ==
    \A m, n \in Nodes : \A r \in DOMAIN hg[m].frames \cap DOMAIN hg[n].frames :
        hg[m].frames[r] = hg[n].frames[r]

\* Two nodes that know the same events processed the same rounds: a witness
\* that came late on one of them and early on the other holds neither back
\* (WitnessesDecided).
SameEventsSameFrames ==
    \A m, n \in Nodes : hg[m].known = hg[n].known =>
        /\ hg[m].frames = hg[n].frames
        /\ hg[m].rr = hg[n].rr
        /\ hg[m].peerSets = hg[n].peerSets

-----------------------------------------------------------------------------
(***************************************************************************)
(* One node: what it decided stays decided.                                *)
(***************************************************************************)

\* The famous witnesses of a decided round never change, although DecideFame
\* still votes on the late witnesses of a decided round that is pending: the
\* frames and timestamps of the round depend on them.
FamousWitnessesFrozen ==
    [][\A n \in Nodes : \A r \in hg[n].decided :
          /\ r \in hg'[n].decided
          /\ FamousWitnesses(hg[n], r)' = FamousWitnesses(hg[n], r)]_vars

\* g has all that h computed about the events that h knows.
Keeps(h, g) ==
    /\ h.decided \subseteq g.decided
    /\ h.known \subseteq g.known
    /\ \A x \in h.known :
           /\ g.la[x] = h.la[x]
           /\ g.round[x] = h.round[x]
           /\ g.lamport[x] = h.lamport[x]
           /\ g.witness[x] = h.witness[x]
           /\ h.famous[x] # "undefined" => g.famous[x] = h.famous[x]
           /\ h.rr[x] # -1 => g.rr[x] = h.rr[x]

\* What was computed about an event is never revised: its coordinates, round,
\* timestamp and witness flag, its fame once it is defined, its round-received
\* once it has one; and a decided round stays decided.
EventsFrozen == [][\A n \in Nodes : Keeps(hg[n], hg'[n])]_vars

\* No event is received in a round whose frame was already made: it would be
\* in no block (DecideRoundReceived, GetFrame).
NoLateReception ==
    \A n \in Nodes : \A r \in DOMAIN hg[n].frames :
        Range(hg[n].frames[r].events) = {x \in hg[n].known : hg[n].rr[x] = r}

\* Rounds are processed in order and none is skipped, even when a later round
\* is decided first: the processed rounds are those up to LastConsensusRound,
\* and the rounds after it are pending.
RoundsInOrder ==
    \A n \in Nodes :
        LET h == hg[n]
        IN  /\ DOMAIN h.frames = 0..h.lastConsensusRound
            /\ DOMAIN h.pending = h.lastConsensusRound + 1 .. LastRound(h)
            /\ \A r \in DOMAIN h.pending : h.pending[r] <=> r \in h.decided
            /\ h.lastConsensusRound + 1 \in DOMAIN h.pending
                   => ~h.pending[h.lastConsensusRound + 1]

\* Consensus order respects causality: the parents of an event in a frame are
\* in that frame, before the event, or in an earlier one.
CausalOrder ==
    \A n \in Nodes :
        LET h == hg[n]
        IN  \A r \in DOMAIN h.frames : \A k \in DOMAIN h.frames[r].events :
                \A y \in KnownParents(h, h.frames[r].events[k]) :
                    \/ \E q \in DOMAIN h.frames : q < r /\ y \in Range(h.frames[q].events)
                    \/ \E i \in 1 .. k - 1 : h.frames[r].events[i] = y

-----------------------------------------------------------------------------
(***************************************************************************)
(* What FameElection takes for granted.                                    *)
(***************************************************************************)

\* A peer has at most one witness in a round, and a witness of round r > 0
\* strongly sees a super-majority of the witnesses of round r-1, even when it
\* inherits its round from a parent.
WitnessesCount ==
    \A n \in Nodes :
        LET h == hg[n]
        IN  \A w \in {x \in h.known : h.witness[x]} :
                /\ \A y \in Witnesses(h, h.round[w]) : Creator(y) = Creator(w) => y = w
                /\ h.round[w] > 0 =>
                       Cardinality(StronglySeenWitnesses(h, w, h.round[w] - 1))
                           >= SuperMajority(GetPeerSet(h, h.round[w] - 1))

-----------------------------------------------------------------------------
(***************************************************************************)
(* Coordinates against the definitions they stand for.                     *)
(***************************************************************************)

\* Ancestry by its definition: Ancestry(h)[x] is x and the ancestors of x,
\* collected parents first.
Ancestry(h) ==
    FoldLeft(LAMBDA below, x : [below EXCEPT ![x] =
                 {x} \cup UNION {below[y] : y \in KnownParents(h, x)}],
             [x \in h.known |-> {}],
             SortEvents(h, h.known))

\* x strongly sees y by its definition: through an event of each of a
\* super-majority of P.
StronglySeeDef(below, x, y, P) ==
    Cardinality({p \in P : \E z \in below[x] : Creator(z) = p /\ y \in below[z]})
        >= SuperMajority(P)

\* The recursive definition of ancestry, on coordinates: x sees y iff y is x or
\* one of the parents of x sees y.
SeeByParents ==
    \A n \in Nodes :
        LET h == hg[n]
        IN  \A x, y \in h.known :
                See(h, x, y) <=> x = y \/ \E z \in KnownParents(h, x) : See(h, z, y)

\* What x sees has a lower Lamport timestamp and no higher round: the order of
\* SortedFrameEvents extends causality, and rounds are monotone along it.
CausalTimestamps ==
    \A n \in Nodes :
        LET h == hg[n]
        IN  \A x, y \in h.known : See(h, x, y) /\ x # y =>
                h.lamport[y] < h.lamport[x] /\ h.round[y] <= h.round[x]

\* firstDescendants, which updateAncestorFirstDescendant leaves incomplete
\* below a witness, still gives every event the round that the definition of
\* strongly seeing gives it.
RoundsByDefinition ==
    \A n \in Nodes :
        LET h == hg[n]
            below == Ancestry(h)
        IN  \A x \in h.known : ParentRound(h, x) # -1 =>
                LET r == ParentRound(h, x)
                    P == GetPeerSet(h, r)
                    S == {w \in Witnesses(h, r) \ {x} : StronglySeeDef(below, x, w, P)}
                IN  h.round[x] = IF Cardinality(S) >= SuperMajority(P) THEN r + 1 ELSE r

\* stronglySee, as a test of a witness, is what strongly seeing is defined to
\* be in docs/consensus.rst.
StronglySeeByDefinition ==
    \A n \in Nodes :
        LET h == hg[n]
            below == Ancestry(h)
        IN  \A x \in h.known : \A w \in Witnesses(h, h.round[x] - 1) :
                LET P == GetPeerSet(h, h.round[w])
                IN  StronglySee(h, x, w, P) = StronglySeeDef(below, x, w, P)

-----------------------------------------------------------------------------
(***************************************************************************)
(* Counters, blocks, signatures and membership.                            *)
(***************************************************************************)

\* The anchor block is the highest block that more than a third of its peers
\* signed, and it was committed by the application.
AnchorIsHighest ==
    \A n \in Nodes :
        LET h == hg[n]
            trusted == {i \in DOMAIN h.blocks :
                Cardinality(h.blocks[i].sigs) > TrustCount(GetPeerSet(h, h.blocks[i].round))}
        IN  /\ h.anchor = MaxOrNone(trusted)
            /\ h.anchor # -1 => h.blocks[h.anchor].committed

\* The accepted internal transactions of block b about peer p.
AcceptedOf(b, p) ==
    {k \in DOMAIN b.itxs : b.committed /\ b.itxs[k] \notin Refused /\ b.itxs[k].peer = p}

\* The last accepted internal transaction about p in the blocks of h lets p in.
LetIn(h, p) ==
    \E i \in DOMAIN h.blocks : \E k \in AcceptedOf(h.blocks[i], p) :
        /\ h.blocks[i].itxs[k].type = "PEER_ADD"
        /\ \A j \in DOMAIN h.blocks : \A m \in AcceptedOf(h.blocks[j], p) :
               j < i \/ (j = i /\ m <= k)

\* No join or leave is lost, even one that is processed before the previous one
\* has taken effect: the validators are the peers that the accepted internal
\* transactions of all committed blocks let in last, and those of the genesis
\* peer-set that no transaction is about; and they are the peer-set recorded
\* last (processAcceptedInternalTransactions).
MembershipFollowsBlocks ==
    \A n \in Nodes :
        LET h == hg[n]
        IN  /\ h.validators = {p \in Participants :
                   \/ LetIn(h, p)
                   \/ p \in Genesis /\ \A i \in DOMAIN h.blocks : AcceptedOf(h.blocks[i], p) = {}}
            /\ h.validators = h.peerSets[MaxOrNone(DOMAIN h.peerSets)]

-----------------------------------------------------------------------------
(***************************************************************************)
(* The inductive invariant of the proofs: why coordinates mean ancestry.   *)
(***************************************************************************)

\* The parents of a known event are known.
ParentsKnown(h) ==
    \A x \in h.known : /\ Index(x) = 0 \/ SelfParent(x) \in h.known
                       /\ Index(OtherParent(x)) = -1 \/ OtherParent(x) \in h.known

\* The last ancestor of x by p is x, or the highest among those of the parents,
\* and it is a known event.
LastAncestorsKnown(h) ==
    \A x \in h.known : \A p \in Participants :
        /\ h.la[x][p] = IF p = Creator(x) THEN Index(x)
                        ELSE MaxOrNone({h.la[y][p] : y \in KnownParents(h, x)})
        /\ h.la[x][p] # -1 => <<p, h.la[x][p]>> \in h.known

\* The parents of x do not see x.
ParentsBelow(h) ==
    \A x \in h.known : \A y \in KnownParents(h, x) : h.la[y][Creator(x)] < Index(x)

\* What x sees has a lower timestamp and no higher round.
SeenIsLower(h) ==
    \A x, y \in h.known : See(h, x, y) /\ x # y =>
        h.lamport[y] < h.lamport[x] /\ h.round[y] <= h.round[x]

\* UndeterminedEvents are the known events without a round-received.
UndeterminedIsUnreceived(h) ==
    /\ h.undetermined = {x \in h.known : h.rr[x] = -1}
    /\ \A x \in Events : h.rr[x] # -1 => x \in h.known

GraphInv(h) ==
    /\ GraphTypeOK(h)
    /\ ParentsKnown(h)
    /\ LastAncestorsKnown(h)
    /\ ParentsBelow(h)
    /\ SeenIsLower(h)
    /\ UndeterminedIsUnreceived(h)

\* The graph of every node is well typed, closed under parents, and its
\* lastAncestors are exact: no insertion, in whatever order, spoils them.
GraphInvariant ==
    /\ dag \in Dags
    /\ DOMAIN hg = Nodes
    /\ \A n \in Nodes : GraphInv(hg[n])

-----------------------------------------------------------------------------
(***************************************************************************)
(* The inductive invariant of the proofs: how rounds become frames.        *)
(***************************************************************************)

\* Every round up to the last one has an event, and rounds are decided.
RoundInv(h) ==
    /\ IsFiniteSet(h.known)
    /\ h.lowerBound = -1
    /\ LastRound(h) \in Int /\ LastRound(h) >= -1
    /\ \A x \in h.known : h.round[x] \in 0..LastRound(h)
    /\ \A r \in 0..LastRound(h) : \E x \in h.known : h.round[x] = r
    /\ h.decided \subseteq 0..LastRound(h)
    /\ \A x \in Events : h.famous[x] # "undefined" => x \in h.known

\* The rounds up to LastConsensusRound are decided and have a frame, those after
\* it are pending.
PendingInv(h) ==
    /\ h.lastConsensusRound \in Int /\ h.lastConsensusRound >= -1
    /\ h.lastConsensusRound <= LastRound(h)
    /\ 0..h.lastConsensusRound \subseteq h.decided
    /\ DOMAIN h.frames = 0..h.lastConsensusRound
    /\ DOMAIN h.pending = h.lastConsensusRound + 1 .. LastRound(h)
    /\ \A r \in DOMAIN h.pending : h.pending[r] <=> r \in h.decided

\* PendingRounds does not begin with a decided round.
NextUndecided(h) ==
    h.lastConsensusRound + 1 \in DOMAIN h.pending => ~h.pending[h.lastConsensusRound + 1]

\* The peer-sets recorded when the rounds up to last are processed.
PeerSetsInv(h, last) ==
    /\ 0 \in DOMAIN h.peerSets
    /\ DOMAIN h.peerSets \subseteq 0 .. last + EffectiveDelay
    /\ \A r \in DOMAIN h.peerSets : h.peerSets[r] \subseteq Participants
    /\ h.validators = h.peerSets[MaxOrNone(DOMAIN h.peerSets)]

\* The blocks: numbered from 0, from rounds up to last, signed by members once
\* they are committed.
BlocksInv(h, last) ==
    /\ LastBlockIndex(h) \in Int /\ LastBlockIndex(h) >= -1
    /\ DOMAIN h.blocks = 0..LastBlockIndex(h)
    /\ \A i \in DOMAIN h.blocks :
           /\ DOMAIN h.blocks[i] = {"index", "round", "peers", "ts", "txs", "itxs", "committed", "sigs"}
           /\ h.blocks[i].index = i /\ h.blocks[i].round \in 0..last
           /\ h.blocks[i].sigs \subseteq Participants
           /\ h.blocks[i].committed \in BOOLEAN
           /\ h.blocks[i].sigs # {} => h.blocks[i].committed

\* The blocks that more than a third of their peers signed.
Trusted(h) ==
    {i \in DOMAIN h.blocks :
        Cardinality(h.blocks[i].sigs) > TrustCount(GetPeerSet(h, h.blocks[i].round))}

AnchorInv(h) == h.anchor = MaxOrNone(Trusted(h))

\* The peers that the blocks let in.
Members(h) ==
    {p \in Participants :
        LetIn(h, p) \/ (p \in Genesis /\ \A i \in DOMAIN h.blocks : AcceptedOf(h.blocks[i], p) = {})}

\* What the rounds up to last leave.
ChainInv(h, last) ==
    /\ PeerSetsInv(h, last) /\ BlocksInv(h, last)
    /\ AnchorInv(h) /\ h.validators = Members(h)

OrderInv(h) == RoundInv(h) /\ PendingInv(h) /\ ChainInv(h, h.lastConsensusRound)

OrderInvariant == \A n \in Nodes : OrderInv(hg[n]) /\ NextUndecided(hg[n])

\* What "Why +6?" in processAcceptedInternalTransactions takes for granted: the
\* fame of the witnesses of a round is decided by the fifth round after it.
DecidedByFive ==
    \A n \in Nodes : LastRound(hg[n]) <= hg[n].lastConsensusRound + EffectiveDelay - 1

\* An undetermined event is not received in a round that was processed.
ReceivedInTime(h) ==
    \A x \in h.undetermined : \A i \in 0..h.lastConsensusRound :
        i > h.round[x] => ~SeenByFamous(h, x, i)

\* A frame has the events that were received in its round.
FramesFull(h) ==
    \A r \in 0..h.lastConsensusRound :
        Range(h.frames[r].events) = {x \in h.known : h.rr[x] = r}

\* A witness comes after an event of a lower round, and only known events have a
\* round.
WitnessFirst(h) ==
    /\ \A x \in h.known : h.witness[x] /\ SelfParent(x) \in h.known =>
           h.round[x] > h.round[SelfParent(x)]
    /\ \A x \in Events : x \notin h.known => h.round[x] = -1

\* Any event, witness or not, strongly sees a super-majority of the witnesses of
\* the round before its own.
SeesRoundBefore(h) ==
    \A x \in h.known : h.round[x] > 0 =>
        Cardinality(StronglySeenWitnesses(h, x, h.round[x] - 1))
            >= SuperMajority(GetPeerSet(h, h.round[x] - 1))

ReceptionInv(h) == ReceivedInTime(h) /\ FramesFull(h) /\ WitnessFirst(h) /\ SeesRoundBefore(h)

ReceptionInvariant == \A n \in Nodes : ReceptionInv(hg[n])
=============================================================================
