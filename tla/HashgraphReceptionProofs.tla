--------------------- MODULE HashgraphReceptionProofs ---------------------
(***************************************************************************)
(* Proofs about when Hashgraph receives events and which witnesses count,  *)
(* as long as rounds are decided soon enough (DecidedByFive): no event is  *)
(* received in a round that was processed, and the witnesses of a round    *)
(* are one for a peer and strongly see the round before.                   *)
(***************************************************************************)
EXTENDS HashgraphOrderProofs

-----------------------------------------------------------------------------
(***************************************************************************)
(* Reception: no event is received in a round that was processed.          *)
(***************************************************************************)

\* What an event is seen by depends on coordinates, fame and peers.
LEMMA SeenFrozen ==
    ASSUME NEW h, NEW g, \A w \in h.known : g.la[w] = h.la[w],
           NEW i, FamousWitnesses(g, i) = FamousWitnesses(h, i),
           GetPeerSet(g, i) = GetPeerSet(h, i), NEW y
    PROVE  SeenByFamous(g, y, i) <=> SeenByFamous(h, y, i)
<1> DEFINE F == FamousWitnesses(h, i)
<1>1. F \subseteq h.known
  BY DEF FamousWitnesses, Witnesses
<1>2. \A w \in F : See(g, w, y) <=> See(h, w, y)
  BY <1>1 DEF See
<1> HIDE DEF F
<1>3. FamousWitnesses(g, i) = F /\ FamousWitnesses(h, i) = F
  BY DEF F
<1> QED  BY <1>2, <1>3 DEF SeenByFamous

\* A super-majority is never empty.
LEMMA SomeFamous ==
    ASSUME NEW h, NEW last \in Int, PeerSetsInv(h, last), NEW i \in Int, i >= 0,
           NEW y, SeenByFamous(h, y, i)
    PROVE  \E w \in FamousWitnesses(h, i) : See(h, w, y)
<1> DEFINE P == GetPeerSet(h, i)
           F == FamousWitnesses(h, i)
<1>1. IsFiniteSet(P)
  BY PeersOfRound
<1>2. Cardinality(F) >= SuperMajority(P) /\ \A w \in F : See(h, w, y)
  BY DEF SeenByFamous
<1> HIDE DEF P, F
<1>3. Cardinality(P) \in Nat
  BY <1>1, FS_CardinalityType
<1>4. SuperMajority(P) \in Nat /\ SuperMajority(P) > 0
  BY <1>3 DEF SuperMajority
<1>5. F # {}
  BY <1>2, <1>4, FS_EmptySet
<1> QED  BY <1>2, <1>5 DEF F

\* No known event sees the one that is being inserted.
LEMMA NewUnseen ==
    ASSUME dag \in Dags, NEW h, GraphInv(h), NEW x \in Events, x \notin h.known,
           CanInsert(h, x), NEW last \in Int, PeerSetsInv(h, last), NEW i \in Int, i >= 0
    PROVE  ~SeenByFamous(h, x, i)
<1> SUFFICES ASSUME SeenByFamous(h, x, i)
             PROVE  FALSE
  OBVIOUS
<1>1. PICK w \in FamousWitnesses(h, i) : See(h, w, x)
  BY SomeFamous
<1>2. w \in h.known /\ w # x
  BY DEF FamousWitnesses, Witnesses
<1> DEFINE p == Creator(x)
           k == h.la[w][p]
<1>3. p \in Participants /\ Index(x) \in Nat
  BY EventNames
<1>4. k \in Int /\ k >= Index(x)
  BY <1>1, <1>2, <1>3 DEF See, GraphInv, GraphTypeOK
<1>8. h.la[w][p] # -1 => <<p, h.la[w][p]>> \in h.known
  BY <1>2, <1>3, Zenon DEF GraphInv, LastAncestorsKnown
<1>5. <<p, k>> \in h.known
  BY <1>3, <1>4, <1>8
<1>6. Creator(<<p, k>>) = p /\ Index(<<p, k>>) = k
  BY DEF Creator, Index
<1>7. k < Index(x)
  BY <1>5, <1>6 DEF CanInsert
<1> QED  BY <1>3, <1>4, <1>7

\* InsertEvent and DivideRounds change no set of famous witnesses.
LEMMA InsertFamous ==
    ASSUME NEW h, NEW d, NEW x, Keeps(h, d), d.known = h.known \cup {x},
           x \in Events, x \notin h.known, d.famous = h.famous, RoundInv(h), NEW i
    PROVE  FamousWitnesses(d, i) = FamousWitnesses(h, i)
<1>1. \A w \in h.known : d.round[w] = h.round[w] /\ d.witness[w] = h.witness[w]
  BY DEF Keeps
<1>2. d.famous[x] = "undefined"
  BY DEF RoundInv
<1> QED  BY <1>1, <1>2 DEF FamousWitnesses, Witnesses

\* DecideFame changes none of a round that is not pending.
LEMMA FameFamous ==
    ASSUME NEW h, GraphInv(h), NEW fame \in FameDecisions(h), NEW g, g = DecideFame(h, fame),
           NEW i, i \notin DOMAIN h.pending
    PROVE  FamousWitnesses(g, i) = FamousWitnesses(h, i)
<1>1. DOMAIN h = DOMAIN NewHashgraph /\ h.known \subseteq Events
  BY DEF GraphInv, GraphTypeOK
<1>2. \A x \in Events : x \notin DOMAIN fame => g.famous[x] = h.famous[x]
  BY <1>1, FameChain
<1>3. g.known = h.known /\ g.round = h.round /\ g.witness = h.witness
  BY <1>1, DecideFameFields
<1>4. \A x \in DOMAIN fame : h.round[x] \in DOMAIN h.pending
  BY DEF FameDecisions
<1> QED  BY <1>1, <1>2, <1>3, <1>4 DEF FamousWitnesses, Witnesses

\* Reception and frames after InsertEvent and DivideRounds.
LEMMA InsertReception ==
    ASSUME dag \in Dags, NEW h, GraphInv(h), OrderInv(h), ReceivedInTime(h), FramesFull(h),
           NEW x \in Events, x \notin h.known, CanInsert(h, x),
           NEW d, d = DivideRounds(InsertEvent(h, x), x)
    PROVE  ReceivedInTime(d) /\ FramesFull(d)
<1> DEFINE i == InsertEvent(h, x)
           c == h.lastConsensusRound
<1>1. /\ RoundInv(h) /\ PendingInv(h) /\ ChainInv(h, c) /\ PeerSetsInv(h, c)
      /\ c \in Int /\ c >= -1
  BY DEF OrderInv, PendingInv, ChainInv
<1>2. GraphTypeOK(h) /\ DOMAIN h = DOMAIN NewHashgraph /\ UndeterminedIsUnreceived(h)
  BY DEF GraphInv, GraphTypeOK
<1>3. /\ DOMAIN i = DOMAIN NewHashgraph
      /\ i.known = h.known \cup {x} /\ i.undetermined = h.undetermined \cup {x}
      /\ i.famous = h.famous /\ i.rr = h.rr
  BY <1>2, InsertChain
<1> HIDE DEF i
<1>4. /\ d.known = h.known \cup {x} /\ d.undetermined = h.undetermined \cup {x}
      /\ d.famous = h.famous /\ d.rr = h.rr
  BY <1>3, DivideFields DEF i
<1>5. SameChain(h, d)
  BY <1>1, InsertRounds
<1>6. d.lastConsensusRound = c /\ d.frames = h.frames /\ d.peerSets = h.peerSets
  BY <1>5 DEF SameChain
<1>7. Keeps(h, d)
  BY InsertKeeps
<1>8. \A w \in h.known : d.la[w] = h.la[w] /\ d.round[w] = h.round[w]
  BY <1>7 DEF Keeps
<1> HIDE DEF c
<1>9. ASSUME NEW y \in d.undetermined, NEW k \in 0..c, k > d.round[y]
      PROVE  ~SeenByFamous(d, y, k)
  <2>1. SeenByFamous(d, y, k) <=> SeenByFamous(h, y, k)
    <3>1. FamousWitnesses(d, k) = FamousWitnesses(h, k)
      BY <1>1, <1>4, <1>7, InsertFamous, Zenon
    <3>2. GetPeerSet(d, k) = GetPeerSet(h, k)
      BY <1>6 DEF GetPeerSet
    <3> QED  BY <1>8, <3>1, <3>2, SeenFrozen
  <2>2. k \in Int /\ k >= 0
    BY <1>1
  <2>3. CASE y = x
    <3>1. ~SeenByFamous(h, x, k)
      BY <1>1, <2>2, NewUnseen
    <3> QED  BY <2>1, <2>3, <3>1
  <2>4. CASE y # x
    <3>1. y \in h.undetermined /\ y \in h.known
      BY <1>2, <1>4, <2>4 DEF GraphTypeOK
    <3>2. k > h.round[y]
      BY <1>8, <1>9, <3>1
    <3> QED  BY <2>1, <3>1, <3>2 DEF ReceivedInTime, c
  <2> QED  BY <2>3, <2>4
<1>10. ReceivedInTime(d)
  BY <1>6, <1>9 DEF ReceivedInTime
<1>11. h.rr[x] = -1
  BY <1>2 DEF UndeterminedIsUnreceived
<1>12. FramesFull(d)
  <2> SUFFICES ASSUME NEW k \in 0..c
               PROVE  Range(d.frames[k].events) = {y \in d.known : d.rr[y] = k}
    BY <1>6 DEF FramesFull
  <2>1. k # -1
    BY <1>1
  <2>2. Range(h.frames[k].events) = {y \in h.known : h.rr[y] = k}
    BY DEF FramesFull, c
  <2>3. {y \in d.known : d.rr[y] = k} = {y \in h.known : h.rr[y] = k}
    BY <1>4, <1>11, <2>1
  <2> QED  BY <1>6, <2>2, <2>3
<1> QED  BY <1>10, <1>12

\* After DecideFame.
LEMMA FameReception ==
    ASSUME NEW h, GraphInv(h), PendingInv(h), ReceivedInTime(h), FramesFull(h),
           NEW fame \in FameDecisions(h), NEW f, f = DecideFame(h, fame)
    PROVE  ReceivedInTime(f) /\ FramesFull(f)
<1>1. DOMAIN h = DOMAIN NewHashgraph
  BY DEF GraphInv, GraphTypeOK
<1>2. /\ f.known = h.known /\ f.undetermined = h.undetermined
      /\ f.la = h.la /\ f.round = h.round /\ f.rr = h.rr
  BY <1>1, DecideFameFields
<1>3. /\ f.lastConsensusRound = h.lastConsensusRound
      /\ f.frames = h.frames /\ f.peerSets = h.peerSets
  BY <1>1, FameChain DEF SameChain
<1>4. ASSUME NEW y, NEW k \in 0..h.lastConsensusRound
      PROVE  SeenByFamous(f, y, k) <=> SeenByFamous(h, y, k)
  <2>1. k \notin DOMAIN h.pending
    BY DEF PendingInv
  <2>2. FamousWitnesses(f, k) = FamousWitnesses(h, k)
    BY <2>1, FameFamous
  <2>3. GetPeerSet(f, k) = GetPeerSet(h, k)
    BY <1>3 DEF GetPeerSet
  <2> QED  BY <1>2, <2>2, <2>3, SeenFrozen
<1>5. ReceivedInTime(f)
  BY <1>2, <1>3, <1>4 DEF ReceivedInTime
<1>6. FramesFull(f)
  BY <1>2, <1>3 DEF FramesFull
<1> QED  BY <1>5, <1>6

\* The events of a round that DecideRoundReceived looks at: no later one is
\* looked at before all the rounds in between are decided.
LEMMA RoundReceivedIs ==
    ASSUME NEW h, GraphTypeOK(h), RoundInv(h), NEW x \in h.known, NEW v, v = RoundReceived(h, x)
    PROVE  /\ v # -1 => v \in Int /\ v > h.round[x] /\ v >= 0 /\ SeenByFamous(h, x, v)
           /\ v = -1 => \A m \in Int : 0..m \subseteq h.decided =>
                  \A i \in 0..m : i > h.round[x] => ~SeenByFamous(h, x, i)
<1> DEFINE L == LastRound(h)
           S == {i \in h.round[x] + 1 .. L :
                    i \in h.decided /\ LoopReaches(h, x, i) /\ SeenByFamous(h, x, i)}
           low == h.round[x] + 1
<1>1. /\ h.round[x] \in Int /\ h.round[x] >= 0 /\ L \in Int
      /\ h.decided \subseteq 0..L
      /\ \A k \in 0..L : \E y \in h.known : h.round[y] = k
  BY DEF GraphTypeOK, RoundInv
<1>2. v = IF S = {} THEN -1 ELSE CHOOSE i \in S : \A k \in S : i <= k
  BY Zenon DEF RoundReceived
<1>3. low \in Int /\ S \subseteq Int /\ \A k \in S : low <= k
  BY <1>1
<1>4. CASE S # {}
  <2> HIDE DEF S, low
  <2>1. \E m \in S : \A k \in S : m <= k
    BY <1>3, <1>4, LeastInteger, Zenon
  <2>2. v \in S
    BY <1>2, <1>4, <2>1
  <2>3. v \in Int /\ low <= v
    BY <1>3, <2>2
  <2>4. SeenByFamous(h, x, v)
    BY <2>2 DEF S
  <2> QED  BY <1>1, <2>3, <2>4 DEF low
<1>5. ASSUME S = {}, NEW m \in Int, 0..m \subseteq h.decided,
             NEW i \in 0..m, i > h.round[x], SeenByFamous(h, x, i)
      PROVE  FALSE
  <2> HIDE DEF L
  <2>1. i \in Int /\ i \in h.decided /\ i \in low .. L
    BY <1>1, <1>5
  <2>2. \A k \in low .. i : k \in 0..L /\ k \in h.decided
    BY <1>1, <1>5, <2>1
  <2>3. LoopReaches(h, x, i)
    BY <1>1, <2>2 DEF LoopReaches
  <2>4. i \in S
    BY <1>5, <2>1, <2>3
  <2> QED  BY <1>5, <2>4
<1>6. CASE S = {}
  <2>1. v = -1
    BY <1>2, <1>6
  <2>2. \A m \in Int : 0..m \subseteq h.decided =>
            \A i \in 0..m : i > h.round[x] => ~SeenByFamous(h, x, i)
    BY <1>5, <1>6
  <2> QED  BY <2>1, <2>2
<1> QED  BY <1>4, <1>6

\* An undetermined event is not received in a decided round below which all
\* rounds are decided.
NotSeenUpTo(h, m) ==
    \A x \in h.undetermined : \A i \in 0..m : i > h.round[x] => ~SeenByFamous(h, x, i)

\* After DecideRoundReceived.
LEMMA ReceivedReception ==
    ASSUME NEW h, GraphInv(h), RoundInv(h), PendingInv(h), ReceivedInTime(h), FramesFull(h),
           NEW r, r = DecideRoundReceived(h)
    PROVE  /\ FramesFull(r)
           /\ \A m \in Int : 0..m \subseteq r.decided => NotSeenUpTo(r, m)
<1> DEFINE c == h.lastConsensusRound
<1>1. GraphTypeOK(h) /\ DOMAIN h = DOMAIN NewHashgraph /\ UndeterminedIsUnreceived(h)
  BY DEF GraphInv, GraphTypeOK
<1>2. /\ r.rr = [x \in Events |-> IF x \in h.undetermined
                                  THEN RoundReceived(h, x) ELSE h.rr[x]]
      /\ r.undetermined = {x \in h.undetermined : r.rr[x] = -1}
      /\ r.known = h.known /\ r.famous = h.famous /\ r.decided = h.decided
      /\ r.la = h.la /\ r.round = h.round /\ r.witness = h.witness
  BY <1>1, ReceivedFields
<1>3. r.lastConsensusRound = c /\ r.frames = h.frames /\ r.peerSets = h.peerSets
  BY <1>1, ReceivedChain DEF SameChain
<1>4. h.undetermined \subseteq h.known /\ h.known \subseteq Events
  BY <1>1 DEF GraphTypeOK
<1>5. \A x \in Events : r.rr[x] = IF x \in h.undetermined THEN RoundReceived(h, x) ELSE h.rr[x]
  BY <1>2
<1>6. \A y, k : SeenByFamous(r, y, k) <=> SeenByFamous(h, y, k)
  <2> TAKE y, k
  <2>1. FamousWitnesses(r, k) = FamousWitnesses(h, k)
    BY <1>2 DEF FamousWitnesses, Witnesses
  <2>2. GetPeerSet(r, k) = GetPeerSet(h, k)
    BY <1>3 DEF GetPeerSet
  <2> QED  BY <1>2, <2>1, <2>2, SeenFrozen
<1>7. ASSUME NEW m \in Int, 0..m \subseteq r.decided
      PROVE  NotSeenUpTo(r, m)
  <2> SUFFICES ASSUME NEW x \in r.undetermined, NEW i \in 0..m, i > r.round[x]
               PROVE  ~SeenByFamous(r, x, i)
    BY Zenon DEF NotSeenUpTo
  <2>1. x \in h.known /\ RoundReceived(h, x) = -1 /\ i > h.round[x] /\ 0..m \subseteq h.decided
    BY <1>2, <1>4, <1>5, <1>7
  <2>2. ~SeenByFamous(h, x, i)
    BY <1>1, <2>1, RoundReceivedIs
  <2> QED  BY <1>6, <2>2
<1>8. c \in Int
  BY DEF PendingInv
<1>9. ASSUME NEW k \in 0..c, NEW x \in h.known
      PROVE  r.rr[x] = k <=> h.rr[x] = k
  <2>1. CASE x \notin h.undetermined
    BY <1>4, <1>5, <2>1
  <2>2. CASE x \in h.undetermined
    <3>1. h.rr[x] = -1 /\ k # -1
      BY <1>1, <1>8, <2>2 DEF UndeterminedIsUnreceived
    <3>2. r.rr[x] = RoundReceived(h, x)
      BY <1>4, <1>5, <2>2
    <3>3. SUFFICES ASSUME RoundReceived(h, x) = k
                   PROVE  FALSE
      BY <3>1, <3>2
    <3>4. k > h.round[x] /\ SeenByFamous(h, x, k)
      BY <1>1, <3>1, <3>3, RoundReceivedIs
    <3> QED  BY <2>2, <3>4 DEF ReceivedInTime
  <2> QED  BY <2>1, <2>2
<1>10. FramesFull(r)
  <2> SUFFICES ASSUME NEW k \in 0..c
               PROVE  Range(r.frames[k].events) = {y \in r.known : r.rr[y] = k}
    BY <1>3 DEF FramesFull
  <2>1. Range(h.frames[k].events) = {y \in h.known : h.rr[y] = k}
    BY DEF FramesFull
  <2>2. {y \in r.known : r.rr[y] = k} = {y \in h.known : h.rr[y] = k}
    BY <1>2, <1>9
  <2> QED  BY <1>3, <2>1, <2>2
<1> QED  BY <1>7, <1>10

\* After ProcessDecidedRounds: what the last blocks say about peers takes effect
\* only later.
LEMMA ProcessReception ==
    ASSUME NEW r, RoundInv(r), PendingInv(r), FramesFull(r),
           \A m \in Int : 0..m \subseteq r.decided => NotSeenUpTo(r, m),
           LastRound(r) <= r.lastConsensusRound + EffectiveDelay,
           NEW g, PendingInv(g), KeepsEvents(r, g),
           r.lastConsensusRound <= g.lastConsensusRound,
           SamePeers(r, g, r.lastConsensusRound + EffectiveDelay),
           FramesHold(r, g, r.lastConsensusRound, g.lastConsensusRound)
    PROVE  ReceivedInTime(g) /\ FramesFull(g)
<1> DEFINE c == r.lastConsensusRound
           m == g.lastConsensusRound
<1>1. /\ g.known = r.known /\ g.undetermined = r.undetermined /\ g.la = r.la
      /\ g.round = r.round /\ g.witness = r.witness /\ g.famous = r.famous
      /\ g.rr = r.rr /\ g.decided = r.decided
  BY DEF KeepsEvents
<1>2. LastRound(g) = LastRound(r)
  BY <1>1, SameLastRound
<1>3. /\ c \in Int /\ m \in Int /\ c >= -1 /\ c <= m /\ m <= LastRound(r)
      /\ 0..m \subseteq r.decided
  BY <1>1, <1>2 DEF PendingInv
<1>4. NotSeenUpTo(r, m)
  BY <1>3
<1>5. ASSUME NEW y, NEW k \in 0..m
      PROVE  SeenByFamous(g, y, k) <=> SeenByFamous(r, y, k)
  <2>1. FamousWitnesses(g, k) = FamousWitnesses(r, k)
    BY <1>1 DEF FamousWitnesses, Witnesses
  <2>2. k \in Int /\ k >= 0 /\ k <= c + EffectiveDelay
    <3>1. LastRound(r) \in Int
      BY DEF RoundInv
    <3> QED  BY <1>3, <3>1 DEF EffectiveDelay
  <2>3. GetPeerSet(g, k) = GetPeerSet(r, k)
    BY <2>2 DEF SamePeers
  <2> QED  BY <1>1, <2>1, <2>3, SeenFrozen
<1>6. ReceivedInTime(g)
  BY <1>1, <1>4, <1>5 DEF ReceivedInTime, NotSeenUpTo
<1>7. ASSUME NEW k \in 0..m
      PROVE  Range(g.frames[k].events) = {y \in r.known : r.rr[y] = k}
  <2>1. CASE k \in 0..c
    BY <2>1 DEF FramesFull, FramesHold
  <2>2. CASE k \notin 0..c
    <3>1. k \in c + 1 .. m
      BY <1>3, <2>2
    <3> QED  BY <3>1 DEF FramesHold
  <2> QED  BY <2>1, <2>2
<1>8. FramesFull(g)
  BY <1>1, <1>7 DEF FramesFull
<1> QED  BY <1>6, <1>8

-----------------------------------------------------------------------------
(***************************************************************************)
(* Witnesses: one for a peer and a round, which sees the round before.     *)
(***************************************************************************)

\* What an event descends from, its descendants do.
LEMMA ParentCoordinates ==
    ASSUME dag \in Dags, NEW h, GraphInv(h), NEW x \in h.known, NEW y \in KnownParents(h, x),
           NEW p \in Participants
    PROVE  h.la[y][p] <= h.la[x][p]
<1>1. h.known \subseteq Events /\ h.la \in [Events -> [Participants -> Int]]
  BY DEF GraphInv, GraphTypeOK
<1>2. y \in h.known
  BY DEF KnownParents
<1>3. Creator(x) \in Participants /\ Index(x) \in Nat
  BY <1>1, EventNames
<1>4. /\ LastAncestorsKnown(h) /\ ParentsBelow(h)
  BY DEF GraphInv
<1> DEFINE S == {h.la[z][p] : z \in KnownParents(h, x)}
           f == [z \in Events |-> h.la[z][p]]
<1>5. h.la[x][p] = IF p = Creator(x) THEN Index(x) ELSE MaxOrNone(S)
  BY <1>4, Zenon DEF LastAncestorsKnown
<1>6. CASE p = Creator(x)
  <2>1. h.la[y][Creator(x)] < Index(x)
    BY <1>4 DEF ParentsBelow
  <2>2. h.la[y][p] \in Int
    BY <1>1, <1>2
  <2> QED  BY <1>3, <1>5, <1>6, <2>1, <2>2
<1>7. CASE p # Creator(x)
  <2>1. f \in [Events -> Int]
    BY <1>1
  <2>2. \A z \in KnownParents(h, x) : f[z] = h.la[z][p]
    BY <1>1 DEF KnownParents
  <2>3. \A v : v \in S <=> \E z \in KnownParents(h, x) : v = f[z]
    BY <2>2, Zenon
  <2> HIDE DEF S, f
  <2>4. \A z \in KnownParents(h, x) : f[z] <= MaxOrNone(S)
    BY <1>1, <2>1, <2>3, ParentMax
  <2> QED  BY <1>5, <1>7, <2>2, <2>4
<1> QED  BY <1>6, <1>7

\* The first descendants of w in h are also its first descendants in g.
KeepsDescendants(h, g, w) ==
    \A p \in Participants : h.fd[w][p] # -1 => g.fd[w][p] = h.fd[w][p]

\* To strongly see is never lost.
LEMMA StronglySeeMore ==
    ASSUME NEW h, GraphTypeOK(h), NEW g, GraphTypeOK(g),
           NEW P, P \subseteq Participants, NEW w \in h.known, KeepsDescendants(h, g, w),
           NEW y \in h.known, NEW x \in g.known,
           \A p \in Participants : h.la[y][p] <= g.la[x][p],
           StronglySee(h, y, w, P)
    PROVE  StronglySee(g, x, w, P)
<1> DEFINE A == {p \in P : h.fd[w][p] # -1 /\ h.la[y][p] >= h.fd[w][p]}
           B == {p \in P : g.fd[w][p] # -1 /\ g.la[x][p] >= g.fd[w][p]}
<1>1. /\ h.known \subseteq Events /\ g.known \subseteq Events
      /\ h.fd \in [Events -> [Participants -> Int]]
      /\ h.la \in [Events -> [Participants -> Int]]
      /\ g.la \in [Events -> [Participants -> Int]]
  BY DEF GraphTypeOK
<1>2. \A p \in Participants : h.fd[w][p] \in Int /\ h.la[y][p] \in Int /\ g.la[x][p] \in Int
  BY <1>1
<1>3. A \subseteq B
  BY <1>2 DEF KeepsDescendants
<1>4. B \subseteq Participants /\ P \subseteq Participants
  OBVIOUS
<1>5. Cardinality(A) >= SuperMajority(P)
  BY DEF StronglySee
<1>6. Cardinality(B) >= SuperMajority(P) => StronglySee(g, x, w, P)
  BY DEF StronglySee
<1> HIDE DEF A, B
<1>7. IsFiniteSet(B) /\ IsFiniteSet(P)
  BY <1>4, ParticipantsAssumption, FS_Subset
<1>8. Cardinality(A) <= Cardinality(B) /\ Cardinality(A) \in Nat /\ Cardinality(B) \in Nat
  BY <1>3, <1>7, FS_Subset, FS_CardinalityType
<1>9. SuperMajority(P) \in Int
  BY <1>7, FS_CardinalityType DEF SuperMajority
<1> QED  BY <1>5, <1>6, <1>8, <1>9

\* x strongly sees a super-majority of the witnesses of round k.
SeesMany(h, x, k) ==
    Cardinality(StronglySeenWitnesses(h, x, k)) >= SuperMajority(GetPeerSet(h, k))

\* Neither is a super-majority of them.
LEMMA SeesManyMore ==
    ASSUME NEW h, GraphTypeOK(h), NEW last \in Int, PeerSetsInv(h, last),
           NEW g, GraphTypeOK(g), IsFiniteSet(g.known),
           NEW y \in h.known, NEW x \in g.known, NEW k \in Int, k >= 0,
           \A p \in Participants : h.la[y][p] <= g.la[x][p],
           \A w \in Witnesses(h, k) : w \in Witnesses(g, k) /\ KeepsDescendants(h, g, w),
           GetPeerSet(g, k) = GetPeerSet(h, k), SeesMany(h, y, k)
    PROVE  SeesMany(g, x, k)
<1> DEFINE P == GetPeerSet(h, k)
           A == StronglySeenWitnesses(h, y, k)
           B == StronglySeenWitnesses(g, x, k)
<1>1. P \subseteq Participants /\ IsFiniteSet(P)
  BY PeersOfRound
<1>2. ASSUME NEW w \in A
      PROVE  w \in B
  <2>1. w \in Witnesses(h, k) /\ StronglySee(h, y, w, P)
    BY DEF StronglySeenWitnesses
  <2>2. w \in h.known /\ w \in Witnesses(g, k) /\ KeepsDescendants(h, g, w)
    BY <2>1 DEF Witnesses
  <2> HIDE DEF P
  <2>3. StronglySee(g, x, w, P)
    BY <1>1, <2>1, <2>2, StronglySeeMore
  <2> QED  BY <2>2, <2>3 DEF StronglySeenWitnesses, P
<1>3. B \subseteq g.known
  BY DEF StronglySeenWitnesses, Witnesses
<1>4. Cardinality(A) >= SuperMajority(P)
  BY DEF SeesMany
<1>5. Cardinality(B) >= SuperMajority(P) => SeesMany(g, x, k)
  BY DEF SeesMany
<1> HIDE DEF A, B, P
<1>6. IsFiniteSet(B)
  BY <1>3, FS_Subset
<1>7. Cardinality(A) <= Cardinality(B) /\ Cardinality(A) \in Nat /\ Cardinality(B) \in Nat
  BY <1>2, <1>6, FS_Subset, FS_CardinalityType
<1>8. SuperMajority(P) \in Int
  BY <1>1, FS_CardinalityType DEF SuperMajority
<1> QED  BY <1>4, <1>5, <1>7, <1>8

\* updateAncestorFirstDescendant never replaces a first descendant.
LEMMA InsertDescendants ==
    ASSUME NEW h, GraphTypeOK(h), h.known \subseteq Events,
           NEW x \in Events, NEW i, i = InsertEvent(h, x), NEW w \in h.known, w # x
    PROVE  KeepsDescendants(h, i, w)
<1> DEFINE j == [h EXCEPT !.la[x] = LastAncestors(h, x),
                          !.fd[x][Creator(x)] = Index(x),
                          !.known = @ \cup {x},
                          !.undetermined = @ \cup {x},
                          !.loaded = IF IsLoaded(x) THEN @ + 1 ELSE @,
                          !.sigPool = @ \cup dag[x].sigs]
           fd == [a \in Events |-> IF ReachedFrom(j, x, a)
                                   THEN [j.fd[a] EXCEPT ![Creator(x)] = Index(x)]
                                   ELSE j.fd[a]]
<1>1. /\ DOMAIN h = DOMAIN NewHashgraph /\ h.fd \in [Events -> [Participants -> Int]]
  BY DEF GraphTypeOK
<1>2. i = [j EXCEPT !.fd = fd]
  BY Zenon DEF InsertEvent, UpdateAncestorFirstDescendant
<1>3. DOMAIN j = DOMAIN NewHashgraph /\ j.fd[w] = h.fd[w]
  BY <1>1, FieldNames
<1> HIDE DEF j
<1>4. fd[w] = IF ReachedFrom(j, x, w) THEN [j.fd[w] EXCEPT ![Creator(x)] = Index(x)]
                                      ELSE j.fd[w]
  OBVIOUS
<1> HIDE DEF fd
<1>5. i.fd = fd
  BY <1>2, <1>3, FieldNames
<1>6. ReachedFrom(j, x, w) => j.fd[w][Creator(x)] = -1
  BY Zenon DEF ReachedFrom, LacksDescendant
<1>7. h.fd[w] \in [Participants -> Int]
  BY <1>1
<1> QED  BY <1>3, <1>4, <1>5, <1>6, <1>7 DEF KeepsDescendants

\* DivideRounds gives x its round and its witness flag.
LEMMA DivideNew ==
    ASSUME NEW i, GraphTypeOK(i), NEW x \in Events, NEW d, d = DivideRounds(i, x)
    PROVE  d.round[x] = RoundOf(i, x) /\ (d.witness[x] <=> IsWitness(i, x, RoundOf(i, x)))
<1> DEFINE r == RoundOf(i, x)
           w == IsWitness(i, x, r)
           l == LamportTimestamp(i, x)
           q == Queue(i, r)
<1>1. /\ DOMAIN i = DOMAIN NewHashgraph /\ i.round \in [Events -> Int]
      /\ i.witness \in [Events -> BOOLEAN]
  BY DEF GraphTypeOK
<1>2. d = [i EXCEPT !.round[x] = r, !.witness[x] = w, !.lamport[x] = l, !.pending = q]
  BY Zenon DEF DivideRounds
<1> HIDE DEF r, w, l, q
<1>3. d.round[x] = r /\ d.witness[x] = w
  BY <1>1, <1>2, FieldNames
<1> QED  BY <1>3 DEF r, w

\* How an event gets its round.
LEMMA RoundOfIs ==
    ASSUME NEW i, GraphTypeOK(i), NEW x,
           \A y \in KnownParents(i, x) : i.round[y] >= 0
    PROVE  \/ RoundOf(i, x) = 0
           \/ \E y \in KnownParents(i, x) :
                 \/ RoundOf(i, x) = i.round[y]
                 \/ RoundOf(i, x) = i.round[y] + 1 /\ SeesMany(i, x, i.round[y])
<1> DEFINE r == ParentRound(i, x)
           S == {i.round[y] : y \in KnownParents(i, x)}
<1>1. i.known \subseteq Events /\ i.round \in [Events -> Int]
  BY DEF GraphTypeOK
<1>2. \A v : v \in S <=> \E y \in KnownParents(i, x) : v = i.round[y]
  OBVIOUS
<1>3. r = MaxOrNone(S)
  BY DEF ParentRound
<1> HIDE DEF S, r
<1>4. /\ MaxOrNone(S) \in Int
      /\ KnownParents(i, x) = {} => MaxOrNone(S) = -1
      /\ KnownParents(i, x) # {} => \E y \in KnownParents(i, x) : MaxOrNone(S) = i.round[y]
  BY <1>1, <1>2, ParentMax
<1>5. CASE r = -1
  BY <1>5 DEF RoundOf, r
<1>6. CASE r # -1
  <2>1. PICK y \in KnownParents(i, x) : r = i.round[y]
    BY <1>3, <1>4, <1>6
  <2>2. RoundOf(i, x) = r \/ (RoundOf(i, x) = r + 1 /\ SeesMany(i, x, r))
    BY <1>6, Z3 DEF RoundOf, SeesMany, r
  <2> QED  BY <2>1, <2>2
<1> QED  BY <1>5, <1>6

\* A new witness comes after an event of a lower round.
LEMMA InsertWitness ==
    ASSUME dag \in Dags, NEW h, GraphInv(h), WitnessFirst(h),
           NEW x \in Events, x \notin h.known, CanInsert(h, x),
           NEW d, d = DivideRounds(InsertEvent(h, x), x)
    PROVE  WitnessFirst(d)
<1> DEFINE i == InsertEvent(h, x)
<1>1. /\ DOMAIN h = DOMAIN NewHashgraph /\ h.known \subseteq Events /\ ParentsKnown(h)
      /\ h.round \in [Events -> Int]
  BY DEF GraphInv, GraphTypeOK
<1>2. DOMAIN i = DOMAIN NewHashgraph /\ i.known = h.known \cup {x} /\ i.round = h.round
  BY <1>1, InsertChain
<1>3. GraphTypeOK(i)
  BY InsertType
<1> HIDE DEF i
<1>4. d = DivideRounds(i, x)
  BY DEF i
<1>5. d.known = h.known \cup {x}
  BY <1>2, <1>4, DivideFields
<1>6. d.round[x] = RoundOf(i, x) /\ (d.witness[x] <=> IsWitness(i, x, RoundOf(i, x)))
  BY <1>3, <1>4, DivideNew
<1>7. \A y \in Events : y # x => d.round[y] = h.round[y]
  <2>1. d.round = [i.round EXCEPT ![x] = RoundOf(i, x)]
    BY <1>2, <1>4, DivideChain, Zenon
  <2> QED  BY <1>1, <1>2, <2>1
<1>8. \A y \in h.known : d.witness[y] = h.witness[y]
  BY InsertKeeps DEF Keeps
<1>9. ASSUME NEW y \in d.known, d.witness[y], SelfParent(y) \in d.known
      PROVE  d.round[y] > d.round[SelfParent(y)]
  <2>1. KnownParents(d, y) = KnownParents(h, y)
    BY <1>1, <1>5, <1>9, ParentsFixed
  <2>2. SelfParent(y) \in h.known /\ SelfParent(y) # x
    BY <1>9, <2>1 DEF KnownParents
  <2>3. d.round[SelfParent(y)] = h.round[SelfParent(y)]
    BY <1>1, <1>7, <2>2
  <2>4. CASE y = x
    BY <1>2, <1>6, <1>9, <2>2, <2>3, <2>4 DEF IsWitness
  <2>5. CASE y # x
    BY <1>1, <1>5, <1>7, <1>8, <1>9, <2>2, <2>3, <2>5 DEF WitnessFirst
  <2> QED  BY <2>4, <2>5
<1>10. \A y \in Events : y \notin d.known => d.round[y] = -1
  BY <1>5, <1>7 DEF WitnessFirst
<1> QED  BY <1>9, <1>10 DEF WitnessFirst

\* A new event strongly sees the round before its own, through its parents at
\* least, and the others still do.
LEMMA InsertSees ==
    ASSUME dag \in Dags, NEW h, GraphInv(h), OrderInv(h), WitnessFirst(h), SeesRoundBefore(h),
           NEW x \in Events, x \notin h.known, CanInsert(h, x),
           NEW d, d = DivideRounds(InsertEvent(h, x), x)
    PROVE  SeesRoundBefore(d)
<1> DEFINE i == InsertEvent(h, x)
           c == h.lastConsensusRound
<1>1. /\ GraphTypeOK(h) /\ DOMAIN h = DOMAIN NewHashgraph /\ h.known \subseteq Events
      /\ ParentsKnown(h) /\ h.round \in [Events -> Int]
  BY DEF GraphInv, GraphTypeOK
<1>2. /\ RoundInv(h) /\ PendingInv(h) /\ PeerSetsInv(h, c) /\ c \in Int
      /\ \A y \in h.known : h.round[y] \in Int /\ h.round[y] >= 0
  BY DEF OrderInv, ChainInv, PendingInv, RoundInv
<1>3. /\ DOMAIN i = DOMAIN NewHashgraph /\ i.known = h.known \cup {x} /\ i.round = h.round
      /\ i.witness = h.witness /\ SameChain(h, i)
  BY <1>1, InsertChain
<1>4. GraphTypeOK(i)
  BY InsertType
<1>5. \A w \in h.known : KeepsDescendants(h, i, w)
  BY <1>1, InsertDescendants
<1> HIDE DEF i
<1>6. d = DivideRounds(i, x)
  BY DEF i
<1>7. d.known = h.known \cup {x} /\ d.fd = i.fd /\ d.la = i.la
  BY <1>3, <1>6, DivideFields
<1>8. GraphInv(d) /\ GraphTypeOK(d)
  BY InsertInv DEF GraphInv
<1>9. RoundInv(d) /\ SameChain(h, d) /\ IsFiniteSet(d.known)
  BY <1>2, InsertRounds DEF RoundInv
<1>10. \A y \in h.known : /\ d.round[y] = h.round[y] /\ d.witness[y] = h.witness[y]
                          /\ d.la[y] = h.la[y]
  BY InsertKeeps DEF Keeps
<1>11. \A k : GetPeerSet(d, k) = GetPeerSet(h, k) /\ GetPeerSet(i, k) = GetPeerSet(h, k)
  BY <1>3, <1>9 DEF SameChain, GetPeerSet
<1>12. \A w \in h.known : KeepsDescendants(h, d, w)
  BY <1>5, <1>7 DEF KeepsDescendants
<1>13. \A k : \A w \in Witnesses(h, k) : w \in Witnesses(d, k) /\ KeepsDescendants(h, d, w)
  BY <1>7, <1>10, <1>12 DEF Witnesses
<1> HIDE DEF c
<1>14. ASSUME NEW y \in h.known, NEW z \in d.known, NEW k \in Int, k >= 0,
              \A p \in Participants : h.la[y][p] <= d.la[z][p], SeesMany(h, y, k)
       PROVE  SeesMany(d, z, k)
  <2>1. GetPeerSet(d, k) = GetPeerSet(h, k)
    BY <1>11
  <2>2. \A w \in Witnesses(h, k) : w \in Witnesses(d, k) /\ KeepsDescendants(h, d, w)
    BY <1>13
  <2> QED  BY <1>1, <1>2, <1>8, <1>9, <1>14, <2>1, <2>2, SeesManyMore
<1>15. ASSUME NEW y \in h.known, h.round[y] > 0
       PROVE  SeesMany(h, y, h.round[y] - 1)
  BY <1>15 DEF SeesRoundBefore, SeesMany
<1>16. ASSUME NEW y \in h.known, d.round[y] > 0
       PROVE  SeesMany(d, y, d.round[y] - 1)
  <2> DEFINE k == h.round[y] - 1
  <2>1. d.round[y] = h.round[y] /\ h.round[y] \in Int /\ h.round[y] > 0 /\ y \in d.known
    BY <1>2, <1>7, <1>10, <1>16
  <2>2. SeesMany(h, y, k) /\ k \in Int /\ k >= 0
    BY <1>15, <2>1
  <2>3. \A p \in Participants : h.la[y][p] <= d.la[y][p]
    BY <1>1, <1>10 DEF GraphTypeOK
  <2> HIDE DEF k
  <2>4. SeesMany(d, y, k)
    BY <1>14, <2>1, <2>2, <2>3
  <2> QED  BY <2>1, <2>4 DEF k
<1>17. d.round[x] = RoundOf(i, x)
  BY <1>4, <1>6, DivideNew
<1>18. KnownParents(i, x) = KnownParents(h, x) /\ KnownParents(d, x) = KnownParents(h, x)
  BY <1>1, <1>3, <1>7, ParentsFixed
<1>19. KnownParents(h, x) \subseteq h.known
  BY DEF KnownParents
<1>20. ASSUME d.round[x] > 0
       PROVE  SeesMany(d, x, d.round[x] - 1)
  <2>1. \A y \in KnownParents(i, x) : i.round[y] >= 0
    BY <1>2, <1>3, <1>18, <1>19
  <2>2. PICK y \in KnownParents(i, x) :
            \/ RoundOf(i, x) = i.round[y]
            \/ RoundOf(i, x) = i.round[y] + 1 /\ SeesMany(i, x, i.round[y])
    BY <1>4, <1>17, <1>20, <2>1, RoundOfIs
  <2>3. y \in h.known /\ y \in KnownParents(d, x) /\ x \in d.known /\ x \in i.known
        /\ i.round[y] = h.round[y] /\ h.round[y] \in Int /\ h.round[y] >= 0
    BY <1>2, <1>3, <1>7, <1>18, <1>19
  <2>4. CASE RoundOf(i, x) = i.round[y]
    <3> DEFINE k == h.round[y] - 1
    <3>1. k \in Int /\ k >= 0 /\ d.round[x] - 1 = k /\ SeesMany(h, y, k)
      BY <1>15, <1>17, <1>20, <2>3, <2>4
    <3>2. \A p \in Participants : h.la[y][p] <= d.la[x][p]
      BY <1>8, <1>10, <2>3, ParentCoordinates
    <3> HIDE DEF k
    <3>3. SeesMany(d, x, k)
      BY <1>14, <2>3, <3>1, <3>2
    <3> QED  BY <3>1, <3>3
  <2>5. CASE RoundOf(i, x) = i.round[y] + 1 /\ SeesMany(i, x, i.round[y])
    <3> DEFINE k == h.round[y]
    <3>1. k \in Int /\ k >= 0 /\ d.round[x] - 1 = k /\ SeesMany(i, x, k)
      BY <1>17, <2>3, <2>5
    <3> HIDE DEF k
    <3>2. \A w \in Witnesses(i, k) : w \in Witnesses(d, k) /\ KeepsDescendants(i, d, w)
      <4>1. h.round[x] = -1
        BY DEF WitnessFirst
      <4>2. \A w \in Witnesses(i, k) : w \in h.known /\ h.round[w] = k /\ h.witness[w]
        BY <1>3, <3>1, <4>1 DEF Witnesses
      <4> QED  BY <1>7, <1>10, <4>2 DEF Witnesses, KeepsDescendants
    <3>3. \A p \in Participants : i.la[x][p] <= d.la[x][p]
      BY <1>4, <1>7 DEF GraphTypeOK
    <3>4. PeerSetsInv(i, c)
      BY <1>2, <1>3 DEF PeerSetsInv, SameChain
    <3>5. GetPeerSet(d, k) = GetPeerSet(i, k)
      BY <1>11
    <3>6. SeesMany(d, x, k)
      BY <1>2, <1>4, <1>8, <1>9, <2>3, <3>1, <3>2, <3>3, <3>4, <3>5, SeesManyMore
    <3> QED  BY <3>1, <3>6
  <2> QED  BY <2>2, <2>4, <2>5
<1>21. \A y \in d.known : d.round[y] > 0 => SeesMany(d, y, d.round[y] - 1)
  BY <1>7, <1>16, <1>20
<1> QED  BY <1>21 DEF SeesRoundBefore, SeesMany

\* g has the graph of h.
SameGraphOf(h, g) ==
    /\ g.known = h.known /\ g.la = h.la /\ g.fd = h.fd
    /\ g.round = h.round /\ g.witness = h.witness

\* The other stages do not change what is seen, as long as the peers are the
\* same.
LEMMA SameSees ==
    ASSUME NEW h, RoundInv(h), NEW g, SameGraphOf(h, g), NEW last \in Int,
           LastRound(h) <= last, SamePeers(h, g, last),
           WitnessFirst(h), SeesRoundBefore(h)
    PROVE  WitnessFirst(g) /\ SeesRoundBefore(g)
<1>1. /\ g.known = h.known /\ g.la = h.la /\ g.fd = h.fd
      /\ g.round = h.round /\ g.witness = h.witness
  BY DEF SameGraphOf
<1>2. WitnessFirst(g)
  BY <1>1 DEF WitnessFirst
<1>3. ASSUME NEW x \in h.known, h.round[x] > 0
      PROVE  Cardinality(StronglySeenWitnesses(g, x, h.round[x] - 1))
                 >= SuperMajority(GetPeerSet(g, h.round[x] - 1))
  <2> DEFINE k == h.round[x] - 1
  <2>1. h.round[x] \in 0..LastRound(h) /\ LastRound(h) \in Int
    BY DEF RoundInv
  <2>2. k \in Int /\ k >= 0 /\ k <= last
    BY <1>3, <2>1
  <2>3. Cardinality(StronglySeenWitnesses(h, x, k)) >= SuperMajority(GetPeerSet(h, k))
    BY <1>3 DEF SeesRoundBefore
  <2> HIDE DEF k
  <2>4. GetPeerSet(g, k) = GetPeerSet(h, k)
    BY <2>2 DEF SamePeers
  <2>5. StronglySeenWitnesses(g, x, k) = StronglySeenWitnesses(h, x, k)
    BY <1>1, <2>4 DEF StronglySeenWitnesses, StronglySee, Witnesses
  <2>6. Cardinality(StronglySeenWitnesses(g, x, k)) >= SuperMajority(GetPeerSet(g, k))
    BY <2>3, <2>4, <2>5
  <2> QED  BY <2>6 DEF k
<1>4. SeesRoundBefore(g)
  BY <1>1, <1>3 DEF SeesRoundBefore
<1> QED  BY <1>2, <1>4

\* A run of the consensus methods keeps ReceptionInv.
LEMMA RunsReception ==
    ASSUME dag \in Dags, NEW h, GraphInv(h), OrderInv(h), ReceptionInv(h),
           LastRound(h) <= h.lastConsensusRound + EffectiveDelay - 1,
           NEW n, NEW x, NEW d, NEW f, NEW r, NEW g, Runs(h, n, x, d, f, r, g)
    PROVE  ReceptionInv(g)
<1> DEFINE c == h.lastConsensusRound
<1>1. ReceivedInTime(h) /\ FramesFull(h) /\ WitnessFirst(h) /\ SeesRoundBefore(h)
  BY DEF ReceptionInv
<1>2. /\ x \in Events /\ x \notin h.known /\ CanInsert(h, x)
      /\ d = DivideRounds(InsertEvent(h, x), x)
  BY DEF Runs
<1>3. GraphInv(d) /\ GraphInv(f) /\ GraphInv(r)
  BY RunsGraph
<1>4. /\ RoundInv(d) /\ PendingInv(d) /\ SameChain(h, d)
      /\ RoundInv(f) /\ PendingInv(f) /\ SameChain(h, f)
      /\ OrderInv(r) /\ SameChain(h, r) /\ OrderInv(g)
      /\ KeepsEvents(r, g) /\ r.lastConsensusRound <= g.lastConsensusRound
      /\ SamePeers(r, g, r.lastConsensusRound + EffectiveDelay)
      /\ FramesHold(r, g, r.lastConsensusRound, g.lastConsensusRound)
  BY RunsOrder
<1>5. RoundInv(h) /\ PendingInv(h) /\ RoundInv(r) /\ PendingInv(r) /\ PendingInv(g)
  BY <1>4 DEF OrderInv
<1>6. ReceivedInTime(d) /\ FramesFull(d)
  BY <1>1, <1>2, InsertReception
<1>7. WitnessFirst(d)
  BY <1>1, <1>2, InsertWitness
<1>8. SeesRoundBefore(d)
  BY <1>1, <1>2, InsertSees
<1>9. PICK fame \in FameDecisions(d) : f = DecideFame(d, fame)
  BY DEF Runs
<1>10. ReceivedInTime(f) /\ FramesFull(f)
  BY <1>3, <1>4, <1>6, <1>9, FameReception
<1>11. r = DecideRoundReceived(f)
  BY DEF Runs
<1>12. FramesFull(r) /\ \A m \in Int : 0..m \subseteq r.decided => NotSeenUpTo(r, m)
  BY <1>3, <1>4, <1>10, <1>11, ReceivedReception
<1>13. DOMAIN d = DOMAIN NewHashgraph /\ DOMAIN f = DOMAIN NewHashgraph
  BY <1>3 DEF GraphInv, GraphTypeOK
<1>14. SameGraphOf(d, f)
  BY <1>9, <1>13, DecideFameFields DEF SameGraphOf
<1>15. SameGraphOf(f, r)
  BY <1>11, <1>13, ReceivedFields, Zenon DEF SameGraphOf
<1>16. SameGraphOf(r, g)
  BY <1>4 DEF SameGraphOf, KeepsEvents
<1>17. SameGraphOf(d, g) /\ SameGraphOf(d, r)
  BY <1>14, <1>15, <1>16 DEF SameGraphOf
<1>18. LastRound(d) <= LastRound(h) + 1 /\ LastRound(h) \in Int /\ LastRound(d) \in Int
  BY <1>2, <1>4, <1>5, InsertRounds DEF RoundInv
<1>19. c \in Int /\ r.lastConsensusRound = c /\ r.peerSets = d.peerSets
  BY <1>4, <1>5 DEF PendingInv, SameChain
<1> DEFINE e == c + EffectiveDelay
<1>20. e \in Int /\ LastRound(d) <= e
  BY <1>18, <1>19 DEF EffectiveDelay
<1>21. LastRound(r) = LastRound(d)
  BY <1>17, SameLastRound DEF SameGraphOf
<1>22. LastRound(r) <= r.lastConsensusRound + EffectiveDelay
  BY <1>19, <1>20, <1>21
<1>23. ReceivedInTime(g) /\ FramesFull(g)
  BY <1>4, <1>5, <1>12, <1>22, ProcessReception
<1>24. SamePeers(d, g, e)
  BY <1>4, <1>19 DEF SamePeers, GetPeerSet
<1> HIDE DEF e
<1>25. WitnessFirst(g) /\ SeesRoundBefore(g)
  BY <1>4, <1>7, <1>8, <1>17, <1>20, <1>24, SameSees
<1> QED  BY <1>23, <1>25 DEF ReceptionInv

\* So does AppendSignatures.
LEMMA SignatureReception ==
    ASSUME NEW h, GraphInv(h), OrderInv(h), ReceptionInv(h), NEW g, g = AppendSignatures(h)
    PROVE  ReceptionInv(g)
<1>1. ReceivedInTime(h) /\ FramesFull(h) /\ WitnessFirst(h) /\ SeesRoundBefore(h)
  BY DEF ReceptionInv
<1>2. IsHashgraph(h)
  BY DEF GraphInv, GraphTypeOK, IsHashgraph
<1>3. SameEvents(h, g) /\ g.frames = h.frames /\ g.peerSets = h.peerSets
  BY <1>2, SignatureEvents
<1>4. /\ g.known = h.known /\ g.undetermined = h.undetermined /\ g.la = h.la
      /\ g.round = h.round /\ g.witness = h.witness /\ g.famous = h.famous
      /\ g.rr = h.rr /\ g.lastConsensusRound = h.lastConsensusRound
  BY <1>3 DEF SameEvents
<1>5. \A y, k : SeenByFamous(g, y, k) <=> SeenByFamous(h, y, k)
  <2> TAKE y, k
  <2>1. FamousWitnesses(g, k) = FamousWitnesses(h, k)
    BY <1>4 DEF FamousWitnesses, Witnesses
  <2>2. GetPeerSet(g, k) = GetPeerSet(h, k)
    BY <1>3 DEF GetPeerSet
  <2> QED  BY <1>4, <2>1, <2>2, SeenFrozen
<1>6. ReceivedInTime(g) /\ FramesFull(g)
  BY <1>1, <1>3, <1>4, <1>5 DEF ReceivedInTime, FramesFull
<1>7. RoundInv(h) /\ LastRound(h) \in Int
  BY DEF OrderInv, RoundInv
<1> DEFINE last == LastRound(h)
<1>8. SameGraphOf(h, g) /\ SamePeers(h, g, last) /\ last \in Int /\ LastRound(h) <= last
  BY <1>3, <1>7 DEF SameGraphOf, SameEvents, SamePeers, GetPeerSet
<1> HIDE DEF last
<1>9. WitnessFirst(g) /\ SeesRoundBefore(g)
  BY <1>1, <1>7, <1>8, SameSees
<1> QED  BY <1>6, <1>9 DEF ReceptionInv

\* ReceptionInv reads no variable but dag.
LEMMA ReceptionPrimed ==
    ASSUME dag' = dag, NEW h, ReceptionInv(h)
    PROVE  ReceptionInv(h)'
<1>1. Events' = Events
  BY DEF Events
<1>2. WitnessFirst(h)' = WitnessFirst(h)
  BY <1>1 DEF WitnessFirst
<1>3. /\ ReceivedInTime(h)' = ReceivedInTime(h)
      /\ FramesFull(h)' = FramesFull(h)
      /\ SeesRoundBefore(h)' = SeesRoundBefore(h)
  OBVIOUS
<1> QED  BY <1>2, <1>3 DEF ReceptionInv

\* ReceptionInvariant is inductive while rounds are decided in time.
LEMMA NextReception ==
    ASSUME GraphInvariant, OrderInvariant, DecidedByFive, ReceptionInvariant, [Next]_vars
    PROVE  ReceptionInvariant'
<1>1. DOMAIN hg = Nodes /\ dag \in Dags /\ \A n \in Nodes : GraphInv(hg[n])
  BY DEF GraphInvariant
<1>2. \A n \in Nodes : ReceptionInv(hg[n])
  BY DEF ReceptionInvariant
<1>3. ASSUME NEW n \in Nodes, NEW g,
             \/ \E x, d, f, r : Runs(hg[n], n, x, d, f, r, g)
             \/ g = AppendSignatures(hg[n])
      PROVE  ReceptionInv(g)
  <2> DEFINE h == hg[n]
  <2>1. GraphInv(h) /\ OrderInv(h) /\ ReceptionInv(h)
        /\ LastRound(h) <= h.lastConsensusRound + EffectiveDelay - 1
    BY <1>1, <1>2 DEF OrderInvariant, DecidedByFive
  <2>2. \/ \E x, d, f, r : Runs(h, n, x, d, f, r, g)
        \/ g = AppendSignatures(h)
    BY <1>3
  <2> HIDE DEF h
  <2>3. CASE g = AppendSignatures(h)
    BY <2>1, <2>3, SignatureReception
  <2>4. ASSUME NEW x, NEW d, NEW f, NEW r, Runs(h, n, x, d, f, r, g)
        PROVE  ReceptionInv(g)
    BY <1>1, <2>1, <2>4, RunsReception
  <2> QED  BY <2>2, <2>3, <2>4
<1>4. dag' = dag /\ \A n \in Nodes : ReceptionInv(hg'[n])
  BY <1>1, <1>2, <1>3, StepCases
<1> QED  BY <1>4, ReceptionPrimed DEF ReceptionInvariant

\* So it holds as long as rounds are decided in time.
LEMMA ReceptionAlways ==
    Spec /\ []DecidedByFive => []ReceptionInvariant
<1>1. Init => ReceptionInvariant
  <2>1. ASSUME NEW h, h = NewHashgraph
        PROVE  ReceptionInv(h)
    <3>1. /\ h.known = {} /\ h.undetermined = {} /\ h.lastConsensusRound = -1
          /\ h.round = [x \in Events |-> -1]
      BY <2>1 DEF NewHashgraph
    <3>2. WitnessFirst(h) /\ SeesRoundBefore(h) /\ ReceivedInTime(h) /\ FramesFull(h)
      BY <3>1 DEF WitnessFirst, SeesRoundBefore, ReceivedInTime, FramesFull
    <3> QED  BY <3>2 DEF ReceptionInv
  <2> QED  BY <2>1 DEF Init, ReceptionInvariant
<1>2. GraphInvariant /\ OrderInvariant /\ DecidedByFive /\ ReceptionInvariant /\ [Next]_vars
          => ReceptionInvariant'
  BY NextReception
<1> QED  BY <1>1, <1>2, GraphCorrect, OrderAlways, PTL DEF Spec

\* No event is received in a round whose frame was made (DecideRoundReceived,
\* GetFrame), if, as processAcceptedInternalTransactions takes for granted, a
\* round is decided by the fifth round after it: otherwise a block may change
\* the peer-set of a round in which events were already received.
THEOREM ReceptionCorrect ==
    Spec /\ []DecidedByFive => []NoLateReception
<1>1. OrderInvariant /\ ReceptionInvariant => NoLateReception
  BY DEF OrderInvariant, OrderInv, PendingInv, ReceptionInvariant, ReceptionInv, FramesFull,
         NoLateReception
<1> QED  BY <1>1, OrderAlways, ReceptionAlways, PTL

\* Two witnesses of a round by the same peer are the same event.
LEMMA WitnessUnique ==
    ASSUME dag \in Dags, NEW h, GraphInv(h), WitnessFirst(h),
           NEW v \in h.known, NEW w \in h.known, h.witness[w],
           Creator(v) = Creator(w), Index(v) < Index(w)
    PROVE  h.round[v] < h.round[w]
<1> DEFINE z == SelfParent(w)
           p == Creator(w)
<1>1. /\ h.known \subseteq Events /\ h.round \in [Events -> Int]
      /\ ParentsKnown(h) /\ SeenIsLower(h) /\ LastAncestorsKnown(h)
  BY DEF GraphInv, GraphTypeOK
<1>2. /\ Index(v) \in Nat /\ Index(w) \in Nat /\ p \in Participants
      /\ z = <<p, Index(w) - 1>>
  BY <1>1, EventNames
<1>3. z \in h.known /\ Creator(z) = p /\ Index(z) = Index(w) - 1
  BY <1>1, <1>2 DEF ParentsKnown, Creator, Index
<1>4. h.round[w] > h.round[z]
  BY <1>3 DEF WitnessFirst
<1>5. h.la[z][p] = Index(z)
  BY <1>1, <1>2, <1>3, Zenon DEF LastAncestorsKnown
<1>6. See(h, z, v)
  BY <1>2, <1>3, <1>5 DEF See
<1> HIDE DEF z
<1>7. h.round[v] <= h.round[z]
  BY <1>1, <1>3, <1>6 DEF SeenIsLower
<1> QED  BY <1>1, <1>3, <1>4, <1>7

\* What the election of fame rests on: one witness for a peer and a round, which
\* strongly sees a super-majority of the witnesses of the round before, even when
\* the peer-set changes, if rounds are decided in time (witness, round).
THEOREM WitnessesCorrect ==
    Spec /\ []DecidedByFive => []WitnessesCount
<1>1. ASSUME GraphInvariant, ReceptionInvariant
      PROVE  WitnessesCount
  <2> SUFFICES ASSUME NEW n \in Nodes, NEW h, h = hg[n],
                      NEW w \in h.known, h.witness[w]
               PROVE  /\ \A y \in Witnesses(h, h.round[w]) : Creator(y) = Creator(w) => y = w
                      /\ h.round[w] > 0 =>
                             Cardinality(StronglySeenWitnesses(h, w, h.round[w] - 1))
                                 >= SuperMajority(GetPeerSet(h, h.round[w] - 1))
    BY DEF WitnessesCount
  <2>1. dag \in Dags /\ GraphInv(h) /\ WitnessFirst(h) /\ SeesRoundBefore(h)
    BY <1>1 DEF GraphInvariant, ReceptionInvariant, ReceptionInv
  <2>2. h.known \subseteq Events /\ h.round \in [Events -> Int]
    BY <2>1 DEF GraphInv, GraphTypeOK
  <2>3. ASSUME NEW y \in Witnesses(h, h.round[w]), Creator(y) = Creator(w)
        PROVE  y = w
    <3>1. y \in h.known /\ h.witness[y] /\ h.round[y] = h.round[w] /\ h.round[w] \in Int
      BY <2>2 DEF Witnesses
    <3>2. /\ y = <<Creator(y), Index(y)>> /\ w = <<Creator(w), Index(w)>>
          /\ Index(y) \in Nat /\ Index(w) \in Nat
      BY <2>1, <2>2, <3>1, EventNames
    <3>3. ~(Index(y) < Index(w))
      BY <2>1, <2>3, <3>1, WitnessUnique
    <3>4. ~(Index(w) < Index(y))
      BY <2>1, <2>3, <3>1, WitnessUnique
    <3>5. Index(y) = Index(w)
      BY <3>2, <3>3, <3>4
    <3> QED  BY <2>3, <3>2, <3>5
  <2> QED  BY <2>1, <2>3 DEF SeesRoundBefore
<1> QED  BY <1>1, GraphCorrect, ReceptionAlways, PTL
=============================================================================
