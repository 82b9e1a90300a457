----------------------- MODULE HashgraphOrderProofs -----------------------
(***************************************************************************)
(* Proofs about how Hashgraph turns rounds into frames and blocks, for any *)
(* number of peers, any graph of events and any order of insertion: rounds *)
(* are processed in order, the anchor is the highest trusted block, and    *)
(* the validators follow the blocks.                                       *)
(***************************************************************************)
EXTENDS HashgraphProofs

-----------------------------------------------------------------------------
(***************************************************************************)
(* Blocks, the anchor and the validators.                                  *)
(***************************************************************************)

\* g has one more block than h: b.
AddsBlock(h, g, b) ==
    /\ DOMAIN g.blocks = DOMAIN h.blocks \cup {LastBlockIndex(h) + 1}
    /\ g.blocks[LastBlockIndex(h) + 1] = b
    /\ \A i \in DOMAIN h.blocks : g.blocks[i] = h.blocks[i]

\* Blocks stay numbered from 0.
LEMMA BlocksAdd ==
    ASSUME NEW r \in Int, r >= 0, NEW h, BlocksInv(h, r - 1), NEW b,
           IsBlock(b, LastBlockIndex(h) + 1, r), NEW g, AddsBlock(h, g, b)
    PROVE  BlocksInv(g, r) /\ LastBlockIndex(g) = LastBlockIndex(h) + 1
<1> DEFINE l == LastBlockIndex(h)
<1>1. l \in Int /\ l >= -1 /\ DOMAIN h.blocks = 0..l
  BY DEF BlocksInv
<1> HIDE DEF l
<1>2. DOMAIN g.blocks = 0..l + 1
  BY <1>1 DEF AddsBlock, l
<1>3. LastBlockIndex(g) = l + 1
  BY <1>1, <1>2, MaxOfInterval DEF LastBlockIndex
<1>4. \A i \in DOMAIN g.blocks : i # l + 1 => i \in DOMAIN h.blocks /\ g.blocks[i] = h.blocks[i]
  BY <1>1, <1>2 DEF AddsBlock, l
<1>5. ASSUME NEW i \in DOMAIN g.blocks
      PROVE  /\ DOMAIN g.blocks[i] = {"index", "round", "peers", "ts", "txs", "itxs", "committed", "sigs"}
             /\ g.blocks[i].index = i /\ g.blocks[i].round \in 0..r
             /\ g.blocks[i].sigs \subseteq Participants
             /\ g.blocks[i].committed \in BOOLEAN
             /\ g.blocks[i].sigs # {} => g.blocks[i].committed
  <2>1. CASE i = l + 1
    <3>1. g.blocks[i] = b
      BY <2>1 DEF AddsBlock, l
    <3> QED  BY <2>1, <3>1 DEF IsBlock, l
  <2>2. CASE i # l + 1
    <3>1. i \in DOMAIN h.blocks /\ g.blocks[i] = h.blocks[i]
      BY <1>4, <2>2
    <3> QED  BY <3>1 DEF BlocksInv
  <2> QED  BY <2>1, <2>2
<1>6. BlocksInv(g, r)
  BY <1>1, <1>2, <1>3, <1>5 DEF BlocksInv
<1> QED  BY <1>3, <1>6 DEF l

\* Without a new block, the blocks are from rounds up to r too.
LEMMA BlocksStay ==
    ASSUME NEW r \in Int, NEW h, BlocksInv(h, r - 1), NEW g, g.blocks = h.blocks
    PROVE  BlocksInv(g, r)
<1>1. LastBlockIndex(g) = LastBlockIndex(h)
  BY DEF LastBlockIndex
<1> QED  BY <1>1 DEF BlocksInv

\* The trusted blocks after a new one.
LEMMA TrustedAdd ==
    ASSUME NEW r \in Int, r >= 0, NEW h, BlocksInv(h, r - 1), NEW b, b.round = r,
           NEW g, AddsBlock(h, g, b), SamePeers(h, g, r)
    PROVE  Trusted(g) = Trusted(h) \cup
               IF Cardinality(b.sigs) > TrustCount(GetPeerSet(h, r))
               THEN {LastBlockIndex(h) + 1} ELSE {}
<1> DEFINE l == LastBlockIndex(h)
<1>1. l \in Int /\ DOMAIN h.blocks = 0..l /\ l + 1 \notin DOMAIN h.blocks
  BY DEF BlocksInv
<1>2. \A i \in DOMAIN h.blocks :
          GetPeerSet(g, h.blocks[i].round) = GetPeerSet(h, h.blocks[i].round)
  <2> TAKE i \in DOMAIN h.blocks
  <2>1. h.blocks[i].round \in 0 .. r - 1
    BY DEF BlocksInv
  <2> DEFINE k == h.blocks[i].round
  <2>2. k \in Int /\ k >= 0 /\ k <= r
    BY <2>1
  <2> HIDE DEF k
  <2>3. GetPeerSet(g, k) = GetPeerSet(h, k)
    BY <2>2 DEF SamePeers
  <2> QED  BY <2>3 DEF k
<1>3. GetPeerSet(g, r) = GetPeerSet(h, r)
  BY DEF SamePeers
<1>4. /\ DOMAIN g.blocks = DOMAIN h.blocks \cup {l + 1} /\ g.blocks[l + 1] = b
      /\ \A i \in DOMAIN h.blocks : g.blocks[i] = h.blocks[i]
  BY DEF AddsBlock
<1> HIDE DEF l
<1>5. \A i \in DOMAIN h.blocks : i \in Trusted(g) <=> i \in Trusted(h)
  BY <1>2, <1>4 DEF Trusted
<1>6. l + 1 \in Trusted(g) <=> Cardinality(b.sigs) > TrustCount(GetPeerSet(h, r))
  BY <1>3, <1>4 DEF Trusted
<1>7. Trusted(g) \subseteq DOMAIN h.blocks \cup {l + 1} /\ Trusted(h) \subseteq DOMAIN h.blocks
  BY <1>4 DEF Trusted
<1> QED  BY <1>1, <1>5, <1>6, <1>7 DEF l

\* SetAnchorBlock keeps the anchor at the highest trusted block.
LEMMA AnchorAdd ==
    ASSUME NEW r \in Int, r >= 0, NEW h, BlocksInv(h, r - 1), AnchorInv(h), NEW b, b.round = r,
           NEW g, AddsBlock(h, g, b), SamePeers(h, g, r),
           g.anchor = IF /\ Cardinality(b.sigs) > TrustCount(GetPeerSet(h, r))
                         /\ LastBlockIndex(h) + 1 > h.anchor
                      THEN LastBlockIndex(h) + 1 ELSE h.anchor
    PROVE  AnchorInv(g)
<1> DEFINE l == LastBlockIndex(h)
           T == Trusted(h)
           c == Cardinality(b.sigs) > TrustCount(GetPeerSet(h, r))
<1>1. l \in Int /\ l >= -1 /\ T \subseteq 0..l
  BY DEF BlocksInv, Trusted
<1>2. Trusted(g) = T \cup IF c THEN {l + 1} ELSE {}
  BY TrustedAdd
<1>3. h.anchor = MaxOrNone(T)
  BY DEF AnchorInv
<1>4. g.anchor = IF c /\ l + 1 > h.anchor THEN l + 1 ELSE h.anchor
  OBVIOUS
<1> HIDE DEF l, T, c
<1>5. MaxOrNone(T) \in Int /\ MaxOrNone(T) <= l
  <2>1. CASE T = {}
    BY <1>1, <2>1 DEF MaxOrNone
  <2>2. CASE T # {}
    <3>1. T \subseteq Int /\ \A k \in T : k <= l
      BY <1>1
    <3>2. MaxOrNone(T) \in T
      BY <1>1, <2>2, <3>1, GreatestInteger, Zenon
    <3> QED  BY <3>1, <3>2, Zenon
  <2> QED  BY <2>1, <2>2
<1>6. CASE ~c
  <2>1. Trusted(g) = T
    BY <1>2, <1>6
  <2> QED  BY <1>3, <1>4, <1>6, <2>1 DEF AnchorInv
<1>7. CASE c
  <2>1. g.anchor = l + 1
    BY <1>1, <1>3, <1>4, <1>5, <1>7
  <2>2. Trusted(g) = T \cup {l + 1}
    BY <1>2, <1>7
  <2>3. T \cup {l + 1} \subseteq Int /\ l + 1 \in T \cup {l + 1} /\ \A k \in T \cup {l + 1} : k <= l + 1
    BY <1>1
  <2>4. MaxOrNone(T \cup {l + 1}) = l + 1
    BY <2>3, MaxIs
  <2> QED  BY <2>1, <2>2, <2>4 DEF AnchorInv
<1> QED  BY <1>6, <1>7
\* The accepted transactions of block b about p.
LEMMA AcceptedIs ==
    ASSUME NEW b, b.itxs \in Seq(AllItxs), NEW p, NEW k
    PROVE  k \in AcceptedOf(b, p) <=> b.committed /\ k \in 1..Len(b.itxs) /\ About(b.itxs, k, p)
<1>1. DOMAIN b.itxs = 1..Len(b.itxs)
  BY LenProperties
<1> QED  BY <1>1, Zenon DEF AcceptedOf, About

\* No accepted transaction of the blocks of h is about p.
NoneAbout(h, p) == \A i \in DOMAIN h.blocks : AcceptedOf(h.blocks[i], p) = {}

\* A block with nothing about p does not change whether p is in.
LEMMA LetInKept ==
    ASSUME NEW h, LastBlockIndex(h) + 1 \notin DOMAIN h.blocks, NEW b,
           NEW g, AddsBlock(h, g, b), NEW p, AcceptedOf(b, p) = {}
    PROVE  /\ LetIn(g, p) <=> LetIn(h, p)
           /\ NoneAbout(g, p) <=> NoneAbout(h, p)
<1> DEFINE l == LastBlockIndex(h)
<1>1. DOMAIN g.blocks = DOMAIN h.blocks \cup {l + 1} /\ g.blocks[l + 1] = b
      /\ \A i \in DOMAIN h.blocks : g.blocks[i] = h.blocks[i]
  BY DEF AddsBlock
<1> HIDE DEF l
<1>2. \A i \in DOMAIN g.blocks : AcceptedOf(g.blocks[i], p) # {} =>
                                   i \in DOMAIN h.blocks /\ g.blocks[i] = h.blocks[i]
  BY <1>1
<1>3. \A i \in DOMAIN h.blocks : i \in DOMAIN g.blocks /\ g.blocks[i] = h.blocks[i]
  BY <1>1
<1>4. LetIn(h, p) => LetIn(g, p)
  <2> SUFFICES ASSUME LetIn(h, p)  PROVE LetIn(g, p)
    OBVIOUS
  <2>0. PICK i \in DOMAIN h.blocks : \E k \in AcceptedOf(h.blocks[i], p) :
            /\ h.blocks[i].itxs[k].type = "PEER_ADD"
            /\ \A j \in DOMAIN h.blocks : \A m \in AcceptedOf(h.blocks[j], p) :
                   j < i \/ (j = i /\ m <= k)
    BY Zenon DEF LetIn
  <2>1. PICK k \in AcceptedOf(h.blocks[i], p) :
            /\ h.blocks[i].itxs[k].type = "PEER_ADD"
            /\ \A j \in DOMAIN h.blocks : \A m \in AcceptedOf(h.blocks[j], p) :
                   j < i \/ (j = i /\ m <= k)
    BY <2>0, Zenon
  <2>2. i \in DOMAIN g.blocks /\ g.blocks[i] = h.blocks[i]
    BY <1>3
  <2>3. \A j \in DOMAIN g.blocks : \A m \in AcceptedOf(g.blocks[j], p) : j < i \/ (j = i /\ m <= k)
    BY <1>2, <2>1
  <2> QED  BY <2>1, <2>2, <2>3, Zenon DEF LetIn
<1>5. LetIn(g, p) => LetIn(h, p)
  <2> SUFFICES ASSUME LetIn(g, p)  PROVE LetIn(h, p)
    OBVIOUS
  <2>0. PICK i \in DOMAIN g.blocks : \E k \in AcceptedOf(g.blocks[i], p) :
            /\ g.blocks[i].itxs[k].type = "PEER_ADD"
            /\ \A j \in DOMAIN g.blocks : \A m \in AcceptedOf(g.blocks[j], p) :
                   j < i \/ (j = i /\ m <= k)
    BY Zenon DEF LetIn
  <2>1. PICK k \in AcceptedOf(g.blocks[i], p) :
            /\ g.blocks[i].itxs[k].type = "PEER_ADD"
            /\ \A j \in DOMAIN g.blocks : \A m \in AcceptedOf(g.blocks[j], p) :
                   j < i \/ (j = i /\ m <= k)
    BY <2>0, Zenon
  <2>2. i \in DOMAIN h.blocks /\ g.blocks[i] = h.blocks[i]
    BY <1>2
  <2>3. \A j \in DOMAIN h.blocks : \A m \in AcceptedOf(h.blocks[j], p) : j < i \/ (j = i /\ m <= k)
    BY <1>3, <2>1
  <2> QED  BY <2>1, <2>2, <2>3, Zenon DEF LetIn
<1> QED  BY <1>2, <1>3, <1>4, <1>5 DEF NoneAbout

\* A block with something about p decides whether p is in.
LEMMA LetInNew ==
    ASSUME NEW h, LastBlockIndex(h) \in Int, DOMAIN h.blocks = 0..LastBlockIndex(h), NEW b,
           NEW g, AddsBlock(h, g, b), NEW p, AcceptedOf(b, p) # {}
    PROVE  LetIn(g, p) <=> \E k \in AcceptedOf(b, p) :
               b.itxs[k].type = "PEER_ADD" /\ \A m \in AcceptedOf(b, p) : m <= k
<1> DEFINE l == LastBlockIndex(h)
<1>1. DOMAIN g.blocks = DOMAIN h.blocks \cup {l + 1} /\ g.blocks[l + 1] = b
      /\ \A i \in DOMAIN h.blocks : g.blocks[i] = h.blocks[i]
  BY DEF AddsBlock
<1>2. \A i \in DOMAIN g.blocks : i < l + 1 \/ i = l + 1
  BY <1>1
<1>3. \A i \in DOMAIN g.blocks : ~(l + 1 < i) /\ ~(l + 1 < l + 1)
  BY <1>1
<1> HIDE DEF l
<1>4. ASSUME LetIn(g, p)
      PROVE  \E k \in AcceptedOf(b, p) :
                b.itxs[k].type = "PEER_ADD" /\ \A m \in AcceptedOf(b, p) : m <= k
  <2>0. PICK i \in DOMAIN g.blocks : \E k \in AcceptedOf(g.blocks[i], p) :
            /\ g.blocks[i].itxs[k].type = "PEER_ADD"
            /\ \A j \in DOMAIN g.blocks : \A m \in AcceptedOf(g.blocks[j], p) :
                   j < i \/ (j = i /\ m <= k)
    BY <1>4, Zenon DEF LetIn
  <2>1. PICK k \in AcceptedOf(g.blocks[i], p) :
            /\ g.blocks[i].itxs[k].type = "PEER_ADD"
            /\ \A j \in DOMAIN g.blocks : \A m \in AcceptedOf(g.blocks[j], p) :
                   j < i \/ (j = i /\ m <= k)
    BY <2>0, Zenon
  <2>2. l + 1 \in DOMAIN g.blocks /\ \A m \in AcceptedOf(b, p) : l + 1 < i \/ (l + 1 = i /\ m <= k)
    BY <1>1, <2>1
  <2>3. i = l + 1
    BY <1>3, <2>2
  <2> QED  BY <1>1, <1>3, <2>1, <2>2, <2>3
<1>5. ASSUME NEW k \in AcceptedOf(b, p), b.itxs[k].type = "PEER_ADD",
             \A m \in AcceptedOf(b, p) : m <= k
      PROVE  LetIn(g, p)
  <2>1. l + 1 \in DOMAIN g.blocks /\ g.blocks[l + 1] = b
    BY <1>1
  <2>2. \A j \in DOMAIN g.blocks : \A m \in AcceptedOf(g.blocks[j], p) :
            j < l + 1 \/ (j = l + 1 /\ m <= k)
    BY <1>2, <1>5, <2>1
  <2> QED  BY <1>5, <2>1, <2>2, Zenon DEF LetIn
<1> QED  BY <1>4, <1>5

\* The validators follow a new block.
LEMMA MembersAdd ==
    ASSUME dag \in Dags, NEW r \in Int, r >= 0, NEW h, BlocksInv(h, r - 1),
           h.validators = Members(h), NEW b, IsBlock(b, LastBlockIndex(h) + 1, r),
           NEW g, AddsBlock(h, g, b),
           g.validators = IF b.committed THEN ApplyAccepted(h.validators, b.itxs) ELSE h.validators
    PROVE  g.validators = Members(g) /\ g.validators \subseteq Participants
<1> DEFINE l == LastBlockIndex(h)
           q == b.itxs
           V == h.validators
<1>1. l \in Int /\ DOMAIN h.blocks = 0..l /\ l + 1 \notin DOMAIN h.blocks
      /\ l + 1 \in DOMAIN g.blocks /\ g.blocks[l + 1] = b
  BY DEF BlocksInv, AddsBlock
<1>2. q \in Seq(AllItxs) /\ Len(q) \in Nat /\ b.committed \in BOOLEAN
  BY LenProperties DEF IsBlock
<1>3. \A p : p \in V <=> p \in Participants /\ (LetIn(h, p) \/ (p \in Genesis /\ NoneAbout(h, p)))
  BY Zenon DEF Members, NoneAbout
<1>4. \A p : p \in Members(g) <=> p \in Participants /\ (LetIn(g, p) \/ (p \in Genesis /\ NoneAbout(g, p)))
  BY Zenon DEF Members, NoneAbout
<1>5. ASSUME NEW p, AcceptedOf(b, p) = {}
      PROVE  p \in g.validators <=> p \in Members(g)
  <2>1. (LetIn(g, p) <=> LetIn(h, p)) /\ (NoneAbout(g, p) <=> NoneAbout(h, p))
    BY <1>1, <1>5, LetInKept
  <2>2. p \in V <=> p \in Members(g)
    BY <1>3, <1>4, <2>1
  <2>3. b.committed => (p \in ApplyAccepted(V, q) <=> p \in V)
    <3>1. p \in ApplyAccepted(V, q) <=> StaysIn(V, q, Len(q), p)
      BY <1>2, AppliedMembers
    <3>2. b.committed => \A k \in 1..Len(q) : ~About(q, k, p)
      BY <1>2, <1>5, AcceptedIs, Zenon
    <3> QED  BY <3>1, <3>2 DEF StaysIn
  <2> QED  BY <1>2, <2>2, <2>3
<1>6. ASSUME NEW p, AcceptedOf(b, p) # {}
      PROVE  p \in g.validators <=> p \in Members(g)
  <2>1. PICK n \in AcceptedOf(b, p) : TRUE
    BY <1>6
  <2>2. b.committed /\ n \in 1..Len(q) /\ About(q, n, p)
    BY <1>2, <2>1, AcceptedIs
  <2>3. p \in Participants
    <3>1. q[n] \in AllItxs
      BY <1>2, <2>2, ElementOfSeq
    <3> QED  BY <2>2, <3>1, ItxsOfEvents DEF About
  <2>4. ~NoneAbout(g, p)
    BY <1>1, <1>6, Zenon DEF NoneAbout
  <2>5. \A k : k \in AcceptedOf(b, p) <=> k \in 1..Len(q) /\ About(q, k, p)
    BY <1>2, <2>2, AcceptedIs
  <2>6. LetIn(g, p) <=> \E k \in AcceptedOf(b, p) :
            q[k].type = "PEER_ADD" /\ \A m \in AcceptedOf(b, p) : m <= k
    BY <1>1, <1>6, LetInNew
  <2>7. LetIn(g, p) <=> StaysIn(V, q, Len(q), p)
    <3> HIDE DEF q
    <3> QED  BY <2>2, <2>5, <2>6, Zenon DEF StaysIn
  <2>8. p \in ApplyAccepted(V, q) <=> StaysIn(V, q, Len(q), p)
    BY <1>2, AppliedMembers
  <2>9. g.validators = ApplyAccepted(V, q)
    BY <2>2
  <2>10. p \in Members(g) <=> LetIn(g, p)
    BY <1>4, <2>3, <2>4
  <2> QED  BY <2>7, <2>8, <2>9, <2>10
<1>7. \A p : p \in g.validators <=> p \in Members(g)
  BY <1>5, <1>6
<1>8. g.validators \subseteq Participants
  BY <1>4, <1>7
<1> QED  BY <1>7, <1>8, Zenon
\* Refused transactions change nothing.
LEMMA RefusedNothing ==
    ASSUME NEW P, NEW q, Len(q) \in Nat, \A k \in 1..Len(q) : q[k] \in Refused
    PROVE  ApplyAccepted(P, q) = P
<1>1. PICK f : AppliedSteps(f, P, q, Len(q)) /\ ApplyAccepted(P, q) = f[Len(q)]
  BY AppliedIs
<1> DEFINE T == {i \in Nat : i \in 0..Len(q) /\ f[i] # P}
<1>2. T = {}
  <2> SUFFICES ASSUME T # {}  PROVE FALSE
    OBVIOUS
  <2>1. PICK m \in T : \A j \in T : m <= j
    BY LeastNatural, Zenon
  <2>2. m # 0
    BY <1>1 DEF AppliedSteps
  <2>3. m \in 1..Len(q) /\ m - 1 \in Nat /\ m - 1 \notin T /\ m - 1 \in 0..Len(q)
    BY <2>1, <2>2
  <2>4. f[m] = f[m - 1]
    BY <1>1, <2>3 DEF AppliedSteps
  <2> QED  BY <2>3, <2>4
<1>3. Len(q) \in 0..Len(q)
  OBVIOUS
<1> QED  BY <1>1, <1>2, <1>3

\* What committing b as the block of round r does to the chain of h.
Outcome(h, g, b, r) ==
    /\ AddsBlock(h, g, b)
    /\ IsBlock(b, LastBlockIndex(h) + 1, r)
    /\ g.anchor = IF /\ Cardinality(b.sigs) > TrustCount(GetPeerSet(h, r))
                     /\ LastBlockIndex(h) + 1 > h.anchor
                  THEN LastBlockIndex(h) + 1 ELSE h.anchor
    /\ g.validators = IF b.committed THEN ApplyAccepted(h.validators, b.itxs) ELSE h.validators
    /\ \/ g.peerSets = h.peerSets /\ g.validators = h.validators
       \/ g.peerSets = SetPeerSet(h.peerSets, r + EffectiveDelay, g.validators)

\* It keeps the chain in order.
LEMMA OutcomeChain ==
    ASSUME dag \in Dags, NEW r \in Int, r >= 0, NEW h, ChainInv(h, r - 1),
           NEW b, NEW g, Outcome(h, g, b, r)
    PROVE  ChainInv(g, r) /\ SamePeers(h, g, r + EffectiveDelay - 1)
<1>1. /\ PeerSetsInv(h, r - 1) /\ BlocksInv(h, r - 1) /\ AnchorInv(h)
      /\ h.validators = Members(h)
  BY DEF ChainInv
<1>2. /\ AddsBlock(h, g, b) /\ IsBlock(b, LastBlockIndex(h) + 1, r)
      /\ g.anchor = IF /\ Cardinality(b.sigs) > TrustCount(GetPeerSet(h, r))
                        /\ LastBlockIndex(h) + 1 > h.anchor
                     THEN LastBlockIndex(h) + 1 ELSE h.anchor
  BY DEF Outcome
<1>3. g.validators = IF b.committed THEN ApplyAccepted(h.validators, b.itxs) ELSE h.validators
  BY DEF Outcome
<1>4. g.validators = Members(g) /\ g.validators \subseteq Participants
  BY <1>1, <1>2, <1>3, MembersAdd
<1>5. PeerSetsInv(g, r) /\ SamePeers(h, g, r + EffectiveDelay - 1)
  <2>1. CASE g.peerSets = h.peerSets /\ g.validators = h.validators
    BY <1>1, <2>1, PeerSetsStay
  <2>2. CASE g.peerSets = SetPeerSet(h.peerSets, r + EffectiveDelay, g.validators)
    BY <1>1, <1>4, <2>2, PeerSetsGrow
  <2> QED  BY <2>1, <2>2 DEF Outcome
<1>6. SamePeers(h, g, r)
  BY <1>5 DEF SamePeers, EffectiveDelay
<1>7. b.round = r
  BY <1>2 DEF IsBlock
<1>8. AnchorInv(g)
  BY <1>1, <1>2, <1>6, <1>7, AnchorAdd
<1>9. BlocksInv(g, r)
  BY <1>1, <1>2, BlocksAdd
<1> QED  BY <1>4, <1>5, <1>8, <1>9 DEF ChainInv

\* A round without a payload leaves the chain as it is.
LEMMA NoBlockChain ==
    ASSUME NEW r \in Int, r >= 0, NEW h, ChainInv(h, r - 1), NEW g,
           g.blocks = h.blocks, g.anchor = h.anchor,
           g.peerSets = h.peerSets, g.validators = h.validators
    PROVE  ChainInv(g, r) /\ SamePeers(h, g, r + EffectiveDelay - 1)
<1>1. PeerSetsInv(g, r) /\ SamePeers(h, g, r + EffectiveDelay - 1)
  BY PeerSetsStay DEF ChainInv
<1>2. BlocksInv(g, r)
  BY BlocksStay DEF ChainInv
<1>3. Trusted(g) = Trusted(h)
  BY DEF Trusted, GetPeerSet
<1>4. Members(g) = Members(h)
  BY DEF Members, LetIn
<1> QED  BY <1>1, <1>2, <1>3, <1>4 DEF ChainInv, AnchorInv

\* ChainInv reads four fields only.
LEMMA SameChainOfBlocks ==
    ASSUME NEW h, NEW last, ChainInv(h, last), NEW g,
           g.blocks = h.blocks, g.anchor = h.anchor,
           g.peerSets = h.peerSets, g.validators = h.validators
    PROVE  ChainInv(g, last)
<1>1. Trusted(g) = Trusted(h)
  BY DEF Trusted, GetPeerSet
<1>2. Members(g) = Members(h)
  BY DEF Members, LetIn
<1>3. LastBlockIndex(g) = LastBlockIndex(h)
  BY DEF LastBlockIndex
<1> QED  BY <1>1, <1>2, <1>3, Zenon DEF ChainInv, AnchorInv, PeerSetsInv, BlocksInv

\* SetBlock adds a block.
LEMMA SetBlockAdds ==
    ASSUME NEW f, IsHashgraph(f), NEW b, b.index = LastBlockIndex(f) + 1,
           b.index \notin DOMAIN f.blocks, NEW g, g = SetBlock(f, b)
    PROVE  AddsBlock(f, g, b)
BY FieldNames DEF SetBlock, AddsBlock, IsHashgraph

\* It replaces one that was added.
LEMMA SetBlockReplaces ==
    ASSUME NEW h, NEW f, IsHashgraph(f), NEW b, AddsBlock(h, f, b),
           LastBlockIndex(h) + 1 \notin DOMAIN h.blocks,
           NEW c, c.index = LastBlockIndex(h) + 1, NEW g, g = SetBlock(f, c)
    PROVE  AddsBlock(h, g, c)
<1>1. g.blocks = [i \in DOMAIN f.blocks \cup {c.index} |-> IF i = c.index THEN c ELSE f.blocks[i]]
  BY FieldNames DEF SetBlock, IsHashgraph
<1> QED  BY <1>1 DEF AddsBlock
\* What SetAnchorBlock makes of the anchor.
LEMMA SetAnchorIs ==
    ASSUME NEW h, IsHashgraph(h), NEW b, NEW g, g = SetAnchorBlock(h, b)
    PROVE  g.anchor = IF /\ Cardinality(b.sigs) > TrustCount(GetPeerSet(h, b.round))
                         /\ b.index > h.anchor
                      THEN b.index ELSE h.anchor
BY FieldNames DEF SetAnchorBlock, IsHashgraph

\* What ProcessAccepted makes of the validators.
LEMMA AcceptedIsApplied ==
    ASSUME NEW h, IsHashgraph(h), NEW b, b.itxs \in Seq(AllItxs),
           b.round + EffectiveDelay \notin DOMAIN h.peerSets,
           NEW g, g = ProcessAccepted(h, b)
    PROVE  /\ g.validators = ApplyAccepted(h.validators, b.itxs)
           /\ \/ g.peerSets = h.peerSets /\ g.validators = h.validators
              \/ g.peerSets = SetPeerSet(h.peerSets, b.round + EffectiveDelay, g.validators)
<1> DEFINE v == ApplyAccepted(h.validators, b.itxs)
           P == SetPeerSet(h.peerSets, b.round + EffectiveDelay, v)
<1>1. g = IF AllRefused(b) THEN h ELSE [h EXCEPT !.validators = v, !.peerSets = P]
  BY Zenon DEF ProcessAccepted
<1>2. CASE AllRefused(b)
  <2>1. DOMAIN b.itxs = 1..Len(b.itxs) /\ Len(b.itxs) \in Nat
    BY LenProperties
  <2>2. \A k \in 1..Len(b.itxs) : b.itxs[k] \in Refused
    BY <1>2, <2>1 DEF AllRefused
  <2>3. v = h.validators
    BY <2>1, <2>2, RefusedNothing
  <2> QED  BY <1>1, <1>2, <2>3
<1>3. CASE ~AllRefused(b)
  <2> HIDE DEF v, P
  <2>1. g.validators = v /\ g.peerSets = P
    BY <1>1, <1>3, FieldNames DEF IsHashgraph
  <2> QED  BY <2>1 DEF v, P
<1> QED  BY <1>2, <1>3

\* Commit adds the block to the chain, whether the application fails or not.
LEMMA CommitOutcome ==
    ASSUME NEW r \in Int, r >= 0, NEW h, ChainInv(h, r - 1), NEW f, IsHashgraph(f),
           f.blocks = h.blocks, f.anchor = h.anchor,
           f.peerSets = h.peerSets, f.validators = h.validators,
           NEW b, IsBlock(b, LastBlockIndex(h) + 1, r), b.sigs = {}, b.committed = FALSE,
           NEW n, NEW g, g = Commit(SetBlock(f, b), n, b)
    PROVE  \E c : Outcome(h, g, c, r)
<1> DEFINE i == SetBlock(f, b)
           l == LastBlockIndex(h)
<1>1. /\ l \in Int /\ l + 1 \notin DOMAIN h.blocks /\ LastBlockIndex(f) = l
      /\ DOMAIN h.blocks = 0..l
  BY DEF ChainInv, BlocksInv, LastBlockIndex
<1>2. b.index = l + 1 /\ b.round = r /\ b.itxs \in Seq(AllItxs)
      /\ DOMAIN b = {"index", "round", "peers", "ts", "txs", "itxs", "committed", "sigs"}
  BY DEF IsBlock
<1>3. /\ SameEvents(f, i) /\ i.anchor = h.anchor
      /\ i.peerSets = h.peerSets /\ i.validators = h.validators
  BY SetBlockEvents
<1>4. AddsBlock(f, i, b)
  BY <1>1, <1>2, SetBlockAdds
<1>5. AddsBlock(h, i, b)
  BY <1>1, <1>4 DEF AddsBlock
<1>6. TrustCount(GetPeerSet(h, r)) \in Nat /\ GetPeerSet(h, r) \subseteq Participants
  BY PeersOfRound DEF ChainInv
<1>7. g = Commit(i, n, b) /\ IsHashgraph(i)
  BY <1>3 DEF SameEvents
<1> HIDE DEF i
<1>8. CASE <<n, b.index>> \in AppFailures
  <2>1. g = i
    BY <1>7, <1>8 DEF Commit
  <2>2. ~(Cardinality(b.sigs) > TrustCount(GetPeerSet(h, r)))
    BY <1>6, FS_EmptySet
  <2>3. Outcome(h, g, b, r)
    BY <1>3, <1>5, <2>1, <2>2 DEF Outcome
  <2> QED  BY <2>3
<1>9. CASE <<n, b.index>> \notin AppFailures
  <2> DEFINE signer == {n} \cap GetPeerSet(h, r)
             c == [b EXCEPT !.committed = TRUE, !.sigs = signer]
             j == SetBlock(i, c)
             k == SetAnchorBlock(j, c)
  <2>1. GetPeerSet(i, b.round) = GetPeerSet(h, r)
    BY <1>2, <1>3 DEF GetPeerSet
  <2>2. g = ProcessAccepted(k, c)
    <3>1. g = LET s == {n} \cap GetPeerSet(i, b.round)
                  d == [b EXCEPT !.committed = TRUE, !.sigs = s]
              IN  ProcessAccepted(SetAnchorBlock(SetBlock(i, d), d), d)
      BY <1>7, <1>9, Zenon DEF Commit
    <3> QED  BY <2>1, <3>1, Zenon
  <2>3. signer \subseteq Participants
    BY <1>6
  <2> HIDE DEF signer
  <2>4. /\ c.index = l + 1 /\ c.round = r /\ c.itxs = b.itxs
        /\ c.committed = TRUE /\ c.sigs = signer /\ DOMAIN c = DOMAIN b
    BY <1>2
  <2>5. IsBlock(c, l + 1, r)
    BY <1>2, <2>3, <2>4 DEF IsBlock
  <2> HIDE DEF c
  <2>6. AddsBlock(h, j, c)
    BY <1>1, <1>5, <1>7, <2>4, SetBlockReplaces
  <2>7. /\ SameEvents(i, j) /\ j.anchor = h.anchor
        /\ j.peerSets = h.peerSets /\ j.validators = h.validators
    BY <1>3, <1>7, SetBlockEvents
  <2>8. IsHashgraph(j)
    BY <2>7 DEF SameEvents
  <2>9. k = SetAnchorBlock(j, c)
    OBVIOUS
  <2> HIDE DEF j, k
  <2>10. /\ SameEvents(j, k) /\ k.blocks = j.blocks
         /\ k.peerSets = h.peerSets /\ k.validators = h.validators
    BY <2>7, <2>8, <2>9, SetAnchorEvents
  <2>11. k.anchor = IF /\ Cardinality(c.sigs) > TrustCount(GetPeerSet(j, c.round))
                       /\ c.index > j.anchor
                    THEN c.index ELSE j.anchor
    BY <2>8, <2>9, SetAnchorIs, Zenon
  <2>12. GetPeerSet(j, c.round) = GetPeerSet(h, r)
    BY <2>4, <2>7 DEF GetPeerSet
  <2>13. IsHashgraph(k)
    BY <2>10 DEF SameEvents
  <2>14. g.blocks = j.blocks /\ g.anchor = k.anchor
    BY <2>2, <2>10, <2>13, AcceptedEvents
  <2>15. c.round + EffectiveDelay \notin DOMAIN k.peerSets
    BY <2>4, <2>10 DEF ChainInv, PeerSetsInv, EffectiveDelay
  <2>16. /\ g.validators = ApplyAccepted(k.validators, c.itxs)
         /\ \/ g.peerSets = k.peerSets /\ g.validators = k.validators
            \/ g.peerSets = SetPeerSet(k.peerSets, c.round + EffectiveDelay, g.validators)
    BY <1>2, <2>2, <2>4, <2>13, <2>15, AcceptedIsApplied
  <2>17. AddsBlock(h, g, c)
    BY <2>6, <2>14 DEF AddsBlock
  <2>18. g.anchor = IF /\ Cardinality(c.sigs) > TrustCount(GetPeerSet(h, r))
                       /\ l + 1 > h.anchor
                    THEN l + 1 ELSE h.anchor
    BY <2>4, <2>7, <2>11, <2>12, <2>14
  <2>19. g.validators = ApplyAccepted(h.validators, c.itxs)
    BY <2>10, <2>16
  <2>20. \/ g.peerSets = h.peerSets /\ g.validators = h.validators
         \/ g.peerSets = SetPeerSet(h.peerSets, r + EffectiveDelay, g.validators)
    BY <2>4, <2>10, <2>16
  <2>21. Outcome(h, g, c, r)
    BY <2>4, <2>5, <2>17, <2>18, <2>19, <2>20 DEF Outcome
  <2> QED  BY <2>21
<1> QED  BY <1>8, <1>9

\* A pass keeps the chain in order.
LEMMA PassChain ==
    ASSUME dag \in Dags, NEW r \in Int, r >= 0, NEW h, IsHashgraph(h), ChainInv(h, r - 1),
           h.lamport \in [Events -> Int], h.known \subseteq Events, IsFiniteSet(h.known),
           NEW n, NEW g, g = ProcessRound(h, n, r)
    PROVE  ChainInv(g, r) /\ SamePeers(h, g, r + EffectiveDelay - 1)
<1>1. PICK f : IsCommitted(h, n, r, f, g)
  BY PassFields
<1> DEFINE b == NewBlockFromFrame(LastBlockIndex(h) + 1, GetFrame(h, r))
<1>2. /\ IsHashgraph(f)
      /\ f.blocks = h.blocks /\ f.anchor = h.anchor
      /\ f.peerSets = h.peerSets /\ f.validators = h.validators
      /\ g = IF HasPayload(b) THEN Commit(SetBlock(f, b), n, b) ELSE f
  BY <1>1, Zenon DEF IsCommitted
<1> DEFINE i == LastBlockIndex(h) + 1
<1>3. b = NewBlockFromFrame(i, GetFrame(h, r))
  OBVIOUS
<1> HIDE DEF b, i
<1>4. IsBlock(b, i, r) /\ b.committed = FALSE /\ b.sigs = {}
  BY <1>3, BlockOfFrame, Zenon
<1>5. CASE HasPayload(b)
  <2>1. g = Commit(SetBlock(f, b), n, b)
    BY <1>2, <1>5
  <2>2. PICK c : Outcome(h, g, c, r)
    BY <1>2, <1>4, <2>1, CommitOutcome, Zenon DEF i
  <2> QED  BY <2>2, OutcomeChain
<1>6. CASE ~HasPayload(b)
  <2>1. g = f
    BY <1>2, <1>6
  <2> QED  BY <1>2, <2>1, NoBlockChain
<1> QED  BY <1>5, <1>6

-----------------------------------------------------------------------------
(***************************************************************************)
(* The loop of ProcessDecidedRounds.                                       *)
(***************************************************************************)

\* The rounds that are processed follow LastConsensusRound, and stop below the
\* first one that is not decided.
LEMMA ProcessableInterval ==
    ASSUME NEW h, PendingInv(h), LastRound(h) \in Int,
           h.pending \in [DOMAIN h.pending -> BOOLEAN]
    PROVE  \E m \in Int :
               /\ h.lastConsensusRound <= m /\ m <= LastRound(h)
               /\ Processable(h) = h.lastConsensusRound + 1 .. m
               /\ m + 1 \in DOMAIN h.pending => ~h.pending[m + 1]
<1> DEFINE c == h.lastConsensusRound
           L == LastRound(h)
           P == DOMAIN h.pending
           T == {k \in Nat : ~(c + 1 + k \in P /\ h.pending[c + 1 + k])}
<1>1. c \in Int /\ L \in Int /\ c <= L /\ P = c + 1 .. L
  BY DEF PendingInv
<1> HIDE DEF c, L, P
<1>2. L - c \in T
  BY <1>1
<1>3. T \subseteq Nat /\ T # {}
  BY <1>2
<1>4. PICK k \in T : \A j \in T : k <= j
  BY <1>3, LeastNatural, Zenon
<1> DEFINE m == c + k
<1>5. m \in Int /\ c <= m /\ m <= L
  BY <1>1, <1>2, <1>4
<1>6. \A r \in c + 1 .. m : r \in P /\ h.pending[r]
  <2> TAKE r \in c + 1 .. m
  <2>1. r - c - 1 \in Nat /\ ~(k <= r - c - 1) /\ c + 1 + (r - c - 1) = r
    BY <1>1
  <2>2. r - c - 1 \notin T
    BY <1>4, <2>1
  <2> QED  BY <2>1, <2>2
<1>7. ~(m + 1 \in P /\ h.pending[m + 1])
  <2>1. ~(c + 1 + k \in P /\ h.pending[c + 1 + k])
    OBVIOUS
  <2>2. c + 1 + k = m + 1
    BY <1>1
  <2> QED  BY <2>1, <2>2
<1> HIDE DEF T, m
<1>8. Processable(h) = c + 1 .. m
  <2>1. \A r \in c + 1 .. m : \A i \in P : i <= r => i \in c + 1 .. m
    BY <1>1, <1>5
  <2>2. \A r \in P : r \notin c + 1 .. m => m + 1 \in P /\ m + 1 <= r
    BY <1>1, <1>5
  <2>3. Processable(h) = {r \in P : \A i \in P : i <= r => h.pending[i]}
    BY DEF Processable, P
  <2> QED  BY <1>6, <1>7, <2>1, <2>2, <2>3
<1> QED  BY <1>5, <1>7, <1>8 DEF c, L, P

\* The frames of u up to round c are those of h, and those of the rounds up to
\* r list the events that were received in them.
FramesHold(h, u, c, r) ==
    /\ \A k \in 0..c : u.frames[k] = h.frames[k]
    /\ \A k \in c + 1 .. r : Range(u.frames[k].events) = {x \in h.known : h.rr[x] = k}

\* What the passes for the rounds from c + 1 to r leave of h.
Passed(h, u, c, r) ==
    /\ SameEvents(h, u)
    /\ DOMAIN u.frames = 0..r
    /\ FramesHold(h, u, c, r)
    /\ ChainInv(u, r)
    /\ SamePeers(h, u, c + EffectiveDelay)

\* The events of a frame.
LEMMA FrameLists ==
    ASSUME dag \in Dags, NEW h, h.lamport \in [Events -> Int],
           h.known \subseteq Events, IsFiniteSet(h.known), NEW r
    PROVE  Range(GetFrame(h, r).events) = {x \in h.known : h.rr[x] = r}
<1> DEFINE S == {x \in h.known : h.rr[x] = r}
<1>1. GetFrame(h, r).events = SortEvents(h, S)
  BY DEF GetFrame
<1>2. S \subseteq h.known
  OBVIOUS
<1> HIDE DEF S
<1>3. S \subseteq Events /\ IsFiniteSet(S)
  BY <1>2, FS_Subset
<1>4. Range(SortEvents(h, S)) = S
  BY <1>3, SortLists
<1> QED  BY <1>1, <1>4 DEF S

\* One more pass.
LEMMA PassStep ==
    ASSUME dag \in Dags, NEW h, h.lamport \in [Events -> Int],
           h.known \subseteq Events, IsFiniteSet(h.known),
           NEW c \in Int, c >= -1, NEW u, NEW r \in Int, r >= 0, c < r, Passed(h, u, c, r - 1), NEW n,
           NEW v, v = ProcessRound(u, n, r)
    PROVE  Passed(h, v, c, r)
<1>1. IsHashgraph(u) /\ u.lamport = h.lamport /\ u.known = h.known /\ u.rr = h.rr
  BY DEF Passed, SameEvents
<1>2. SameEvents(u, v) /\ v.frames = WithFrame(u, r)
  BY <1>1, PassFields
<1>3. SameEvents(h, v)
  BY <1>2, SameEventsTransitive DEF Passed
<1>4. DOMAIN v.frames = 0..r
  <2>1. DOMAIN WithFrame(u, r) = (0 .. r - 1) \cup {r}
    BY DEF WithFrame, Passed
  <2> QED  BY <1>2, <2>1
<1>5. FramesHold(h, v, c, r)
  <2>1. Range(GetFrame(u, r).events) = {x \in h.known : h.rr[x] = r}
    <3>1. Range(GetFrame(u, r).events) = {x \in u.known : u.rr[x] = r}
      BY <1>1, FrameLists
    <3> QED  BY <1>1, <3>1
  <2>2. v.frames[r] = GetFrame(u, r) /\ \A k \in 0 .. r - 1 : v.frames[k] = u.frames[k]
    BY <1>2 DEF WithFrame, Passed
  <2>3. \A k \in 0..c : k \in 0 .. r - 1
    OBVIOUS
  <2>4. \A k \in 0..c : v.frames[k] = h.frames[k]
    BY <2>2, <2>3 DEF Passed, FramesHold
  <2>5. ASSUME NEW k \in c + 1 .. r
        PROVE  Range(v.frames[k].events) = {x \in h.known : h.rr[x] = k}
    <3>1. CASE k = r
      BY <2>1, <2>2, <3>1
    <3>2. CASE k # r
      <4>1. k \in c + 1 .. r - 1 /\ k \in 0 .. r - 1
        BY <2>5, <3>2
      <4> QED  BY <2>2, <4>1 DEF Passed, FramesHold
    <3> QED  BY <3>1, <3>2
  <2> QED  BY <2>4, <2>5 DEF FramesHold
<1>6. ChainInv(v, r) /\ SamePeers(u, v, r + EffectiveDelay - 1)
  BY <1>1, PassChain DEF Passed
<1>7. SamePeers(h, v, c + EffectiveDelay)
  BY <1>6 DEF SamePeers, Passed, EffectiveDelay
<1> QED  BY <1>3, <1>4, <1>5, <1>6, <1>7 DEF Passed

\* All the passes.
LEMMA AllPassed ==
    ASSUME dag \in Dags, NEW h, h.lamport \in [Events -> Int],
           h.known \subseteq Events, IsFiniteSet(h.known),
           NEW n, NEW c \in Int, c >= -1, NEW m \in Int, c <= m,
           Passed(h, h, c, c), NEW g, g = ProcessRounds(h, n, Ascending(c + 1 .. m))[m - c]
    PROVE  Passed(h, g, c, m)
<1> DEFINE A == Ascending(c + 1 .. m)
           f == ProcessRounds(h, n, A)
<1>1. Len(A) = m - c /\ m - c \in Nat /\ \A i \in 1 .. m - c : A[i] = c + i
  <2>1. Len(A) = m - c /\ \A i \in 1 .. m - c : A[i] = c + i
    BY AscendingInterval, Zenon
  <2> HIDE DEF A
  <2> QED  BY <2>1
<1> HIDE DEF A
<1>2. IsPasses(f, h, n, A, Len(A))
  BY <1>1, LoopSteps
<1>5. g = f[m - c]
  BY DEF A
<1> HIDE DEF f
<1>3. f[0] = h /\ \A i \in 1 .. m - c : f[i] = ProcessRound(f[i - 1], n, c + i)
  BY <1>1, <1>2 DEF IsPasses
<1> DEFINE T == {i \in 0 .. m - c : ~Passed(h, f[i], c, c + i)}
<1>4. T = {}
  <2> SUFFICES ASSUME T # {}  PROVE FALSE
    OBVIOUS
  <2>1. T \subseteq Nat
    BY <1>1
  <2>2. PICK k \in T : \A j \in T : k <= j
    BY <2>1, LeastNatural, Zenon
  <2>3. k # 0
    BY <1>3
  <2>4. k - 1 \in 0 .. m - c /\ k \in 1 .. m - c /\ k - 1 \notin T
    BY <1>1, <2>2, <2>3
  <2> DEFINE r == c + k
             u == f[k - 1]
             v == f[k]
  <2>5. v = ProcessRound(u, n, r) /\ r \in Int /\ r >= 0 /\ c < r /\ c + (k - 1) = r - 1
    BY <1>3, <2>4
  <2>6. Passed(h, u, c, r - 1) /\ ~Passed(h, v, c, r)
    BY <2>2, <2>4, <2>5
  <2> HIDE DEF u, v, r
  <2> QED  BY <2>5, <2>6, PassStep
<1>6. m - c \in 0 .. m - c /\ c + (m - c) = m
  BY <1>1
<1> QED  BY <1>4, <1>5, <1>6

\* e has the chain of g and the events of h, whose rounds up to m are no longer
\* pending.
Processed(h, m, g, e) ==
    /\ IsHashgraph(e)
    /\ e.frames = g.frames /\ e.blocks = g.blocks /\ e.anchor = g.anchor
    /\ e.peerSets = g.peerSets /\ e.validators = g.validators
    /\ e.known = h.known /\ e.undetermined = h.undetermined
    /\ e.la = h.la /\ e.fd = h.fd
    /\ e.round = h.round /\ e.lamport = h.lamport /\ e.witness = h.witness
    /\ e.famous = h.famous /\ e.rr = h.rr
    /\ e.decided = h.decided /\ e.lowerBound = h.lowerBound
    /\ e.pending = [r \in DOMAIN h.pending \ (h.lastConsensusRound + 1 .. m) |-> h.pending[r]]
    /\ e.lastConsensusRound = m

\* What ProcessDecidedRounds leaves.
LEMMA ProcessChain ==
    ASSUME NEW h, IsHashgraph(h), NEW n, NEW c, h.lastConsensusRound = c, c \in Int,
           NEW m \in Int, c <= m, Processable(h) = c + 1 .. m,
           NEW g, g = ProcessRounds(h, n, Ascending(c + 1 .. m))[m - c],
           NEW e, e = ProcessDecidedRounds(h, n)
    PROVE  Processed(h, m, g, e)
<1> DEFINE P == [r \in DOMAIN h.pending \ (c + 1 .. m) |-> h.pending[r]]
           M == MaxOrNone({c} \cup (c + 1 .. m))
<1>1. Cardinality(c + 1 .. m) = m - c
  BY AscendingInterval, Zenon
<1>2. e = [h EXCEPT !.frames = g.frames, !.blocks = g.blocks, !.anchor = g.anchor,
                    !.peerSets = g.peerSets, !.validators = g.validators,
                    !.lastConsensus = g.lastConsensus, !.loaded = g.loaded,
                    !.pending = P, !.lastConsensusRound = M]
  BY <1>1, Zenon DEF ProcessDecidedRounds
<1>3. M = m
  <2>1. {c} \cup (c + 1 .. m) = c .. m
    OBVIOUS
  <2> QED  BY <2>1, MaxOfInterval, Zenon
<1> HIDE DEF P, M
<1>4. /\ IsHashgraph(e)
      /\ e.frames = g.frames /\ e.blocks = g.blocks /\ e.anchor = g.anchor
      /\ e.peerSets = g.peerSets /\ e.validators = g.validators
      /\ e.known = h.known /\ e.undetermined = h.undetermined
      /\ e.la = h.la /\ e.fd = h.fd
      /\ e.round = h.round /\ e.lamport = h.lamport /\ e.witness = h.witness
      /\ e.famous = h.famous /\ e.rr = h.rr
      /\ e.decided = h.decided /\ e.lowerBound = h.lowerBound
      /\ e.pending = P /\ e.lastConsensusRound = M
  BY <1>2, FieldNames, Zenon DEF IsHashgraph
<1> QED  BY <1>3, <1>4 DEF P, Processed

\* e has the events of h, with all that is known of them.
KeepsEvents(h, e) ==
    /\ e.known = h.known /\ e.undetermined = h.undetermined
    /\ e.la = h.la /\ e.fd = h.fd
    /\ e.round = h.round /\ e.lamport = h.lamport /\ e.witness = h.witness
    /\ e.famous = h.famous /\ e.rr = h.rr /\ e.decided = h.decided

\* ProcessDecidedRounds makes the frames of the rounds that it takes out of
\* PendingRounds, and leaves no decided round at the head.
LEMMA ProcessOrder ==
    ASSUME dag \in Dags, NEW h, GraphTypeOK(h), OrderInv(h), NEW n,
           NEW e, e = ProcessDecidedRounds(h, n)
    PROVE  /\ OrderInv(e) /\ NextUndecided(e)
           /\ KeepsEvents(h, e) /\ h.lastConsensusRound <= e.lastConsensusRound
           /\ SamePeers(h, e, h.lastConsensusRound + EffectiveDelay)
           /\ FramesHold(h, e, h.lastConsensusRound, e.lastConsensusRound)
<1>0. RoundInv(h) /\ PendingInv(h) /\ ChainInv(h, h.lastConsensusRound)
  BY DEF OrderInv
<1> DEFINE c == h.lastConsensusRound
           L == LastRound(h)
<1>1. IsHashgraph(h) /\ h.pending \in [DOMAIN h.pending -> BOOLEAN]
  BY DEF GraphTypeOK, IsHashgraph
<1>2. c \in Int /\ c >= -1 /\ L \in Int
  BY <1>0 DEF PendingInv, RoundInv
<1>3. PICK m \in Int : /\ c <= m /\ m <= L
                       /\ Processable(h) = c + 1 .. m
                       /\ m + 1 \in DOMAIN h.pending => ~h.pending[m + 1]
  BY <1>0, <1>1, <1>2, ProcessableInterval
<1> DEFINE g == ProcessRounds(h, n, Ascending(c + 1 .. m))[m - c]
<1>13. g = ProcessRounds(h, n, Ascending(c + 1 .. m))[m - c]
  OBVIOUS
<1> HIDE DEF g
<1>4. DOMAIN g.frames = 0..m /\ FramesHold(h, g, c, m) /\ ChainInv(g, m)
      /\ SamePeers(h, g, c + EffectiveDelay)
  <2>1. FramesHold(h, h, c, c) /\ SamePeers(h, h, c + EffectiveDelay)
    BY <1>2 DEF FramesHold, SamePeers
  <2>2. Passed(h, h, c, c)
    BY <1>0, <1>1, <2>1 DEF PendingInv, Passed, SameEvents
  <2>3. h.lamport \in [Events -> Int] /\ h.known \subseteq Events /\ IsFiniteSet(h.known)
    BY <1>0 DEF GraphTypeOK, RoundInv
  <2>4. Passed(h, g, c, m)
    BY <1>2, <1>3, <1>13, <2>2, <2>3, AllPassed
  <2> QED  BY <2>4 DEF Passed
<1>14. Processed(h, m, g, e)
  BY <1>1, <1>2, <1>3, <1>13, ProcessChain, Zenon
<1>5. /\ e.frames = g.frames /\ e.known = h.known /\ e.round = h.round
      /\ e.famous = h.famous /\ e.decided = h.decided /\ e.lowerBound = h.lowerBound
      /\ e.pending = [r \in DOMAIN h.pending \ (c + 1 .. m) |-> h.pending[r]]
      /\ e.lastConsensusRound = m
  BY <1>14 DEF Processed
<1>6. LastRound(e) = L
  BY <1>5, SameLastRound
<1>7. RoundInv(e)
  BY <1>0, <1>5, <1>6 DEF RoundInv
<1>8. DOMAIN h.pending = c + 1 .. L /\ 0..c \subseteq h.decided
      /\ \A r \in DOMAIN h.pending : h.pending[r] <=> r \in h.decided
  BY <1>0 DEF PendingInv
<1>15. KeepsEvents(h, e)
  BY <1>14 DEF Processed, KeepsEvents
<1>16. /\ e.blocks = g.blocks /\ e.anchor = g.anchor
       /\ e.peerSets = g.peerSets /\ e.validators = g.validators
  BY <1>14 DEF Processed
<1>17. ChainInv(e, m)
  BY <1>4, <1>16, SameChainOfBlocks
<1>18. SamePeers(h, e, c + EffectiveDelay) /\ FramesHold(h, e, c, m)
  BY <1>4, <1>5, <1>16 DEF SamePeers, GetPeerSet, FramesHold
<1> HIDE DEF c, L
<1>9. DOMAIN e.pending = m + 1 .. L /\ \A r \in DOMAIN e.pending : e.pending[r] = h.pending[r]
  BY <1>2, <1>3, <1>5, <1>8
<1>10. 0..m \subseteq e.decided
  <2>1. \A r \in c + 1 .. m : r \in DOMAIN h.pending /\ h.pending[r]
    BY <1>2, <1>3, <1>8 DEF Processable
  <2> QED  BY <1>2, <1>3, <1>5, <1>8, <2>1
<1>11. PendingInv(e)
  <2>1. \A r \in DOMAIN e.pending : e.pending[r] <=> r \in e.decided
    BY <1>2, <1>3, <1>5, <1>8, <1>9
  <2>2. m >= -1
    BY <1>2, <1>3
  <2> QED  BY <1>3, <1>4, <1>5, <1>6, <1>9, <1>10, <2>1, <2>2, Zenon DEF PendingInv
<1>12. NextUndecided(e)
  BY <1>2, <1>3, <1>5, <1>8, <1>9 DEF NextUndecided
<1>19. OrderInv(e)
  BY <1>5, <1>7, <1>11, <1>17 DEF OrderInv
<1> QED  BY <1>3, <1>5, <1>12, <1>15, <1>18, <1>19 DEF c
-----------------------------------------------------------------------------
(***************************************************************************)
(* Steps.                                                                  *)
(***************************************************************************)

\* InsertEventAndRunConsensus(n, x) takes h to g, through d (DivideRounds), f
\* (DecideFame) and r (DecideRoundReceived).
Runs(h, n, x, d, f, r, g) ==
    /\ x \in Events /\ x \notin h.known /\ CanInsert(h, x)
    /\ d = DivideRounds(InsertEvent(h, x), x)
    /\ \E fame \in FameDecisions(d) : f = DecideFame(d, fame)
    /\ r = DecideRoundReceived(f)
    /\ g = ProcessDecidedRounds(r, n)

\* The graph is right at each stage.
LEMMA RunsGraph ==
    ASSUME dag \in Dags, NEW h, GraphInv(h), NEW n, NEW x, NEW d, NEW f, NEW r, NEW g,
           Runs(h, n, x, d, f, r, g)
    PROVE  GraphInv(d) /\ GraphInv(f) /\ GraphInv(r) /\ GraphInv(g)
<1>1. x \in Events /\ x \notin h.known /\ CanInsert(h, x)
      /\ d = DivideRounds(InsertEvent(h, x), x)
  BY DEF Runs
<1>2. GraphInv(d)
  BY <1>1, InsertInv
<1>3. PICK fame \in FameDecisions(d) : f = DecideFame(d, fame)
  BY DEF Runs
<1>4. GraphInv(f)
  BY <1>2, <1>3, FameInv
<1>5. GraphInv(r)
  BY <1>4, ReceivedInv DEF Runs
<1>6. GraphInv(g)
  BY <1>5, ProcessInv DEF Runs
<1> QED  BY <1>2, <1>4, <1>5, <1>6

\* So are the rounds and the chain.
LEMMA RunsOrder ==
    ASSUME dag \in Dags, NEW h, GraphInv(h), OrderInv(h),
           NEW n, NEW x, NEW d, NEW f, NEW r, NEW g, Runs(h, n, x, d, f, r, g)
    PROVE  /\ RoundInv(d) /\ PendingInv(d) /\ SameChain(h, d)
           /\ RoundInv(f) /\ PendingInv(f) /\ SameChain(h, f)
           /\ OrderInv(r) /\ SameChain(h, r)
           /\ OrderInv(g) /\ NextUndecided(g)
           /\ KeepsEvents(r, g) /\ r.lastConsensusRound <= g.lastConsensusRound
           /\ SamePeers(r, g, r.lastConsensusRound + EffectiveDelay)
           /\ FramesHold(r, g, r.lastConsensusRound, g.lastConsensusRound)
<1>0. GraphInv(d) /\ GraphInv(f) /\ GraphInv(r)
  BY RunsGraph
<1>1. x \in Events /\ x \notin h.known /\ CanInsert(h, x)
      /\ d = DivideRounds(InsertEvent(h, x), x)
  BY DEF Runs
<1>9. RoundInv(h) /\ PendingInv(h) /\ ChainInv(h, h.lastConsensusRound)
  BY DEF OrderInv
<1>2. RoundInv(d) /\ PendingInv(d) /\ SameChain(h, d)
  BY <1>1, <1>9, InsertRounds
<1>3. PICK fame \in FameDecisions(d) : f = DecideFame(d, fame)
  BY DEF Runs
<1>4. RoundInv(f) /\ PendingInv(f) /\ SameChain(d, f)
  BY <1>0, <1>2, <1>3, FameRounds
<1>5. RoundInv(r) /\ PendingInv(r) /\ SameChain(f, r)
  BY <1>0, <1>4, ReceivedRounds DEF Runs
<1>7. SameChain(h, f)
  BY <1>2, <1>4, SameChainTransitive
<1>8. SameChain(h, r)
  BY <1>5, <1>7, SameChainTransitive
<1>10. ChainInv(r, h.lastConsensusRound) /\ r.lastConsensusRound = h.lastConsensusRound
  BY <1>8, <1>9, SameChainOfBlocks DEF SameChain
<1>11. OrderInv(r)
  BY <1>5, <1>10 DEF OrderInv
<1>12. GraphTypeOK(r) /\ g = ProcessDecidedRounds(r, n)
  BY <1>0 DEF GraphInv, Runs
<1>6. /\ OrderInv(g) /\ NextUndecided(g)
      /\ KeepsEvents(r, g) /\ r.lastConsensusRound <= g.lastConsensusRound
      /\ SamePeers(r, g, r.lastConsensusRound + EffectiveDelay)
      /\ FramesHold(r, g, r.lastConsensusRound, g.lastConsensusRound)
  BY <1>11, <1>12, ProcessOrder
<1> QED  BY <1>2, <1>4, <1>6, <1>7, <1>8, <1>11

\* AppendSignatures changes blocks, the pool and the anchor only.
LEMMA SignatureEvents ==
    ASSUME NEW h, IsHashgraph(h), NEW g, g = AppendSignatures(h)
    PROVE  /\ SameEvents(h, g) /\ g.frames = h.frames
           /\ g.peerSets = h.peerSets /\ g.validators = h.validators
<1> DEFINE valid == {s \in h.sigPool : Verifies(h, s)}
           sigs(i) == {s.validator : s \in {t \in valid : t.index = i}}
           blocks == [i \in DOMAIN h.blocks |-> [h.blocks[i] EXCEPT !.sigs = @ \cup sigs(i)]]
           touched == {blocks[s.index] : s \in valid}
           anchors == {b.index : b \in {c \in touched :
                           Cardinality(c.sigs) > TrustCount(GetPeerSet(h, c.round))}}
           pool == h.sigPool \ valid
           anchor == MaxOrNone({h.anchor} \cup anchors)
<1>1. g = [h EXCEPT !.blocks = blocks, !.sigPool = pool, !.anchor = anchor]
  BY Zenon DEF AppendSignatures
<1> HIDE DEF blocks, pool, anchor
<1> QED  BY <1>1, FieldNames DEF SameEvents, IsHashgraph

\* The signatures of the pool that ProcessSigPool appends to block i.
Appended(h, i) == {s.validator : s \in {t \in h.sigPool : Verifies(h, t) /\ t.index = i}}

\* The blocks that get a signature and are trusted with it.
NewAnchors(h, g) == {i \in Trusted(g) : \E s \in h.sigPool : Verifies(h, s) /\ s.index = i}

\* Block c is block b with the signatures sigs.
Signed(b, c, sigs) ==
    /\ DOMAIN c = DOMAIN b /\ c.index = b.index /\ c.round = b.round
    /\ c.itxs = b.itxs /\ c.committed = b.committed /\ c.sigs = b.sigs \cup sigs

\* What AppendSignatures leaves of the blocks and the anchor.
LEMMA SignaturesAre ==
    ASSUME NEW h, IsHashgraph(h), NEW last, BlocksInv(h, last), NEW g, g = AppendSignatures(h)
    PROVE  /\ DOMAIN g.blocks = DOMAIN h.blocks
           /\ \A i \in DOMAIN h.blocks : Signed(h.blocks[i], g.blocks[i], Appended(h, i))
           /\ g.anchor = MaxOrNone({h.anchor} \cup NewAnchors(h, g))
<1> DEFINE valid == {s \in h.sigPool : Verifies(h, s)}
           sigs(i) == {s.validator : s \in {t \in valid : t.index = i}}
           blocks == [i \in DOMAIN h.blocks |-> [h.blocks[i] EXCEPT !.sigs = @ \cup sigs(i)]]
           touched == {blocks[s.index] : s \in valid}
           anchors == {b.index : b \in {c \in touched :
                           Cardinality(c.sigs) > TrustCount(GetPeerSet(h, c.round))}}
           pool == h.sigPool \ valid
           anchor == MaxOrNone({h.anchor} \cup anchors)
<1>1. g = [h EXCEPT !.blocks = blocks, !.sigPool = pool, !.anchor = anchor]
  BY Zenon DEF AppendSignatures
<1>2. \A i : sigs(i) = Appended(h, i)
  BY DEF Appended
<1>3. ASSUME NEW i \in DOMAIN h.blocks
      PROVE  Signed(h.blocks[i], blocks[i], Appended(h, i))
  <2> DEFINE b == h.blocks[i]
             a == Appended(h, i)
  <2>1. blocks[i] = [b EXCEPT !.sigs = @ \cup a]
    BY <1>2, Zenon
  <2>2. DOMAIN b = {"index", "round", "peers", "ts", "txs", "itxs", "committed", "sigs"}
    BY DEF BlocksInv
  <2> HIDE DEF blocks, b, a
  <2>3. Signed(b, blocks[i], a)
    BY <2>1, <2>2 DEF Signed
  <2> QED  BY <2>3 DEF b, a
<1>4. DOMAIN blocks = DOMAIN h.blocks
  OBVIOUS
<1>5. \A s \in valid : s.index \in DOMAIN h.blocks
  BY DEF Verifies
<1> HIDE DEF blocks
<1>6. g.blocks = blocks /\ g.anchor = anchor /\ g.peerSets = h.peerSets
  <2> HIDE DEF pool, anchor
  <2> QED  BY <1>1, FieldNames DEF IsHashgraph
<1>7. \A i \in DOMAIN h.blocks : blocks[i].index = i
  BY <1>3 DEF Signed, BlocksInv
<1>8. \A r : GetPeerSet(g, r) = GetPeerSet(h, r)
  BY <1>6 DEF GetPeerSet
<1>9. anchors = NewAnchors(h, g)
  <2>1. \A i : i \in anchors <=> \E s \in valid :
            /\ blocks[s.index].index = i
            /\ Cardinality(blocks[s.index].sigs) > TrustCount(GetPeerSet(h, blocks[s.index].round))
    BY Zenon
  <2>2. \A i : i \in NewAnchors(h, g) <=>
            /\ i \in DOMAIN blocks
            /\ Cardinality(blocks[i].sigs) > TrustCount(GetPeerSet(h, blocks[i].round))
            /\ \E s \in valid : s.index = i
    BY <1>6, <1>8 DEF NewAnchors, Trusted
  <2> HIDE DEF anchors, valid
  <2>3. \A i : i \in anchors <=> i \in NewAnchors(h, g)
    BY <1>4, <1>5, <1>7, <2>1, <2>2
  <2>4. anchors \subseteq NewAnchors(h, g) /\ NewAnchors(h, g) \subseteq anchors
    BY <2>3
  <2> QED  BY <2>4
<1> QED  BY <1>3, <1>4, <1>6, <1>9

\* It changes no round.
LEMMA SignatureRounds ==
    ASSUME NEW h, GraphInv(h), RoundInv(h), PendingInv(h), NextUndecided(h),
           NEW g, g = AppendSignatures(h)
    PROVE  RoundInv(g) /\ PendingInv(g) /\ NextUndecided(g)
<1>1. IsHashgraph(h)
  BY DEF GraphInv, GraphTypeOK, IsHashgraph
<1>2. SameEvents(h, g) /\ g.frames = h.frames
  BY <1>1, SignatureEvents
<1>3. /\ g.known = h.known /\ g.round = h.round /\ g.famous = h.famous
      /\ g.decided = h.decided /\ g.pending = h.pending
      /\ g.lowerBound = h.lowerBound /\ g.lastConsensusRound = h.lastConsensusRound
  BY <1>2 DEF SameEvents
<1>4. LastRound(g) = LastRound(h)
  BY <1>3, SameLastRound
<1> QED  BY <1>2, <1>3, <1>4 DEF RoundInv, PendingInv, NextUndecided

\* The members that sign are peers, and only committed blocks are signed.
LEMMA SignersArePeers ==
    ASSUME NEW h, NEW last \in Int, PeerSetsInv(h, last), BlocksInv(h, last),
           NEW i \in DOMAIN h.blocks
    PROVE  /\ Appended(h, i) \subseteq Participants
           /\ Appended(h, i) # {} =>
                  /\ h.blocks[i].committed
                  /\ \E s \in h.sigPool : Verifies(h, s) /\ s.index = i
<1> DEFINE P == GetPeerSet(h, h.blocks[i].round)
<1>1. h.blocks[i].round \in Int /\ h.blocks[i].round >= 0
  BY DEF BlocksInv
<1>2. P \subseteq Participants
  BY <1>1, PeersOfRound
<1>3. \A p \in Appended(h, i) : \E s \in h.sigPool :
          p = s.validator /\ Verifies(h, s) /\ s.index = i
  BY Zenon DEF Appended
<1>4. \A s \in h.sigPool : Verifies(h, s) /\ s.index = i =>
          s.validator \in P /\ h.blocks[i].committed
  BY DEF Verifies
<1> HIDE DEF P
<1> QED  BY <1>2, <1>3, <1>4

\* With its new signatures a block stays trusted.
LEMMA SignedTrusted ==
    ASSUME NEW h, NEW g, NEW last \in Int, PeerSetsInv(h, last), BlocksInv(h, last),
           g.peerSets = h.peerSets, DOMAIN g.blocks = DOMAIN h.blocks,
           \A i \in DOMAIN h.blocks : Signed(h.blocks[i], g.blocks[i], Appended(h, i))
    PROVE  Trusted(g) = Trusted(h) \cup NewAnchors(h, g)
<1>1. \A r : GetPeerSet(g, r) = GetPeerSet(h, r)
  BY DEF GetPeerSet
<1>2. ASSUME NEW i \in Trusted(h)
      PROVE  i \in Trusted(g)
  <2> DEFINE t == TrustCount(GetPeerSet(h, h.blocks[i].round))
             S == h.blocks[i].sigs
             T == g.blocks[i].sigs
  <2>1. i \in DOMAIN h.blocks /\ Cardinality(S) > t
    BY DEF Trusted
  <2>2. Signed(h.blocks[i], g.blocks[i], Appended(h, i))
    BY <2>1
  <2>3. T = S \cup Appended(h, i) /\ g.blocks[i].round = h.blocks[i].round
    BY <2>2 DEF Signed
  <2>4. S \subseteq Participants /\ Appended(h, i) \subseteq Participants
    BY <2>1, SignersArePeers DEF BlocksInv
  <2>5. h.blocks[i].round \in Int /\ h.blocks[i].round >= 0
    BY <2>1 DEF BlocksInv
  <2>6. t \in Nat
    BY <2>5, PeersOfRound
  <2>7. S \subseteq T /\ T \subseteq Participants
    BY <2>3, <2>4
  <2>8. TrustCount(GetPeerSet(g, g.blocks[i].round)) = t
    BY <1>1, <2>3
  <2> HIDE DEF S, T, t
  <2>9. IsFiniteSet(T)
    BY <2>7, ParticipantsAssumption, FS_Subset
  <2>10. Cardinality(S) <= Cardinality(T) /\ Cardinality(T) \in Nat /\ Cardinality(S) \in Nat
    BY <2>7, <2>9, FS_Subset, FS_CardinalityType
  <2>11. Cardinality(T) > t
    BY <2>1, <2>6, <2>10
  <2> QED  BY <2>1, <2>8, <2>11 DEF Trusted, T
<1>3. ASSUME NEW i \in Trusted(g), i \notin NewAnchors(h, g)
      PROVE  i \in Trusted(h)
  <2>1. i \in DOMAIN h.blocks
    BY DEF Trusted
  <2>2. ~\E s \in h.sigPool : Verifies(h, s) /\ s.index = i
    BY <1>3 DEF NewAnchors
  <2>3. Appended(h, i) = {}
    BY <2>1, <2>2, SignersArePeers
  <2>4. Signed(h.blocks[i], g.blocks[i], Appended(h, i))
    BY <2>1
  <2>5. g.blocks[i].sigs = h.blocks[i].sigs /\ g.blocks[i].round = h.blocks[i].round
    BY <2>3, <2>4 DEF Signed
  <2> QED  BY <1>1, <2>1, <2>5 DEF Trusted
<1>4. NewAnchors(h, g) \subseteq Trusted(g)
  BY DEF NewAnchors
<1> QED  BY <1>2, <1>3, <1>4

\* The greatest of a maximum and more candidates.
LEMMA MaxOfBoth ==
    ASSUME NEW S, NEW T, NEW high \in Int, S \subseteq 0..high, T \subseteq 0..high
    PROVE  MaxOrNone({MaxOrNone(S)} \cup T) = MaxOrNone(S \cup T)
<1> DEFINE m == MaxOrNone(S)
           U == {m} \cup T
<1>0. /\ S \subseteq Int /\ \A k \in S : 0 <= k /\ k <= high
      /\ T \subseteq Int /\ \A k \in T : 0 <= k /\ k <= high
  OBVIOUS
<1>1. CASE S = {}
  <2>1. m = -1
    BY <1>1 DEF MaxOrNone
  <2>2. CASE T = {}
    BY <1>1, <2>1, <2>2, MaxIs DEF MaxOrNone
  <2>3. CASE T # {}
    <3>1. MaxOrNone(T) \in T /\ \A k \in T : k <= MaxOrNone(T)
      BY <1>0, <2>3, GreatestInteger, Zenon
    <3> HIDE DEF m
    <3> DEFINE j == MaxOrNone(T)
    <3>6. j \in Int /\ j >= 0 /\ j \in T /\ \A k \in T : k <= j
      BY <1>0, <3>1, Zenon
    <3> HIDE DEF j
    <3>7. j \in U /\ \A k \in U : k <= j
      BY <2>1, <3>6
    <3>2. MaxOrNone(T) \in U /\ \A k \in U : k <= MaxOrNone(T)
      BY <3>7 DEF j
    <3>3. U \subseteq Int
      BY <1>0, <2>1
    <3> HIDE DEF U
    <3>4. MaxOrNone(U) = MaxOrNone(T)
      BY <3>2, <3>3, MaxIs, Zenon
    <3>5. S \cup T = T
      BY <1>1
    <3> QED  BY <3>4, <3>5 DEF U, m
  <2> QED  BY <2>2, <2>3
<1>2. CASE S # {}
  <2>1. m \in S /\ \A k \in S : k <= m
    BY <1>0, <1>2, GreatestInteger, Zenon
  <2> HIDE DEF m
  <2>2. U \subseteq Int /\ U # {} /\ \A k \in U : k <= high
    BY <1>0, <2>1
  <2> DEFINE j == MaxOrNone(U)
  <2>3. j \in U /\ \A k \in U : k <= j
    BY <2>2, GreatestInteger
  <2> HIDE DEF j
  <2>4. j \in Int /\ m <= j /\ j \in S \cup T /\ \A k \in T : k <= j
    BY <2>1, <2>2, <2>3
  <2>5. \A k \in S \cup T : k <= j
    BY <1>0, <2>1, <2>4
  <2> DEFINE V == S \cup T
  <2>6. V \subseteq Int /\ j \in V /\ \A k \in V : k <= j
    BY <1>0, <2>4, <2>5
  <2> HIDE DEF V
  <2>7. MaxOrNone(V) = j
    BY <2>6, MaxIs, Zenon
  <2> QED  BY <2>7 DEF j, m, V
<1> QED  BY <1>1, <1>2

\* ProcessSigPool keeps the chain right.
LEMMA SignatureChain ==
    ASSUME NEW h, IsHashgraph(h), NEW last \in Int, ChainInv(h, last),
           NEW g, g = AppendSignatures(h)
    PROVE  ChainInv(g, last)
<1>1. PeerSetsInv(h, last) /\ BlocksInv(h, last) /\ AnchorInv(h) /\ h.validators = Members(h)
  BY DEF ChainInv
<1>2. /\ DOMAIN g.blocks = DOMAIN h.blocks
      /\ \A i \in DOMAIN h.blocks : Signed(h.blocks[i], g.blocks[i], Appended(h, i))
      /\ g.anchor = MaxOrNone({h.anchor} \cup NewAnchors(h, g))
  BY <1>1, SignaturesAre
<1>3. g.peerSets = h.peerSets /\ g.validators = h.validators
  BY SignatureEvents
<1>4. PeerSetsInv(g, last)
  BY <1>1, <1>3, Zenon DEF PeerSetsInv
<1>5. BlocksInv(g, last)
  <2>1. LastBlockIndex(g) = LastBlockIndex(h)
    BY <1>2 DEF LastBlockIndex
  <2>2. \A i \in DOMAIN h.blocks : /\ Appended(h, i) \subseteq Participants
                                   /\ Appended(h, i) # {} => h.blocks[i].committed
    BY <1>1, SignersArePeers
  <2> QED  BY <1>1, <1>2, <2>1, <2>2 DEF BlocksInv, Signed
<1>6. AnchorInv(g)
  <2>1. Trusted(g) = Trusted(h) \cup NewAnchors(h, g)
    BY <1>1, <1>2, <1>3, SignedTrusted
  <2>2. Trusted(h) \subseteq 0..LastBlockIndex(h) /\ LastBlockIndex(h) \in Int
    BY <1>1 DEF Trusted, BlocksInv
  <2>3. NewAnchors(h, g) \subseteq 0..LastBlockIndex(h)
    BY <1>1, <1>2 DEF NewAnchors, Trusted, BlocksInv
  <2>4. g.anchor = MaxOrNone(Trusted(h) \cup NewAnchors(h, g))
    <3> DEFINE S == Trusted(h)
               T == NewAnchors(h, g)
               l == LastBlockIndex(h)
    <3>1. S \subseteq 0..l /\ T \subseteq 0..l /\ l \in Int
      BY <2>2, <2>3
    <3>2. g.anchor = MaxOrNone({MaxOrNone(S)} \cup T)
      BY <1>1, <1>2 DEF AnchorInv
    <3> HIDE DEF S, T, l
    <3>3. g.anchor = MaxOrNone(S \cup T)
      BY <3>1, <3>2, MaxOfBoth, Zenon
    <3> QED  BY <3>3 DEF S, T
  <2> QED  BY <2>1, <2>4 DEF AnchorInv
<1>7. Members(g) = Members(h)
  <2>1. \A i \in DOMAIN h.blocks : /\ g.blocks[i].itxs = h.blocks[i].itxs
                                   /\ g.blocks[i].committed = h.blocks[i].committed
    BY <1>2 DEF Signed
  <2>2. \A i \in DOMAIN h.blocks : \A p : AcceptedOf(g.blocks[i], p) = AcceptedOf(h.blocks[i], p)
    BY <2>1 DEF AcceptedOf
  <2>3. ASSUME NEW p
        PROVE  LetIn(g, p) <=> LetIn(h, p)
    <3>1. DOMAIN g.blocks = DOMAIN h.blocks
      BY <1>2
    <3>2. \A i \in DOMAIN h.blocks : AcceptedOf(g.blocks[i], p) = AcceptedOf(h.blocks[i], p)
      BY <2>2
    <3>3. LetIn(h, p) => LetIn(g, p)
      BY <2>1, <3>1, <3>2, SMT DEF LetIn
    <3>4. LetIn(g, p) => LetIn(h, p)
      BY <2>1, <3>1, <3>2, SMT DEF LetIn
    <3> QED  BY <3>3, <3>4
  <2> QED  BY <1>2, <2>2, <2>3 DEF Members
<1> QED  BY <1>1, <1>3, <1>4, <1>5, <1>6, <1>7 DEF ChainInv

\* It keeps all of it.
LEMMA SignatureOrder ==
    ASSUME NEW h, GraphInv(h), OrderInv(h), NextUndecided(h), NEW g, g = AppendSignatures(h)
    PROVE  OrderInv(g) /\ NextUndecided(g)
<1>1. IsHashgraph(h)
  BY DEF GraphInv, GraphTypeOK, IsHashgraph
<1>2. RoundInv(h) /\ PendingInv(h) /\ ChainInv(h, h.lastConsensusRound)
  BY DEF OrderInv
<1>3. RoundInv(g) /\ PendingInv(g) /\ NextUndecided(g)
  BY <1>2, SignatureRounds
<1>4. g.lastConsensusRound = h.lastConsensusRound
  BY <1>1, SignatureEvents DEF SameEvents
<1>5. h.lastConsensusRound \in Int
  BY <1>2 DEF PendingInv
<1>6. ChainInv(g, h.lastConsensusRound)
  BY <1>1, <1>2, <1>5, SignatureChain
<1> QED  BY <1>3, <1>4, <1>6 DEF OrderInv

\* Every step replaces the hashgraph of one node, by a run of the consensus
\* methods or by AppendSignatures.
LEMMA StepCases ==
    ASSUME DOMAIN hg = Nodes, [Next]_vars
    PROVE  /\ dag' = dag
           /\ \/ hg' = hg
              \/ \E n \in Nodes : \E g :
                    /\ hg' = [hg EXCEPT ![n] = g]
                    /\ \/ \E x, d, f, r : Runs(hg[n], n, x, d, f, r, g)
                       \/ g = AppendSignatures(hg[n])
<1>1. ASSUME NEW n \in Nodes, NEW x \in Events, InsertEventAndRunConsensus(n, x)
      PROVE  dag' = dag /\ \E g : /\ hg' = [hg EXCEPT ![n] = g]
                                  /\ \E d, f, r : Runs(hg[n], n, x, d, f, r, g)
  <2> DEFINE d == DivideRounds(InsertEvent(hg[n], x), x)
  <2>1. PICK fame \in FameDecisions(d) :
            hg' = [hg EXCEPT ![n] =
                     ProcessDecidedRounds(DecideRoundReceived(DecideFame(d, fame)), n)]
    BY <1>1, Zenon DEF InsertEventAndRunConsensus
  <2> DEFINE f == DecideFame(d, fame)
             r == DecideRoundReceived(f)
             g == ProcessDecidedRounds(r, n)
  <2>2. x \notin hg[n].known /\ CanInsert(hg[n], x) /\ dag' = dag
    BY <1>1, Zenon DEF InsertEventAndRunConsensus
  <2>3. Runs(hg[n], n, x, d, f, r, g)
    BY <2>2, Zenon DEF Runs
  <2> QED  BY <2>1, <2>2, <2>3, Zenon
<1>2. CASE UNCHANGED vars
  BY <1>2 DEF vars
<1>3. ASSUME NEW n \in Nodes, ProcessSigPool(n)
      PROVE  dag' = dag /\ \E g : hg' = [hg EXCEPT ![n] = g] /\ g = AppendSignatures(hg[n])
  BY <1>3, Zenon DEF ProcessSigPool
<1> QED  BY <1>1, <1>2, <1>3, Zenon DEF Next

\* The rounds of a new hashgraph.
LEMMA InitRounds ==
    ASSUME NEW h, h = NewHashgraph
    PROVE  RoundInv(h) /\ PendingInv(h) /\ NextUndecided(h)
<1>1. /\ h.known = {} /\ h.lowerBound = -1 /\ h.decided = {}
      /\ h.famous = [x \in Events |-> "undefined"]
      /\ h.lastConsensusRound = -1 /\ DOMAIN h.frames = {} /\ DOMAIN h.pending = {}
  BY DEF NewHashgraph
<1>2. LastRound(h) = -1
  BY <1>1 DEF LastRound, MaxOrNone
<1>3. IsFiniteSet(h.known)
  BY <1>1, FS_EmptySet
<1>4. RoundInv(h)
  BY <1>1, <1>2, <1>3 DEF RoundInv
<1>5. PendingInv(h)
  BY <1>1, <1>2 DEF PendingInv
<1> QED  BY <1>1, <1>4, <1>5 DEF NextUndecided

\* The chain of a new hashgraph.
LEMMA InitChain ==
    ASSUME NEW h, h = NewHashgraph
    PROVE  ChainInv(h, -1)
<1>1. /\ h.blocks = [i \in {} |-> FALSE] /\ h.anchor = -1
      /\ h.peerSets = [r \in {0} |-> Genesis] /\ h.validators = Genesis
  BY DEF NewHashgraph
<1>2. DOMAIN h.blocks = {} /\ DOMAIN h.peerSets = {0} /\ h.peerSets[0] = Genesis
  BY <1>1
<1>3. MaxOrNone({0}) = 0
  BY MaxIs
<1>4. PeerSetsInv(h, -1)
  BY <1>1, <1>2, <1>3, ParticipantsAssumption DEF PeerSetsInv, EffectiveDelay
<1>5. BlocksInv(h, -1)
  BY <1>2 DEF BlocksInv, LastBlockIndex, MaxOrNone
<1>6. AnchorInv(h)
  BY <1>1, <1>2 DEF AnchorInv, Trusted, MaxOrNone
<1>7. Members(h) = Genesis
  BY <1>2, ParticipantsAssumption DEF Members, LetIn
<1> QED  BY <1>1, <1>4, <1>5, <1>6, <1>7 DEF ChainInv

\* OrderInv reads no variable but dag.
LEMMA OrderPrimed ==
    ASSUME dag' = dag, NEW h, OrderInv(h), NextUndecided(h)
    PROVE  OrderInv(h)' /\ NextUndecided(h)'
<1>1. Events' = Events /\ LastRound(h)' = LastRound(h)
  BY DEF Events, LastRound, MaxOrNone
<1>2. RoundInv(h)' /\ PendingInv(h)' /\ NextUndecided(h)'
  BY <1>1 DEF OrderInv, RoundInv, PendingInv, NextUndecided
<1>3. ChainInv(h, h.lastConsensusRound)' = ChainInv(h, h.lastConsensusRound)
  OBVIOUS
<1> QED  BY <1>2, <1>3 DEF OrderInv

\* OrderInvariant is inductive.
LEMMA NextOrder ==
    ASSUME GraphInvariant, OrderInvariant, [Next]_vars
    PROVE  OrderInvariant'
<1>1. DOMAIN hg = Nodes /\ dag \in Dags /\ \A n \in Nodes : GraphInv(hg[n])
  BY DEF GraphInvariant
<1>2. \A n \in Nodes : OrderInv(hg[n]) /\ NextUndecided(hg[n])
  BY DEF OrderInvariant
<1>3. ASSUME NEW n \in Nodes, NEW g,
             \/ \E x, d, f, r : Runs(hg[n], n, x, d, f, r, g)
             \/ g = AppendSignatures(hg[n])
      PROVE  OrderInv(g) /\ NextUndecided(g)
  <2>1. GraphInv(hg[n]) /\ OrderInv(hg[n]) /\ NextUndecided(hg[n])
    BY <1>1, <1>2
  <2>2. CASE g = AppendSignatures(hg[n])
    BY <2>1, <2>2, SignatureOrder
  <2>3. ASSUME NEW x, NEW d, NEW f, NEW r, Runs(hg[n], n, x, d, f, r, g)
        PROVE  OrderInv(g) /\ NextUndecided(g)
    BY <1>1, <2>1, <2>3, RunsOrder
  <2> QED  BY <1>3, <2>2, <2>3
<1>4. dag' = dag /\ \A n \in Nodes : OrderInv(hg'[n]) /\ NextUndecided(hg'[n])
  BY <1>1, <1>2, <1>3, StepCases
<1> QED  BY <1>4, OrderPrimed DEF OrderInvariant

\* So it holds in every reachable state.
LEMMA OrderAlways ==
    Spec => []OrderInvariant
<1>1. Init => OrderInvariant
  <2>1. ASSUME NEW h, h = NewHashgraph
        PROVE  OrderInv(h) /\ NextUndecided(h)
    BY <2>1, InitRounds, InitChain, Zenon DEF OrderInv, NewHashgraph
  <2> QED  BY <2>1 DEF Init, OrderInvariant
<1>2. GraphInvariant /\ OrderInvariant /\ [Next]_vars => OrderInvariant'
  BY NextOrder
<1> QED  BY <1>1, <1>2, GraphCorrect, PTL DEF Spec

\* Rounds are processed in order and none is skipped, for any peers, any graph
\* of events and any order of insertion, however fame is decided.
THEOREM RoundsCorrect ==
    Spec => []RoundsInOrder
<1>1. OrderInvariant => RoundsInOrder
  BY DEF OrderInvariant, OrderInv, PendingInv, NextUndecided, RoundsInOrder
<1> QED  BY <1>1, OrderAlways, PTL

\* The anchor block is the highest block that more than a third of the peers of
\* its round signed (SetAnchorBlock in Commit and in ProcessSigPool), and the
\* application has committed it.
THEOREM AnchorCorrect ==
    Spec => []AnchorIsHighest
<1>1. ASSUME NEW h, OrderInv(h)
      PROVE  h.anchor = MaxOrNone(Trusted(h)) /\ (h.anchor # -1 => h.blocks[h.anchor].committed)
  <2> DEFINE a == h.anchor
             c == h.lastConsensusRound
             l == LastBlockIndex(h)
  <2>1. /\ PeerSetsInv(h, c) /\ BlocksInv(h, c)
        /\ a = MaxOrNone(Trusted(h)) /\ c \in Int
    BY <1>1 DEF OrderInv, ChainInv, AnchorInv, PendingInv
  <2>2. ASSUME a # -1
        PROVE  h.blocks[a].committed
    <3>1. Trusted(h) # {}
      BY <2>1, <2>2 DEF MaxOrNone
    <3>2. l \in Int /\ Trusted(h) \subseteq Int /\ \A k \in Trusted(h) : k <= l
      BY <2>1 DEF BlocksInv, Trusted
    <3>3. a \in Trusted(h)
      BY <2>1, <3>1, <3>2, GreatestInteger
    <3> DEFINE S == h.blocks[a].sigs
               t == TrustCount(GetPeerSet(h, h.blocks[a].round))
    <3>4. a \in DOMAIN h.blocks /\ Cardinality(S) > t
      BY <3>3 DEF Trusted
    <3>5. h.blocks[a].round \in Int /\ h.blocks[a].round >= 0
      BY <2>1, <3>4 DEF BlocksInv
    <3>6. t \in Nat
      BY <2>1, <3>5, PeersOfRound
    <3>7. S # {}
      BY <3>4, <3>6, FS_EmptySet
    <3> QED  BY <2>1, <3>4, <3>7 DEF BlocksInv
  <2> QED  BY <2>1, <2>2
<1>2. OrderInvariant => AnchorIsHighest
  BY <1>1 DEF OrderInvariant, AnchorIsHighest, Trusted
<1> QED  BY <1>2, OrderAlways, PTL

\* No accepted join or leave is lost: the validators of a node, and the last
\* peer-set of its store, are what the accepted internal transactions of its
\* committed blocks make of the genesis peers, taken block after block
\* (processAcceptedInternalTransactions).
THEOREM MembershipCorrect ==
    Spec => []MembershipFollowsBlocks
<1>1. OrderInvariant => MembershipFollowsBlocks
  BY Zenon DEF OrderInvariant, OrderInv, ChainInv, PeerSetsInv, Members, MembershipFollowsBlocks
<1> QED  BY <1>1, OrderAlways, PTL
=============================================================================
