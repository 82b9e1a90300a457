------------------------- MODULE FastForwardProofs -------------------------
(***************************************************************************)
(* Proofs about FastForward, for any number of peers and any graph of      *)
(* events: the application of a node has the blocks of its hashgraph, all  *)
(* of them once and in order, whether the node was reset or not.           *)
(*                                                                         *)
(* A hashgraph that was reset starts from a block other than 0, so what    *)
(* HashgraphOrderProofs shows of blocks does not apply.  What carries over *)
(* is that blocks have no gap.                                             *)
(***************************************************************************)
EXTENDS FastForward, HashgraphOrderProofs

\* The names of the fields of a block.
BlockFields == {"index", "round", "peers", "ts", "txs", "itxs", "committed", "sigs"}

\* The events are finitely many, in the hashgraph and in each of its frames.
FramesFinite(h) ==
    /\ IsFiniteSet(h.known) /\ IsFiniteSet(DOMAIN h.pending)
    /\ \A r \in DOMAIN h.frames :
           h.frames[r].round = r /\ IsFiniteSet(DOMAIN h.frames[r].info)

\* Blocks are numbered without a gap, from 0 or from the block of a Reset, and
\* come from a round with a frame.  The anchor is one of them.
BlocksNumbered(h) ==
    /\ LastBlockIndex(h) \in Int /\ LastBlockIndex(h) >= -1
    /\ \E low \in Nat :
           low <= LastBlockIndex(h) + 1 /\ DOMAIN h.blocks = low .. LastBlockIndex(h)
    /\ \A i \in DOMAIN h.blocks :
           /\ DOMAIN h.blocks[i] = BlockFields
           /\ h.blocks[i].index = i /\ h.blocks[i].round \in DOMAIN h.frames
    /\ h.anchor = -1 \/ h.anchor \in DOMAIN h.blocks

HasChain(h) == IsHashgraph(h) /\ FramesFinite(h) /\ BlocksNumbered(h)

\* A node that catches up has the application it started with, unless a check
\* failed; then some peer has an anchor block that it can still ask for.
CanCatchUp(n) ==
    \/ app[n] = <<>>
    \/ /\ "check" \in Faults
       /\ \E i \in Nat : app[n] = Snapshot(i)
       /\ \E m \in Nodes \ {n} : hg[m].anchor > 0

FFInv ==
    /\ DOMAIN hg = Nodes /\ DOMAIN phase = Nodes /\ DOMAIN app = Nodes
    /\ \A n \in Nodes : HasChain(hg[n])
    /\ \A n \in Nodes :
           \/ phase[n] = "CatchingUp" /\ hg[n] = NewHashgraph /\ CanCatchUp(n)
           \/ phase[n] = "Babbling" /\ app[n] = Snapshot(LastBlockIndex(hg[n]))

-----------------------------------------------------------------------------
(***************************************************************************)
(* A pass of the loop of ProcessDecidedRounds.                             *)
(***************************************************************************)

\* g has the blocks of h, then more, and its anchor is not below.
Grows(h, g) ==
    /\ LastBlockIndex(h) <= LastBlockIndex(g)
    /\ DOMAIN g.blocks = DOMAIN h.blocks \cup (LastBlockIndex(h) + 1 .. LastBlockIndex(g))
    /\ h.anchor <= g.anchor

\* The anchor is a number.
LEMMA AnchorType ==
    ASSUME NEW h, BlocksNumbered(h)
    PROVE  h.anchor \in Int /\ h.anchor >= -1 /\ h.anchor <= LastBlockIndex(h)
<1>1. PICK low \in Nat : DOMAIN h.blocks = low .. LastBlockIndex(h)
  BY DEF BlocksNumbered
<1> QED  BY <1>1 DEF BlocksNumbered

\* To have the same blocks is to grow.
LEMMA GrowsSelf ==
    ASSUME NEW h, BlocksNumbered(h), NEW g, DOMAIN g.blocks = DOMAIN h.blocks,
           h.anchor <= g.anchor
    PROVE  Grows(h, g) /\ LastBlockIndex(g) = LastBlockIndex(h)
<1>1. LastBlockIndex(g) = LastBlockIndex(h)
  BY DEF LastBlockIndex
<1> QED  BY <1>1 DEF Grows, BlocksNumbered

\* To grow twice is to grow.
LEMMA GrowsTransitive ==
    ASSUME NEW f, NEW g, NEW h, BlocksNumbered(f), BlocksNumbered(g), BlocksNumbered(h),
           Grows(f, g), Grows(g, h)
    PROVE  Grows(f, h)
<1> DEFINE a == LastBlockIndex(f)
           b == LastBlockIndex(g)
           c == LastBlockIndex(h)
<1>1. a \in Int /\ b \in Int /\ c \in Int
  BY DEF BlocksNumbered
<1>2. /\ a <= b /\ b <= c
      /\ DOMAIN g.blocks = DOMAIN f.blocks \cup (a + 1 .. b)
      /\ DOMAIN h.blocks = DOMAIN g.blocks \cup (b + 1 .. c)
      /\ f.anchor <= g.anchor /\ g.anchor <= h.anchor
  BY DEF Grows
<1>3. f.anchor \in Int /\ g.anchor \in Int /\ h.anchor \in Int
  BY AnchorType
<1> HIDE DEF a, b, c
<1>4. (a + 1 .. b) \cup (b + 1 .. c) = a + 1 .. c
  BY <1>1, <1>2
<1>5. DOMAIN h.blocks = DOMAIN f.blocks \cup (a + 1 .. c)
  BY <1>2, <1>4
<1>6. a <= c /\ f.anchor <= h.anchor
  BY <1>1, <1>2, <1>3
<1> QED  BY <1>5, <1>6 DEF Grows, a, c

\* A frame of finitely many events is finite.
LEMMA FrameIsFinite ==
    ASSUME NEW h, IsFiniteSet(h.known), NEW r
    PROVE  GetFrame(h, r).round = r /\ IsFiniteSet(DOMAIN GetFrame(h, r).info)
<1> DEFINE S == {x \in h.known : h.rr[x] = r}
           events == SortEvents(h, S)
           owners == {Creator(events[i]) : i \in DOMAIN events}
                       \cup {p \in Repertoire(h.peerSets) : AddedBy(h.peerSets, p, r)}
           roots  == [p \in owners |-> CreateRoot(h, p, RootHead(h, events, p))]
           R == UNION {roots[p] : p \in owners}
           I == FrameEvents(h, Range(events) \cup R)
<1>1. GetFrame(h, r).round = r /\ GetFrame(h, r).info = I
  BY DEF GetFrame
<1>2. DOMAIN I = Range(events) \cup R
  BY DEF FrameEvents
<1>3. IsFiniteSet(R)
  <2>1. \A p \in owners : roots[p] \subseteq h.known
    BY DEF CreateRoot
  <2> HIDE DEF roots, owners
  <2>2. R \subseteq h.known
    BY <2>1
  <2> QED  BY <2>2, FS_Subset, Zenon
<1>4. IsFiniteSet(Range(events))
  <2>1. S \subseteq h.known
    OBVIOUS
  <2>2. IsFiniteSet(S)
    BY <2>1, FS_Subset, Zenon
  <2> DEFINE k == Cardinality(S)
  <2>3. k \in Nat
    BY <2>2, FS_CardinalityType, Zenon
  <2> DEFINE at(i) == CHOOSE x \in S : Cardinality({y \in S : Less(h, y, x)}) = i - 1
  <2>4. events = [i \in 1..k |-> at(i)]
    BY Zenon DEF SortEvents
  <2> HIDE DEF events, k, S, at
  <2>5. IsFiniteSet(1..k)
    BY <2>3, FS_Interval
  <2>6. /\ events \in [1..k -> Range(events)]
        /\ \A x \in Range(events) : \E i \in 1..k : events[i] = x
    BY <2>4 DEF Range
  <2>8. events \in Surjection(1..k, Range(events))
    BY <2>6, Zenon DEF Surjection
  <2> QED  BY <2>5, <2>8, FS_Surjection, Zenon
<1> HIDE DEF R, I, events
<1>5. IsFiniteSet(Range(events) \cup R)
  BY <1>3, <1>4, FS_Union, Zenon
<1> QED  BY <1>1, <1>2, <1>5

\* c is block number i, of round r.
IsNumbered(c, i, r) == DOMAIN c = BlockFields /\ c.index = i /\ c.round = r

\* g has one more block than h, and maybe that block for anchor.
AddsAnchor(h, g, c) ==
    AddsBlock(h, g, c) /\ (g.anchor = h.anchor \/ g.anchor = LastBlockIndex(h) + 1)

\* NewBlockFromFrame numbers the block as it is told.
LEMMA NewBlockIsNumbered ==
    ASSUME NEW i, NEW frame, NEW b, b = NewBlockFromFrame(i, frame)
    PROVE  IsNumbered(b, i, frame.round)
<1> DEFINE txs == SelectSeq(frame.events, LAMBDA x : dag[x].txs)
           itxs == FlattenSeq([k \in DOMAIN frame.events |-> dag[frame.events[k]].itxs])
<1>1. b = [index |-> i, round |-> frame.round, peers |-> frame.peers, ts |-> frame.ts,
           txs |-> txs, itxs |-> itxs, committed |-> FALSE, sigs |-> {}]
  BY Zenon DEF NewBlockFromFrame
<1> HIDE DEF txs, itxs
<1> QED  BY <1>1 DEF IsNumbered, BlockFields

\* The last block of a chain is followed by a new number.
LEMMA NextIsNew ==
    ASSUME NEW h, BlocksNumbered(h)
    PROVE  /\ LastBlockIndex(h) + 1 \notin DOMAIN h.blocks
           /\ \A i \in DOMAIN h.blocks : i \in Nat /\ i <= LastBlockIndex(h)
<1> DEFINE l == LastBlockIndex(h)
<1>1. PICK low \in Nat : DOMAIN h.blocks = low .. l
  BY DEF BlocksNumbered
<1>2. l \in Int
  BY DEF BlocksNumbered
<1> HIDE DEF l
<1>3. l + 1 \notin DOMAIN h.blocks /\ \A i \in DOMAIN h.blocks : i \in Nat /\ i <= l
  BY <1>1, <1>2
<1> QED  BY <1>3 DEF l

\* One more block leaves no gap.
LEMMA BlocksMore ==
    ASSUME NEW h, BlocksNumbered(h), NEW g, NEW c, AddsAnchor(h, g, c),
           NEW r, IsNumbered(c, LastBlockIndex(h) + 1, r), r \in DOMAIN g.frames,
           DOMAIN h.frames \subseteq DOMAIN g.frames
    PROVE  BlocksNumbered(g) /\ Grows(h, g)
<1> DEFINE l == LastBlockIndex(h)
<1>1. PICK low \in Nat : low <= l + 1 /\ DOMAIN h.blocks = low .. l
  BY DEF BlocksNumbered
<1>2. l \in Int /\ l >= -1
  BY DEF BlocksNumbered
<1>3. /\ DOMAIN g.blocks = DOMAIN h.blocks \cup {l + 1} /\ g.blocks[l + 1] = c
      /\ \A i \in DOMAIN h.blocks : g.blocks[i] = h.blocks[i]
      /\ g.anchor = h.anchor \/ g.anchor = l + 1
  BY DEF AddsAnchor, AddsBlock
<1>4. h.anchor \in Int /\ h.anchor <= l
  BY AnchorType
<1>10. DOMAIN c = BlockFields /\ c.index = l + 1 /\ c.round \in DOMAIN g.frames
  BY DEF IsNumbered
<1> HIDE DEF l
<1>5. DOMAIN g.blocks = low .. l + 1
  BY <1>1, <1>2, <1>3
<1>6. LastBlockIndex(g) = l + 1
  <2>1. l + 1 \in Int /\ low \in Int
    BY <1>2
  <2> QED  BY <1>1, <1>5, <2>1, MaxOfInterval, Zenon DEF LastBlockIndex
<1>7. Grows(h, g)
  <2>1. l <= l + 1 /\ l + 1 .. l + 1 = {l + 1} /\ h.anchor <= g.anchor
    BY <1>2, <1>3, <1>4
  <2> QED  BY <1>3, <1>6, <2>1 DEF Grows, l
<1>8. \A i \in DOMAIN g.blocks :
          /\ DOMAIN g.blocks[i] = BlockFields
          /\ g.blocks[i].index = i /\ g.blocks[i].round \in DOMAIN g.frames
  <2> TAKE i \in DOMAIN g.blocks
  <2>1. CASE i = l + 1
    BY <1>3, <1>10, <2>1, Zenon
  <2>2. CASE i # l + 1
    <3>1. i \in DOMAIN h.blocks /\ g.blocks[i] = h.blocks[i]
      BY <1>3, <2>2
    <3> QED  BY <3>1 DEF BlocksNumbered
  <2> QED  BY <2>1, <2>2
<1>9. g.anchor = -1 \/ g.anchor \in DOMAIN g.blocks
  BY <1>3 DEF BlocksNumbered
<1>11. l + 1 \in Int /\ l + 1 >= -1 /\ low <= (l + 1) + 1
  BY <1>1, <1>2
<1> QED  BY <1>5, <1>6, <1>7, <1>8, <1>9, <1>11 DEF BlocksNumbered

\* Commit adds the block, whether the application fails or not.
LEMMA CommitAdds ==
    ASSUME NEW h, BlocksNumbered(h), NEW f, IsHashgraph(f),
           f.blocks = h.blocks, f.anchor = h.anchor,
           NEW b, NEW r, IsNumbered(b, LastBlockIndex(h) + 1, r),
           NEW n, NEW g, g = Commit(SetBlock(f, b), n, b)
    PROVE  \E c : AddsAnchor(h, g, c) /\ IsNumbered(c, LastBlockIndex(h) + 1, r)
<1> DEFINE i == SetBlock(f, b)
           l == LastBlockIndex(h)
<1>1. l + 1 \notin DOMAIN h.blocks /\ LastBlockIndex(f) = l
  BY NextIsNew DEF LastBlockIndex
<1>2. b.index = l + 1 /\ b.round = r /\ DOMAIN b = BlockFields
  BY DEF IsNumbered
<1>3. SameEvents(f, i) /\ i.anchor = h.anchor
  BY SetBlockEvents
<1>4. AddsBlock(f, i, b)
  BY <1>1, <1>2, SetBlockAdds
<1>5. AddsBlock(h, i, b)
  BY <1>1, <1>4 DEF AddsBlock
<1>7. g = Commit(i, n, b) /\ IsHashgraph(i)
  BY <1>3 DEF SameEvents
<1> HIDE DEF i
<1>8. CASE <<n, b.index>> \in AppFailures
  <2>1. g = i
    BY <1>7, <1>8 DEF Commit
  <2> QED  BY <1>3, <1>5, <2>1 DEF AddsAnchor
<1>9. CASE <<n, b.index>> \notin AppFailures
  <2> DEFINE signer == {n} \cap GetPeerSet(i, b.round)
             c == [b EXCEPT !.committed = TRUE, !.sigs = signer]
             j == SetBlock(i, c)
             k == SetAnchorBlock(j, c)
  <2>2. g = ProcessAccepted(k, c)
    BY <1>7, <1>9, Zenon DEF Commit
  <2> HIDE DEF signer
  <2>4. IsNumbered(c, l + 1, r)
    BY <1>2 DEF IsNumbered, BlockFields
  <2> HIDE DEF c
  <2>5. c.index = l + 1
    BY <2>4 DEF IsNumbered
  <2>6. AddsBlock(h, j, c)
    BY <1>1, <1>5, <1>7, <2>5, SetBlockReplaces
  <2>7. SameEvents(i, j) /\ j.anchor = h.anchor
    BY <1>3, <1>7, SetBlockEvents
  <2>8. IsHashgraph(j)
    BY <2>7 DEF SameEvents
  <2>9. k = SetAnchorBlock(j, c)
    OBVIOUS
  <2> HIDE DEF j, k
  <2>10. SameEvents(j, k) /\ k.blocks = j.blocks
    BY <2>8, <2>9, SetAnchorEvents
  <2>11. k.anchor = IF /\ Cardinality(c.sigs) > TrustCount(GetPeerSet(j, c.round))
                       /\ c.index > j.anchor
                    THEN c.index ELSE j.anchor
    BY <2>8, <2>9, SetAnchorIs, Zenon
  <2>12. k.anchor = h.anchor \/ k.anchor = l + 1
    BY <2>5, <2>7, <2>11, Zenon
  <2>13. IsHashgraph(k)
    BY <2>10 DEF SameEvents
  <2>14. g.blocks = j.blocks /\ g.anchor = k.anchor
    BY <2>2, <2>10, <2>13, AcceptedEvents
  <2>17. AddsBlock(h, g, c)
    BY <2>6, <2>14 DEF AddsBlock
  <2> QED  BY <2>4, <2>12, <2>14, <2>17 DEF AddsAnchor
<1> QED  BY <1>8, <1>9

\* A pass keeps the chain without gaps.
LEMMA PassGrows ==
    ASSUME NEW h, HasChain(h), NEW n, NEW r, NEW g, g = ProcessRound(h, n, r)
    PROVE  HasChain(g) /\ Grows(h, g)
<1>1. IsHashgraph(h) /\ BlocksNumbered(h) /\ IsFiniteSet(h.known) /\ IsFiniteSet(DOMAIN h.pending)
  BY DEF HasChain, FramesFinite
<1>2. SameEvents(h, g) /\ g.frames = WithFrame(h, r)
  BY <1>1, PassFields
<1>3. IsHashgraph(g) /\ g.known = h.known /\ g.pending = h.pending
  BY <1>2 DEF SameEvents
<1>4. GetFrame(h, r).round = r /\ IsFiniteSet(DOMAIN GetFrame(h, r).info)
  BY <1>1, FrameIsFinite
<1>5. DOMAIN g.frames = DOMAIN h.frames \cup {r}
  BY <1>2 DEF WithFrame
<1>6. FramesFinite(g)
  <2>1. ASSUME NEW k \in DOMAIN g.frames
        PROVE  g.frames[k].round = k /\ IsFiniteSet(DOMAIN g.frames[k].info)
    <3>1. CASE k = r
      <4>1. g.frames[k] = GetFrame(h, r)
        BY <1>2, <1>5, <3>1 DEF WithFrame
      <4> QED  BY <1>4, <3>1, <4>1
    <3>2. CASE k # r
      <4>1. g.frames[k] = h.frames[k] /\ k \in DOMAIN h.frames
        BY <1>2, <1>5, <3>2 DEF WithFrame
      <4> QED  BY <4>1 DEF HasChain, FramesFinite
    <3> QED  BY <3>1, <3>2
  <2> QED  BY <1>1, <1>3, <2>1 DEF FramesFinite
<1>7. PICK f : IsCommitted(h, n, r, f, g)
  BY <1>1, PassFields
<1> DEFINE b == NewBlockFromFrame(LastBlockIndex(h) + 1, GetFrame(h, r))
<1>8. /\ IsHashgraph(f) /\ f.blocks = h.blocks /\ f.anchor = h.anchor
      /\ g = IF HasPayload(b) THEN Commit(SetBlock(f, b), n, b) ELSE f
  BY <1>7, Zenon DEF IsCommitted
<1>9. IsNumbered(b, LastBlockIndex(h) + 1, r)
  BY <1>4, NewBlockIsNumbered
<1> HIDE DEF b
<1>10. CASE HasPayload(b)
  <2>1. g = Commit(SetBlock(f, b), n, b)
    BY <1>8, <1>10
  <2>2. PICK c : AddsAnchor(h, g, c) /\ IsNumbered(c, LastBlockIndex(h) + 1, r)
    BY <1>1, <1>8, <1>9, <2>1, CommitAdds, Zenon
  <2>3. BlocksNumbered(g) /\ Grows(h, g)
    BY <1>1, <1>5, <2>2, BlocksMore
  <2> QED  BY <1>3, <1>6, <2>3 DEF HasChain
<1>11. CASE ~HasPayload(b)
  <2>1. g.blocks = h.blocks /\ g.anchor = h.anchor
    BY <1>8, <1>11
  <2>2. h.anchor <= g.anchor
    BY <1>1, <2>1, AnchorType
  <2>3. Grows(h, g) /\ LastBlockIndex(g) = LastBlockIndex(h)
    BY <1>1, <2>1, <2>2, GrowsSelf
  <2>4. BlocksNumbered(g)
    BY <1>1, <1>5, <2>1, <2>3 DEF BlocksNumbered
  <2> QED  BY <1>3, <1>6, <2>3, <2>4 DEF HasChain
<1> QED  BY <1>10, <1>11

\* The chain of h and more.
Passes(h, g) == HasChain(g) /\ Grows(h, g)

\* So do the passes of ProcessDecidedRounds together.
LEMMA ProcessGrows ==
    ASSUME NEW h, HasChain(h), NEW n, NEW g, g = ProcessDecidedRounds(h, n)
    PROVE  HasChain(g) /\ Grows(h, g)
<1> DEFINE P == Processable(h)
           k == Cardinality(P)
           A == Ascending(P)
           f == ProcessRounds(h, n, A)
           e == f[k]
<1>0. IsHashgraph(h) /\ BlocksNumbered(h) /\ IsFiniteSet(DOMAIN h.pending) /\ IsFiniteSet(h.known)
  BY DEF HasChain, FramesFinite
<1>1. k \in Nat
  <2>1. P \subseteq DOMAIN h.pending
    BY DEF Processable
  <2> HIDE DEF P
  <2>2. IsFiniteSet(P)
    BY <1>0, <2>1, FS_Subset, Zenon
  <2> QED  BY <2>2, FS_CardinalityType, Zenon
<1>2. Len(A) = k
  <2> DEFINE at(i) == CHOOSE r \in P : Cardinality({j \in P : j < r}) = i - 1
  <2>1. A = [i \in 1..k |-> at(i)]
    BY Zenon DEF Ascending
  <2> HIDE DEF A, k, at
  <2> QED  BY <1>1, <2>1
<1>11. g = [h EXCEPT !.frames = e.frames, !.blocks = e.blocks, !.anchor = e.anchor,
                    !.peerSets = e.peerSets, !.validators = e.validators,
                    !.lastConsensus = e.lastConsensus, !.loaded = e.loaded,
                    !.pending = [r \in DOMAIN h.pending \ P |-> h.pending[r]],
                    !.lastConsensusRound = MaxOrNone({@} \cup P)]
  BY Zenon DEF ProcessDecidedRounds
<1> HIDE DEF A, k
<1>3. IsPasses(f, h, n, A, k)
  BY <1>1, <1>2, LoopSteps
<1> HIDE DEF f
<1>4. f[0] = h /\ \A i \in 1..k : f[i] = ProcessRound(f[i - 1], n, A[i])
  BY <1>3 DEF IsPasses
<1> DEFINE T == {i \in 0..k : ~Passes(h, f[i])}
<1>5. T = {}
  <2> SUFFICES ASSUME T # {}  PROVE FALSE
    OBVIOUS
  <2>1. T \subseteq Nat
    BY <1>1
  <2>2. PICK m \in T : \A j \in T : m <= j
    BY <2>1, LeastNatural, Zenon
  <2>3. m # 0
    <3>1. h.anchor <= h.anchor
      BY <1>0, AnchorType
    <3>2. Grows(h, h)
      BY <1>0, <3>1, GrowsSelf
    <3> QED  BY <1>4, <2>2, <3>2 DEF Passes
  <2>4. m - 1 \in 0..k /\ m \in 1..k /\ m - 1 \notin T
    BY <1>1, <2>2, <2>3
  <2> DEFINE u == f[m - 1]
             v == f[m]
  <2>5. v = ProcessRound(u, n, A[m])
    BY <1>4, <2>4
  <2>6. Passes(h, u) /\ ~Passes(h, v)
    BY <2>2, <2>4
  <2> HIDE DEF u, v
  <2>7. HasChain(u) /\ Grows(h, u)
    BY <2>6 DEF Passes
  <2>8. HasChain(v) /\ Grows(u, v)
    BY <2>5, <2>7, PassGrows
  <2>9. Grows(h, v)
    BY <1>0, <2>7, <2>8, GrowsTransitive DEF HasChain
  <2> QED  BY <2>6, <2>8, <2>9 DEF Passes
<1>6. HasChain(e) /\ Grows(h, e)
  <2>1. k \in 0..k
    BY <1>1
  <2> QED  BY <1>5, <2>1 DEF Passes
<1> DEFINE Q == [r \in DOMAIN h.pending \ P |-> h.pending[r]]
           M == MaxOrNone({h.lastConsensusRound} \cup P)
<1>7. /\ DOMAIN g = DOMAIN NewHashgraph /\ g.pending = Q /\ g.known = h.known
      /\ g.frames = e.frames /\ g.blocks = e.blocks /\ g.anchor = e.anchor
  <2> HIDE DEF Q, M, e
  <2>1. g = [h EXCEPT !.frames = e.frames, !.blocks = e.blocks, !.anchor = e.anchor,
                    !.peerSets = e.peerSets, !.validators = e.validators,
                    !.lastConsensus = e.lastConsensus, !.loaded = e.loaded,
                    !.pending = Q, !.lastConsensusRound = M]
    BY <1>11, Zenon DEF Q, M
  <2> QED  BY <1>0, <2>1, FieldNames, Zenon DEF IsHashgraph
<1>8. IsFiniteSet(DOMAIN g.pending)
  <2>1. DOMAIN g.pending \subseteq DOMAIN h.pending
    BY <1>7
  <2> QED  BY <1>0, <2>1, FS_Subset, Zenon
<1> HIDE DEF e
<1>9. FramesFinite(g)
  BY <1>0, <1>6, <1>7, <1>8 DEF FramesFinite, HasChain
<1>10. LastBlockIndex(g) = LastBlockIndex(e)
  BY <1>7 DEF LastBlockIndex
<1>12. BlocksNumbered(g)
  BY <1>6, <1>7, <1>10 DEF BlocksNumbered, HasChain
<1>13. Grows(h, g)
  BY <1>6, <1>7, <1>10 DEF Grows
<1> QED  BY <1>7, <1>9, <1>12, <1>13 DEF HasChain, IsHashgraph

-----------------------------------------------------------------------------
(***************************************************************************)
(* A sync: InsertEventAndRunConsensus and ProcessSigPool.                  *)
(***************************************************************************)

\* The chain is what the methods before ProcessDecidedRounds leave alone.
LEMMA SameChainHas ==
    ASSUME NEW h, HasChain(h), NEW g, SameChain(h, g), IsHashgraph(g),
           IsFiniteSet(g.known), IsFiniteSet(DOMAIN g.pending)
    PROVE  HasChain(g)
<1>1. g.frames = h.frames /\ g.blocks = h.blocks /\ g.anchor = h.anchor
  BY DEF SameChain
<1>2. LastBlockIndex(g) = LastBlockIndex(h)
  BY <1>1 DEF LastBlockIndex
<1>3. FramesFinite(g)
  BY <1>1 DEF HasChain, FramesFinite
<1>4. BlocksNumbered(g)
  BY <1>1, <1>2 DEF HasChain, BlocksNumbered
<1> QED  BY <1>3, <1>4 DEF HasChain

\* DecideFame makes no round pending, and removes none.
LEMMA FamePending ==
    ASSUME NEW h, IsHashgraph(h), NEW fame, NEW g, g = DecideFame(h, fame)
    PROVE  DOMAIN g.pending = DOMAIN h.pending
<1> DEFINE f == SetFame(h, fame)
           D == {r \in DOMAIN h.pending : WitnessesDecided(f, r)}
           P == [r \in DOMAIN h.pending |-> h.pending[r] \/ r \in D]
<1>1. DOMAIN f = DOMAIN NewHashgraph
  BY FieldNames DEF SetFame, IsHashgraph
<1>2. g = [f EXCEPT !.decided = @ \cup D, !.pending = P]
  BY Zenon DEF DecideFame
<1>3. DOMAIN P = DOMAIN h.pending
  OBVIOUS
<1> HIDE DEF f, D, P
<1>4. g.pending = P
  BY <1>1, <1>2, FieldNames
<1> QED  BY <1>3, <1>4

\* InsertEventAndRunConsensus adds blocks at the end of the chain.
LEMMA RunGrows ==
    ASSUME NEW h, HasChain(h), NEW n, NEW x, NEW d, NEW f, NEW r, NEW g,
           Runs(h, n, x, d, f, r, g)
    PROVE  HasChain(g) /\ Grows(h, g)
<1>0. IsHashgraph(h) /\ IsFiniteSet(h.known) /\ IsFiniteSet(DOMAIN h.pending)
  BY DEF HasChain, FramesFinite
<1> DEFINE i == InsertEvent(h, x)
<1>1. /\ SameChain(h, i) /\ IsHashgraph(i)
      /\ i.known = h.known \cup {x} /\ i.pending = h.pending
  BY <1>0, InsertChain DEF IsHashgraph
<1>2. d = DivideRounds(i, x)
  BY DEF Runs
<1> HIDE DEF i
<1>3. /\ SameChain(i, d) /\ IsHashgraph(d)
      /\ d.known = i.known /\ d.pending = Queue(i, RoundOf(i, x))
  <2>1. DOMAIN i = DOMAIN NewHashgraph
    BY <1>1 DEF IsHashgraph
  <2>2. SameChain(i, d)
    BY <1>2, <2>1, DivideChain, Zenon
  <2>3. DOMAIN d = DOMAIN NewHashgraph /\ d.known = i.known /\ d.pending = Queue(i, RoundOf(i, x))
    BY <1>2, <2>1, DivideFields, Zenon
  <2> QED  BY <2>2, <2>3 DEF IsHashgraph
<1>4. IsFiniteSet(d.known) /\ IsFiniteSet(DOMAIN d.pending)
  <2>1. IsFiniteSet(h.known \cup {x})
    BY <1>0, FS_AddElement, Zenon
  <2> DEFINE k == RoundOf(i, x)
  <2>2. d.pending = Queue(i, k)
    BY <1>3
  <2> HIDE DEF k
  <2>3. DOMAIN d.pending \subseteq DOMAIN i.pending \cup {k}
    BY <2>2 DEF Queue
  <2>4. IsFiniteSet(DOMAIN i.pending \cup {k})
    BY <1>0, <1>1, FS_AddElement, Zenon
  <2>5. IsFiniteSet(DOMAIN d.pending)
    BY <2>3, <2>4, FS_Subset, Zenon
  <2> QED  BY <1>1, <1>3, <2>1, <2>5
<1>5. PICK fame \in FameDecisions(d) : f = DecideFame(d, fame)
  BY DEF Runs
<1>6. /\ SameChain(d, f) /\ IsHashgraph(f)
      /\ f.known = d.known /\ DOMAIN f.pending = DOMAIN d.pending
  <2>1. DOMAIN d = DOMAIN NewHashgraph
    BY <1>3 DEF IsHashgraph
  <2>2. SameChain(d, f)
    BY <1>5, <2>1, FameChain, Zenon
  <2>3. DOMAIN f = DOMAIN NewHashgraph /\ f.known = d.known
    BY <1>5, <2>1, DecideFameFields, Zenon
  <2>4. DOMAIN f.pending = DOMAIN d.pending
    BY <1>3, <1>5, FamePending, Zenon
  <2> QED  BY <2>2, <2>3, <2>4 DEF IsHashgraph
<1>7. /\ SameChain(f, r) /\ IsHashgraph(r)
      /\ r.known = f.known /\ r.pending = f.pending
  <2>1. DOMAIN f = DOMAIN NewHashgraph /\ r = DecideRoundReceived(f)
    BY <1>6 DEF IsHashgraph, Runs
  <2>2. SameChain(f, r)
    BY <2>1, ReceivedChain, Zenon
  <2>3. DOMAIN r = DOMAIN NewHashgraph /\ r.known = f.known /\ r.pending = f.pending
    BY <2>1, ReceivedFields, Zenon
  <2> QED  BY <2>2, <2>3 DEF IsHashgraph
<1>8. SameChain(h, r)
  <2>1. SameChain(h, d)
    BY <1>1, <1>3, SameChainTransitive
  <2>2. SameChain(h, f)
    BY <1>6, <2>1, SameChainTransitive
  <2> QED  BY <1>7, <2>2, SameChainTransitive
<1>9. HasChain(r)
  BY <1>4, <1>6, <1>7, <1>8, SameChainHas
<1>10. HasChain(g) /\ Grows(r, g)
  BY <1>9, ProcessGrows DEF Runs
<1>11. r.blocks = h.blocks /\ r.anchor = h.anchor
  BY <1>8 DEF SameChain
<1>12. LastBlockIndex(r) = LastBlockIndex(h)
  BY <1>11 DEF LastBlockIndex
<1> QED  BY <1>10, <1>11, <1>12 DEF Grows

\* ProcessSigPool adds signatures to blocks, and can only raise the anchor.
LEMMA SignaturesGrow ==
    ASSUME NEW h, HasChain(h), NEW g, g = AppendSignatures(h)
    PROVE  HasChain(g) /\ Grows(h, g)
<1>0. IsHashgraph(h) /\ BlocksNumbered(h) /\ FramesFinite(h)
  BY DEF HasChain
<1> DEFINE valid == {s \in h.sigPool : Verifies(h, s)}
           sigs(i) == {s.validator : s \in {t \in valid : t.index = i}}
           blocks == [i \in DOMAIN h.blocks |-> [h.blocks[i] EXCEPT !.sigs = @ \cup sigs(i)]]
           touched == {blocks[s.index] : s \in valid}
           anchors == {b.index : b \in {c \in touched :
                           Cardinality(c.sigs) > TrustCount(GetPeerSet(h, c.round))}}
           pool == h.sigPool \ valid
           anchor == MaxOrNone({h.anchor} \cup anchors)
<1>1. g = [h EXCEPT !.blocks = blocks, !.sigPool = pool, !.anchor = anchor]
  BY Zenon DEF AppendSignatures
<1>2. \A s \in valid : s.index \in DOMAIN h.blocks
  BY DEF Verifies
<1>3. ASSUME NEW i \in DOMAIN h.blocks
      PROVE  IsNumbered(blocks[i], i, h.blocks[i].round)
  <2> DEFINE b == h.blocks[i]
             a == sigs(i)
  <2>1. blocks[i] = [b EXCEPT !.sigs = @ \cup a]
    BY Zenon
  <2>2. DOMAIN b = BlockFields /\ b.index = i
    BY <1>0 DEF BlocksNumbered
  <2> HIDE DEF blocks, b, a
  <2>3. IsNumbered(blocks[i], i, b.round)
    BY <2>1, <2>2 DEF IsNumbered, BlockFields
  <2> QED  BY <2>3 DEF b
<1>4. DOMAIN blocks = DOMAIN h.blocks
  OBVIOUS
<1> HIDE DEF blocks, valid
<1>5. anchors \subseteq DOMAIN h.blocks
  <2> SUFFICES ASSUME NEW c \in anchors  PROVE c \in DOMAIN h.blocks
    OBVIOUS
  <2>1. PICK s \in valid : c = blocks[s.index].index
    OBVIOUS
  <2>2. blocks[s.index].index = s.index
    BY <1>2, <1>3 DEF IsNumbered
  <2> QED  BY <1>2, <2>1, <2>2
<1> HIDE DEF anchors, pool
<1>6. anchor \in {h.anchor} \cup DOMAIN h.blocks /\ h.anchor <= anchor
  <2> DEFINE S == {h.anchor} \cup anchors
             l == LastBlockIndex(h)
  <2>1. l \in Int /\ h.anchor \in Int /\ h.anchor <= l
    BY <1>0, AnchorType DEF BlocksNumbered
  <2>2. \A i \in DOMAIN h.blocks : i \in Nat /\ i <= l
    BY <1>0, NextIsNew
  <2> HIDE DEF l
  <2>3. S \subseteq Int /\ S # {} /\ \A i \in S : i <= l
    BY <1>5, <2>1, <2>2
  <2>4. MaxOrNone(S) \in S /\ \A i \in S : i <= MaxOrNone(S)
    BY <2>1, <2>3, GreatestInteger, Zenon
  <2> QED  BY <1>5, <2>4
<1> HIDE DEF anchor
<1>7. /\ IsHashgraph(g) /\ g.known = h.known /\ g.pending = h.pending /\ g.frames = h.frames
      /\ g.blocks = blocks /\ g.anchor = anchor
  BY <1>0, <1>1, FieldNames DEF IsHashgraph
<1>8. Grows(h, g) /\ LastBlockIndex(g) = LastBlockIndex(h)
  BY <1>0, <1>4, <1>6, <1>7, GrowsSelf
<1>9. FramesFinite(g)
  BY <1>0, <1>7 DEF FramesFinite
<1>10. \A i \in DOMAIN g.blocks :
           /\ DOMAIN g.blocks[i] = BlockFields
           /\ g.blocks[i].index = i /\ g.blocks[i].round \in DOMAIN g.frames
  <2> TAKE i \in DOMAIN g.blocks
  <2>1. IsNumbered(g.blocks[i], i, h.blocks[i].round) /\ i \in DOMAIN h.blocks
    BY <1>3, <1>4, <1>7
  <2>2. h.blocks[i].round \in DOMAIN h.frames
    BY <1>0, <2>1 DEF BlocksNumbered
  <2> QED  BY <1>7, <2>1, <2>2 DEF IsNumbered
<1>11. g.anchor = -1 \/ g.anchor \in DOMAIN g.blocks
  BY <1>0, <1>4, <1>6, <1>7 DEF BlocksNumbered
<1>12. BlocksNumbered(g)
  BY <1>0, <1>4, <1>7, <1>8, <1>10, <1>11 DEF BlocksNumbered
<1> QED  BY <1>7, <1>8, <1>9, <1>12 DEF HasChain

-----------------------------------------------------------------------------
(***************************************************************************)
(* Reset.                                                                  *)
(***************************************************************************)

\* f is what the insertion of the first k events leaves of h.
IsInsertion(f, h, info, events, k) ==
    f = [i \in 0..k |-> IF i = 0 THEN h ELSE InsertFrameEvent(f[i - 1], events[i], info[events[i]])]

\* There is such an f: by induction on k.
LEMMA InsertionExists ==
    ASSUME NEW h, NEW info, NEW events, NEW k \in Nat
    PROVE  \E f : IsInsertion(f, h, info, events, k)
<1> DEFINE T == {j \in Nat : ~ \E f : IsInsertion(f, h, info, events, j)}
<1> SUFFICES ASSUME T # {}  PROVE FALSE
  OBVIOUS
<1>1. PICK m \in T : \A j \in T : m <= j
  BY LeastNatural, Zenon
<1>2. m # 0
  <2>1. IsInsertion([i \in 0..0 |-> h], h, info, events, 0)
    BY DEF IsInsertion
  <2> QED  BY <2>1
<1>3. PICK f : IsInsertion(f, h, info, events, m - 1)
  BY <1>1, <1>2
<1> DEFINE g == [i \in 0..m |->
                    IF i = m THEN InsertFrameEvent(f[m - 1], events[m], info[events[m]]) ELSE f[i]]
<1>4. IsInsertion(g, h, info, events, m)
  BY <1>2, <1>3 DEF IsInsertion
<1> QED  BY <1>4

\* g differs from h by finitely many events, not in the chain.
Receives(h, g) ==
    /\ IsHashgraph(g) /\ IsFiniteSet(g.known)
    /\ g.pending = h.pending /\ g.frames = h.frames /\ g.anchor = h.anchor

\* InsertFrameEvent inserts one event.
LEMMA InsertFrameEventReceives ==
    ASSUME NEW h, IsHashgraph(h), IsFiniteSet(h.known), NEW x, NEW info,
           NEW g, g = InsertFrameEvent(h, x, info)
    PROVE  Receives(h, g)
<1> DEFINE a == [h EXCEPT !.round[x] = info.round, !.witness[x] = info.witness,
                          !.lamport[x] = info.lamport]
           L == LastAncestors(a, x)
           b == [a EXCEPT !.la[x] = L, !.fd[x][Creator(x)] = Index(x), !.known = @ \cup {x},
                          !.lastConsensus[Creator(x)] = Index(x)]
           F == [y \in Events |-> IF ReachedFrom(b, x, y)
                                  THEN [b.fd[y] EXCEPT ![Creator(x)] = Index(x)]
                                  ELSE b.fd[y]]
<1>1. g = [b EXCEPT !.fd = F]
  BY Zenon DEF InsertFrameEvent, UpdateAncestorFirstDescendant
<1>2. /\ IsHashgraph(a) /\ a.known = h.known
      /\ a.pending = h.pending /\ a.frames = h.frames /\ a.anchor = h.anchor
  BY FieldNames DEF IsHashgraph
<1> HIDE DEF L, F, a
<1>3. /\ IsHashgraph(b) /\ b.known = a.known \cup {x}
      /\ b.pending = a.pending /\ b.frames = a.frames /\ b.anchor = a.anchor
  BY <1>2, FieldNames DEF IsHashgraph
<1> HIDE DEF b
<1>4. /\ IsHashgraph(g) /\ g.known = b.known
      /\ g.pending = b.pending /\ g.frames = b.frames /\ g.anchor = b.anchor
  BY <1>1, <1>3, FieldNames DEF IsHashgraph
<1>5. IsFiniteSet(h.known \cup {x})
  BY FS_AddElement, Zenon
<1> QED  BY <1>2, <1>3, <1>4, <1>5 DEF Receives

\* The loop over the events of a frame inserts them.
LEMMA InsertionReceives ==
    ASSUME NEW h, IsHashgraph(h), IsFiniteSet(h.known), NEW info, NEW events, Len(events) \in Nat,
           NEW g, g = InsertFrameEvents(h, info, events)
    PROVE  Receives(h, g)
<1> DEFINE k == Len(events)
           f == CHOOSE e : IsInsertion(e, h, info, events, k)
<1>1. g = f[k]
  BY Zenon DEF InsertFrameEvents, IsInsertion
<1>2. IsInsertion(f, h, info, events, k)
  BY InsertionExists, Zenon
<1>3. k \in Nat
  OBVIOUS
<1> HIDE DEF f, k
<1>4. f[0] = h /\ \A i \in 1..k : f[i] = InsertFrameEvent(f[i - 1], events[i], info[events[i]])
  BY <1>2, <1>3 DEF IsInsertion
<1> DEFINE T == {i \in 0..k : ~Receives(h, f[i])}
<1>5. T = {}
  <2> SUFFICES ASSUME T # {}  PROVE FALSE
    OBVIOUS
  <2>1. T \subseteq Nat
    BY <1>3
  <2>2. PICK m \in T : \A j \in T : m <= j
    BY <2>1, LeastNatural, Zenon
  <2>3. m # 0
    BY <1>4, <2>2 DEF Receives
  <2>4. m - 1 \in 0..k /\ m \in 1..k /\ m - 1 \notin T
    BY <1>3, <2>2, <2>3
  <2> DEFINE u == f[m - 1]
             v == f[m]
  <2>5. v = InsertFrameEvent(u, events[m], info[events[m]])
    BY <1>4, <2>4
  <2>6. Receives(h, u) /\ ~Receives(h, v)
    BY <2>2, <2>4
  <2> HIDE DEF u, v
  <2>7. Receives(u, v)
    BY <2>5, <2>6, InsertFrameEventReceives DEF Receives
  <2>8. Receives(h, v)
    BY <2>6, <2>7 DEF Receives
  <2> QED  BY <2>6, <2>8
<1>6. k \in 0..k
  BY <1>3
<1> QED  BY <1>1, <1>5, <1>6

\* fastForward leaves one block, the one that it is given, and no anchor.
LEMMA FastForwardChain ==
    ASSUME NEW h, NEW block, NEW i \in Nat, NEW r, IsNumbered(block, i, r),
           NEW frame, frame.round = r, IsFiniteSet(DOMAIN frame.info),
           NEW g, g = fastForward(h, block, frame)
    PROVE  HasChain(g) /\ LastBlockIndex(g) = i /\ g.anchor = -1
<1> DEFINE P == frame.peerSets
           F == [k \in {frame.round} |-> frame]
           Q == h.sigPool
           base == [NewHashgraph EXCEPT !.peerSets = P, !.frames = F, !.sigPool = Q]
           events == SortedFrameEvents(frame)
           e == InsertFrameEvents(base, frame.info, events)
           B == [k \in {block.index} |-> block]
           c == [e EXCEPT !.blocks = B, !.lastConsensusRound = block.round,
                          !.lowerBound = block.round]
           d == [c EXCEPT !.validators = frame.peers]
<1>1. g = ProcessAccepted(d, block)
  BY Zenon DEF fastForward, Reset
<1>2. DOMAIN F = {r} /\ F[r] = frame /\ DOMAIN B = {i} /\ B[i] = block /\ block.round = r
  BY DEF IsNumbered
<1>3. Len(events) \in Nat
  <2> DEFINE S == DOMAIN frame.info
             k == Cardinality(S)
             l == [lamport |-> [x \in S |-> frame.info[x].lamport]]
             at(j) == CHOOSE x \in S : Cardinality({y \in S : Less(l, y, x)}) = j - 1
  <2>1. k \in Nat
    BY FS_CardinalityType, Zenon
  <2>2. events = [j \in 1..k |-> at(j)]
    BY Zenon DEF SortedFrameEvents, SortEvents
  <2> HIDE DEF events, k, at
  <2> QED  BY <2>1, <2>2
<1> HIDE DEF P, F, Q, B, events
<1>4. /\ IsHashgraph(base) /\ base.frames = F /\ base.anchor = -1
      /\ base.known = {} /\ DOMAIN base.pending = {}
  BY DEF IsHashgraph, NewHashgraph
<1> HIDE DEF base
<1>5. IsFiniteSet({})
  BY FS_EmptySet
<1>6. Receives(base, e)
  BY <1>3, <1>4, <1>5, InsertionReceives, Zenon
<1> HIDE DEF e
<1>7. /\ IsHashgraph(e) /\ IsFiniteSet(e.known) /\ DOMAIN e.pending = {}
      /\ e.frames = F /\ e.anchor = -1
  BY <1>4, <1>6 DEF Receives
<1>8. /\ IsHashgraph(c) /\ c.known = e.known /\ c.pending = e.pending
      /\ c.frames = F /\ c.anchor = -1 /\ c.blocks = B
  BY <1>7, FieldNames DEF IsHashgraph
<1> HIDE DEF c
<1>9. /\ IsHashgraph(d) /\ d.known = e.known /\ d.pending = e.pending
      /\ d.frames = F /\ d.anchor = -1 /\ d.blocks = B
  BY <1>8, FieldNames DEF IsHashgraph
<1> HIDE DEF d
<1>10. SameEvents(d, g) /\ g.frames = F /\ g.blocks = B /\ g.anchor = -1
  BY <1>1, <1>9, AcceptedEvents
<1>11. IsHashgraph(g) /\ g.known = e.known /\ g.pending = e.pending
  BY <1>9, <1>10 DEF SameEvents
<1>12. FramesFinite(g)
  BY <1>2, <1>5, <1>7, <1>10, <1>11 DEF FramesFinite
<1>13. LastBlockIndex(g) = i
  <2>1. {i} = i..i /\ i <= i /\ i \in Int
    OBVIOUS
  <2> QED  BY <1>2, <1>10, <2>1, MaxOfInterval, Zenon DEF LastBlockIndex
<1>14. BlocksNumbered(g)
  <2>1. i \in Int /\ i >= -1 /\ i <= i + 1 /\ {i} = i..i
    OBVIOUS
  <2>2. DOMAIN g.blocks = i..i /\ \A k \in DOMAIN g.blocks : k = i /\ g.blocks[k] = block
    BY <1>2, <1>10, <2>1
  <2> QED  BY <1>2, <1>10, <1>13, <2>1, <2>2 DEF BlocksNumbered, IsNumbered
<1> QED  BY <1>10, <1>11, <1>12, <1>13, <1>14 DEF HasChain

-----------------------------------------------------------------------------
(***************************************************************************)
(* The application.                                                        *)
(***************************************************************************)

\* The blocks after i complete a snapshot of the blocks up to i.
LEMMA SnapshotGrows ==
    ASSUME NEW i \in Int, i >= -1, NEW j \in Int, i <= j
    PROVE  Snapshot(i) \o Ascending(i + 1 .. j) = Snapshot(j)
<1> DEFINE s == Snapshot(i)
           t == Ascending(i + 1 .. j)
           u == Snapshot(j)
<1>1. s \in Seq(Int) /\ Len(s) = i + 1 /\ \A k \in 1..i + 1 : s[k] = k - 1
  BY DEF Snapshot
<1>2. u \in Seq(Int) /\ Len(u) = j + 1 /\ \A k \in 1..j + 1 : u[k] = k - 1
  BY DEF Snapshot
<1>3. t \in Seq(Int) /\ Len(t) = j - i /\ \A k \in 1..j - i : t[k] = i + k
  <2>1. /\ Cardinality(i + 1 .. j) = j - i /\ Len(t) = j - i
        /\ \A k \in 1..j - i : t[k] = i + k
    BY AscendingInterval, Zenon
  <2> DEFINE S == i + 1 .. j
             at(k) == CHOOSE r \in S : Cardinality({l \in S : l < r}) = k - 1
  <2>2. t = [k \in 1..j - i |-> at(k)]
    BY <2>1, Zenon DEF Ascending
  <2> HIDE DEF t, at
  <2> QED  BY <2>1, <2>2
<1> HIDE DEF s, t, u
<1>4. /\ s \o t \in Seq(Int) /\ Len(s \o t) = Len(s) + Len(t)
      /\ \A k \in 1..Len(s) + Len(t) :
             (s \o t)[k] = IF k <= Len(s) THEN s[k] ELSE t[k - Len(s)]
  BY <1>1, <1>3, ConcatProperties, Zenon
<1>5. Len(s \o t) = Len(u)
  BY <1>1, <1>2, <1>3, <1>4
<1>6. \A k \in 1..Len(s \o t) : (s \o t)[k] = u[k]
  <2> TAKE k \in 1..Len(s \o t)
  <2>1. k \in 1..j + 1 /\ (s \o t)[k] = IF k <= i + 1 THEN s[k] ELSE t[k - (i + 1)]
    BY <1>1, <1>3, <1>4
  <2>2. CASE k <= i + 1
    BY <1>1, <1>2, <2>1, <2>2
  <2>3. CASE ~(k <= i + 1)
    <3>1. (s \o t)[k] = t[k - (i + 1)] /\ k - (i + 1) \in 1..j - i
      BY <2>1, <2>3
    <3>2. t[k - (i + 1)] = i + (k - (i + 1))
      BY <1>3, <3>1
    <3> QED  BY <1>2, <2>1, <3>1, <3>2
  <2> QED  BY <2>2, <2>3
<1>7. s \o t = u
  BY <1>2, <1>4, <1>5, <1>6, SeqEqual, Zenon
<1> QED  BY <1>7 DEF s, t, u

\* Of finitely many numbers one is the highest.
LEMMA FiniteMax ==
    ASSUME NEW S, IsFiniteSet(S), S # {}, NEW v, \A x \in S : v[x] \in Int
    PROVE  \E x \in S : \A y \in S : v[y] <= v[x]
<1>1. PICK n \in Nat : ExistsSurjection(1..n, S)
  BY FS_NatSurjection
<1>2. PICK f \in Surjection(1..n, S) : TRUE
  BY <1>1, Zenon DEF ExistsSurjection
<1>3. (\A k \in 1..n : f[k] \in S) /\ \A x \in S : \E k \in 1..n : f[k] = x
  BY <1>2, Zenon DEF Surjection
<1>4. \A k \in 1..n : v[f[k]] \in Int
  BY <1>3
<1> DEFINE Highest(i, j) == i \in 1..j /\ \A k \in 1..j : v[f[k]] <= v[f[i]]
           T == {j \in 1..n : ~ \E i : Highest(i, j)}
<1>5. T = {}
  <2> SUFFICES ASSUME T # {}  PROVE FALSE
    OBVIOUS
  <2>1. T \subseteq Nat
    OBVIOUS
  <2>2. PICK m \in T : \A j \in T : m <= j
    BY <2>1, LeastNatural, Zenon
  <2>3. m # 1
    <3>1. 1..1 = {1} /\ 1 \in 1..n
      BY <2>2
    <3>2. Highest(1, 1)
      BY <1>4, <3>1
    <3> QED  BY <2>2, <3>2
  <2>4. m - 1 \in 1..n /\ m \in 1..n /\ m - 1 \notin T /\ 1..m = 1..(m - 1) \cup {m}
    BY <2>2, <2>3
  <2>5. PICK i : Highest(i, m - 1)
    BY <2>4
  <2>6. i \in 1..n /\ i \in 1..m /\ \A k \in 1..(m - 1) : k \in 1..n /\ v[f[k]] <= v[f[i]]
    BY <2>4, <2>5
  <2> HIDE DEF T
  <2>7. CASE v[f[m]] <= v[f[i]]
    <3>1. Highest(i, m)
      BY <2>4, <2>6, <2>7
    <3> QED  BY <2>2, <3>1 DEF T
  <2>8. CASE ~(v[f[m]] <= v[f[i]])
    <3>1. v[f[m]] \in Int /\ v[f[i]] \in Int /\ \A k \in 1..(m - 1) : v[f[k]] \in Int
      BY <1>4, <2>4, <2>6
    <3>2. \A k \in 1..(m - 1) : v[f[k]] <= v[f[m]]
      BY <2>6, <2>8, <3>1
    <3>3. Highest(m, m)
      BY <2>4, <3>1, <3>2
    <3> QED  BY <2>2, <3>3 DEF T
  <2> QED  BY <2>7, <2>8
<1>6. n \in 1..n
  <2>1. PICK x \in S : TRUE
    OBVIOUS
  <2>2. PICK k \in 1..n : f[k] = x
    BY <1>3
  <2> QED  BY <2>2
<1>7. PICK i : Highest(i, n)
  BY <1>5, <1>6
<1>8. f[i] \in S /\ \A y \in S : v[y] <= v[f[i]]
  BY <1>3, <1>7
<1> QED  BY <1>8

\* A peer that has an anchor block above 0 makes some answer the best.
LEMMA BestExists ==
    ASSUME NEW answers, answers \subseteq Nodes, NEW m \in answers, hg[m].anchor > 0,
           \A k \in Nodes : hg[k].anchor \in Int
    PROVE  getBest(answers) # {}
<1> DEFINE v == [k \in answers |-> hg[k].anchor]
<1>1. IsFiniteSet(answers)
  <2>1. answers \subseteq Participants
    BY ParticipantsAssumption
  <2> QED  BY <2>1, ParticipantsAssumption, FS_Subset
<1>2. \A k \in answers : v[k] \in Int /\ v[k] = hg[k].anchor
  OBVIOUS
<1>3. PICK b \in answers : \A k \in answers : v[k] <= v[b]
  <2> HIDE DEF v
  <2> QED  BY <1>1, <1>2, FiniteMax, Zenon
<1>4. \A k \in answers : hg[k].anchor <= hg[b].anchor
  BY <1>2, <1>3
<1>5. hg[b].anchor > 0
  BY <1>2, <1>4
<1>6. b \in getBest(answers)
  BY <1>4, <1>5 DEF getBest
<1> QED  BY <1>6

-----------------------------------------------------------------------------
(***************************************************************************)
(* Steps.                                                                  *)
(***************************************************************************)

\* No node has a lower anchor after the step.
AnchorsRise == \A k \in Nodes : hg[k].anchor <= hg'[k].anchor

\* A node that the step leaves alone can still catch up.
LEMMA StillCanCatchUp ==
    ASSUME FFInv, AnchorsRise, \A k \in Nodes : hg'[k].anchor \in Int,
           NEW m \in Nodes, CanCatchUp(m), app'[m] = app[m]
    PROVE  CanCatchUp(m)'
<1>1. CASE app[m] = <<>>
  BY <1>1 DEF CanCatchUp
<1>2. CASE app[m] # <<>>
  <2>1. "check" \in Faults /\ \E i \in Nat : app[m] = Snapshot(i)
    BY <1>2 DEF CanCatchUp
  <2>2. PICK k \in Nodes \ {m} : hg[k].anchor > 0
    BY <1>2 DEF CanCatchUp
  <2>3. hg[k].anchor \in Int /\ hg'[k].anchor \in Int /\ hg[k].anchor <= hg'[k].anchor
    BY AnchorType DEF FFInv, HasChain, AnchorsRise
  <2>4. hg'[k].anchor > 0
    BY <2>2, <2>3
  <2>5. \E i \in Nat : app'[m] = Snapshot(i)
    BY <2>1
  <2> QED  BY <2>1, <2>4, <2>5 DEF CanCatchUp, Snapshot
<1> QED  BY <1>1, <1>2

\* HasChain reads no variable but dag.
LEMMA ChainPrimed ==
    ASSUME dag' = dag, NEW h, HasChain(h)
    PROVE  HasChain(h)'
<1>1. NewHashgraph' = NewHashgraph
  BY DEF NewHashgraph, Events
<1>2. LastBlockIndex(h)' = LastBlockIndex(h)
  BY DEF LastBlockIndex, MaxOrNone
<1> QED  BY <1>1, <1>2 DEF HasChain, IsHashgraph, FramesFinite, BlocksNumbered, BlockFields

\* A step after which n babbles, with an application that has its blocks.
LEMMA NodeBabbles ==
    ASSUME FFInv, NEW n \in Nodes, NEW g, HasChain(g), hg[n].anchor <= g.anchor,
           dag' = dag, DOMAIN hg' = Nodes, hg'[n] = g,
           \A m \in Nodes : m # n => hg'[m] = hg[m],
           DOMAIN phase' = Nodes, phase'[n] = "Babbling",
           \A m \in Nodes : m # n => phase'[m] = phase[m],
           DOMAIN app' = Nodes, app'[n] = Snapshot(LastBlockIndex(g)),
           \A m \in Nodes : m # n => app'[m] = app[m]
    PROVE  FFInv'
<1>1. /\ DOMAIN hg' = Nodes /\ hg'[n] = g
      /\ \A m \in Nodes : m # n => hg'[m] = hg[m]
  OBVIOUS
<1>2. \A m \in Nodes : HasChain(hg[m]) /\ hg[m].anchor \in Int
  BY AnchorType DEF FFInv, HasChain
<1>3. \A m \in Nodes : HasChain(hg'[m])
  BY <1>1, <1>2
<1>4. \A m \in Nodes : hg'[m].anchor \in Int
  BY <1>3, AnchorType DEF HasChain
<1>5. AnchorsRise
  <2> SUFFICES ASSUME NEW k \in Nodes  PROVE hg[k].anchor <= hg'[k].anchor
    BY DEF AnchorsRise
  <2>1. CASE k = n
    BY <1>1, <2>1
  <2>2. CASE k # n
    <3>1. hg'[k] = hg[k] /\ hg[k].anchor \in Int
      BY <1>1, <1>2, <2>2
    <3> QED  BY <3>1
  <2> QED  BY <2>1, <2>2
<1>6. ASSUME NEW m \in Nodes
      PROVE  \/ phase'[m] = "CatchingUp" /\ hg'[m] = NewHashgraph /\ CanCatchUp(m)'
             \/ phase'[m] = "Babbling" /\ app'[m] = Snapshot(LastBlockIndex(hg'[m]))
  <2>1. CASE m = n
    BY <1>1, <2>1
  <2>2. CASE m # n
    <3>1. hg'[m] = hg[m] /\ phase'[m] = phase[m] /\ app'[m] = app[m]
      BY <1>1, <2>2
    <3>2. \/ phase[m] = "CatchingUp" /\ hg[m] = NewHashgraph /\ CanCatchUp(m)
          \/ phase[m] = "Babbling" /\ app[m] = Snapshot(LastBlockIndex(hg[m]))
      BY DEF FFInv
    <3>3. CanCatchUp(m) => CanCatchUp(m)'
      BY <1>4, <1>5, <3>1, StillCanCatchUp
    <3> QED  BY <3>1, <3>2, <3>3
  <2> QED  BY <2>1, <2>2
<1>7. DOMAIN hg' = Nodes /\ DOMAIN phase' = Nodes /\ DOMAIN app' = Nodes
  BY <1>1
<1>8. \A m \in Nodes : HasChain(hg[m])'
  BY <1>3, ChainPrimed
<1>9. NewHashgraph' = NewHashgraph
  BY DEF NewHashgraph, Events
<1>10. \A m \in Nodes : Snapshot(LastBlockIndex(hg[m]))' = Snapshot(LastBlockIndex(hg'[m]))
  BY DEF Snapshot, LastBlockIndex, MaxOrNone
<1> QED  BY <1>6, <1>7, <1>8, <1>9, <1>10 DEF FFInv

\* Babble: the application gets the blocks that the sync adds.
LEMMA BabbleInv ==
    ASSUME FFInv, NEW n \in Nodes, Babble(n)
    PROVE  FFInv'
<1>1. /\ phase[n] = "Babbling" /\ phase' = phase
      /\ app' = [app EXCEPT ![n] = @ \o Ascending(DOMAIN hg'[n].blocks \ DOMAIN hg[n].blocks)]
      /\ \/ \E x \in Events : InsertEventAndRunConsensus(n, x)
         \/ ProcessSigPool(n)
  BY Zenon DEF Babble
<1> DEFINE h == hg[n]
           l == LastBlockIndex(h)
<1>2. /\ DOMAIN hg = Nodes /\ DOMAIN phase = Nodes /\ DOMAIN app = Nodes
      /\ HasChain(h) /\ app[n] = Snapshot(l)
  BY <1>1 DEF FFInv
<1>3. PICK g : /\ dag' = dag /\ hg' = [hg EXCEPT ![n] = g]
               /\ \/ \E x, d, f, r : Runs(h, n, x, d, f, r, g)
                  \/ g = AppendSignatures(h)
  <2>1. CASE ProcessSigPool(n)
    BY <2>1, Zenon DEF ProcessSigPool
  <2>2. ASSUME NEW x \in Events, InsertEventAndRunConsensus(n, x)
        PROVE  \E g : /\ dag' = dag /\ hg' = [hg EXCEPT ![n] = g]
                      /\ \E d, f, r : Runs(h, n, x, d, f, r, g)
    <3> DEFINE d == DivideRounds(InsertEvent(h, x), x)
    <3>1. PICK fame \in FameDecisions(d) :
              hg' = [hg EXCEPT ![n] =
                       ProcessDecidedRounds(DecideRoundReceived(DecideFame(d, fame)), n)]
      BY <2>2, Zenon DEF InsertEventAndRunConsensus
    <3> DEFINE f == DecideFame(d, fame)
               r == DecideRoundReceived(f)
               g == ProcessDecidedRounds(r, n)
    <3>2. x \notin h.known /\ CanInsert(h, x) /\ dag' = dag
      BY <2>2, Zenon DEF InsertEventAndRunConsensus
    <3>3. Runs(h, n, x, d, f, r, g)
      BY <3>2, Zenon DEF Runs
    <3> QED  BY <3>1, <3>2, <3>3, Zenon
  <2> QED  BY <1>1, <2>1, <2>2, Zenon
<1>4. HasChain(g) /\ Grows(h, g)
  <2>1. CASE g = AppendSignatures(h)
    BY <1>2, <2>1, SignaturesGrow
  <2>2. ASSUME NEW x, NEW d, NEW f, NEW r, Runs(h, n, x, d, f, r, g)
        PROVE  HasChain(g) /\ Grows(h, g)
    BY <1>2, <2>2, RunGrows
  <2> QED  BY <1>3, <2>1, <2>2
<1> DEFINE m == LastBlockIndex(g)
<1>5. l \in Int /\ l >= -1 /\ m \in Int
  BY <1>2, <1>4 DEF HasChain, BlocksNumbered
<1>6. /\ l <= m /\ h.anchor <= g.anchor
      /\ DOMAIN g.blocks = DOMAIN h.blocks \cup (l + 1 .. m)
  BY <1>4 DEF Grows
<1>7. \A i \in DOMAIN h.blocks : i \in Nat /\ i <= l
  BY <1>2, NextIsNew DEF HasChain
<1>8. /\ DOMAIN hg' = Nodes /\ hg'[n] = g
      /\ \A k \in Nodes : k # n => hg'[k] = hg[k]
  BY <1>2, <1>3
<1> HIDE DEF h, l, m
<1>9. DOMAIN g.blocks \ DOMAIN h.blocks = l + 1 .. m
  BY <1>5, <1>6, <1>7
<1>10. Snapshot(l) \o Ascending(l + 1 .. m) = Snapshot(m)
  BY <1>5, <1>6, SnapshotGrows, Zenon
<1>11. app' = [app EXCEPT ![n] = Snapshot(m)]
  <2>1. app' = [app EXCEPT ![n] = app[n] \o Ascending(DOMAIN g.blocks \ DOMAIN h.blocks)]
    BY <1>1, <1>8 DEF h
  <2>2. app[n] \o Ascending(DOMAIN g.blocks \ DOMAIN h.blocks) = Snapshot(m)
    BY <1>2, <1>9, <1>10, Zenon
  <2> QED  BY <2>1, <2>2, Zenon
<1>12. /\ DOMAIN app' = Nodes /\ app'[n] = Snapshot(m)
       /\ \A k \in Nodes : k # n => app'[k] = app[k]
  BY <1>2, <1>11
<1> QED  BY <1>1, <1>2, <1>3, <1>4, <1>6, <1>8, <1>12, NodeBabbles, Zenon DEF h, m

\* FastForward: the application is restored to the block of the reset.
LEMMA FastForwardInv ==
    ASSUME FFInv, NEW n \in Nodes, FastForward(n)
    PROVE  FFInv'
<1>1. PICK answers \in Answers(n) : \E m \in getBest(answers) :
          LET block == AnchorBlock(hg[m])
              frame == AnchorFrame(hg[m])
          IN  /\ CheckBlock(block, frame.peers)
              /\ hg' = [hg EXCEPT ![n] = fastForward(hg[n], block, frame)]
              /\ app' = [app EXCEPT ![n] = Snapshot(block.index)]
  BY Zenon DEF FastForward
<1>2. PICK m \in getBest(answers) :
          /\ hg' = [hg EXCEPT ![n] = fastForward(hg[n], AnchorBlock(hg[m]), AnchorFrame(hg[m]))]
          /\ app' = [app EXCEPT ![n] = Snapshot(AnchorBlock(hg[m]).index)]
  BY <1>1, Zenon
<1>3. phase[n] = "CatchingUp" /\ phase' = [phase EXCEPT ![n] = "Babbling"] /\ dag' = dag
  BY DEF FastForward
<1>4. m \in Nodes /\ hg[m].anchor > 0
  BY <1>1, <1>2 DEF getBest, Answers
<1> DEFINE block == AnchorBlock(hg[m])
           frame == AnchorFrame(hg[m])
           i == hg[m].anchor
           g == fastForward(hg[n], block, frame)
<1>5. HasChain(hg[m])
  BY <1>4 DEF FFInv
<1>6. i \in Nat /\ i \in DOMAIN hg[m].blocks
  BY <1>4, <1>5, AnchorType DEF HasChain, BlocksNumbered
<1>7. IsNumbered(block, i, block.round) /\ block.round \in DOMAIN hg[m].frames
  BY <1>5, <1>6 DEF HasChain, BlocksNumbered, IsNumbered, AnchorBlock
<1>8. frame.round = block.round /\ IsFiniteSet(DOMAIN frame.info)
  BY <1>5, <1>7 DEF HasChain, FramesFinite, AnchorFrame
<1>9. g = fastForward(hg[n], block, frame)
  OBVIOUS
<1>10. block.index = i
  BY <1>7 DEF IsNumbered
<1>14. hg' = [hg EXCEPT ![n] = g] /\ app' = [app EXCEPT ![n] = Snapshot(block.index)]
  BY <1>2
<1> HIDE DEF g, block, frame, i
<1>11. HasChain(g) /\ LastBlockIndex(g) = i /\ g.anchor = -1
  BY <1>6, <1>7, <1>8, <1>9, FastForwardChain
<1>12. /\ DOMAIN phase = Nodes /\ DOMAIN app = Nodes /\ hg[n] = NewHashgraph
  BY <1>3 DEF FFInv
<1>13. hg[n].anchor = -1
  BY <1>12 DEF NewHashgraph
<1>15. /\ DOMAIN app' = Nodes /\ app'[n] = Snapshot(LastBlockIndex(g))
       /\ \A k \in Nodes : k # n => app'[k] = app[k]
  BY <1>10, <1>11, <1>12, <1>14
<1>16. /\ DOMAIN phase' = Nodes /\ phase'[n] = "Babbling"
       /\ \A k \in Nodes : k # n => phase'[k] = phase[k]
  BY <1>3, <1>12
<1>17. hg[n].anchor <= g.anchor
  BY <1>11, <1>13
<1>18. /\ DOMAIN hg' = Nodes /\ hg'[n] = g
       /\ \A k \in Nodes : k # n => hg'[k] = hg[k]
  BY <1>14 DEF FFInv
<1> QED  BY <1>3, <1>11, <1>15, <1>16, <1>17, <1>18, NodeBabbles

\* CheckFails: the application is ahead, but a peer with an anchor is there.
LEMMA CheckFailsInv ==
    ASSUME FFInv, NEW n \in Nodes, CheckFails(n)
    PROVE  FFInv'
<1>1. PICK answers \in Answers(n) : \E m \in getBest(answers) :
          app' = [app EXCEPT ![n] = Snapshot(hg[m].anchor)]
  BY Zenon DEF CheckFails
<1>2. PICK m \in getBest(answers) : app' = [app EXCEPT ![n] = Snapshot(hg[m].anchor)]
  BY <1>1, Zenon
<1>3. /\ "check" \in Faults /\ phase[n] = "CatchingUp"
      /\ dag' = dag /\ hg' = hg /\ phase' = phase
  BY DEF CheckFails
<1>4. m \in Nodes \ {n} /\ hg[m].anchor > 0
  BY <1>1, <1>2 DEF getBest, Answers
<1>5. hg[m].anchor \in Nat
  BY <1>4, AnchorType DEF FFInv, HasChain
<1>6. /\ DOMAIN app' = Nodes /\ app'[n] = Snapshot(hg[m].anchor)
      /\ \A k \in Nodes : k # n => app'[k] = app[k]
  BY <1>2 DEF FFInv
<1>7. \E i \in Nat : app'[n] = Snapshot(i)
  BY <1>5, <1>6
<1>8. CanCatchUp(n)'
  BY <1>3, <1>4, <1>7 DEF CanCatchUp, Snapshot
<1>9. \A k \in Nodes : HasChain(hg[k])'
  BY <1>3, ChainPrimed DEF FFInv
<1>10. NewHashgraph' = NewHashgraph
  BY <1>3 DEF NewHashgraph, Events
<1>11. ASSUME NEW k \in Nodes
       PROVE  \/ phase'[k] = "CatchingUp" /\ hg'[k] = NewHashgraph /\ CanCatchUp(k)'
              \/ phase'[k] = "Babbling" /\ app'[k] = Snapshot(LastBlockIndex(hg'[k]))
  <2>1. CASE k = n
    BY <1>3, <1>8, <2>1 DEF FFInv
  <2>2. CASE k # n
    <3>1. app'[k] = app[k]
      BY <1>6, <2>2
    <3>2. \A j \in Nodes : hg[j].anchor \in Int
      BY AnchorType DEF FFInv, HasChain
    <3>3. AnchorsRise
      BY <1>3, <3>2 DEF AnchorsRise
    <3>4. CanCatchUp(k) => CanCatchUp(k)'
      BY <1>3, <3>1, <3>2, <3>3, StillCanCatchUp
    <3> QED  BY <1>3, <3>1, <3>4 DEF FFInv
  <2> QED  BY <2>1, <2>2
<1>12. \A k \in Nodes : Snapshot(LastBlockIndex(hg[k]))' = Snapshot(LastBlockIndex(hg'[k]))
  BY DEF Snapshot, LastBlockIndex, MaxOrNone
<1>13. DOMAIN hg' = Nodes /\ DOMAIN phase' = Nodes /\ DOMAIN app' = Nodes
  BY <1>3, <1>6 DEF FFInv
<1> QED  BY <1>9, <1>10, <1>11, <1>12, <1>13 DEF FFInv

\* NoAnswer: the application is the one it started with, like the hashgraph.
LEMMA NoAnswerInv ==
    ASSUME Faults # {"check", "lost"}, FFInv, NEW n \in Nodes, NoAnswer(n)
    PROVE  FFInv'
<1>1. /\ phase[n] = "CatchingUp" /\ phase' = [phase EXCEPT ![n] = "Babbling"]
      /\ dag' = dag /\ hg' = hg /\ app' = app
  BY DEF NoAnswer
<1>2. PICK answers \in Answers(n) : getBest(answers) = {}
  BY DEF NoAnswer
<1>3. \A k \in Nodes : HasChain(hg[k]) /\ hg[k].anchor \in Int
  BY AnchorType DEF FFInv, HasChain
<1>4. hg[n] = NewHashgraph /\ CanCatchUp(n)
  BY <1>1 DEF FFInv
<1>5. app[n] = <<>>
  <2> SUFFICES ASSUME app[n] # <<>>  PROVE FALSE
    OBVIOUS
  <2>1. "check" \in Faults
    BY <1>4 DEF CanCatchUp
  <2>2. PICK m \in Nodes \ {n} : hg[m].anchor > 0
    BY <1>4 DEF CanCatchUp
  <2>3. "lost" \notin Faults
    BY <2>1, FastForwardAssumption, Zenon
  <2>4. answers = Nodes \ {n}
    BY <1>2, <2>3 DEF Answers
  <2> QED  BY <1>2, <1>3, <2>2, <2>4, BestExists
<1>6. LastBlockIndex(NewHashgraph) = -1
  BY DEF NewHashgraph, LastBlockIndex, MaxOrNone
<1>7. Snapshot(-1) = <<>>
  BY DEF Snapshot
<1>8. app'[n] = Snapshot(LastBlockIndex(hg[n]))
  BY <1>1, <1>4, <1>5, <1>6, <1>7
<1>9. DOMAIN hg' = Nodes /\ \A k \in Nodes : hg'[k] = hg[k]
  BY <1>1 DEF FFInv
<1>10. /\ DOMAIN phase' = Nodes /\ phase'[n] = "Babbling" /\ DOMAIN app' = Nodes
       /\ \A k \in Nodes : k # n => phase'[k] = phase[k]
  BY <1>1 DEF FFInv
<1>11. hg[n].anchor <= hg[n].anchor
  BY <1>3
<1> QED  BY <1>1, <1>3, <1>8, <1>9, <1>10, <1>11, NodeBabbles

-----------------------------------------------------------------------------
(***************************************************************************)
(* The theorem.                                                            *)
(***************************************************************************)

LEMMA InitFFInv == FFInit => FFInv
<1> SUFFICES ASSUME FFInit  PROVE FFInv
  OBVIOUS
<1>1. \A n \in Nodes : hg[n] = NewHashgraph
  BY DEF FFInit, Init
<1>2. LastBlockIndex(NewHashgraph) = -1
  BY DEF NewHashgraph, LastBlockIndex, MaxOrNone
<1>3. Snapshot(-1) = <<>>
  BY DEF Snapshot
<1>4. HasChain(NewHashgraph)
  <2>1. IsHashgraph(NewHashgraph)
    BY DEF IsHashgraph
  <2>2. /\ NewHashgraph.known = {} /\ DOMAIN NewHashgraph.pending = {}
        /\ DOMAIN NewHashgraph.frames = {} /\ DOMAIN NewHashgraph.blocks = {}
        /\ NewHashgraph.anchor = -1
    BY DEF NewHashgraph
  <2>3. FramesFinite(NewHashgraph)
    BY <2>2, FS_EmptySet DEF FramesFinite
  <2>4. 0 <= -1 + 1 /\ {} = 0 .. -1
    OBVIOUS
  <2>5. BlocksNumbered(NewHashgraph)
    BY <1>2, <2>2, <2>4 DEF BlocksNumbered
  <2> QED  BY <2>1, <2>3, <2>5 DEF HasChain
<1>5. DOMAIN hg = Nodes /\ DOMAIN phase = Nodes /\ DOMAIN app = Nodes
  BY Zenon DEF FFInit, Init
<1>6. \A n \in Nodes :
          app[n] = <<>> /\ phase[n] \in {"CatchingUp", "Babbling"}
  BY DEF FFInit
<1> QED  BY <1>1, <1>2, <1>3, <1>4, <1>5, <1>6 DEF FFInv, CanCatchUp

LEMMA StutterFFInv ==
    ASSUME FFInv, UNCHANGED ffVars
    PROVE  FFInv'
<1>1. dag' = dag /\ hg' = hg /\ phase' = phase /\ app' = app
  BY DEF ffVars
<1>2. NewHashgraph' = NewHashgraph
  BY <1>1 DEF NewHashgraph, Events
<1>3. \A n \in Nodes : HasChain(hg[n])'
  BY <1>1, ChainPrimed DEF FFInv
<1>4. \A n \in Nodes : CanCatchUp(n) => CanCatchUp(n)'
  BY <1>1 DEF CanCatchUp, Snapshot
<1>5. \A n \in Nodes : Snapshot(LastBlockIndex(hg[n]))' = Snapshot(LastBlockIndex(hg[n]))
  BY <1>1 DEF Snapshot, LastBlockIndex, MaxOrNone
<1> QED  BY <1>1, <1>2, <1>3, <1>4, <1>5 DEF FFInv

\* What FFInv says of the application.
LEMMA AppOfInv == FFInv => AppFollowsBlocks
<1> SUFFICES ASSUME FFInv, NEW n \in Nodes
             PROVE  /\ app[n] = Snapshot(Len(app[n]) - 1)
                    /\ phase[n] = "Babbling" => Len(app[n]) - 1 = LastBlockIndex(hg[n])
  BY DEF AppFollowsBlocks
<1>1. ASSUME NEW i \in Int, i >= -1, app[n] = Snapshot(i)
      PROVE  Len(app[n]) - 1 = i
  <2>1. i + 1 \in Nat /\ app[n] = [k \in 1..i + 1 |-> k - 1]
    BY <1>1 DEF Snapshot
  <2>2. Len(app[n]) = i + 1
    BY <2>1
  <2> QED  BY <1>1, <2>2
<1>2. Snapshot(-1) = <<>>
  BY DEF Snapshot
<1>3. HasChain(hg[n])
  BY DEF FFInv
<1>4. LastBlockIndex(hg[n]) \in Int /\ LastBlockIndex(hg[n]) >= -1
  BY <1>3 DEF HasChain, BlocksNumbered
<1>5. CASE phase[n] = "Babbling"
  <2>1. app[n] = Snapshot(LastBlockIndex(hg[n]))
    BY <1>5 DEF FFInv
  <2>2. Len(app[n]) - 1 = LastBlockIndex(hg[n])
    BY <1>1, <1>4, <2>1
  <2> QED  BY <2>1, <2>2
<1>6. CASE phase[n] # "Babbling"
  <2>1. \E i \in Int : i >= -1 /\ app[n] = Snapshot(i)
    <3>1. CanCatchUp(n)
      BY <1>6 DEF FFInv
    <3>2. CASE app[n] = <<>>
      BY <1>2, <3>2
    <3>3. CASE app[n] # <<>>
      BY <3>1, <3>3 DEF CanCatchUp
    <3> QED  BY <3>2, <3>3
  <2>2. PICK i \in Int : i >= -1 /\ app[n] = Snapshot(i)
    BY <2>1
  <2>3. Len(app[n]) - 1 = i
    BY <1>1, <2>2
  <2> QED  BY <1>6, <2>2, <2>3
<1> QED  BY <1>5, <1>6

\* FFInv holds whenever a failed check and a lost answer do not meet in one
\* run: after both, a node babbles with a restored application and no block.
THEOREM FFInvariant ==
    ASSUME Faults # {"check", "lost"}
    PROVE  FFSpec => []FFInv
<1>1. FFInv /\ [FFNext]_ffVars => FFInv'
  <2> SUFFICES ASSUME FFInv, [FFNext]_ffVars  PROVE FFInv'
    OBVIOUS
  <2>1. CASE UNCHANGED ffVars
    BY <2>1, StutterFFInv
  <2>2. ASSUME NEW n \in Nodes,
               Babble(n) \/ FastForward(n) \/ CheckFails(n) \/ NoAnswer(n)
        PROVE  FFInv'
    BY <2>2, BabbleInv, FastForwardInv, CheckFailsInv, NoAnswerInv
  <2> QED  BY <2>1, <2>2 DEF FFNext
<1> QED  BY <1>1, InitFFInv, PTL DEF FFSpec

\* The application of a node holds every block once, in order, and has got as
\* far as the hashgraph of the node (node.fastForward, core.Commit), when a
\* failed check and a lost answer do not meet.
THEOREM AppCorrect ==
    ASSUME Faults # {"check", "lost"}
    PROVE  FFSpec => []AppFollowsBlocks
BY FFInvariant, AppOfInv, PTL
=============================================================================
