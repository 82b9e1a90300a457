---------------------------- MODULE GossipProofs ----------------------------
(***************************************************************************)
(* Proofs about Gossip, for any networks: no creator forks, a transaction  *)
(* is in one place, and the events of a message are always accepted.       *)
(***************************************************************************)
EXTENDS Gossip, TLAPS, WellFoundedInduction, FiniteSetTheorems

-----------------------------------------------------------------------------
(***************************************************************************)
(* The invariant.  What takes w speaks of the cores w, so that the steps   *)
(* in the middle of a sync can be told one by one.                         *)
(***************************************************************************)

EventSet == [creator : Nodes, index : Nat, other : [creator : Nodes, index : Int],
             txs : Seq(Txs)]

CoreSet == [store : Seq(EventSet), seq : Int, heads : [Nodes -> Int], pool : Seq(Txs)]

\* An event with creator m and an index from i on is among the first k of s.
Before(s, k, m, i) == \E j \in 1..k : s[j].creator = m /\ s[j].index >= i

\* A core that knows known accepts the events of s in their order: each finds
\* its parents there or earlier in s.
Fits(s, known) ==
    \A k \in 1..Len(s) :
        /\ s[k].index - 1 <= known[s[k].creator] \/ Before(s, k - 1, s[k].creator, s[k].index - 1)
        /\ s[k].other.index <= known[s[k].other.creator]
              \/ Before(s, k - 1, s[k].other.creator, s[k].other.index)

\* Stores are in topological order.
Topological(c) == Fits(c.store, [m \in Nodes |-> NoEvent])

\* Every event is in its creator's store, where its creator has no other event
\* with its index.
OwnStored(w) ==
    \A n \in Nodes : \A e \in ToSet(w[n].store) : e \in ToSet(w[e.creator].store)

OwnUnique(w) ==
    \A n \in Nodes : \A d, e \in ToSet(w[n].store) :
        d.creator = n /\ e.creator = n /\ d.index = e.index => d = e

\* The head and the heads are indexes of events that are there.
HeadsStored(w) ==
    \A n \in Nodes : /\ NoEvent <= w[n].seq /\ w[n].seq <= LastFrom(w[n], n)
                     /\ \A m \in Nodes : w[n].heads[m] <= LastFrom(w[n], m)

StoresInv(w) ==
    /\ w \in [Nodes -> CoreSet]
    /\ \A n \in Nodes : Topological(w[n])
    /\ OwnStored(w)
    /\ OwnUnique(w)
    /\ HeadsStored(w)

\* The transactions of pools and of events are different ones, all submitted.
Stored(w) == UNION {ToSet(w[n].store) : n \in Nodes}

PoolsApart(w) ==
    \A n \in Nodes :
        /\ IsInjective(w[n].pool) /\ ToSet(w[n].pool) \subseteq submitted
        /\ \A m \in Nodes : \A t \in ToSet(w[n].pool) : t \in ToSet(w[m].pool) => m = n

EventsApart(w) ==
    \A e \in Stored(w) :
        /\ IsInjective(e.txs) /\ ToSet(e.txs) \subseteq submitted
        /\ \A d \in Stored(w) : \A t \in ToSet(e.txs) : t \in ToSet(d.txs) => d = e

\* A transaction is in a pool and in an event when the consensus methods failed
\* on the event: its creator does not hold it as its head, and makes no other.
PoolStuck(w) ==
    \A n \in Nodes : \A e \in Stored(w) : \A t \in ToSet(w[n].pool) :
        t \in ToSet(e.txs) => e.creator = n /\ w[n].seq < LastFrom(w[n], n)

NoneLost(w) ==
    \A t \in submitted : \/ \E n \in Nodes : t \in ToSet(w[n].pool)
                         \/ \E e \in Stored(w) : t \in ToSet(e.txs)

TxInv(w) == PoolsApart(w) /\ EventsApart(w) /\ PoolStuck(w) /\ NoneLost(w)

CoresInv(w) == StoresInv(w) /\ TxInv(w)

\* The events of a message that some node sent, which fit the core of n.
Sent(w, n, events) ==
    /\ events \in Seq(EventSet)
    /\ ToSet(events) \subseteq Stored(w)
    /\ Fits(events, Known(w[n]))

\* What a node said that it knows, it knows.
Knew(c, known) ==
    /\ known \in [Nodes -> Int]
    /\ \A m \in Nodes : NoEvent <= known[m] /\ known[m] <= LastFrom(c, m)

\* What a goroutine holds goes on being true, whatever others do.
MessageOK(w, r) ==
    \/ r = Idle
    \/ /\ r.from \in Nodes /\ r.to \in Nodes
       /\ \/ r.step = "requested" /\ Knew(w[r.from], r.known)
          \/ r.step = "answering" /\ Sent(w, r.from, r.events)
          \/ r.step = "answered" /\ Sent(w, r.from, r.events) /\ Knew(w[r.to], r.known)
          \/ r.step = "pulled" /\ Knew(w[r.to], r.known)
          \/ r.step = "pushed" /\ Sent(w, r.to, r.events)

MessagesOK(w, rs) == rs = [g \in Routines |-> rs[g]] /\ \A g \in Routines : MessageOK(w, rs[g])

GossipInv == conf \in Confs /\ CoresInv(core) /\ MessagesOK(core, routine) /\ ~refused

-----------------------------------------------------------------------------
(***************************************************************************)
(* Numbers and sequences.                                                  *)
(***************************************************************************)

\* A non-empty set of natural numbers has a least element.
LEMMA LeastNatural ==
    ASSUME NEW T, T \subseteq Nat, T # {}
    PROVE  \E m \in T : \A k \in T : m <= k
<1> DEFINE R == OpToRel(<, Nat)
<1>1. IsWellFoundedOn(R, Nat)
  BY NatLessThanWellFounded, Zenon
<1>2. R = {ss \in Nat \X Nat : ss[1] < ss[2]}
  BY Zenon DEF OpToRel
<1> HIDE DEF R
<1>3. PICK m \in T : \A k \in T : ~(<<k, m>> \in R)
  BY <1>1, WFMin, Zenon
<1>4. \A k \in T : ~(k < m)
  BY <1>2, <1>3, Zenon
<1> QED  BY <1>4

\* A non-empty set of integers with an upper bound has a greatest element.
LEMMA GreatestInteger ==
    ASSUME NEW S, S \subseteq Int, S # {}, NEW high \in Int, \A k \in S : k <= high
    PROVE  Max(S) \in S /\ \A k \in S : k <= Max(S)
<1> DEFINE T == {high - k : k \in S}
<1>0. \A k \in S : high - k \in Nat
  OBVIOUS
<1>1. T \subseteq Nat /\ T # {}
  BY <1>0, Zenon
<1>2. PICK t \in T : \A k \in T : t <= k
  BY <1>1, LeastNatural, Zenon
<1>3. PICK m \in S : t = high - m
  OBVIOUS
<1>4. \A k \in S : high - k \in T
  OBVIOUS
<1> HIDE DEF T
<1>5. \A k \in S : m >= k
  BY <1>2, <1>3, <1>4
<1> QED  BY <1>5, Zenon DEF Max

\* The members of a sequence.
LEMMA Members ==
    ASSUME NEW S, NEW s \in Seq(S)
    PROVE  /\ \A e : e \in ToSet(s) <=> \E k \in 1..Len(s) : s[k] = e
           /\ \A k \in 1..Len(s) : s[k] \in ToSet(s) /\ s[k] \in S
           /\ ToSet(s) \subseteq S
BY DEF ToSet

LEMMA MembersAppend ==
    ASSUME NEW S, NEW s \in Seq(S), NEW e \in S
    PROVE  /\ Append(s, e) \in Seq(S)
           /\ Len(Append(s, e)) = Len(s) + 1
           /\ Append(s, e)[Len(s) + 1] = e
           /\ \A k \in 1..Len(s) : Append(s, e)[k] = s[k]
           /\ ToSet(Append(s, e)) = ToSet(s) \cup {e}
<1> DEFINE q == Append(s, e)
<1>1. /\ q \in Seq(S) /\ Len(q) = Len(s) + 1 /\ q[Len(s) + 1] = e
      /\ \A k \in 1..Len(s) : q[k] = s[k]
  OBVIOUS
<1> HIDE DEF q
<1>2. \A k \in 1..Len(q) : k \in 1..Len(s) \/ k = Len(s) + 1
  BY <1>1
<1>3. \A k \in 1..Len(s) : k \in 1..Len(q)
  BY <1>1
<1>4. Len(s) + 1 \in 1..Len(q)
  BY <1>1
<1>5. ToSet(q) \subseteq ToSet(s) \cup {e}
  BY <1>1, <1>2, Members
<1>6. ToSet(s) \cup {e} \subseteq ToSet(q)
  BY <1>1, <1>3, <1>4, Members
<1> QED  BY <1>1, <1>5, <1>6 DEF q

\* The fields of an event.
LEMMA EventFields ==
    ASSUME NEW e \in EventSet
    PROVE  /\ e.creator \in Nodes /\ e.index \in Nat /\ e.txs \in Seq(Txs)
           /\ e.other.creator \in Nodes /\ e.other.index \in Int
BY DEF EventSet

\* The indexes of the events of a store have a bound.
LEMMA IndexBound ==
    ASSUME NEW s \in Seq(EventSet)
    PROVE  \E b \in Int : \A k \in 1..Len(s) : s[k].index <= b
<1> DEFINE P(i) == \E b \in Int : \A k \in 1..i : s[k].index <= b
<1>0. Len(s) \in Nat /\ \A k \in 1..Len(s) : s[k].index \in Int
  BY EventFields
<1> DEFINE n == Len(s)
<1> HIDE DEF n
<1>1. P(0)
  OBVIOUS
<1>2. ASSUME NEW i \in 1..n, P(i - 1)  PROVE P(i)
  <2>1. PICK b \in Int : \A k \in 1 .. i - 1 : s[k].index <= b
    BY <1>2, Zenon
  <2>2. /\ n \in Nat /\ \A k \in 1..n : s[k].index \in Int
        /\ \A k \in 1..i : (k \in 1 .. i - 1 \/ k = i) /\ k \in 1..n
    BY <1>0 DEF n
  <2>3. CASE s[i].index <= b
    BY <2>1, <2>2, <2>3, Zenon
  <2>4. CASE ~(s[i].index <= b)
    <3>1. s[i].index \in Int /\ b <= s[i].index
      BY <2>2, <2>4
    <3>2. \A k \in 1..i : s[k].index <= s[i].index
      BY <2>1, <2>2, <3>1
    <3> QED  BY <3>1, <3>2, Zenon
  <2> QED  BY <2>3, <2>4, Zenon
<1> HIDE DEF P
<1> DEFINE T == {i \in Nat : i <= n /\ ~P(i)}
<1>3. T = {}
  <2> SUFFICES ASSUME T # {}  PROVE FALSE
    OBVIOUS
  <2>1. PICK i \in T : \A j \in T : i <= j
    BY LeastNatural, Zenon
  <2>2. i # 0 /\ i \in Nat /\ i <= n /\ ~P(i)
    BY <1>1
  <2>3. i \in 1..n /\ i - 1 \in Nat /\ ~(i <= i - 1) /\ i - 1 <= n
    BY <1>0, <2>2 DEF n
  <2>4. P(i - 1)
    BY <2>1, <2>3
  <2> QED  BY <1>2, <2>2, <2>3, <2>4
<1>4. P(n)
  BY <1>0, <1>3 DEF n
<1> QED  BY <1>4 DEF P, n

\* LastFrom is the last index of an event of m, or NoEvent.
LEMMA LastFromIs ==
    ASSUME NEW c, c.store \in Seq(EventSet), NEW m
    PROVE  /\ LastFrom(c, m) \in Int /\ LastFrom(c, m) >= NoEvent
           /\ \A e \in ToSet(c.store) : e.creator = m => e.index <= LastFrom(c, m)
           /\ LastFrom(c, m) # NoEvent =>
                 \E e \in ToSet(c.store) : e.creator = m /\ e.index = LastFrom(c, m)
<1> DEFINE S == {NoEvent} \cup {e.index : e \in {x \in ToSet(c.store) : x.creator = m}}
<1>1. PICK b \in Int : \A k \in 1..Len(c.store) : c.store[k].index <= b
  BY IndexBound, Zenon
<1>2. \A e \in ToSet(c.store) : e.index \in Int /\ e.index <= b
  <2> SUFFICES ASSUME NEW e \in ToSet(c.store)  PROVE e.index \in Int /\ e.index <= b
    OBVIOUS
  <2>1. PICK k \in 1..Len(c.store) : c.store[k] = e
    BY Members
  <2>2. e \in EventSet
    BY <2>1
  <2> QED  BY <1>1, <2>1, <2>2, EventFields
<1>3. S \subseteq Int /\ S # {} /\ NoEvent \in S
  BY <1>2 DEF NoEvent
<1>4. \E high \in Int : \A k \in S : k <= high
  <2>1. CASE b >= NoEvent
    BY <1>2, <2>1, Zenon DEF NoEvent
  <2>2. CASE ~(b >= NoEvent)
    <3>1. \A k \in S : k <= NoEvent
      BY <1>2, <2>2 DEF NoEvent
    <3> QED  BY <3>1 DEF NoEvent
  <2> QED  BY <2>1, <2>2
<1>5. Max(S) \in S /\ \A k \in S : k <= Max(S)
  BY <1>3, <1>4, GreatestInteger, Zenon
<1>6. LastFrom(c, m) = Max(S)
  BY DEF LastFrom
<1> QED  BY <1>3, <1>5, <1>6, Zenon

-----------------------------------------------------------------------------
(***************************************************************************)
(* Messages.                                                               *)
(***************************************************************************)

\* One more event whose parents are known or come before.
LEMMA FitsAppend ==
    ASSUME NEW known, NEW q \in Seq(EventSet), NEW e \in EventSet, Fits(q, known),
           e.index - 1 <= known[e.creator] \/ Before(q, Len(q), e.creator, e.index - 1),
           \/ e.other.index <= known[e.other.creator]
           \/ Before(q, Len(q), e.other.creator, e.other.index)
    PROVE  Fits(Append(q, e), known)
<1> DEFINE r == Append(q, e)
<1>1. /\ r \in Seq(EventSet) /\ Len(r) = Len(q) + 1 /\ r[Len(q) + 1] = e
      /\ \A k \in 1..Len(q) : r[k] = q[k]
  BY MembersAppend
<1>2. Len(q) \in Nat
  OBVIOUS
<1> HIDE DEF r
<1>3. ASSUME NEW k \in 0..Len(q), NEW m, NEW i, Before(q, k, m, i)  PROVE Before(r, k, m, i)
  <2>1. \A j \in 1..k : j \in 1..Len(q)
    BY <1>2
  <2> QED  BY <1>1, <1>3, <2>1 DEF Before
<1> SUFFICES ASSUME NEW k \in 1..Len(r)
             PROVE  /\ \/ r[k].index - 1 <= known[r[k].creator]
                       \/ Before(r, k - 1, r[k].creator, r[k].index - 1)
                    /\ \/ r[k].other.index <= known[r[k].other.creator]
                       \/ Before(r, k - 1, r[k].other.creator, r[k].other.index)
  BY DEF Fits, r
<1>4. CASE k = Len(q) + 1
  <2>1. k - 1 = Len(q) /\ k - 1 \in 0..Len(q)
    BY <1>2, <1>4
  <2> QED  BY <1>1, <1>3, <1>4, <2>1
<1>5. CASE k \in 1..Len(q)
  <2>1. k - 1 \in 0..Len(q)
    BY <1>2, <1>5
  <2> QED  BY <1>1, <1>3, <1>5, <2>1 DEF Fits
<1> QED  BY <1>1, <1>2, <1>4, <1>5

\* What fits goes on fitting a core that learns more.
LEMMA FitsMore ==
    ASSUME NEW known \in [Nodes -> Int], NEW more \in [Nodes -> Int],
           \A m \in Nodes : known[m] <= more[m],
           NEW q \in Seq(EventSet), Fits(q, known)
    PROVE  Fits(q, more)
<1> SUFFICES ASSUME NEW k \in 1..Len(q)
             PROVE  /\ \/ q[k].index - 1 <= more[q[k].creator]
                       \/ Before(q, k - 1, q[k].creator, q[k].index - 1)
                    /\ \/ q[k].other.index <= more[q[k].other.creator]
                       \/ Before(q, k - 1, q[k].other.creator, q[k].other.index)
  BY DEF Fits
<1>1. q[k] \in EventSet
  OBVIOUS
<1>2. /\ q[k].index \in Int /\ q[k].other.index \in Int
      /\ q[k].creator \in Nodes /\ q[k].other.creator \in Nodes
  BY <1>1, EventFields
<1>3. /\ known[q[k].creator] <= more[q[k].creator]
      /\ known[q[k].other.creator] <= more[q[k].other.creator]
      /\ known[q[k].creator] \in Int /\ more[q[k].creator] \in Int
      /\ known[q[k].other.creator] \in Int /\ more[q[k].other.creator] \in Int
  BY <1>2
<1>4. /\ \/ q[k].index - 1 <= known[q[k].creator]
         \/ Before(q, k - 1, q[k].creator, q[k].index - 1)
      /\ \/ q[k].other.index <= known[q[k].other.creator]
         \/ Before(q, k - 1, q[k].other.creator, q[k].other.index)
  BY DEF Fits
<1> QED  BY <1>2, <1>3, <1>4

\* SyncLimit takes a prefix, which fits as the whole does.
LEMMA LimitFits ==
    ASSUME NEW known, NEW q \in Seq(EventSet), Fits(q, known), SyncLimit \in Nat
    PROVE  /\ Limit(q) \in Seq(EventSet)
           /\ ToSet(Limit(q)) \subseteq ToSet(q)
           /\ Fits(Limit(q), known)
<1> DEFINE n == Min({SyncLimit, Len(q)})
<1>1. n \in 0..Len(q)
  <2>1. Len(q) \in Nat
    OBVIOUS
  <2>2. CASE SyncLimit <= Len(q)
    <3>1. \E x \in {SyncLimit, Len(q)} : \A y \in {SyncLimit, Len(q)} : x <= y
      BY <2>1, <2>2
    <3> QED  BY <2>1, <3>1 DEF Min
  <2>3. CASE Len(q) <= SyncLimit
    <3>1. \E x \in {SyncLimit, Len(q)} : \A y \in {SyncLimit, Len(q)} : x <= y
      BY <2>1, <2>3
    <3> QED  BY <2>1, <3>1 DEF Min
  <2> QED  BY <2>1, <2>2, <2>3
<1>2. Limit(q) = SubSeq(q, 1, n)
  BY DEF Limit
<1> HIDE DEF n
<1>3. /\ Limit(q) \in Seq(EventSet) /\ Len(Limit(q)) = n
      /\ \A k \in 1..n : Limit(q)[k] = q[k] /\ k \in 1..Len(q)
  BY <1>1, <1>2
<1>4. ToSet(Limit(q)) \subseteq ToSet(q)
  BY <1>3, Members
<1>5. ASSUME NEW k \in 0..n, NEW m, NEW i, Before(q, k, m, i)  PROVE Before(Limit(q), k, m, i)
  <2>1. \A j \in 1..k : j \in 1..n
    BY <1>1
  <2> QED  BY <1>3, <1>5, <2>1 DEF Before
<1>6. \A k \in 1..n : k - 1 \in 0..n
  BY <1>1
<1>7. Fits(Limit(q), known)
  BY <1>3, <1>5, <1>6, Zenon DEF Fits
<1> QED  BY <1>3, <1>4, <1>7

\* f collects, event after event, what a core with store s knows more.
DiffAdd(D, e, known) == IF e.index > known[e.creator] THEN Append(D, e) ELSE D

IsDiff(f, s, known, n) ==
    f = [k \in 0..n |-> IF k = 0 THEN <<>> ELSE DiffAdd(f[k - 1], s[k], known)]

\* There is such an f: by induction on n.
LEMMA DiffExists ==
    ASSUME NEW s, NEW known, NEW n \in Nat
    PROVE  \E f : IsDiff(f, s, known, n)
<1> DEFINE T == {j \in Nat : ~ \E f : IsDiff(f, s, known, j)}
<1> SUFFICES ASSUME T # {}  PROVE FALSE
  OBVIOUS
<1>1. PICK m \in T : \A j \in T : m <= j
  BY LeastNatural, Zenon
<1>2. m # 0
  <2>1. IsDiff([k \in 0..0 |-> <<>>], s, known, 0)
    BY DEF IsDiff
  <2> QED  BY <2>1
<1>3. PICK f : IsDiff(f, s, known, m - 1)
  BY <1>1, <1>2
<1> DEFINE g == [k \in 0..m |-> IF k = m THEN DiffAdd(f[m - 1], s[m], known) ELSE f[k]]
<1>4. IsDiff(g, s, known, m)
  BY <1>2, <1>3 DEF IsDiff
<1> QED  BY <1>4

\* The diff of the first i events of c: events of c, those among them that are
\* not known, and they fit.
DiffOf(D, c, known, i) ==
    /\ D \in Seq(EventSet)
    /\ \A k \in 1..Len(D) : D[k] \in ToSet(c.store)
    /\ \A j \in 1..i : c.store[j].index > known[c.store[j].creator] =>
          \E k \in 1..Len(D) : D[k] = c.store[j]
    /\ Fits(D, known)

\* One more event.
LEMMA DiffStep ==
    ASSUME NEW c, c.store \in Seq(EventSet), Topological(c),
           NEW known \in [Nodes -> Int], \A m \in Nodes : known[m] >= NoEvent,
           NEW i \in 1..Len(c.store), NEW D, DiffOf(D, c, known, i - 1)
    PROVE  DiffOf(DiffAdd(D, c.store[i], known), c, known, i)
<1> DEFINE s == c.store
           e == s[i]
<1>1. e \in EventSet /\ e \in ToSet(s) /\ \A j \in 1..i : (j \in 1 .. i - 1 \/ j = i) /\ j \in 1..Len(s)
  BY DEF ToSet
<1>2. D \in Seq(EventSet) /\ Fits(D, known)
  BY DEF DiffOf
<1>3. CASE ~(e.index > known[e.creator])
  BY <1>1, <1>3 DEF DiffOf, DiffAdd
<1>4. CASE e.index > known[e.creator]
  <2>1. ASSUME NEW m \in Nodes, NEW x \in Int,
               x <= NoEvent \/ Before(s, i - 1, m, x)
        PROVE  x <= known[m] \/ Before(D, Len(D), m, x)
    <3>0. known[m] \in Int /\ known[m] >= NoEvent
      OBVIOUS
    <3>1. CASE x <= NoEvent
      BY <3>0, <3>1 DEF NoEvent
    <3>2. CASE Before(s, i - 1, m, x)
      <4>1. PICK j \in 1 .. i - 1 : s[j].creator = m /\ s[j].index >= x
        BY <3>2 DEF Before
      <4>2. j \in 1..Len(s)
        OBVIOUS
      <4>3. s[j].index \in Int
        BY <4>2, EventFields
      <4>4. CASE s[j].index > known[m]
        <5>1. \E k \in 1..Len(D) : D[k] = s[j]
          BY <4>1, <4>4 DEF DiffOf
        <5> QED  BY <4>1, <5>1 DEF Before
      <4>5. CASE ~(s[j].index > known[m])
        BY <3>0, <4>1, <4>3, <4>5
      <4> QED  BY <4>4, <4>5
    <3> QED  BY <2>1, <3>1, <3>2
  <2>2. /\ e.creator \in Nodes /\ e.other.creator \in Nodes
        /\ e.index - 1 \in Int /\ e.other.index \in Int
    BY <1>1, EventFields
  <2>3. /\ e.index - 1 <= NoEvent \/ Before(s, i - 1, e.creator, e.index - 1)
        /\ e.other.index <= NoEvent \/ Before(s, i - 1, e.other.creator, e.other.index)
    BY <2>2 DEF Topological, Fits
  <2>4. Fits(Append(D, e), known)
    BY <1>1, <1>2, <2>1, <2>2, <2>3, FitsAppend
  <2> DEFINE R == Append(D, e)
  <2>5. /\ R \in Seq(EventSet) /\ Len(R) = Len(D) + 1 /\ R[Len(D) + 1] = e
        /\ \A k \in 1..Len(D) : R[k] = D[k]
    BY <1>1, <1>2, MembersAppend
  <2>6. Len(D) \in Nat
    BY <1>2
  <2> HIDE DEF R
  <2>7. /\ \A k \in 1..Len(R) : k \in 1..Len(D) \/ k = Len(D) + 1
        /\ \A k \in 1..Len(D) : k \in 1..Len(R)
        /\ Len(D) + 1 \in 1..Len(R)
    BY <2>5, <2>6
  <2>8. \A k \in 1..Len(R) : R[k] \in ToSet(s)
    BY <1>1, <2>5, <2>7 DEF DiffOf
  <2>9. \A j \in 1..i : s[j].index > known[s[j].creator] => \E k \in 1..Len(R) : R[k] = s[j]
    BY <1>1, <2>5, <2>7 DEF DiffOf
  <2>10. DiffOf(R, c, known, i)
    BY <2>4, <2>5, <2>8, <2>9 DEF DiffOf, R
  <2> QED  BY <1>4, <2>10 DEF R, DiffAdd
<1> QED  BY <1>3, <1>4

\* eventDiff sends events of c that fit whoever knows known.
LEMMA DiffFits ==
    ASSUME NEW c, c.store \in Seq(EventSet), Topological(c),
           NEW known \in [Nodes -> Int], \A m \in Nodes : known[m] >= NoEvent
    PROVE  /\ eventDiff(c, known) \in Seq(EventSet)
           /\ ToSet(eventDiff(c, known)) \subseteq ToSet(c.store)
           /\ Fits(eventDiff(c, known), known)
<1> DEFINE n == Len(c.store)
           f == CHOOSE g : IsDiff(g, c.store, known, n)
<1>0. n \in Nat
  OBVIOUS
<1>1. eventDiff(c, known) = f[n]
  BY Zenon DEF eventDiff, IsDiff, DiffAdd
<1>2. IsDiff(f, c.store, known, n)
  BY <1>0, DiffExists, Zenon
<1> HIDE DEF f, n
<1>3. f[0] = <<>> /\ \A k \in 1..n : f[k] = DiffAdd(f[k - 1], c.store[k], known)
  BY <1>0, <1>2 DEF IsDiff
<1> DEFINE T == {i \in Nat : i <= n /\ ~DiffOf(f[i], c, known, i)}
<1>4. T = {}
  <2> SUFFICES ASSUME T # {}  PROVE FALSE
    OBVIOUS
  <2>1. PICK i \in T : \A j \in T : i <= j
    BY LeastNatural, Zenon
  <2>2. i # 0
    <3>1. DiffOf(<<>>, c, known, 0)
      BY DEF DiffOf, Fits
    <3> QED  BY <1>3, <3>1
  <2>3. i \in 1..n /\ i - 1 \in Nat /\ ~(i <= i - 1) /\ i - 1 <= n
    BY <1>0, <2>2
  <2>4. DiffOf(f[i - 1], c, known, i - 1)
    BY <2>1, <2>3
  <2>5. DiffOf(f[i], c, known, i)
    BY <1>3, <2>3, <2>4, DiffStep DEF n
  <2> QED  BY <2>5
<1>5. DiffOf(f[n], c, known, n)
  BY <1>0, <1>4
<1> QED  BY <1>1, <1>5, Members DEF DiffOf

-----------------------------------------------------------------------------
(***************************************************************************)
(* Insertion.                                                              *)
(***************************************************************************)

\* The stores of v have what those of w have.
Grows(w, v) == \A n \in Nodes : ToSet(w[n].store) \subseteq ToSet(v[n].store)

\* LastFrom says no less in a larger store.
LEMMA LastFromGrows ==
    ASSUME NEW c, c.store \in Seq(EventSet), NEW d, d.store \in Seq(EventSet),
           ToSet(c.store) \subseteq ToSet(d.store), NEW m
    PROVE  LastFrom(c, m) <= LastFrom(d, m)
<1>1. /\ LastFrom(c, m) \in Int /\ LastFrom(d, m) \in Int /\ LastFrom(d, m) >= NoEvent
      /\ \A e \in ToSet(d.store) : e.creator = m => e.index <= LastFrom(d, m)
      /\ LastFrom(c, m) # NoEvent =>
                 \E e \in ToSet(c.store) : e.creator = m /\ e.index = LastFrom(c, m)
  BY LastFromIs
<1>2. CASE LastFrom(c, m) = NoEvent
  BY <1>1, <1>2 DEF NoEvent
<1>3. CASE LastFrom(c, m) # NoEvent
  BY <1>1, <1>3
<1> QED  BY <1>2, <1>3

\* What LastFrom says depends on the store alone.
LEMMA LastFromStore ==
    ASSUME NEW c, NEW d, d.store = c.store, NEW m
    PROVE  LastFrom(d, m) = LastFrom(c, m)
BY DEF LastFrom

\* The store of d is that of c and one more event.
Adds(d, c, e) == d.store = Append(c.store, e)

\* After the next event of its creator.
LEMMA LastFromAppend ==
    ASSUME NEW c, c.store \in Seq(EventSet), NEW e \in EventSet, checkSelfParent(c, e),
           NEW d, Adds(d, c, e), NEW m
    PROVE  /\ m = e.creator => LastFrom(d, m) = e.index
           /\ m # e.creator => LastFrom(d, m) = LastFrom(c, m)
<1>1. d.store \in Seq(EventSet) /\ ToSet(d.store) = ToSet(c.store) \cup {e}
  BY MembersAppend DEF Adds
<1>2. /\ LastFrom(c, m) \in Int /\ LastFrom(c, m) >= NoEvent
      /\ \A x \in ToSet(c.store) : x.creator = m => x.index <= LastFrom(c, m)
  BY LastFromIs
<1>3. /\ LastFrom(d, m) \in Int
      /\ \A x \in ToSet(d.store) : x.creator = m => x.index <= LastFrom(d, m)
      /\ LastFrom(d, m) # NoEvent =>
            \E x \in ToSet(d.store) : x.creator = m /\ x.index = LastFrom(d, m)
  BY <1>1, LastFromIs
<1>4. LastFrom(c, m) <= LastFrom(d, m)
  BY <1>1, LastFromGrows
<1>5. e.index \in Nat /\ e.index - 1 = LastFrom(c, e.creator)
  BY EventFields DEF checkSelfParent
<1>6. CASE m = e.creator
  <2>1. e.index <= LastFrom(d, m)
    BY <1>1, <1>3, <1>6
  <2>2. PICK x \in ToSet(d.store) : x.creator = m /\ x.index = LastFrom(d, m)
    BY <1>3, <1>5, <2>1 DEF NoEvent
  <2>3. CASE x = e
    BY <1>6, <2>2, <2>3
  <2>4. CASE x \in ToSet(c.store)
    BY <1>2, <1>3, <1>5, <1>6, <2>1, <2>2, <2>4
  <2> QED  BY <1>1, <2>3, <2>4
<1>7. CASE m # e.creator
  <2>1. CASE LastFrom(d, m) = NoEvent
    BY <1>2, <1>4, <1>7, <2>1 DEF NoEvent
  <2>2. CASE LastFrom(d, m) # NoEvent
    <3>1. PICK x \in ToSet(c.store) : x.creator = m /\ x.index = LastFrom(d, m)
      BY <1>1, <1>3, <1>7, <2>2
    <3> QED  BY <1>2, <1>3, <1>4, <1>7, <3>1
  <2> QED  BY <2>1, <2>2
<1> QED  BY <1>6, <1>7

\* The events up to LastFrom are somewhere in the store.
LEMMA KnownBefore ==
    ASSUME NEW c, c.store \in Seq(EventSet), NEW m, NEW i \in Int, i <= LastFrom(c, m)
    PROVE  i <= NoEvent \/ Before(c.store, Len(c.store), m, i)
<1>1. /\ LastFrom(c, m) \in Int
      /\ LastFrom(c, m) # NoEvent =>
                 \E e \in ToSet(c.store) : e.creator = m /\ e.index = LastFrom(c, m)
  BY LastFromIs
<1>2. CASE LastFrom(c, m) = NoEvent
  BY <1>2
<1>3. CASE LastFrom(c, m) # NoEvent
  <2>1. PICK e \in ToSet(c.store) : e.creator = m /\ e.index = LastFrom(c, m)
    BY <1>1, <1>3
  <2>2. PICK k \in 1..Len(c.store) : c.store[k] = e
    BY Members
  <2> QED  BY <1>1, <2>1, <2>2 DEF Before
<1> QED  BY <1>2, <1>3

\* A store with one more event, whose parents it knows, is still in order.
LEMMA AppendTopological ==
    ASSUME NEW c, c.store \in Seq(EventSet), Topological(c),
           NEW e \in EventSet, ParentsKnown(c, e), NEW d, d.store = Append(c.store, e)
    PROVE  Topological(d)
<1> DEFINE none == [m \in Nodes |-> NoEvent]
<1>1. /\ e.creator \in Nodes /\ e.other.creator \in Nodes
      /\ e.index - 1 \in Int /\ e.other.index \in Int
  BY EventFields
<1>2. none[e.creator] = NoEvent /\ none[e.other.creator] = NoEvent
  BY <1>1
<1>3. /\ e.index - 1 <= NoEvent \/ Before(c.store, Len(c.store), e.creator, e.index - 1)
      /\ \/ e.other.index <= NoEvent
         \/ Before(c.store, Len(c.store), e.other.creator, e.other.index)
  BY <1>1, KnownBefore DEF ParentsKnown
<1>4. Fits(c.store, none)
  BY DEF Topological
<1> HIDE DEF none
<1>5. Fits(Append(c.store, e), none)
  BY <1>2, <1>3, <1>4, FitsAppend
<1> QED  BY <1>5 DEF Topological, none

\* The fields of a core.
LEMMA CoreFields ==
    ASSUME NEW c \in CoreSet
    PROVE  /\ c.store \in Seq(EventSet) /\ c.seq \in Int /\ c.pool \in Seq(Txs)
           /\ c.heads \in [Nodes -> Int] /\ \A m \in Nodes : c.heads[m] \in Int
BY DEF CoreSet

\* An event is stored: one that n makes, or one that its creator has.
LEMMA AppendStores ==
    ASSUME NEW w, StoresInv(w), NEW n \in Nodes, NEW e \in EventSet,
           ParentsKnown(w[n], e), checkSelfParent(w[n], e),
           e.creator = n \/ e \in ToSet(w[e.creator].store),
           NEW d \in CoreSet, d.store = Append(w[n].store, e), d.heads = w[n].heads,
           NoEvent <= d.seq, d.seq <= LastFrom(d, n),
           NEW v, v = [w EXCEPT ![n] = d]
    PROVE  StoresInv(v) /\ Grows(w, v)
<1>1. w \in [Nodes -> CoreSet]
  BY DEF StoresInv
<1>2. v \in [Nodes -> CoreSet] /\ v[n] = d /\ \A m \in Nodes : m # n => v[m] = w[m]
  BY <1>1
<1>3. w[n] \in CoreSet /\ w[n].store \in Seq(EventSet)
  BY <1>1, CoreFields
<1>4. ToSet(d.store) = ToSet(w[n].store) \cup {e}
  BY <1>3, MembersAppend
<1>5. Grows(w, v)
  BY <1>2, <1>4, Zenon DEF Grows
<1>6. \A m \in Nodes : Topological(v[m])
  <2>1. Topological(d)
    BY <1>3, AppendTopological DEF StoresInv
  <2> QED  BY <1>2, <2>1 DEF StoresInv
<1>7. OwnStored(v)
  <2> SUFFICES ASSUME NEW m \in Nodes, NEW x \in ToSet(v[m].store)
               PROVE  x \in ToSet(v[x.creator].store)
    BY DEF OwnStored
  <2>1. v[m].store \in Seq(EventSet)
    BY <1>2, CoreFields
  <2>2. x.creator \in Nodes
    BY <2>1, Members, EventFields
  <2>3. CASE x \in ToSet(w[m].store)
    <3>1. x \in ToSet(w[x.creator].store)
      BY <2>3 DEF StoresInv, OwnStored
    <3> QED  BY <1>5, <2>2, <3>1 DEF Grows
  <2>4. CASE x = e
    BY <1>2, <1>4, <1>5, <2>2, <2>4, Zenon DEF Grows
  <2> QED  BY <1>2, <1>4, <2>3, <2>4, Zenon
<1>8. OwnUnique(v)
  <2>1. ASSUME NEW x \in ToSet(w[n].store), e.creator = n, x.creator = n  PROVE x.index # e.index
    <3>1. x.index <= LastFrom(w[n], n) /\ LastFrom(w[n], n) \in Int
      BY <1>3, <2>1, LastFromIs
    <3>2. e.index - 1 = LastFrom(w[n], n) /\ e.index \in Nat
      BY <2>1, EventFields DEF checkSelfParent
    <3>3. x.index \in Nat
      BY <1>3, Members, EventFields
    <3> QED  BY <3>1, <3>2, <3>3
  <2> SUFFICES ASSUME NEW m \in Nodes, NEW x \in ToSet(v[m].store), NEW y \in ToSet(v[m].store),
                      x.creator = m, y.creator = m, x.index = y.index
               PROVE  x = y
    BY DEF OwnUnique
  <2>2. CASE x \in ToSet(w[m].store) /\ y \in ToSet(w[m].store)
    BY <2>2 DEF StoresInv, OwnUnique
  <2>3. CASE ~(x \in ToSet(w[m].store) /\ y \in ToSet(w[m].store))
    <3>1. m = n /\ (x = e \/ y = e)
      BY <1>2, <1>4, <2>3, Zenon
    <3>2. x \in ToSet(w[n].store) \cup {e} /\ y \in ToSet(w[n].store) \cup {e}
      BY <1>2, <1>4, <3>1, Zenon
    <3> QED  BY <2>1, <3>1, <3>2
  <2> QED  BY <2>2, <2>3
<1>9. HeadsStored(v)
  <2>1. ASSUME NEW m \in Nodes  PROVE d.heads[m] <= LastFrom(d, m)
    <3>1. d.store \in Seq(EventSet) /\ ToSet(w[n].store) \subseteq ToSet(d.store)
      BY <1>4, CoreFields, Zenon
    <3>2. LastFrom(w[n], m) <= LastFrom(d, m)
      BY <1>3, <3>1, LastFromGrows, Zenon
    <3>3. LastFrom(w[n], m) \in Int /\ LastFrom(d, m) \in Int
      BY <1>3, <3>1, LastFromIs
    <3>4. d.heads[m] \in Int /\ d.heads[m] <= LastFrom(w[n], m)
      BY CoreFields DEF StoresInv, HeadsStored
    <3> QED  BY <3>2, <3>3, <3>4
  <2> QED  BY <1>2, <2>1 DEF StoresInv, HeadsStored
<1> QED  BY <1>2, <1>5, <1>6, <1>7, <1>8, <1>9 DEF StoresInv

\* The heads and the pool change, the store does not.
LEMMA SameStores ==
    ASSUME NEW w, StoresInv(w), NEW n \in Nodes,
           NEW d \in CoreSet, d.store = w[n].store, d.seq = w[n].seq,
           \A m \in Nodes : d.heads[m] <= LastFrom(d, m),
           NEW v, v = [w EXCEPT ![n] = d]
    PROVE  StoresInv(v) /\ Grows(w, v)
<1>1. w \in [Nodes -> CoreSet]
  BY DEF StoresInv
<1>2. v \in [Nodes -> CoreSet] /\ v[n] = d /\ \A m \in Nodes : m # n => v[m] = w[m]
  BY <1>1
<1>3. \A m \in Nodes : v[m].store = w[m].store /\ v[m].seq = w[m].seq
  BY <1>2
<1>4. \A m \in Nodes : Topological(v[m])
  BY <1>3 DEF StoresInv, Topological
<1>5. OwnStored(v)
  <2> SUFFICES ASSUME NEW m \in Nodes, NEW x \in ToSet(w[m].store)
               PROVE  x \in ToSet(v[x.creator].store)
    BY <1>3 DEF OwnStored
  <2>1. w[m].store \in Seq(EventSet)
    BY <1>1, CoreFields
  <2>2. x.creator \in Nodes
    BY <2>1, Members, EventFields
  <2> QED  BY <1>3, <2>2 DEF StoresInv, OwnStored
<1>6. OwnUnique(v)
  BY <1>3 DEF StoresInv, OwnUnique
<1>7. \A m, k \in Nodes : LastFrom(v[m], k) = LastFrom(w[m], k)
  BY <1>3, LastFromStore
<1>8. HeadsStored(v)
  <2>1. \A m \in Nodes : m # n => \A k \in Nodes : v[m].heads[k] <= LastFrom(v[m], k)
    BY <1>2, <1>7 DEF StoresInv, HeadsStored
  <2> QED  BY <1>2, <1>3, <1>7, <2>1 DEF StoresInv, HeadsStored
<1> QED  BY <1>2, <1>3, <1>4, <1>5, <1>6, <1>8 DEF StoresInv, Grows

\* Every stored event is an event, and its creator has it.
LEMMA StoredEvents ==
    ASSUME NEW w, StoresInv(w), NEW e \in Stored(w)
    PROVE  e \in EventSet /\ e \in ToSet(w[e.creator].store)
<1>1. PICK n \in Nodes : e \in ToSet(w[n].store)
  BY DEF Stored
<1>2. w[n].store \in Seq(EventSet)
  BY CoreFields DEF StoresInv
<1> QED  BY <1>1, <1>2, Members DEF StoresInv, OwnStored

\* The transactions stay where they are when the stores, taken together, the
\* pools, and whether a creator is stuck do not change.
LEMMA SameTxs ==
    ASSUME NEW w, TxInv(w), NEW v, Stored(v) = Stored(w),
           \A n \in Nodes : /\ v[n].pool = w[n].pool /\ v[n].seq = w[n].seq
                            /\ LastFrom(v[n], n) = LastFrom(w[n], n)
    PROVE  TxInv(v)
<1>1. PoolsApart(v)
  BY DEF TxInv, PoolsApart
<1>2. EventsApart(v)
  BY DEF TxInv, EventsApart
<1>3. PoolStuck(v)
  BY DEF TxInv, PoolStuck
<1>4. NoneLost(v)
  BY DEF TxInv, NoneLost
<1> QED  BY <1>1, <1>2, <1>3, <1>4 DEF TxInv

\* v has one more event, which n made of its pool.
Creates(w, v, n, e) ==
    /\ Stored(v) = Stored(w) \cup {e}
    /\ \A m \in Nodes : m # n => v[m] = w[m]
    /\ e.creator = n /\ e.txs = w[n].pool
    /\ \/ v[n].pool = <<>>
       \/ v[n].pool = w[n].pool /\ v[n].seq < LastFrom(v[n], n)

\* A self-event takes the transactions of the pool.
LEMMA CreateTxs ==
    ASSUME NEW w, StoresInv(w), TxInv(w), NEW n \in Nodes, NEW e \in EventSet,
           w[n].seq = LastFrom(w[n], n), NEW v, Creates(w, v, n, e)
    PROVE  TxInv(v)
<1> USE DEF Creates
<1>1. w[n].seq \in Int
  BY CoreFields DEF StoresInv
<1>2. ASSUME NEW d \in Stored(w), NEW t \in ToSet(w[n].pool)  PROVE t \notin ToSet(d.txs)
  BY <1>1 DEF TxInv, PoolStuck
<1>3. ToSet(v[n].pool) \subseteq ToSet(w[n].pool)
  <2>1. ToSet(<<>>) = {}
    BY DEF ToSet
  <2> QED  BY <2>1
<1>4. IsInjective(v[n].pool)
  <2>1. IsInjective(<<>>)
    BY DEF IsInjective
  <2> QED  BY <2>1 DEF TxInv, PoolsApart
<1>5. \A m \in Nodes : ToSet(v[m].pool) \subseteq ToSet(w[m].pool) /\ IsInjective(v[m].pool)
  BY <1>3, <1>4 DEF TxInv, PoolsApart
<1>6. PoolsApart(v)
  BY <1>5, Zenon DEF TxInv, PoolsApart
<1>7. IsInjective(e.txs) /\ ToSet(e.txs) \subseteq submitted
  BY DEF TxInv, PoolsApart
<1>8. EventsApart(v)
  <2> SUFFICES ASSUME NEW x \in Stored(w) \cup {e}
               PROVE  /\ IsInjective(x.txs) /\ ToSet(x.txs) \subseteq submitted
                      /\ \A d \in Stored(w) \cup {e} :
                            \A t \in ToSet(x.txs) : t \in ToSet(d.txs) => d = x
    BY Zenon DEF EventsApart
  <2>1. CASE x = e
    BY <1>2, <1>7, <2>1
  <2>2. CASE x \in Stored(w)
    BY <1>2, <2>2 DEF TxInv, EventsApart
  <2> QED  BY <2>1, <2>2
<1>9. PoolStuck(v)
  <2> SUFFICES ASSUME NEW m \in Nodes, NEW x \in Stored(w) \cup {e},
                      NEW t \in ToSet(v[m].pool), t \in ToSet(x.txs)
               PROVE  x.creator = m /\ v[m].seq < LastFrom(v[m], m)
    BY DEF PoolStuck
  <2>1. CASE m = n
    <3>1. x = e
      BY <1>2, <1>3, <2>1
    <3>2. ToSet(<<>>) = {}
      BY DEF ToSet
    <3> QED  BY <2>1, <3>1, <3>2
  <2>2. CASE m # n
    <3>1. t \in ToSet(w[m].pool) /\ v[m] = w[m]
      BY <2>2
    <3>2. x # e
      BY <2>2, <3>1 DEF TxInv, PoolsApart
    <3> QED  BY <3>1, <3>2 DEF TxInv, PoolStuck
  <2> QED  BY <2>1, <2>2
<1>10. NoneLost(v)
  <2> SUFFICES ASSUME NEW t \in submitted
               PROVE  \/ \E m \in Nodes : t \in ToSet(v[m].pool)
                      \/ \E x \in Stored(w) \cup {e} : t \in ToSet(x.txs)
    BY DEF NoneLost
  <2>1. CASE \E x \in Stored(w) : t \in ToSet(x.txs)
    BY <2>1
  <2>2. CASE \E m \in Nodes : t \in ToSet(w[m].pool)
    <3>1. PICK m \in Nodes : t \in ToSet(w[m].pool)
      BY <2>2
    <3>2. CASE m = n
      BY <3>1, <3>2
    <3>3. CASE m # n
      BY <3>1, <3>3
    <3> QED  BY <3>2, <3>3
  <2> QED  BY <2>1, <2>2 DEF TxInv, NoneLost
<1> QED  BY <1>6, <1>8, <1>9, <1>10 DEF TxInv

\* What insertEvent returns for an event that it inserts.
LEMMA Inserted ==
    ASSUME NEW n, NEW c \in CoreSet, NEW e \in EventSet, NEW fails,
           ParentsKnown(c, e), checkSelfParent(c, e), NEW s, s = insertEvent(n, c, e, fails)
    PROVE  /\ s = [status |-> s.status, core |-> s.core]
           /\ s.status \in {"ok", "failed"}
           /\ s.core \in CoreSet
           /\ s.core.store = Append(c.store, e)
           /\ s.core.heads = c.heads /\ s.core.pool = c.pool
           /\ e.creator = n /\ s.status = "ok" => s.core.seq = e.index
           /\ e.creator # n \/ s.status = "failed" => s.core.seq = c.seq
<1>1. s = [status |-> IF fails THEN "failed" ELSE "ok",
           core |-> [c EXCEPT !.store = Append(@, e),
                              !.seq = IF e.creator = n /\ ~fails THEN e.index ELSE @]]
  BY DEF insertEvent
<1>2. e.index \in Int
  BY EventFields
<1>3. Append(c.store, e) \in Seq(EventSet)
  BY CoreFields, MembersAppend
<1> DEFINE q == Append(c.store, e)
           i == IF e.creator = n /\ ~fails THEN e.index ELSE c.seq
<1>4. s.core = [c EXCEPT !.store = q, !.seq = i]
  BY <1>1
<1>5. i \in Int
  BY <1>2, CoreFields
<1>6. q \in Seq(EventSet)
  BY <1>3
<1>7. s = [status |-> s.status, core |-> s.core] /\ s.status = IF fails THEN "failed" ELSE "ok"
  BY <1>1
<1> HIDE DEF q, i
<1>8. /\ s.core \in CoreSet /\ s.core.store = q /\ s.core.seq = i
      /\ s.core.heads = c.heads /\ s.core.pool = c.pool
  BY <1>4, <1>5, <1>6, Zenon DEF CoreSet
<1> QED  BY <1>7, <1>8 DEF q, i

\* An event that some node has is taken in, or was there already.
LEMMA ReceiveEvent ==
    ASSUME NEW w, CoresInv(w), NEW n \in Nodes, NEW e \in Stored(w), NEW fails,
           ParentsKnown(w[n], e), NEW s, s = insertEvent(n, w[n], e, fails),
           NEW v, v = [w EXCEPT ![n] = s.core]
    PROVE  /\ CoresInv(v) /\ Grows(w, v)
           /\ s.status \in {"ok", "normal", "failed"} /\ s.core \in CoreSet
           /\ e.index <= LastFrom(s.core, e.creator)
<1>1. w \in [Nodes -> CoreSet] /\ w[n] \in CoreSet /\ StoresInv(w) /\ TxInv(w)
  BY DEF CoresInv, StoresInv
<1>2. e \in EventSet /\ e \in ToSet(w[e.creator].store)
  BY <1>1, StoredEvents
<1>3. e.index \in Nat /\ e.creator \in Nodes
  BY <1>2, EventFields
<1>4. w[n].store \in Seq(EventSet)
  BY <1>1, CoreFields
<1>5. LastFrom(w[n], e.creator) \in Int
  BY <1>4, LastFromIs
<1>6. CASE ~checkSelfParent(w[n], e)
  <2>1. s = [status |-> "normal", core |-> w[n]]
    BY <1>6 DEF insertEvent
  <2>2. v = w
    BY <1>1, <2>1
  <2>3. e.index <= LastFrom(w[n], e.creator)
    BY <1>3, <1>5, <1>6 DEF ParentsKnown, checkSelfParent
  <2>4. s.status = "normal" /\ s.core = w[n]
    BY <2>1
  <2>5. Grows(w, v)
    BY <2>2 DEF Grows
  <2> QED  BY <1>1, <2>2, <2>3, <2>4, <2>5, Zenon
<1>7. CASE checkSelfParent(w[n], e)
  <2>1. e.creator # n
    <3>1. SUFFICES ASSUME e.creator = n  PROVE FALSE
      OBVIOUS
    <3>2. e.index <= LastFrom(w[n], n)
      BY <1>2, <1>4, <3>1, LastFromIs
    <3> QED  BY <1>3, <1>5, <1>7, <3>1, <3>2 DEF checkSelfParent
  <2>2. /\ s.status \in {"ok", "failed"} /\ s.core \in CoreSet
        /\ s.core.store = Append(w[n].store, e) /\ s.core.heads = w[n].heads
        /\ s.core.pool = w[n].pool /\ s.core.seq = w[n].seq
    BY <1>1, <1>2, <1>7, <2>1, Inserted
  <2>3. /\ LastFrom(s.core, e.creator) = e.index
        /\ LastFrom(s.core, n) = LastFrom(w[n], n)
    <3>1. Adds(s.core, w[n], e)
      BY <2>2 DEF Adds
    <3> QED  BY <1>2, <1>4, <1>7, <2>1, <3>1, LastFromAppend
  <2>4. NoEvent <= s.core.seq /\ s.core.seq <= LastFrom(s.core, n)
    BY <1>1, <2>2, <2>3 DEF StoresInv, HeadsStored
  <2>5. StoresInv(v) /\ Grows(w, v)
    BY <1>1, <1>2, <1>7, <2>2, <2>4, AppendStores, Zenon
  <2>6. v[n] = s.core /\ \A m \in Nodes : m # n => v[m] = w[m]
    BY <1>1
  <2>7. ToSet(v[n].store) = ToSet(w[n].store) \cup {e}
    <3>1. ToSet(Append(w[n].store, e)) = ToSet(w[n].store) \cup {e}
      BY <1>2, <1>4, MembersAppend
    <3> QED  BY <2>2, <2>6, <3>1, Zenon
  <2>8. Stored(v) = Stored(w)
    <3>1. Stored(v) \subseteq Stored(w)
      BY <2>6, <2>7 DEF Stored
    <3>2. Stored(w) \subseteq Stored(v)
      BY <2>5 DEF Stored, Grows
    <3> QED  BY <3>1, <3>2, Zenon
  <2>9. TxInv(v)
    BY <1>1, <2>2, <2>3, <2>6, <2>8, SameTxs, Zenon
  <2> QED  BY <1>3, <2>2, <2>3, <2>5, <2>9 DEF CoresInv
<1> QED  BY <1>6, <1>7

\* A self-event is made, or it is too early for one, or the creator is stuck.
LEMMA SelfEvent ==
    ASSUME NEW w, CoresInv(w), NEW n \in Nodes, NEW m \in Nodes, NEW i \in Int,
           i <= LastFrom(w[n], m), NEW fails, NEW s, s = addSelfEvent(n, w[n], m, i, fails),
           NEW v, v = [w EXCEPT ![n] = s.core]
    PROVE  /\ CoresInv(v) /\ Grows(w, v)
           /\ s = [status |-> s.status, core |-> s.core]
           /\ s.status \in {"ok", "normal", "failed"} /\ s.core \in CoreSet
<1>1. w \in [Nodes -> CoreSet] /\ w[n] \in CoreSet /\ StoresInv(w) /\ TxInv(w)
  BY DEF CoresInv, StoresInv
<1> DEFINE c == w[n]
           e == [creator |-> n, index |-> c.seq + 1,
                 other |-> [creator |-> m, index |-> i], txs |-> c.pool]
           r == insertEvent(n, c, e, fails)
<1>2. c.seq \in Int /\ NoEvent <= c.seq /\ c.seq <= LastFrom(c, n) /\ c.pool \in Seq(Txs)
      /\ c.store \in Seq(EventSet)
  BY <1>1, CoreFields DEF StoresInv, HeadsStored
<1>3. LastFrom(c, n) \in Int
  BY <1>2, LastFromIs
<1>4. c.seq + 1 \in Nat
  BY <1>2 DEF NoEvent
<1>5. e \in EventSet
  BY <1>2, <1>4 DEF EventSet
<1>6. /\ e.creator = n /\ e.index = c.seq + 1 /\ e.txs = c.pool
      /\ e.other.creator = m /\ e.other.index = i
  OBVIOUS
<1>7. \/ s = [status |-> "ok", core |-> c]
      \/ s = [r EXCEPT !.core.pool = IF r.status = "ok" THEN <<>> ELSE @]
  BY DEF addSelfEvent
<1> HIDE DEF e
<1>8. ParentsKnown(c, e)
  BY <1>2, <1>3, <1>6 DEF ParentsKnown
<1>9. CASE s.core = c /\ s = [status |-> s.status, core |-> s.core]
           /\ s.status \in {"ok", "normal"}
  <2>1. v = w
    BY <1>1, <1>9
  <2> QED  BY <1>1, <1>9, <2>1, Zenon DEF Grows
<1>10. CASE s = [status |-> "ok", core |-> c]
  BY <1>9, <1>10
<1>11. CASE s = [r EXCEPT !.core.pool = IF r.status = "ok" THEN <<>> ELSE @]
            /\ ~checkSelfParent(c, e)
  <2>1. r = [status |-> "normal", core |-> c]
    BY <1>8, <1>11 DEF insertEvent
  <2>2. [c EXCEPT !.pool = c.pool] = c
    BY <1>1 DEF CoreSet
  <2>3. s = [status |-> "normal", core |-> c]
    BY <1>11, <2>1, <2>2
  <2> QED  BY <1>9, <2>3
<1>12. CASE s = [r EXCEPT !.core.pool = IF r.status = "ok" THEN <<>> ELSE @]
            /\ checkSelfParent(c, e)
  <2>1. /\ r = [status |-> r.status, core |-> r.core]
        /\ r.status \in {"ok", "failed"}
        /\ r.core \in CoreSet
        /\ r.core.store = Append(c.store, e)
        /\ r.core.heads = c.heads /\ r.core.pool = c.pool
        /\ r.status = "ok" => r.core.seq = e.index
        /\ r.status = "failed" => r.core.seq = c.seq
    BY <1>1, <1>5, <1>6, <1>8, <1>12, Inserted
  <2> HIDE DEF r
  <2> DEFINE p == IF r.status = "ok" THEN <<>> ELSE r.core.pool
             d == [r.core EXCEPT !.pool = p]
  <2>2. s = [status |-> r.status, core |-> d]
    BY <1>12, <2>1
  <2>3. p \in Seq(Txs)
    BY <1>2, <2>1
  <2>4. r.status = "ok" => p = <<>>
    OBVIOUS
  <2>5. r.status = "failed" => p = c.pool
    BY <2>1
  <2> HIDE DEF p
  <2>6. /\ d \in CoreSet /\ d.store = Append(c.store, e) /\ d.heads = c.heads
        /\ d.seq = r.core.seq /\ d.pool = p
    BY <2>1, <2>3, Zenon DEF CoreSet
  <2> HIDE DEF d
  <2>7. LastFrom(d, n) = e.index
    <3>1. Adds(d, c, e)
      BY <2>6 DEF Adds
    <3> QED  BY <1>2, <1>5, <1>6, <1>12, <3>1, LastFromAppend
  <2>8. LastFrom(c, n) = c.seq
    BY <1>2, <1>3, <1>6, <1>12 DEF checkSelfParent
  <2>9. s.core = d /\ s.status = r.status
    BY <2>2
  <2>10. NoEvent <= d.seq /\ d.seq <= LastFrom(d, n)
    BY <1>2, <1>4, <1>6, <2>1, <2>6, <2>7 DEF NoEvent
  <2>11. StoresInv(v) /\ Grows(w, v)
    BY <1>1, <1>5, <1>6, <1>8, <1>12, <2>6, <2>9, <2>10, AppendStores, Zenon
  <2>12. v[n] = d /\ \A k \in Nodes : k # n => v[k] = w[k]
    BY <1>1, <2>9
  <2>13. ToSet(v[n].store) = ToSet(c.store) \cup {e}
    <3>1. ToSet(Append(c.store, e)) = ToSet(c.store) \cup {e}
      BY <1>2, <1>5, MembersAppend
    <3> QED  BY <2>6, <2>12, <3>1, Zenon
  <2>14. Stored(v) = Stored(w) \cup {e}
    <3>1. Stored(v) \subseteq Stored(w) \cup {e}
      BY <2>12, <2>13 DEF Stored
    <3>2. Stored(w) \cup {e} \subseteq Stored(v)
      BY <2>11, <2>13 DEF Stored, Grows
    <3> QED  BY <3>1, <3>2, Zenon
  <2>15. \/ v[n].pool = <<>>
         \/ v[n].pool = w[n].pool /\ v[n].seq < LastFrom(v[n], n)
    <3>1. CASE r.status = "ok"
      BY <2>4, <2>6, <2>12, <3>1
    <3>2. CASE r.status = "failed"
      BY <1>2, <1>6, <2>1, <2>5, <2>6, <2>7, <2>12, <3>2
    <3> QED  BY <2>1, <3>1, <3>2
  <2>16. TxInv(v)
    <3>1. Creates(w, v, n, e)
      BY <1>6, <2>12, <2>14, <2>15, Zenon DEF Creates
    <3> QED  BY <1>1, <1>5, <2>8, <3>1, CreateTxs
  <2> QED  BY <2>1, <2>2, <2>6, <2>9, <2>11, <2>16 DEF CoresInv
<1> QED  BY <1>7, <1>10, <1>11, <1>12

\* d is c but for its heads, and v is w with d for the core of n.
HeadsAre(d, c, hh) == d = [c EXCEPT !.heads = hh]
HeadIs(d, c, m, i) == d = [c EXCEPT !.heads[m] = i]
CoreIs(v, w, n, d) == v = [w EXCEPT ![n] = d]

\* Heads are deleted, or set to something that is there.
LEMMA ChangeHeads ==
    ASSUME NEW w, CoresInv(w), NEW n \in Nodes, NEW c \in CoreSet, c = w[n],
           NEW hh \in [Nodes -> Int], \A m \in Nodes : hh[m] <= LastFrom(c, m),
           NEW d, HeadsAre(d, c, hh), NEW v, CoreIs(v, w, n, d)
    PROVE  d \in CoreSet /\ d.store = c.store /\ CoresInv(v) /\ Grows(w, v)
<1>1. w \in [Nodes -> CoreSet] /\ StoresInv(w) /\ TxInv(w)
  BY DEF CoresInv, StoresInv
<1>4. /\ d \in CoreSet /\ d.store = c.store /\ d.seq = c.seq /\ d.pool = c.pool /\ d.heads = hh
  BY Zenon DEF CoreSet, HeadsAre
<1>5. \A k \in Nodes : LastFrom(d, k) = LastFrom(c, k)
  BY <1>4, LastFromStore
<1>7. \A k \in Nodes : d.heads[k] <= LastFrom(d, k)
  BY <1>4, <1>5
<1>8. StoresInv(v) /\ Grows(w, v)
  BY <1>1, <1>4, <1>7, SameStores, Zenon DEF CoreIs
<1>9. v[n] = d /\ \A k \in Nodes : k # n => v[k] = w[k]
  BY <1>1 DEF CoreIs
<1>10. \A k \in Nodes : /\ v[k].store = w[k].store /\ v[k].pool = w[k].pool
                        /\ v[k].seq = w[k].seq /\ LastFrom(v[k], k) = LastFrom(w[k], k)
  BY <1>4, <1>5, <1>9
<1>11. Stored(v) = Stored(w)
  BY <1>10 DEF Stored
<1>12. TxInv(v)
  BY <1>1, <1>10, <1>11, SameTxs
<1> QED  BY <1>4, <1>8, <1>12 DEF CoresInv

\* A head of a core is deleted, or set to something that is there.
LEMMA ChangeHead ==
    ASSUME NEW w, CoresInv(w), NEW n \in Nodes, NEW c \in CoreSet, c = w[n],
           NEW m \in Nodes, NEW i \in Int, i <= LastFrom(c, m),
           NEW d, HeadIs(d, c, m, i), NEW v, CoreIs(v, w, n, d)
    PROVE  d \in CoreSet /\ d.store = c.store /\ CoresInv(v) /\ Grows(w, v)
<1> DEFINE hh == [c.heads EXCEPT ![m] = i]
<1>1. hh \in [Nodes -> Int] /\ hh[m] = i /\ \A k \in Nodes : k # m => hh[k] = c.heads[k]
  BY CoreFields
<1>2. HeadsAre(d, c, hh)
  BY DEF HeadsAre, HeadIs
<1> HIDE DEF hh
<1>3. \A k \in Nodes : c.heads[k] <= LastFrom(c, k)
  BY DEF CoresInv, StoresInv, HeadsStored
<1>4. \A k \in Nodes : hh[k] <= LastFrom(c, k)
  BY <1>1, <1>3
<1> QED  BY <1>1, <1>2, <1>4, ChangeHeads

\* r is what a part of a sync leaves at n: the invariant holds with it.
Took(w, n, r) ==
    /\ r.status \in {"ok", "normal", "failed"}
    /\ r.core \in CoreSet
    /\ CoresInv([w EXCEPT ![n] = r.core])
    /\ Grows(w, [w EXCEPT ![n] = r.core])

\* One part after the other.
LEMMA TookBoth ==
    ASSUME NEW w, w \in [Nodes -> CoreSet], NEW n \in Nodes, NEW r, Took(w, n, r),
           NEW u, u = [w EXCEPT ![n] = r.core], NEW s, Took(u, n, s)
    PROVE  Took(w, n, s)
<1>1. [u EXCEPT ![n] = s.core] = [w EXCEPT ![n] = s.core]
  BY Zenon
<1>2. CoresInv([w EXCEPT ![n] = s.core]) /\ Grows(u, [w EXCEPT ![n] = s.core]) /\ Grows(w, u)
  BY <1>1 DEF Took
<1>3. Grows(w, [w EXCEPT ![n] = s.core])
  BY <1>2 DEF Grows
<1> QED  BY <1>2, <1>3 DEF Took

\* recordHeads, for one head.
LEMMA RecordOne ==
    ASSUME NEW w, CoresInv(w), NEW n \in Nodes, NEW m \in Nodes, NEW fails
    PROVE  Took(w, n, recordHead(n, w[n], m, fails))
<1> DEFINE a == addSelfEvent(n, w[n], m, w[n].heads[m], fails)
           u == [w EXCEPT ![n] = a.core]
           s == recordHead(n, w[n], m, fails)
<1>1. w \in [Nodes -> CoreSet] /\ w[n] \in CoreSet
  BY DEF CoresInv, StoresInv
<1>2. w[n].heads[m] \in Int /\ w[n].heads[m] <= LastFrom(w[n], m)
  BY <1>1, CoreFields DEF CoresInv, StoresInv, HeadsStored
<1>3. /\ CoresInv(u) /\ Grows(w, u) /\ a = [status |-> a.status, core |-> a.core]
      /\ a.status \in {"ok", "normal", "failed"} /\ a.core \in CoreSet
  BY <1>2, SelfEvent
<1>4. s = IF a.status = "ok" THEN [a EXCEPT !.core.heads[m] = Absent] ELSE a
  BY DEF recordHead
<1> HIDE DEF a, s
<1>5. u[n] = a.core
  BY <1>1
<1>6. Took(w, n, a)
  BY <1>3 DEF Took
<1>7. CASE a.status # "ok"
  BY <1>4, <1>6, <1>7 DEF s
<1>8. CASE a.status = "ok"
  <2> DEFINE d == [a.core EXCEPT !.heads[m] = Absent]
             v == [u EXCEPT ![n] = d]
  <2>1. Absent \in Int /\ Absent <= LastFrom(a.core, m)
    <3>1. a.core.store \in Seq(EventSet)
      BY <1>3, CoreFields
    <3>2. LastFrom(a.core, m) \in Int /\ LastFrom(a.core, m) >= NoEvent
      BY <3>1, LastFromIs
    <3> QED  BY <3>2 DEF Absent, NoEvent
  <2>2. d \in CoreSet /\ CoresInv(v) /\ Grows(u, v)
    <3>1. HeadIs(d, a.core, m, Absent) /\ CoreIs(v, u, n, d)
      BY DEF HeadIs, CoreIs
    <3> HIDE DEF u, d, v
    <3> QED  BY <1>3, <1>5, <2>1, <3>1, ChangeHead
  <2>3. s = [status |-> "ok", core |-> d]
    BY <1>3, <1>4, <1>8
  <2> HIDE DEF d
  <2>4. s.status = "ok" /\ s.core = d
    BY <2>3
  <2>5. Took(u, n, s)
    BY <2>2, <2>4 DEF Took
  <2> HIDE DEF u
  <2>6. Took(w, n, s)
    BY <1>1, <1>6, <2>5, TookBoth, Zenon DEF u
  <2> QED  BY <2>6 DEF s
<1> QED  BY <1>3, <1>7, <1>8

\* f is what recordHeads has after each head.
RecordNext(r, n, m, fails) == IF r.status # "ok" THEN r ELSE recordHead(n, r.core, m, fails)

IsRecorded(f, n, c, order, h, k) ==
    f = [i \in 0..k |-> IF i = 0 THEN [status |-> "ok", core |-> c]
                        ELSE RecordNext(f[i - 1], n, order[i], h = i)]

\* There is such an f: by induction on k.
LEMMA RecordedExists ==
    ASSUME NEW n, NEW c, NEW order, NEW h, NEW k \in Nat
    PROVE  \E f : IsRecorded(f, n, c, order, h, k)
<1> DEFINE T == {j \in Nat : ~ \E f : IsRecorded(f, n, c, order, h, j)}
<1> SUFFICES ASSUME T # {}  PROVE FALSE
  OBVIOUS
<1>1. PICK j \in T : \A i \in T : j <= i
  BY LeastNatural, Zenon
<1>2. j # 0
  <2>1. IsRecorded([i \in 0..0 |-> [status |-> "ok", core |-> c]], n, c, order, h, 0)
    BY DEF IsRecorded
  <2> QED  BY <2>1
<1>3. PICK f : IsRecorded(f, n, c, order, h, j - 1)
  BY <1>1, <1>2
<1> DEFINE g == [i \in 0..j |-> IF i = j THEN RecordNext(f[j - 1], n, order[j], h = j) ELSE f[i]]
<1>4. IsRecorded(g, n, c, order, h, j)
  BY <1>2, <1>3 DEF IsRecorded
<1> QED  BY <1>4

\* recordHeads keeps the invariant, and no event is refused.
LEMMA RecordAll ==
    ASSUME NEW w, CoresInv(w), NEW n \in Nodes, NEW order \in Seq(Nodes), NEW h
    PROVE  Took(w, n, recordHeads(n, w[n], order, h))
<1> DEFINE c == w[n]
           k == Len(order)
           f == CHOOSE g : IsRecorded(g, n, c, order, h, k)
<1>0. w \in [Nodes -> CoreSet] /\ c \in CoreSet /\ k \in Nat
  BY DEF CoresInv, StoresInv
<1>1. recordHeads(n, c, order, h) = f[k]
  BY Zenon DEF recordHeads, IsRecorded, RecordNext
<1>2. IsRecorded(f, n, c, order, h, k)
  BY <1>0, RecordedExists, Zenon
<1> HIDE DEF f, k, c
<1>3. /\ f[0] = [status |-> "ok", core |-> c]
      /\ \A i \in 1..k : f[i] = RecordNext(f[i - 1], n, order[i], h = i)
  BY <1>0, <1>2 DEF IsRecorded
<1> DEFINE T == {i \in Nat : i <= k /\ ~Took(w, n, f[i])}
<1>4. T = {}
  <2> SUFFICES ASSUME T # {}  PROVE FALSE
    OBVIOUS
  <2>1. PICK i \in T : \A j \in T : i <= j
    BY LeastNatural, Zenon
  <2>2. i # 0
    <3>1. [w EXCEPT ![n] = c] = w
      BY <1>0 DEF c
    <3>2. f[0].status = "ok" /\ f[0].core = c
      BY <1>3
    <3>3. Took(w, n, f[0])
      BY <1>0, <3>1, <3>2, Zenon DEF Took, Grows
    <3> QED  BY <3>3
  <2>3. i \in 1..k /\ i - 1 \in Nat /\ ~(i <= i - 1) /\ i - 1 <= k
    BY <1>0, <2>2
  <2>4. Took(w, n, f[i - 1])
    BY <2>1, <2>3
  <2> DEFINE r == f[i - 1]
             u == [w EXCEPT ![n] = r.core]
  <2>5. f[i] = RecordNext(r, n, order[i], h = i)
    BY <1>3, <2>3
  <2>6. order[i] \in Nodes
    BY <2>3 DEF k
  <2>7. CASE r.status # "ok"
    BY <2>1, <2>4, <2>5, <2>7 DEF RecordNext
  <2>8. CASE r.status = "ok"
    <3>1. u[n] = r.core /\ CoresInv(u)
      BY <1>0, <2>4 DEF Took
    <3>2. f[i] = recordHead(n, u[n], order[i], h = i)
      BY <2>5, <2>8, <3>1 DEF RecordNext
    <3> HIDE DEF r, u
    <3>3. Took(u, n, f[i])
      <4>1. Took(u, n, recordHead(n, u[n], order[i], h = i))
        BY <2>6, <3>1, RecordOne, Zenon
      <4> QED  BY <3>2, <4>1, Zenon
    <3>4. Took(w, n, f[i])
      BY <1>0, <2>4, <3>3, TookBoth, Zenon DEF r, u
    <3> QED  BY <3>4
  <2> QED  BY <2>7, <2>8
<1>5. Took(w, n, f[k])
  BY <1>0, <1>4
<1> QED  BY <1>1, <1>5 DEF c

-----------------------------------------------------------------------------
(***************************************************************************)
(* sync.                                                                   *)
(***************************************************************************)

\* The first k events were taken in, up to the first error; head is there.
TookEvents(w, n, r, from, events, k) ==
    /\ Took(w, n, r)
    /\ r.status \in {"ok", "failed"}
    /\ r.head \in Int /\ r.head <= LastFrom(r.core, from)
    /\ r.status = "ok" => \A j \in 1..k : events[j].index <= LastFrom(r.core, events[j].creator)

\* An event that newer ones of its creator may have followed deletes a head.
LEMMA DropHead ==
    ASSUME NEW w, CoresInv(w), NEW n \in Nodes, NEW e, e.creator \in Nodes,
           NEW d, d = dropHead(w[n], e), NEW v, CoreIs(v, w, n, d)
    PROVE  d \in CoreSet /\ d.store = w[n].store /\ CoresInv(v) /\ Grows(w, v)
<1>1. w \in [Nodes -> CoreSet] /\ w[n] \in CoreSet /\ w[n].store \in Seq(EventSet)
  BY CoreFields DEF CoresInv, StoresInv
<1>2. CASE d = w[n]
  <2>1. v = w
    BY <1>1, <1>2 DEF CoreIs
  <2> QED  BY <1>1, <1>2, <2>1 DEF Grows
<1>3. CASE HeadIs(d, w[n], e.creator, Absent)
  <2>1. Absent \in Int /\ Absent <= LastFrom(w[n], e.creator)
    BY <1>1, LastFromIs DEF Absent, NoEvent
  <2> QED  BY <1>1, <1>3, <2>1, ChangeHead
<1> QED  BY <1>2, <1>3 DEF dropHead, HeadIs

\* The parents of the next event of a message are known by then.
LEMMA ParentsCome ==
    ASSUME NEW w, NEW n \in Nodes, w[n] \in CoreSet, NEW events, Sent(w, n, events),
           NEW k \in 1..Len(events), NEW c \in CoreSet,
           ToSet(w[n].store) \subseteq ToSet(c.store),
           \A j \in 1 .. k - 1 : events[j].index <= LastFrom(c, events[j].creator)
    PROVE  ParentsKnown(c, events[k])
<1>1. w[n].store \in Seq(EventSet) /\ c.store \in Seq(EventSet) /\ events \in Seq(EventSet)
  BY CoreFields DEF Sent
<1>2. ASSUME NEW m \in Nodes, NEW i \in Int,
             i <= Known(w[n])[m] \/ Before(events, k - 1, m, i)
      PROVE  i <= LastFrom(c, m)
  <2>1. LastFrom(w[n], m) \in Int /\ LastFrom(c, m) \in Int /\ LastFrom(w[n], m) <= LastFrom(c, m)
    BY <1>1, LastFromIs, LastFromGrows
  <2>2. CASE i <= Known(w[n])[m]
    BY <2>1, <2>2 DEF Known
  <2>3. CASE Before(events, k - 1, m, i)
    <3>1. PICK j \in 1 .. k - 1 : events[j].creator = m /\ events[j].index >= i
      BY <2>3 DEF Before
    <3>2. j \in 1..Len(events) /\ events[j] \in EventSet
      BY <1>1
    <3>3. events[j].index \in Int /\ events[j].index <= LastFrom(c, m)
      BY <3>1, <3>2, EventFields
    <3> QED  BY <2>1, <3>1, <3>3
  <2> QED  BY <1>2, <2>2, <2>3
<1> DEFINE e == events[k]
<1>3. e \in EventSet
  BY <1>1
<1>4. /\ e.creator \in Nodes /\ e.other.creator \in Nodes
      /\ e.index - 1 \in Int /\ e.other.index \in Int
  BY <1>3, EventFields
<1>5. /\ e.index - 1 <= Known(w[n])[e.creator] \/ Before(events, k - 1, e.creator, e.index - 1)
      /\ \/ e.other.index <= Known(w[n])[e.other.creator]
         \/ Before(events, k - 1, e.other.creator, e.other.index)
  BY DEF Sent, Fits
<1> QED  BY <1>2, <1>4, <1>5 DEF ParentsKnown

\* insertAll, for one event.
LEMMA InsertOne ==
    ASSUME NEW w, CoresInv(w), NEW n \in Nodes, NEW from, NEW events, Sent(w, n, events),
           NEW k \in 1..Len(events), NEW r, TookEvents(w, n, r, from, events, k - 1),
           r.status = "ok", NEW fails
    PROVE  TookEvents(w, n, insertOne(n, r, from, events[k], fails), from, events, k)
<1> DEFINE u == [w EXCEPT ![n] = r.core]
           e == events[k]
           a == insertEvent(n, r.core, e, fails)
           v == [u EXCEPT ![n] = a.core]
           s == insertOne(n, r, from, e, fails)
<1>1. w \in [Nodes -> CoreSet] /\ w[n] \in CoreSet /\ r.core \in CoreSet /\ Took(w, n, r)
  BY DEF CoresInv, StoresInv, TookEvents, Took
<1>2. u \in [Nodes -> CoreSet] /\ u[n] = r.core /\ CoresInv(u) /\ Grows(w, u)
  BY <1>1 DEF Took
<1>3. events \in Seq(EventSet) /\ e \in EventSet /\ e \in Stored(w)
  BY Members DEF Sent
<1>4. e \in Stored(u)
  BY <1>2, <1>3 DEF Stored, Grows
<1>5. ParentsKnown(r.core, e)
  <2>1. ToSet(w[n].store) \subseteq ToSet(r.core.store)
    BY <1>2 DEF Grows
  <2>2. \A j \in 1 .. k - 1 : events[j].index <= LastFrom(r.core, events[j].creator)
    BY DEF TookEvents
  <2> QED  BY <1>1, <2>1, <2>2, ParentsCome
<1>6. /\ CoresInv(v) /\ Grows(u, v)
      /\ a.status \in {"ok", "normal", "failed"} /\ a.core \in CoreSet
      /\ e.index <= LastFrom(a.core, e.creator)
  <2>1. ParentsKnown(u[n], e) /\ a = insertEvent(n, u[n], e, fails)
    BY <1>2, <1>5
  <2> HIDE DEF u, a, e
  <2> QED  BY <1>2, <1>4, <2>1, ReceiveEvent, Zenon
<1>7. a.status = "normal" => a.core = r.core
  BY <1>5 DEF insertEvent
<1>8. /\ a.status = "ok" => s = [status |-> "ok", core |-> dropHead(a.core, e),
                                 head |-> otherHead(from, e, r.head)]
      /\ a.status = "normal" => s = r
      /\ a.status = "failed" => s = [status |-> a.status, core |-> a.core, head |-> r.head]
  BY DEF insertOne
<1>9. v[n] = a.core /\ v \in [Nodes -> CoreSet]
  BY <1>2, <1>6
<1>10. Took(u, n, a)
  BY <1>6 DEF Took
<1>11. e.index \in Int /\ e.creator \in Nodes
  BY <1>3, EventFields
<1>12. r.head \in Int /\ r.head <= LastFrom(r.core, from)
  BY DEF TookEvents
<1> HIDE DEF a, s
<1>13. ASSUME NEW d \in CoreSet, ToSet(a.core.store) \subseteq ToSet(d.store)
       PROVE  /\ r.head <= LastFrom(d, from) /\ e.index <= LastFrom(d, e.creator)
              /\ \A j \in 1..k : events[j].index <= LastFrom(d, events[j].creator)
  <2>1. r.core.store \in Seq(EventSet) /\ a.core.store \in Seq(EventSet) /\ d.store \in Seq(EventSet)
    BY <1>1, <1>6, CoreFields
  <2>2. ToSet(r.core.store) \subseteq ToSet(a.core.store)
    BY <1>2, <1>6, <1>9 DEF Grows
  <2>3. \A m : /\ LastFrom(r.core, m) \in Int /\ LastFrom(a.core, m) \in Int /\ LastFrom(d, m) \in Int
               /\ LastFrom(r.core, m) <= LastFrom(a.core, m)
               /\ LastFrom(a.core, m) <= LastFrom(d, m)
    BY <1>13, <2>1, <2>2, LastFromIs, LastFromGrows, Zenon
  <2>4. r.head <= LastFrom(d, from)
    BY <1>12, <2>3
  <2>5. e.index <= LastFrom(d, e.creator)
    BY <1>6, <1>11, <2>3
  <2>6. ASSUME NEW j \in 1..k  PROVE events[j].index <= LastFrom(d, events[j].creator)
    <3>1. CASE j = k
      BY <2>5, <3>1
    <3>2. CASE j \in 1 .. k - 1
      <4>1. events[j].index <= LastFrom(r.core, events[j].creator)
        BY <3>2 DEF TookEvents
      <4>2. events[j] \in EventSet
        BY <1>3
      <4>3. events[j].index \in Int
        BY <4>2, EventFields
      <4> QED  BY <2>3, <4>1, <4>3
    <3> QED  BY <3>1, <3>2
  <2> QED  BY <2>4, <2>5, <2>6
<1>14. CASE a.status = "ok"
  <2> DEFINE d == dropHead(a.core, e)
             h == otherHead(from, e, r.head)
             x == [v EXCEPT ![n] = d]
  <2>1. d \in CoreSet /\ d.store = a.core.store /\ CoresInv(x) /\ Grows(v, x)
    <3>1. CoreIs(x, v, n, d) /\ d = dropHead(v[n], e)
      BY <1>9 DEF CoreIs
    <3> HIDE DEF v, e, d, x
    <3> QED  BY <1>6, <1>9, <1>11, <3>1, DropHead
  <2>2. /\ h \in Int /\ h <= LastFrom(d, from)
        /\ \A j \in 1..k : events[j].index <= LastFrom(d, events[j].creator)
    <3>1. /\ r.head <= LastFrom(d, from) /\ e.index <= LastFrom(d, e.creator)
          /\ \A j \in 1..k : events[j].index <= LastFrom(d, events[j].creator)
      BY <1>13, <2>1
    <3> HIDE DEF d
    <3> QED  BY <1>11, <1>12, <3>1 DEF otherHead
  <2>3. s.status = "ok" /\ s.core = d /\ s.head = h
    BY <1>8, <1>14
  <2> HIDE DEF d, h
  <2>4. Took(v, n, s)
    BY <2>1, <2>3 DEF Took
  <2>5. Took(w, n, s)
    <3> HIDE DEF u, v
    <3>1. Took(u, n, s)
      BY <1>2, <1>10, <2>4, TookBoth, Zenon DEF v
    <3> QED  BY <1>1, <3>1, TookBoth, Zenon DEF u
  <2>6. TookEvents(w, n, s, from, events, k)
    BY <2>2, <2>3, <2>5 DEF TookEvents
  <2> QED  BY <2>6 DEF s
<1>15. CASE a.status = "failed"
  <2>1. s.status = "failed" /\ s.core = a.core /\ s.head = r.head
    BY <1>8, <1>15
  <2>2. Took(u, n, s)
    BY <1>10, <1>15, <2>1 DEF Took
  <2>3. Took(w, n, s)
    <3> HIDE DEF u
    <3> QED  BY <1>1, <2>2, TookBoth, Zenon DEF u
  <2>4. r.head <= LastFrom(a.core, from)
    BY <1>6, <1>13
  <2>5. TookEvents(w, n, s, from, events, k)
    BY <1>12, <2>1, <2>3, <2>4 DEF TookEvents
  <2> QED  BY <2>5 DEF s
<1>16. CASE a.status = "normal"
  <2>1. s = r /\ a.core = r.core
    BY <1>7, <1>8, <1>16
  <2>2. \A j \in 1..k : events[j].index <= LastFrom(r.core, events[j].creator)
    BY <1>6, <1>13, <2>1
  <2>3. TookEvents(w, n, r, from, events, k)
    BY <2>2 DEF TookEvents
  <2> QED  BY <2>1, <2>3 DEF s
<1> QED  BY <1>6, <1>14, <1>15, <1>16

\* f is what insertAll has after each event.
InsertNext(r, n, from, e, fails) == IF r.status # "ok" THEN r ELSE insertOne(n, r, from, e, fails)

IsInserted(f, n, c, from, events, h, k) ==
    f = [i \in 0..k |-> IF i = 0 THEN [status |-> "ok", core |-> c, head |-> NoEvent]
                        ELSE InsertNext(f[i - 1], n, from, events[i], h = i)]

\* There is such an f: by induction on k.
LEMMA InsertedExists ==
    ASSUME NEW n, NEW c, NEW from, NEW events, NEW h, NEW k \in Nat
    PROVE  \E f : IsInserted(f, n, c, from, events, h, k)
<1> DEFINE T == {j \in Nat : ~ \E f : IsInserted(f, n, c, from, events, h, j)}
<1> SUFFICES ASSUME T # {}  PROVE FALSE
  OBVIOUS
<1>1. PICK j \in T : \A i \in T : j <= i
  BY LeastNatural, Zenon
<1>2. j # 0
  <2>1. IsInserted([i \in 0..0 |-> [status |-> "ok", core |-> c, head |-> NoEvent]],
                   n, c, from, events, h, 0)
    BY DEF IsInserted
  <2> QED  BY <2>1
<1>3. PICK f : IsInserted(f, n, c, from, events, h, j - 1)
  BY <1>1, <1>2
<1> DEFINE g == [i \in 0..j |-> IF i = j THEN InsertNext(f[j - 1], n, from, events[j], h = j)
                                ELSE f[i]]
<1>4. IsInserted(g, n, c, from, events, h, j)
  BY <1>2, <1>3 DEF IsInserted
<1> QED  BY <1>4

\* insertAll takes all the events in, up to the first failure.
LEMMA InsertAll ==
    ASSUME NEW w, CoresInv(w), NEW n \in Nodes, NEW from, NEW events, Sent(w, n, events), NEW h
    PROVE  TookEvents(w, n, insertAll(n, w[n], from, events, h), from, events, Len(events))
<1> DEFINE c == w[n]
           k == Len(events)
           f == CHOOSE g : IsInserted(g, n, c, from, events, h, k)
<1>0. w \in [Nodes -> CoreSet] /\ c \in CoreSet /\ k \in Nat
  BY DEF CoresInv, StoresInv, Sent
<1>1. insertAll(n, c, from, events, h) = f[k]
  BY Zenon DEF insertAll, IsInserted, InsertNext
<1>2. IsInserted(f, n, c, from, events, h, k)
  BY <1>0, InsertedExists, Zenon
<1> HIDE DEF f, k, c
<1>3. /\ f[0] = [status |-> "ok", core |-> c, head |-> NoEvent]
      /\ \A i \in 1..k : f[i] = InsertNext(f[i - 1], n, from, events[i], h = i)
  BY <1>0, <1>2 DEF IsInserted
<1> DEFINE T == {i \in Nat : i <= k /\ ~TookEvents(w, n, f[i], from, events, i)}
<1>4. T = {}
  <2> SUFFICES ASSUME T # {}  PROVE FALSE
    OBVIOUS
  <2>1. PICK i \in T : \A j \in T : i <= j
    BY LeastNatural, Zenon
  <2>2. i # 0
    <3>1. [w EXCEPT ![n] = c] = w
      BY <1>0 DEF c
    <3>2. f[0].status = "ok" /\ f[0].core = c /\ f[0].head = NoEvent
      BY <1>3
    <3>3. Took(w, n, f[0])
      BY <1>0, <3>1, <3>2, Zenon DEF Took, Grows
    <3>4. NoEvent \in Int /\ NoEvent <= LastFrom(c, from)
      <4>1. c.store \in Seq(EventSet)
        BY <1>0, CoreFields
      <4> QED  BY <4>1, LastFromIs DEF NoEvent
    <3>5. TookEvents(w, n, f[0], from, events, 0)
      BY <3>2, <3>3, <3>4 DEF TookEvents
    <3> QED  BY <3>5
  <2>3. i \in 1..k /\ i - 1 \in Nat /\ ~(i <= i - 1) /\ i - 1 <= k
    BY <1>0, <2>2
  <2>4. TookEvents(w, n, f[i - 1], from, events, i - 1)
    BY <2>1, <2>3
  <2> DEFINE r == f[i - 1]
  <2>5. f[i] = InsertNext(r, n, from, events[i], h = i)
    BY <1>3, <2>3
  <2>6. CASE r.status # "ok"
    <3>1. f[i] = r
      BY <2>5, <2>6 DEF InsertNext
    <3> HIDE DEF r
    <3>2. TookEvents(w, n, r, from, events, i)
      BY <2>4, <2>6 DEF TookEvents, r
    <3> QED  BY <3>1, <3>2
  <2>7. CASE r.status = "ok"
    <3>1. f[i] = insertOne(n, r, from, events[i], h = i)
      BY <2>5, <2>7 DEF InsertNext
    <3> HIDE DEF r
    <3>2. TookEvents(w, n, insertOne(n, r, from, events[i], h = i), from, events, i)
      <4>1. i \in 1..Len(events) /\ TookEvents(w, n, r, from, events, i - 1)
        BY <2>3, <2>4 DEF k, r
      <4> QED  BY <2>7, <4>1, InsertOne, Zenon
    <3> QED  BY <3>1, <3>2, Zenon
  <2> QED  BY <2>6, <2>7
<1>5. TookEvents(w, n, f[k], from, events, k)
  BY <1>0, <1>4
<1> QED  BY <1>1, <1>5 DEF c, k

\* The head of the sender is set to an event that is there.
LEMMA SetHead ==
    ASSUME NEW w, CoresInv(w), NEW n \in Nodes, NEW from \in Nodes, NEW head \in Int,
           head <= LastFrom(w[n], from),
           NEW d, d = setHead(w[n], from, head), NEW v, CoreIs(v, w, n, d)
    PROVE  d \in CoreSet /\ CoresInv(v) /\ Grows(w, v)
<1>1. w \in [Nodes -> CoreSet] /\ w[n] \in CoreSet
  BY DEF CoresInv, StoresInv
<1>2. CASE d = w[n]
  <2>1. v = w
    BY <1>1, <1>2 DEF CoreIs
  <2> QED  BY <1>1, <1>2, <2>1 DEF Grows
<1>3. CASE HeadIs(d, w[n], from, head)
  BY <1>1, <1>3, ChangeHead
<1> QED  BY <1>2, <1>3 DEF setHead, HeadIs

\* sync keeps the invariant, and refuses nothing.
LEMMA SyncTakes ==
    ASSUME NEW w, CoresInv(w), NEW n \in Nodes, NEW from \in Nodes, NEW events,
           Sent(w, n, events), NEW f, NEW h, NEW work, NEW order \in Seq(Nodes)
    PROVE  Took(w, n, sync(n, w[n], from, events, f, h, work, order))
<1> DEFINE r == insertAll(n, w[n], from, events, f)
           u == [w EXCEPT ![n] = r.core]
           d == setHead(r.core, from, r.head)
           v == [u EXCEPT ![n] = d]
           s == sync(n, w[n], from, events, f, h, work, order)
<1>1. w \in [Nodes -> CoreSet]
  BY DEF CoresInv, StoresInv
<1>2. TookEvents(w, n, r, from, events, Len(events))
  BY InsertAll, Zenon
<1>3. \/ r.status # "ok" /\ s = [status |-> r.status, core |-> r.core]
      \/ r.status = "ok" /\ s = recordHeads(n, d, order, h)
      \/ r.status = "ok" /\ s = [status |-> "ok", core |-> d]
  BY DEF sync
<1> HIDE DEF r, s
<1>4. Took(w, n, r) /\ r.head \in Int /\ r.head <= LastFrom(r.core, from)
  BY <1>2 DEF TookEvents
<1>5. u \in [Nodes -> CoreSet] /\ u[n] = r.core /\ CoresInv(u)
  BY <1>1, <1>4 DEF Took
<1>6. d \in CoreSet /\ CoresInv(v) /\ Grows(u, v)
  <2>1. d = setHead(u[n], from, r.head) /\ CoreIs(v, u, n, d)
    BY <1>5 DEF CoreIs
  <2> HIDE DEF u, d, v
  <2> QED  BY <1>4, <1>5, <2>1, SetHead, Zenon
<1>7. CASE r.status # "ok" /\ s = [status |-> r.status, core |-> r.core]
  <2>1. s.status = r.status /\ s.core = r.core
    BY <1>7
  <2> QED  BY <1>4, <2>1 DEF Took, s
<1>8. CASE s = [status |-> "ok", core |-> d]
  <2>1. s.status = "ok" /\ s.core = d
    BY <1>8
  <2>2. Took(u, n, s)
    BY <1>6, <2>1 DEF Took
  <2> HIDE DEF u
  <2>3. Took(w, n, s)
    BY <1>1, <1>4, <2>2, TookBoth, Zenon DEF u
  <2> QED  BY <2>3 DEF s
<1>9. CASE s = recordHeads(n, d, order, h)
  <2> DEFINE q == [status |-> "ok", core |-> d]
  <2>1. q.status = "ok" /\ q.core = d
    OBVIOUS
  <2> HIDE DEF q
  <2>2. Took(u, n, q)
    BY <1>6, <2>1 DEF Took
  <2>3. v[n] = d
    BY <1>5
  <2>4. Took(v, n, s)
    <3> HIDE DEF v, d
    <3> QED  BY <1>6, <1>9, <2>3, RecordAll
  <2>5. v = [u EXCEPT ![n] = q.core]
    BY <2>1
  <2> HIDE DEF u, v
  <2>6. Took(u, n, s)
    BY <1>5, <2>2, <2>4, <2>5, TookBoth, Zenon
  <2>7. Took(w, n, s)
    BY <1>1, <1>4, <2>6, TookBoth, Zenon DEF u
  <2> QED  BY <2>7 DEF s
<1> QED  BY <1>3, <1>7, <1>8, <1>9

-----------------------------------------------------------------------------
(***************************************************************************)
(* Steps.                                                                  *)
(***************************************************************************)

\* The invariant reads no variable but conf and submitted.
LEMMA StoresPrimed ==
    ASSUME conf' = conf, NEW w, StoresInv(w)
    PROVE  StoresInv(w)'
<1>1. Nodes' = Nodes /\ Txs' = Txs
  BY DEF Nodes, Txs
<1>2. EventSet' = EventSet
  BY <1>1 DEF EventSet
<1>3. CoreSet' = CoreSet
  BY <1>1, <1>2 DEF CoreSet
<1> QED  BY <1>1, <1>3 DEF StoresInv, Topological, OwnStored, OwnUnique, HeadsStored

LEMMA CoresPrimed ==
    ASSUME conf' = conf, submitted' = submitted, NEW w, CoresInv(w)
    PROVE  CoresInv(w)'
<1>1. Nodes' = Nodes
  BY DEF Nodes
<1>2. Stored(w)' = Stored(w)
  BY <1>1 DEF Stored
<1>3. TxInv(w)'
  BY <1>1, <1>2, Zenon DEF CoresInv, TxInv, PoolsApart, EventsApart, PoolStuck, NoneLost
<1> QED  BY <1>3, StoresPrimed DEF CoresInv

LEMMA MessagesPrimed ==
    ASSUME conf' = conf, NEW w, NEW rs, MessagesOK(w, rs)
    PROVE  MessagesOK(w, rs)'
<1>1. Nodes' = Nodes /\ Txs' = Txs /\ Routines' = Routines
  BY DEF Nodes, Txs, Routines
<1>2. EventSet' = EventSet
  BY <1>1 DEF EventSet
<1>3. Stored(w)' = Stored(w) /\ \A n : Known(w[n])' = Known(w[n])
  BY <1>1 DEF Stored, Known
<1>4. \A n, events : Sent(w, n, events)' = Sent(w, n, events)
  BY <1>2, <1>3 DEF Sent
<1>5. \A n, known : Knew(w[n], known)' = Knew(w[n], known)
  BY <1>1 DEF Knew
<1>6. \A r : MessageOK(w, r)' = MessageOK(w, r)
  BY <1>1, <1>4, <1>5 DEF MessageOK
<1> QED  BY <1>1, <1>6 DEF MessagesOK

\* What a node says that it knows.
LEMMA KnownIs ==
    ASSUME NEW c \in CoreSet
    PROVE  Known(c) \in [Nodes -> Int] /\ Knew(c, Known(c))
<1>1. c.store \in Seq(EventSet)
  BY CoreFields
<1>2. \A m \in Nodes : LastFrom(c, m) \in Int /\ LastFrom(c, m) >= NoEvent
  BY <1>1, LastFromIs
<1> QED  BY <1>2 DEF Known, Knew, NoEvent

\* A message stays good when stores grow.
LEMMA MessageStays ==
    ASSUME NEW w, StoresInv(w), NEW v, StoresInv(v), Grows(w, v), NEW r, MessageOK(w, r)
    PROVE  MessageOK(v, r)
<1>1. w \in [Nodes -> CoreSet] /\ v \in [Nodes -> CoreSet]
  BY DEF StoresInv
<1>2. \A n \in Nodes : w[n].store \in Seq(EventSet) /\ v[n].store \in Seq(EventSet)
  BY <1>1, CoreFields
<1>3. \A n, m \in Nodes : /\ LastFrom(w[n], m) \in Int /\ LastFrom(v[n], m) \in Int
                          /\ LastFrom(w[n], m) <= LastFrom(v[n], m)
  BY <1>2, LastFromIs, LastFromGrows, Zenon DEF Grows
<1>4. ASSUME NEW n \in Nodes, NEW known, Knew(w[n], known)  PROVE Knew(v[n], known)
  BY <1>3, <1>4 DEF Knew
<1>5. Stored(w) \subseteq Stored(v)
  BY DEF Stored, Grows
<1>6. ASSUME NEW n \in Nodes, NEW events, Sent(w, n, events)  PROVE Sent(v, n, events)
  <2>1. Known(w[n]) \in [Nodes -> Int] /\ Known(v[n]) \in [Nodes -> Int]
    BY <1>1, KnownIs
  <2>2. \A m \in Nodes : Known(w[n])[m] <= Known(v[n])[m]
    BY <1>3 DEF Known
  <2>3. Fits(events, Known(v[n]))
    BY <1>6, <2>1, <2>2, FitsMore DEF Sent
  <2> QED  BY <1>5, <1>6, <2>3 DEF Sent
<1> QED  BY <1>4, <1>6 DEF MessageOK

\* A step of goroutine g leaves it with r.
LEMMA StepKeeps ==
    ASSUME GossipInv, conf' = conf, submitted' = submitted, CoresInv(core'),
           Grows(core, core'), ~refused', NEW g \in Routines, NEW r, Step(g, r), MessageOK(core', r)
    PROVE  GossipInv'
<1>1. CoresInv(core)'
  BY CoresPrimed
<1>2. routine = [k \in Routines |-> routine[k]] /\ routine' = [routine EXCEPT ![g] = r]
  BY DEF GossipInv, MessagesOK, Step
<1>3. routine' = [k \in Routines |-> routine'[k]]
      /\ routine'[g] = r /\ \A k \in Routines : k # g => routine'[k] = routine[k]
  BY <1>2
<1>4. \A k \in Routines : MessageOK(core', routine[k])
  BY MessageStays DEF GossipInv, MessagesOK, CoresInv
<1>5. \A k \in Routines : MessageOK(core', routine'[k])
  BY <1>3, <1>4
<1>6. MessagesOK(core', routine')
  BY <1>3, <1>5 DEF MessagesOK
<1>7. MessagesOK(core, routine)'
  BY <1>6, MessagesPrimed
<1> QED  BY <1>1, <1>7 DEF GossipInv

\* An order of visit is a sequence of nodes.
LEMMA OrdersAre ==
    ASSUME IsFiniteSet(Nodes), NEW S, S \subseteq Nodes, NEW o \in Orders(S)
    PROVE  o \in Seq(Nodes)
<1>1. Cardinality(S) \in Nat
  BY FS_Subset, FS_CardinalityType
<1>2. o \in [1..Cardinality(S) -> S]
  BY DEF Orders
<1> QED  BY <1>1, <1>2

\* node.sync.
LEMMA NodeSync ==
    ASSUME GossipInv, conf' = conf, submitted' = submitted, NEW g \in Routines,
           NEW n \in Nodes, NEW from \in Nodes, NEW events, Sent(core, n, events),
           NEW next, MessageOK(core, next), nodeSync(g, n, from, events, next)
    PROVE  GossipInv'
<1>1. IsFiniteSet(Nodes)
  BY ConfsAssumption DEF GossipInv, Nodes
<1>2. PICK f, h, work, order :
         /\ order \in Orders(Entries(core[n]) \cup {from}) \cup Orders(Entries(core[n]))
         /\ LET r == sync(n, core[n], from, events, f, h, work, order)
            IN  /\ core' = [core EXCEPT ![n] = r.core]
                /\ refused' = (refused \/ r.status = "refused")
                /\ Step(g, IF r.status \in {"ok", "normal"} THEN next ELSE Idle)
  BY Zenon DEF nodeSync
<1> DEFINE r == sync(n, core[n], from, events, f, h, work, order)
<1>3. order \in Seq(Nodes)
  BY <1>1, <1>2, OrdersAre DEF Entries
<1>4. Took(core, n, r)
  BY <1>3, SyncTakes DEF GossipInv
<1> HIDE DEF r
<1>5. CoresInv(core') /\ Grows(core, core') /\ r.status \in {"ok", "normal", "failed"}
  BY <1>2, <1>4 DEF Took, r
<1>6. ~refused'
  BY <1>2, <1>5, Zenon DEF r, GossipInv
<1>7. MessageOK(core', next) /\ MessageOK(core', Idle)
  BY <1>5, MessageStays DEF GossipInv, MessageOK, CoresInv
<1>8. Step(g, next) \/ Step(g, Idle)
  BY <1>2 DEF r
<1> QED  BY <1>5, <1>6, <1>7, <1>8, StepKeeps

\* Submit.
LEMMA SubmitKeeps ==
    ASSUME GossipInv, NEW n \in Nodes, NEW t \in Txs, Submit(n, t)
    PROVE  GossipInv'
<1>1. /\ t \notin submitted /\ submitted' = submitted \cup {t}
      /\ core' = [core EXCEPT ![n].pool = Append(@, t)]
      /\ conf' = conf /\ routine' = routine /\ refused' = refused
  BY DEF Submit
<1>2. core \in [Nodes -> CoreSet] /\ StoresInv(core) /\ TxInv(core) /\ core[n] \in CoreSet
  BY DEF GossipInv, CoresInv, StoresInv
<1> DEFINE p == Append(core[n].pool, t)
           d == [core[n] EXCEPT !.pool = p]
<1>3. core[n].pool \in Seq(Txs)
  BY <1>2, CoreFields
<1>4. /\ p \in Seq(Txs) /\ ToSet(p) = ToSet(core[n].pool) \cup {t}
      /\ Len(p) = Len(core[n].pool) + 1 /\ p[Len(core[n].pool) + 1] = t
      /\ \A k \in 1..Len(core[n].pool) : p[k] = core[n].pool[k]
  BY <1>3, MembersAppend
<1>5. core' = [core EXCEPT ![n] = d]
  BY <1>1
<1> HIDE DEF p
<1>6. /\ d \in CoreSet /\ d.store = core[n].store /\ d.seq = core[n].seq
      /\ d.heads = core[n].heads /\ d.pool = p
  BY <1>2, <1>4, Zenon DEF CoreSet
<1> HIDE DEF d
<1>7. core'[n] = d /\ \A m \in Nodes : m # n => core'[m] = core[m]
  BY <1>2, <1>5
<1>8. \A m \in Nodes : LastFrom(d, m) = LastFrom(core[n], m)
  BY <1>6, LastFromStore
<1>9. StoresInv(core') /\ Grows(core, core')
  <2>1. \A m \in Nodes : d.heads[m] <= LastFrom(d, m)
    BY <1>2, <1>6, <1>8 DEF StoresInv, HeadsStored
  <2> QED  BY <1>2, <1>5, <1>6, <2>1, SameStores, Zenon
<1>10. StoresInv(core)'
  BY <1>1, <1>9, StoresPrimed
<1>11. Nodes' = Nodes /\ Txs' = Txs
  BY <1>1 DEF Nodes, Txs
<1>12. \A m \in Nodes : /\ core'[m].store = core[m].store /\ core'[m].seq = core[m].seq
                        /\ LastFrom(core'[m], m) = LastFrom(core[m], m)
  BY <1>6, <1>7, <1>8
<1>13. Stored(core)' = Stored(core)
  BY <1>11, <1>12 DEF Stored
<1>14. \A m \in Nodes : t \notin ToSet(core[m].pool)
  BY <1>1, <1>2 DEF TxInv, PoolsApart
<1>15. \A e \in Stored(core) : t \notin ToSet(e.txs)
  BY <1>1, <1>2 DEF TxInv, EventsApart
<1>16. IsInjective(p)
  <2> SUFFICES ASSUME NEW j \in 1..Len(p), NEW k \in 1..Len(p), p[j] = p[k]  PROVE j = k
    BY <1>4 DEF IsInjective
  <2> DEFINE q == core[n].pool
  <2>1. Len(q) \in Nat /\ DOMAIN q = 1..Len(q)
    BY <1>3
  <2>2. \A i \in 1..Len(p) : i \in 1..Len(q) \/ i = Len(q) + 1
    BY <1>4, <2>1
  <2>3. \A i \in 1..Len(q) : q[i] # t
    BY <1>14, <2>1 DEF ToSet
  <2>4. \A a, b \in 1..Len(q) : q[a] = q[b] => a = b
    BY <1>2, <2>1 DEF TxInv, PoolsApart, IsInjective
  <2> QED  BY <1>4, <2>2, <2>3, <2>4
<1>17. PoolsApart(core)'
  <2> SUFFICES ASSUME NEW m \in Nodes
               PROVE  /\ IsInjective(core'[m].pool)
                      /\ ToSet(core'[m].pool) \subseteq submitted \cup {t}
                      /\ \A k \in Nodes : \A x \in ToSet(core'[m].pool) :
                            x \in ToSet(core'[k].pool) => k = m
    BY <1>1, <1>11 DEF PoolsApart
  <2>1. \A k \in Nodes : ToSet(core'[k].pool) = IF k = n THEN ToSet(core[n].pool) \cup {t}
                                               ELSE ToSet(core[k].pool)
    BY <1>4, <1>6, <1>7, Zenon
  <2>2. IsInjective(core'[m].pool)
    BY <1>2, <1>6, <1>7, <1>16 DEF TxInv, PoolsApart
  <2>3. ToSet(core'[m].pool) \subseteq submitted \cup {t}
    BY <1>2, <2>1 DEF TxInv, PoolsApart
  <2>4. \A k \in Nodes : \A x \in ToSet(core'[m].pool) : x \in ToSet(core'[k].pool) => k = m
    BY <1>2, <1>14, <2>1 DEF TxInv, PoolsApart
  <2> QED  BY <2>2, <2>3, <2>4
<1>18. EventsApart(core)'
  BY <1>1, <1>2, <1>13 DEF TxInv, EventsApart
<1>19. \A k \in Nodes : ToSet(core[k].pool) \subseteq ToSet(core'[k].pool)
                        /\ ToSet(core'[k].pool) \subseteq ToSet(core[k].pool) \cup {t}
  BY <1>4, <1>6, <1>7
<1>20. PoolStuck(core)'
  BY <1>2, <1>11, <1>12, <1>13, <1>15, <1>19 DEF TxInv, PoolStuck
<1>21. NoneLost(core)'
  <2>1. t \in ToSet(core'[n].pool)
    BY <1>4, <1>6, <1>7
  <2> QED  BY <1>1, <1>2, <1>11, <1>13, <1>19, <2>1 DEF TxInv, NoneLost
<1>22. MessagesOK(core', routine)
  BY <1>2, <1>9, MessageStays DEF GossipInv, MessagesOK
<1>23. MessagesOK(core, routine)'
  BY <1>1, <1>22, MessagesPrimed
<1> QED  BY <1>1, <1>10, <1>17, <1>18, <1>20, <1>21, <1>23 DEF GossipInv, CoresInv, TxInv

\* What a node sends to one that said what it knows.
LEMMA DiffSent ==
    ASSUME conf \in Confs, NEW w, StoresInv(w), NEW n \in Nodes, NEW m \in Nodes,
           NEW known, Knew(w[m], known)
    PROVE  Sent(w, m, Limit(eventDiff(w[n], known)))
<1> DEFINE diff == eventDiff(w[n], known)
<1>1. SyncLimit \in Nat
  BY ConfsAssumption DEF SyncLimit
<1>2. w[n] \in CoreSet /\ w[m] \in CoreSet /\ Topological(w[n])
  BY DEF StoresInv
<1>3. w[n].store \in Seq(EventSet)
  BY <1>2, CoreFields
<1>4. known \in [Nodes -> Int] /\ \A k \in Nodes : known[k] >= NoEvent
  BY DEF Knew, NoEvent
<1>5. /\ diff \in Seq(EventSet) /\ ToSet(diff) \subseteq ToSet(w[n].store)
      /\ Fits(diff, known)
  BY <1>2, <1>3, <1>4, DiffFits
<1> HIDE DEF diff
<1>6. /\ Limit(diff) \in Seq(EventSet) /\ ToSet(Limit(diff)) \subseteq ToSet(diff)
      /\ Fits(Limit(diff), known)
  BY <1>1, <1>5, LimitFits, Zenon
<1>7. Known(w[m]) \in [Nodes -> Int] /\ \A k \in Nodes : known[k] <= Known(w[m])[k]
  BY <1>2, KnownIs DEF Knew, Known
<1>8. Fits(Limit(diff), Known(w[m]))
  BY <1>4, <1>6, <1>7, FitsMore, Zenon
<1>9. ToSet(Limit(diff)) \subseteq Stored(w)
  BY <1>5, <1>6 DEF Stored
<1> QED  BY <1>6, <1>8, <1>9 DEF Sent, diff

\* A step that leaves the cores alone.
LEMMA RoutineStep ==
    ASSUME GossipInv, UNCHANGED <<conf, core, submitted, refused>>,
           NEW g \in Routines, NEW r, Step(g, r), MessageOK(core, r)
    PROVE  GossipInv'
<1>1. CoresInv(core') /\ Grows(core, core') /\ ~refused' /\ MessageOK(core', r)
  BY DEF GossipInv, Grows
<1> QED  BY <1>1, StepKeeps

\* The steps of a goroutine.
LEMMA ExchangeKeeps ==
    ASSUME GossipInv, NEW g \in Routines, Exchange(g)
    PROVE  GossipInv'
<1> DEFINE r == routine[g]
<1>1. MessageOK(core, r) /\ StoresInv(core) /\ conf \in Confs
  BY DEF GossipInv, MessagesOK, CoresInv
<1>2. core \in [Nodes -> CoreSet]
  BY <1>1 DEF StoresInv
<1>3. MessageOK(core, Idle)
  BY DEF MessageOK
<1>4. Idle.step = "idle"
  BY DEF Idle
<1>5. CASE AnswerDiff(g)
  <2>1. r.from \in Nodes /\ r.to \in Nodes /\ Knew(core[r.from], r.known)
    BY <1>1, <1>4, <1>5 DEF AnswerDiff, MessageOK
  <2> DEFINE events == Limit(eventDiff(core[r.to], r.known))
             q == [step |-> "answering", from |-> r.from, to |-> r.to, events |-> events]
  <2>2. Sent(core, r.from, events)
    BY <1>1, <2>1, DiffSent
  <2>3. Step(g, q) /\ UNCHANGED <<conf, core, submitted, refused>>
    BY <1>5 DEF AnswerDiff
  <2> HIDE DEF events
  <2>4. MessageOK(core, q)
    BY <2>1, <2>2 DEF MessageOK
  <2> QED  BY <2>3, <2>4, RoutineStep
<1>6. CASE AnswerKnown(g)
  <2>1. r.from \in Nodes /\ r.to \in Nodes /\ Sent(core, r.from, r.events)
    BY <1>1, <1>4, <1>6 DEF AnswerKnown, MessageOK
  <2> DEFINE q == [step |-> "answered", from |-> r.from, to |-> r.to,
                   events |-> r.events, known |-> Known(core[r.to])]
  <2>2. Knew(core[r.to], Known(core[r.to]))
    BY <1>2, <2>1, KnownIs
  <2>3. Step(g, q) /\ UNCHANGED <<conf, core, submitted, refused>>
    BY <1>6 DEF AnswerKnown
  <2>4. MessageOK(core, q)
    BY <2>1, <2>2 DEF MessageOK
  <2> QED  BY <2>3, <2>4, RoutineStep
<1>7. CASE Receive(g)
  <2>1. /\ r.from \in Nodes /\ r.to \in Nodes /\ Sent(core, r.from, r.events)
        /\ Knew(core[r.to], r.known)
    BY <1>1, <1>4, <1>7 DEF Receive, MessageOK
  <2> DEFINE q == [step |-> "pulled", from |-> r.from, to |-> r.to, known |-> r.known]
  <2>2. /\ nodeSync(g, r.from, r.to, r.events, q)
        /\ conf' = conf /\ submitted' = submitted
    BY <1>7 DEF Receive
  <2>3. MessageOK(core, q)
    BY <2>1 DEF MessageOK
  <2> HIDE DEF q
  <2> QED  BY <2>1, <2>2, <2>3, NodeSync
<1>8. CASE Push(g)
  <2>1. r.from \in Nodes /\ r.to \in Nodes /\ Knew(core[r.to], r.known)
    BY <1>1, <1>4, <1>8 DEF Push, MessageOK
  <2> DEFINE events == Limit(eventDiff(core[r.from], r.known))
             q == [step |-> "pushed", from |-> r.from, to |-> r.to, events |-> events]
  <2>2. Sent(core, r.to, events)
    BY <1>1, <2>1, DiffSent
  <2>3. (Step(g, q) \/ Step(g, Idle)) /\ UNCHANGED <<conf, core, submitted, refused>>
    BY <1>8 DEF Push
  <2> HIDE DEF events
  <2>4. MessageOK(core, q)
    BY <2>1, <2>2 DEF MessageOK
  <2> QED  BY <1>3, <2>3, <2>4, RoutineStep
<1>9. CASE ReceivePush(g)
  <2>1. r.from \in Nodes /\ r.to \in Nodes /\ Sent(core, r.to, r.events)
    BY <1>1, <1>4, <1>9 DEF ReceivePush, MessageOK
  <2>2. /\ nodeSync(g, r.to, r.from, r.events, Idle)
        /\ conf' = conf /\ submitted' = submitted
    BY <1>9 DEF ReceivePush
  <2> QED  BY <1>3, <2>1, <2>2, NodeSync
<1>10. CASE Fail(g)
  <2>1. Step(g, Idle) /\ UNCHANGED <<conf, core, submitted, refused>>
    BY <1>10 DEF Fail
  <2> QED  BY <1>3, <2>1, RoutineStep
<1> QED  BY <1>5, <1>6, <1>7, <1>8, <1>9, <1>10 DEF Exchange

\* Pull.
LEMMA PullKeeps ==
    ASSUME GossipInv, NEW g \in Routines, NEW n \in Nodes, NEW m \in Nodes, Pull(g, n, m)
    PROVE  GossipInv'
<1> DEFINE q == [step |-> "requested", from |-> n, to |-> m, known |-> Known(core[n])]
<1>1. core[n] \in CoreSet
  BY DEF GossipInv, CoresInv, StoresInv
<1>2. Knew(core[n], Known(core[n]))
  BY <1>1, KnownIs
<1>3. Step(g, q) /\ UNCHANGED <<conf, core, submitted, refused>>
  BY Zenon DEF Pull
<1>4. MessageOK(core, q)
  BY <1>2 DEF MessageOK
<1> QED  BY <1>3, <1>4, RoutineStep

-----------------------------------------------------------------------------
(***************************************************************************)
(* Always.                                                                 *)
(***************************************************************************)

LEMMA GossipStart == Init => GossipInv
<1> SUFFICES ASSUME Init  PROVE GossipInv
  OBVIOUS
<1>1. /\ conf \in Confs /\ core = [n \in Nodes |-> NewCore] /\ submitted = {}
      /\ routine = [g \in Routines |-> Idle] /\ ~refused
  BY DEF Init
<1>2. /\ NewCore \in CoreSet /\ NewCore.store = <<>> /\ NewCore.pool = <<>>
      /\ NewCore.seq = NoEvent /\ \A m \in Nodes : NewCore.heads[m] = Absent
  BY DEF NewCore, CoreSet, NoEvent, Absent
<1> HIDE DEF NewCore
<1>3. ToSet(<<>>) = {}
  BY DEF ToSet
<1>4. /\ core \in [Nodes -> CoreSet]
      /\ \A n \in Nodes : /\ core[n] = NewCore /\ core[n].store = <<>> /\ core[n].pool = <<>>
                          /\ core[n].store \in Seq(EventSet)
  BY <1>1, <1>2, CoreFields
<1>5. \A n, m \in Nodes : LastFrom(core[n], m) \in Int /\ LastFrom(core[n], m) >= NoEvent
  BY <1>4, LastFromIs
<1>6. \A n \in Nodes : ToSet(core[n].store) = {} /\ ToSet(core[n].pool) = {}
  BY <1>3, <1>4
<1>7. \A n \in Nodes : Topological(core[n])
  BY <1>4 DEF Topological, Fits
<1>8. HeadsStored(core)
  BY <1>2, <1>4, <1>5 DEF HeadsStored, NoEvent, Absent
<1>9. StoresInv(core)
  BY <1>4, <1>6, <1>7, <1>8, Zenon DEF StoresInv, OwnStored, OwnUnique
<1>10. Stored(core) = {}
  BY <1>6 DEF Stored
<1>11. PoolsApart(core)
  <2>1. IsInjective(<<>>)
    BY DEF IsInjective
  <2> QED  BY <1>4, <1>6, <2>1, Zenon DEF PoolsApart
<1>12. TxInv(core)
  BY <1>1, <1>10, <1>11 DEF TxInv, EventsApart, PoolStuck, NoneLost
<1>13. MessagesOK(core, routine)
  BY <1>1 DEF MessagesOK, MessageOK
<1> QED  BY <1>1, <1>9, <1>12, <1>13 DEF GossipInv, CoresInv

LEMMA GossipStep == GossipInv /\ [Next]_vars => GossipInv'
<1> SUFFICES ASSUME GossipInv, [Next]_vars  PROVE GossipInv'
  OBVIOUS
<1>1. CASE \E n \in Nodes, t \in Txs : Submit(n, t)
  BY <1>1, SubmitKeeps
<1>2. CASE \E g \in Routines : Exchange(g)
  BY <1>2, ExchangeKeeps
<1>3. CASE \E g \in Routines : \E n, m \in Nodes : Pull(g, n, m)
  BY <1>3, PullKeeps
<1>4. CASE UNCHANGED vars
  <2>1. conf' = conf /\ core' = core /\ routine' = routine /\ submitted' = submitted
        /\ refused' = refused
    BY <1>4 DEF vars
  <2>2. CoresInv(core') /\ MessagesOK(core', routine')
    BY <2>1 DEF GossipInv
  <2>3. CoresInv(core)' /\ MessagesOK(core, routine)'
    BY <2>1, <2>2, CoresPrimed, MessagesPrimed
  <2> QED  BY <2>1, <2>3 DEF GossipInv
<1> QED  BY <1>1, <1>2, <1>3, <1>4 DEF Next

LEMMA GossipAlways == Spec => []GossipInv
  BY GossipStart, GossipStep, PTL DEF Spec

\* The events of a message find their parents at the receiver, whatever other
\* goroutines inserted since it said what it knows and wherever SyncLimit cut
\* the list: sync returns no error unless the consensus methods fail.
THEOREM SyncCorrect == Spec => []SyncAccepted
<1>1. GossipInv => SyncAccepted
  BY DEF GossipInv, SyncAccepted
<1> QED  BY <1>1, GossipAlways, PTL

\* checkSelfParent lets no creator have two events with one index, though a
\* self-event stays in the store when the consensus methods fail on it.
THEOREM NoForkCorrect == Spec => []NoFork
<1>1. GossipInv => NoFork
  <2> SUFFICES ASSUME GossipInv, NEW d \in Events, NEW e \in Events,
                      d.creator = e.creator, d.index = e.index
               PROVE  d = e
    BY DEF NoFork
  <2>1. StoresInv(core)
    BY DEF GossipInv, CoresInv
  <2>2. d \in EventSet /\ e \in EventSet
    BY <2>1, StoredEvents DEF Events, Stored
  <2>3. d.creator \in Nodes
    BY <2>2, EventFields
  <2>4. d \in ToSet(core[d.creator].store) /\ e \in ToSet(core[d.creator].store)
    BY <2>1 DEF StoresInv, OwnStored, Events
  <2> QED  BY <2>1, <2>3, <2>4 DEF StoresInv, OwnUnique
<1> QED  BY <1>1, GossipAlways, PTL

\* addSelfEvent moves the pool into an event and neither loses nor doubles a
\* transaction, the failures of the consensus methods included.
THEOREM TxOnceCorrect == Spec => []TxOnce
<1>1. GossipInv => TxOnce
  <2> SUFFICES ASSUME GossipInv  PROVE TxOnce
    OBVIOUS
  <2> DEFINE places(t) ==
               UNION {{<<e, k>> : k \in {j \in DOMAIN e.txs : e.txs[j] = t}} : e \in Events}
  <2>1. Events = Stored(core)
    BY DEF Events, Stored
  <2>2. /\ StoresInv(core) /\ PoolsApart(core) /\ EventsApart(core) /\ NoneLost(core)
    BY DEF GossipInv, CoresInv, TxInv
  <2>3. \A e \in Events : e.txs \in Seq(Txs)
    BY <2>1, <2>2, StoredEvents, EventFields
  <2>4. \A e \in Events : \A j \in DOMAIN e.txs : e.txs[j] \in ToSet(e.txs)
    BY <2>3, Members
  <2>5. SUFFICES ASSUME NEW t \in submitted
                 PROVE  /\ Cardinality(places(t)) <= 1
                        /\ places(t) = {} => \E n \in Nodes : t \in ToSet(core[n].pool)
    BY DEF TxOnce
  <2>6. \A p \in places(t) : \E e \in Events : \E j \in DOMAIN e.txs :
            p = <<e, j>> /\ e.txs[j] = t
    OBVIOUS
  <2>7. \A e \in Events : \A j \in DOMAIN e.txs : e.txs[j] = t => <<e, j>> \in places(t)
    OBVIOUS
  <2> HIDE DEF places
  <2>8. ASSUME NEW p \in places(t), NEW q \in places(t)  PROVE p = q
    <3>1. PICK d \in Events : \E i \in DOMAIN d.txs : p = <<d, i>> /\ d.txs[i] = t
      BY <2>6
    <3>2. PICK e \in Events : \E j \in DOMAIN e.txs : q = <<e, j>> /\ e.txs[j] = t
      BY <2>6
    <3>3. t \in ToSet(d.txs) /\ t \in ToSet(e.txs)
      BY <2>4, <3>1, <3>2
    <3>4. d = e
      BY <2>1, <2>2, <3>3 DEF EventsApart
    <3>5. IsInjective(e.txs)
      BY <2>1, <2>2 DEF EventsApart
    <3> QED  BY <3>1, <3>2, <3>4, <3>5 DEF IsInjective
  <2>9. Cardinality(places(t)) <= 1
    <3>1. CASE places(t) = {}
      BY <3>1, FS_EmptySet
    <3>2. CASE places(t) # {}
      <4>1. PICK p : p \in places(t)
        BY <3>2
      <4>2. places(t) = {p}
        BY <2>8, <4>1
      <4>3. Cardinality({p}) = 1
        BY FS_Singleton
      <4> QED  BY <4>2, <4>3
    <3> QED  BY <3>1, <3>2
  <2>10. ASSUME places(t) = {}  PROVE \E n \in Nodes : t \in ToSet(core[n].pool)
    <3>1. \A e \in Events : t \notin ToSet(e.txs)
      BY <2>3, <2>7, <2>10, Members
    <3> QED  BY <2>1, <2>2, <3>1 DEF NoneLost
  <2> QED  BY <2>9, <2>10
<1> QED  BY <1>1, GossipAlways, PTL
=============================================================================
