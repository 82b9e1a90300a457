-------------------------- MODULE HashgraphProofs --------------------------
(***************************************************************************)
(* Proofs about Hashgraph, for any number of peers, any graph of events    *)
(* and any order of insertion: types, the meaning of lastAncestors,        *)
(* causality of the timestamps, and what a step never revises.  The lemmas *)
(* about sorting, internal transactions, peer-sets and the passes of       *)
(* ProcessDecidedRounds serve the modules that extend this one.            *)
(***************************************************************************)
EXTENDS HashgraphProperties, TLAPS, WellFoundedInduction, FiniteSetTheorems,
        SequenceTheorems

-----------------------------------------------------------------------------
(***************************************************************************)
(* Numbers.                                                                *)
(***************************************************************************)

\* A non-empty set of natural numbers has a least element.
LEMMA LeastNatural ==
    ASSUME NEW T, T \subseteq Nat, T # {}
    PROVE  \E m \in T : \A k \in T : m <= k
<1> DEFINE R == OpToRel(<, Nat)
<1>1. IsWellFoundedOn(R, Nat)
  BY NatLessThanWellFounded, Zenon
<1>2. R = {ss \in Nat \X Nat : ss[1] < ss[2]}
  BY Zenon DEF OpToRel
<1> HIDE DEF R
<1>3. PICK m \in T : \A k \in T : ~(<<k, m>> \in R)
  BY <1>1, WFMin, Zenon
<1>4. \A k \in T : ~(k < m)
  BY <1>2, <1>3, Zenon
<1> QED  BY <1>4

\* So has a non-empty set of integers with a lower bound.
LEMMA LeastInteger ==
    ASSUME NEW S, S \subseteq Int, S # {}, NEW low \in Int, \A k \in S : low <= k
    PROVE  \E m \in S : \A k \in S : m <= k
<1> DEFINE T == {k - low : k \in S}
<1>1. \A k \in S : k \in Int /\ k - low \in Nat /\ k - low \in T
  OBVIOUS
<1>2. T \subseteq Nat
  BY <1>1
<1>3. T # {}
  BY <1>1, Zenon
<1>4. PICK t \in T : \A k \in T : t <= k
  BY <1>2, <1>3, LeastNatural, Zenon
<1>5. PICK m \in S : t = m - low
  OBVIOUS
<1> HIDE DEF T
<1>6. \A k \in S : m - low <= k - low
  BY <1>1, <1>4, <1>5
<1> QED  BY <1>1, <1>6

\* MaxOrNone is the maximum, of a set that has one.
LEMMA MaxOrNoneIsMax ==
    ASSUME NEW S, NEW m \in S, \A k \in S : k <= m
    PROVE  MaxOrNone(S) \in S /\ \A k \in S : k <= MaxOrNone(S)
BY DEF MaxOrNone

-----------------------------------------------------------------------------
(***************************************************************************)
(* Intervals.                                                              *)
(***************************************************************************)

\* The maximum of a set of integers is its only greatest element.
LEMMA MaxIs ==
    ASSUME NEW S, S \subseteq Int, NEW m \in S, \A k \in S : k <= m
    PROVE  MaxOrNone(S) = m
<1>1. MaxOrNone(S) \in S /\ \A k \in S : k <= MaxOrNone(S)
  BY MaxOrNoneIsMax, Zenon
<1>2. MaxOrNone(S) \in Int /\ m \in Int /\ MaxOrNone(S) <= m /\ m <= MaxOrNone(S)
  BY <1>1, Zenon
<1> QED  BY <1>2

\* The maximum of an interval that is not empty.
LEMMA MaxOfInterval ==
    ASSUME NEW a \in Int, NEW b \in Int, a <= b
    PROVE  MaxOrNone(a..b) = b
<1>1. b \in a..b /\ \A k \in a..b : k <= b
  OBVIOUS
<1>2. MaxOrNone(a..b) \in a..b /\ \A k \in a..b : k <= MaxOrNone(a..b)
  BY <1>1, MaxOrNoneIsMax, Zenon
<1> QED  BY <1>1, <1>2

\* A non-empty set of integers with an upper bound has a greatest element.
LEMMA GreatestInteger ==
    ASSUME NEW S, S \subseteq Int, S # {}, NEW high \in Int, \A k \in S : k <= high
    PROVE  /\ MaxOrNone(S) \in S
           /\ \A k \in S : k <= MaxOrNone(S)
<1> DEFINE T == {high - k : k \in S}
<1>0. \A k \in S : high - k \in Nat
  OBVIOUS
<1>1. T \subseteq Nat /\ T # {}
  BY <1>0, Zenon
<1>2. PICK t \in T : \A k \in T : t <= k
  BY <1>1, LeastNatural, Zenon
<1>3. PICK m \in S : t = high - m
  OBVIOUS
<1>4. \A k \in S : high - k \in T
  OBVIOUS
<1> HIDE DEF T
<1>5. \A k \in S : k <= m
  BY <1>2, <1>3, <1>4
<1> QED  BY <1>5, MaxOrNoneIsMax, Zenon

\* Ascending lists an interval from its first element on.
LEMMA AscendingInterval ==
    ASSUME NEW a \in Int, NEW m \in Int, a <= m
    PROVE  /\ Cardinality(a + 1 .. m) = m - a
           /\ DOMAIN Ascending(a + 1 .. m) = 1 .. m - a
           /\ Len(Ascending(a + 1 .. m)) = m - a
           /\ \A i \in 1 .. m - a : Ascending(a + 1 .. m)[i] = a + i
<1> DEFINE S == a + 1 .. m
           below(r) == {k \in S : k < r}
<1>0. ASSUME NEW k \in Int, a <= k  PROVE Cardinality(a + 1 .. k) = k - a
  <2>1. a + 1 \in Int
    OBVIOUS
  <2>2. Cardinality(a + 1 .. k) = IF a + 1 > k THEN 0 ELSE k - (a + 1) + 1
    BY <2>1, FS_Interval, Zenon
  <2> QED  BY <1>0, <2>2
<1>1. Cardinality(S) = m - a
  BY <1>0
<1>2. \A r \in S : Cardinality(below(r)) = r - a - 1
  <2> TAKE r \in S
  <2>1. below(r) = a + 1 .. r - 1
    OBVIOUS
  <2>2. r - 1 \in Int /\ a <= r - 1
    OBVIOUS
  <2>3. Cardinality(a + 1 .. r - 1) = (r - 1) - a
    BY <1>0, <2>2
  <2>4. (r - 1) - a = r - a - 1
    OBVIOUS
  <2> HIDE DEF below
  <2> QED  BY <2>1, <2>3, <2>4
<1>3. Ascending(S) = [i \in 1..m - a |-> CHOOSE r \in S : Cardinality(below(r)) = i - 1]
  BY <1>1 DEF Ascending
<1> HIDE DEF below
<1>4. \A i \in 1..m - a : a + i \in S /\ \A r \in S : Cardinality(below(r)) = i - 1 <=> r = a + i
  BY <1>2
<1>5. \A i \in 1..m - a : (CHOOSE r \in S : Cardinality(below(r)) = i - 1) = a + i
  BY <1>4
<1>6. Len([i \in 1..m - a |-> CHOOSE r \in S : Cardinality(below(r)) = i - 1]) = m - a
  OBVIOUS
<1> QED  BY <1>1, <1>3, <1>5, <1>6, Zenon
-----------------------------------------------------------------------------
(***************************************************************************)
(* Events and their parents.                                               *)
(***************************************************************************)

\* The name of an event is its creator and its index.
LEMMA EventNames ==
    ASSUME dag \in Dags, NEW x \in Events
    PROVE  /\ x = <<Creator(x), Index(x)>>
           /\ Creator(x) \in Participants
           /\ Index(x) \in Nat
           /\ SelfParent(x) = <<Creator(x), Index(x) - 1>>
           /\ OtherParent(x) \in Participants \X (Nat \cup {-1})
BY DagsAssumption DEF Events, Creator, Index, SelfParent, OtherParent

\* The maximum of f over the known parents of x, or -1: what round,
\* lamportTimestamp and initEventCoordinates compute.
LEMMA ParentMax ==
    ASSUME NEW h, NEW x, h.known \subseteq Events, NEW f \in [Events -> Int],
           NEW S, \A v : v \in S <=> \E y \in KnownParents(h, x) : v = f[y]
    PROVE  /\ MaxOrNone(S) \in Int
           /\ KnownParents(h, x) = {} => MaxOrNone(S) = -1
           /\ \A y \in KnownParents(h, x) : f[y] <= MaxOrNone(S)
           /\ KnownParents(h, x) # {} => \E y \in KnownParents(h, x) : MaxOrNone(S) = f[y]
<1> DEFINE K == KnownParents(h, x)
<1>1. K \subseteq Events /\ K \subseteq {SelfParent(x), OtherParent(x)}
  BY DEF KnownParents
<1> HIDE DEF K
<1>2. CASE K = {}
  BY <1>2 DEF MaxOrNone, K
<1>3. CASE K # {}
  <2>1. S \subseteq Int /\ \A y \in K : f[y] \in S
    BY <1>1 DEF K
  <2>2. \E m \in S : \A k \in S : k <= m
    <3>1. PICK y \in K : \A z \in K : f[z] <= f[y]
      BY <1>1, <1>3
    <3> QED  BY <2>1, <3>1, Zenon DEF K
  <2>3. MaxOrNone(S) \in S /\ \A k \in S : k <= MaxOrNone(S)
    BY <2>2, MaxOrNoneIsMax
  <2> QED  BY <2>1, <2>3, <1>3, Zenon DEF K
<1> QED  BY <1>2, <1>3

-----------------------------------------------------------------------------
(***************************************************************************)
(* Sorting.                                                                *)
(***************************************************************************)

\* The events of S that come before x.
Below(h, S, x) == {y \in S : Less(h, y, x)}

\* Less is a strict total order on events: no two have the same signature.
LEMMA LessOrders ==
    ASSUME dag \in Dags, NEW h, h.lamport \in [Events -> Int],
           NEW x \in Events, NEW y \in Events, NEW z \in Events
    PROVE  /\ ~Less(h, x, x)
           /\ x # y => Less(h, x, y) \/ Less(h, y, x)
           /\ Less(h, x, y) /\ Less(h, y, z) => Less(h, x, z)
<1>1. /\ dag[x].rank \in Int /\ dag[y].rank \in Int /\ dag[z].rank \in Int
      /\ dag[x].rank = dag[y].rank => x = y
  BY DagsAssumption DEF Events
<1>2. h.lamport[x] \in Int /\ h.lamport[y] \in Int /\ h.lamport[z] \in Int
  OBVIOUS
<1> QED  BY <1>1, <1>2 DEF Less

\* The number of events before x is different for each x of S.
LEMMA PlacesDiffer ==
    ASSUME dag \in Dags, NEW h, h.lamport \in [Events -> Int],
           NEW S, S \subseteq Events, IsFiniteSet(S), NEW x \in S, NEW y \in S, Less(h, x, y)
    PROVE  Cardinality(Below(h, S, x)) # Cardinality(Below(h, S, y))
<1>1. Below(h, S, x) \subseteq Below(h, S, y)
  BY LessOrders DEF Below
<1>2. x \in Below(h, S, y) /\ x \notin Below(h, S, x)
  BY LessOrders DEF Below
<1>3. IsFiniteSet(Below(h, S, y))
  BY FS_Subset DEF Below
<1> QED  BY <1>1, <1>2, <1>3, FS_Subset

\* SortEvents lists every event of S, and nothing else.
LEMMA SortLists ==
    ASSUME dag \in Dags, NEW h, h.lamport \in [Events -> Int],
           NEW S, S \subseteq Events, IsFiniteSet(S)
    PROVE  /\ Cardinality(S) \in Nat
           /\ DOMAIN SortEvents(h, S) = 1..Cardinality(S)
           /\ Range(SortEvents(h, S)) = S
<1> DEFINE N == Cardinality(S)
           place == [x \in S |-> Cardinality(Below(h, S, x)) + 1]
           Q == SortEvents(h, S)
<1>1. N \in Nat
  BY FS_CardinalityType
<1>2. \A x \in S : Cardinality(Below(h, S, x)) \in 0 .. N - 1
  <2> TAKE x \in S
  <2>1. Below(h, S, x) \subseteq S \ {x}
    BY LessOrders DEF Below
  <2>2. IsFiniteSet(S \ {x}) /\ Cardinality(S \ {x}) = N - 1
    BY FS_RemoveElement
  <2>3. IsFiniteSet(Below(h, S, x)) /\ Cardinality(Below(h, S, x)) <= N - 1
    BY <2>1, <2>2, FS_Subset
  <2>4. Cardinality(Below(h, S, x)) \in Nat
    BY <2>3, FS_CardinalityType
  <2> QED  BY <1>1, <2>3, <2>4
<1> HIDE DEF N
<1>3. place \in [S -> 1..N]
  BY <1>1, <1>2
<1>4. \A x, y \in S : place[x] = place[y] => x = y
  <2> TAKE x, y \in S
  <2>1. x # y => Less(h, x, y) \/ Less(h, y, x)
    BY LessOrders
  <2>2. x # y => Cardinality(Below(h, S, x)) # Cardinality(Below(h, S, y))
    BY <2>1, PlacesDiffer
  <2> QED  BY <1>2, <2>2
<1>5. place \in Injection(S, 1..N)
  <2> HIDE DEF place
  <2> QED  BY <1>3, <1>4 DEF Injection, IsInjective
<1>6. IsFiniteSet(1..N) /\ Cardinality(1..N) = N
  BY <1>1, FS_Interval
<1>7. place \in Surjection(S, 1..N)
  BY <1>5, <1>6, FS_Injection DEF N
<1>8. \A i \in 1..N : \E x \in S : Cardinality(Below(h, S, x)) = i - 1
  <2> TAKE i \in 1..N
  <2>1. PICK x \in S : place[x] = i
    BY <1>7, Zenon DEF Surjection
  <2> QED  BY <1>2, <2>1
<1>9. Q = [i \in 1..N |-> CHOOSE x \in S : Cardinality(Below(h, S, x)) = i - 1]
  BY DEF SortEvents, Below, N
<1> HIDE DEF Q, place
<1>10. \A i \in 1..N : Q[i] \in S /\ Cardinality(Below(h, S, Q[i])) = i - 1
  BY <1>8, <1>9
<1>11. \A x \in S : \E i \in 1..N : Q[i] = x
  <2> TAKE x \in S
  <2> DEFINE i == Cardinality(Below(h, S, x)) + 1
  <2>1. i \in 1..N /\ Cardinality(Below(h, S, x)) = i - 1
    BY <1>1, <1>2
  <2> HIDE DEF i
  <2>2. Q[i] \in S /\ Cardinality(Below(h, S, Q[i])) = Cardinality(Below(h, S, x))
    BY <1>10, <2>1
  <2>3. Q[i] # x => Less(h, Q[i], x) \/ Less(h, x, Q[i])
    BY <2>2, LessOrders
  <2>4. Q[i] = x
    BY <2>2, <2>3, PlacesDiffer
  <2> QED  BY <2>1, <2>4
<1>12. DOMAIN Q = 1..N
  BY <1>9
<1>13. Range(Q) = S
  BY <1>10, <1>11, <1>12 DEF Range
<1> QED  BY <1>1, <1>12, <1>13 DEF N, Q
-----------------------------------------------------------------------------
(***************************************************************************)
(* Internal transactions.                                                  *)
(***************************************************************************)

\* The internal transactions of the graph.
AllItxs == UNION {Range(dag[x].itxs) : x \in Events}

\* They are about participants, and events carry sequences of them.
LEMMA ItxsOfEvents ==
    ASSUME dag \in Dags
    PROVE  /\ \A x \in Events : dag[x].itxs \in Seq(AllItxs)
           /\ \A t \in AllItxs : t.peer \in Participants
<1>1. \A x \in Events : /\ dag[x].itxs \in Seq(Range(dag[x].itxs))
                        /\ \A i \in DOMAIN dag[x].itxs : dag[x].itxs[i].peer \in Participants
  BY DagsAssumption DEF Events
<1>2. ASSUME NEW x \in Events  PROVE dag[x].itxs \in Seq(AllItxs)
  <2>1. Range(dag[x].itxs) \subseteq AllItxs
    BY DEF AllItxs
  <2> QED  BY <1>1, <2>1, SeqMonotonic
<1>3. ASSUME NEW t \in AllItxs  PROVE t.peer \in Participants
  <2>1. PICK x \in Events : t \in Range(dag[x].itxs)
    BY DEF AllItxs
  <2>2. PICK i \in DOMAIN dag[x].itxs : t = dag[x].itxs[i]
    BY <2>1 DEF Range
  <2> QED  BY <1>1, <2>2
<1> QED  BY <1>2, <1>3

\* f[i] is the concatenation of the first i sequences of s.
IsFlattening(f, s, n) == f = [i \in 1..n |-> IF i = 1 THEN s[i] ELSE f[i - 1] \o s[i]]

\* There is such an f: by induction on n.
LEMMA FlatteningExists ==
    ASSUME NEW s, NEW n \in Nat
    PROVE  \E f : IsFlattening(f, s, n)
<1> DEFINE T == {j \in Nat : ~ \E f : IsFlattening(f, s, j)}
<1> SUFFICES ASSUME T # {}  PROVE FALSE
  OBVIOUS
<1>1. PICK m \in T : \A j \in T : m <= j
  BY LeastNatural, Zenon
<1>2. m # 0
  <2>1. IsFlattening([i \in 1..0 |-> 0], s, 0)
    BY DEF IsFlattening
  <2> QED  BY <2>1
<1>3. PICK f : IsFlattening(f, s, m - 1)
  BY <1>1, <1>2
<1> DEFINE last == IF m = 1 THEN s[m] ELSE f[m - 1] \o s[m]
           g == [i \in 1..m |-> IF i = m THEN last ELSE f[i]]
<1>4. IsFlattening(g, s, m)
  <2>1. \A i \in 1 .. m - 1 : f[i] = IF i = 1 THEN s[i] ELSE f[i - 1] \o s[i]
    BY <1>3, Zenon DEF IsFlattening
  <2>2. m \in Nat /\ \A i \in 1..m : i # m => i \in 1 .. m - 1
    OBVIOUS
  <2>3. \A i \in 1..m : i # m => g[i] = f[i] /\ (i # 1 => g[i - 1] = f[i - 1])
    OBVIOUS
  <2>4. g[m] = IF m = 1 THEN s[m] ELSE g[m - 1] \o s[m]
    BY <1>2
  <2>5. \A i \in 1..m : g[i] = IF i = 1 THEN s[i] ELSE g[i - 1] \o s[i]
    BY <2>1, <2>2, <2>3, <2>4
  <2>6. g = [i \in 1..m |-> g[i]]
    OBVIOUS
  <2> HIDE DEF g
  <2> QED  BY <2>5, <2>6, Zenon DEF IsFlattening
<1> QED  BY <1>4

\* FlattenSeq makes a sequence of the elements of its argument's sequences.
LEMMA FlattenType ==
    ASSUME NEW V, NEW n \in Nat, NEW s, DOMAIN s = 1..n, Len(s) = n,
           s \in [1..n -> Seq(V)]
    PROVE  FlattenSeq(s) \in Seq(V)
<1>1. CASE n = 0
  <2>1. FlattenSeq(s) = s
    BY <1>1 DEF FlattenSeq
  <2>2. s \in [1..0 -> V]
    BY <1>1
  <2> QED  BY <2>1, <2>2, SeqDef
<1>2. CASE n # 0
  <2> DEFINE f == CHOOSE g : IsFlattening(g, s, n)
  <2>1. FlattenSeq(s) = f[n]
    BY <1>2, Zenon DEF FlattenSeq, IsFlattening
  <2>2. IsFlattening(f, s, n)
    BY FlatteningExists, Zenon
  <2> HIDE DEF f
  <2> DEFINE T == {i \in Nat : i \in 1..n /\ f[i] \notin Seq(V)}
  <2>3. T = {}
    <3> SUFFICES ASSUME T # {}  PROVE FALSE
      OBVIOUS
    <3>1. PICK m \in T : \A j \in T : m <= j
      BY LeastNatural, Zenon
    <3>2. m # 1
      BY <2>2 DEF IsFlattening
    <3>3. m - 1 \in 1..n /\ m - 1 \notin T
      BY <3>1, <3>2
    <3>4. f[m] = f[m - 1] \o s[m]
      BY <2>2, <3>2, Zenon DEF IsFlattening
    <3>5. f[m - 1] \in Seq(V) /\ s[m] \in Seq(V)
      BY <3>3
    <3>6. f[m - 1] \o s[m] \in Seq(V)
      BY <3>5, ConcatProperties, Zenon
    <3> QED  BY <3>4, <3>6, Zenon
  <2> QED  BY <1>2, <2>1, <2>3
<1> QED  BY <1>1, <1>2
\* A block as ProcessRound makes it for round r, and as Commit may leave it.
IsBlock(b, i, r) ==
    /\ DOMAIN b = {"index", "round", "peers", "ts", "txs", "itxs", "committed", "sigs"}
    /\ b.index = i /\ b.round = r
    /\ b.itxs \in Seq(AllItxs)
    /\ b.sigs \subseteq Participants /\ b.committed \in BOOLEAN
    /\ b.sigs # {} => b.committed

\* The block of a frame is for its round, unsigned, and carries internal
\* transactions of the graph.
LEMMA BlockOfFrame ==
    ASSUME dag \in Dags, NEW h, h.lamport \in [Events -> Int],
           h.known \subseteq Events, IsFiniteSet(h.known), NEW r, NEW i,
           NEW b, b = NewBlockFromFrame(i, GetFrame(h, r))
    PROVE  IsBlock(b, i, r) /\ b.committed = FALSE /\ b.sigs = {}
<1> DEFINE frame == GetFrame(h, r)
           S == {x \in h.known : h.rr[x] = r}
           Q == SortEvents(h, S)
           N == Cardinality(S)
           s == [k \in DOMAIN frame.events |-> dag[frame.events[k]].itxs]
           t == SelectSeq(frame.events, LAMBDA x : dag[x].txs)
<1>1. frame.events = Q /\ frame.round = r
  BY DEF GetFrame
<1>2. S \subseteq Events /\ IsFiniteSet(S)
  <2>1. S \subseteq h.known
    OBVIOUS
  <2> HIDE DEF S
  <2> QED  BY <2>1, FS_Subset
<1> HIDE DEF S
<1>3. N \in Nat /\ DOMAIN Q = 1..N /\ Range(Q) = S
  BY <1>2, SortLists
<1> HIDE DEF Q, N, frame
<1>4. \A k \in 1..N : Q[k] \in Events
  BY <1>2, <1>3 DEF Range
<1>5. s = [k \in 1..N |-> dag[Q[k]].itxs]
  BY <1>1, <1>3
<1>6. \A k \in 1..N : dag[Q[k]].itxs \in Seq(AllItxs)
  BY <1>4, ItxsOfEvents
<1>7. DOMAIN s = 1..N /\ Len(s) = N /\ s \in [1..N -> Seq(AllItxs)]
  BY <1>3, <1>5, <1>6
<1> HIDE DEF s
<1>8. FlattenSeq(s) \in Seq(AllItxs)
  BY <1>3, <1>7, FlattenType
<1> DEFINE u == FlattenSeq(s)
<1>9. b = [index |-> i, round |-> frame.round, peers |-> frame.peers, ts |-> frame.ts,
           txs |-> t, itxs |-> u, committed |-> FALSE, sigs |-> {}]
  BY Zenon DEF NewBlockFromFrame, frame, s
<1> HIDE DEF u, t
<1>10. b.itxs = u
  BY <1>9
<1>11. b.itxs \in Seq(AllItxs)
  BY <1>8, <1>10 DEF u
<1>12. /\ DOMAIN b = {"index", "round", "peers", "ts", "txs", "itxs", "committed", "sigs"}
       /\ b.index = i /\ b.round = r /\ b.committed = FALSE /\ b.sigs = {}
  BY <1>1, <1>9
<1> QED  BY <1>11, <1>12, Zenon DEF IsBlock

-----------------------------------------------------------------------------
(***************************************************************************)
(* processAcceptedInternalTransactions.                                    *)
(***************************************************************************)

\* f[i] is the peer-set P after the first i of the transactions q.
IsApplied(f, P, q, n) ==
    f = [i \in 0..n |-> CASE i = 0 -> P
                          [] i > 0 /\ q[i] \in Refused -> f[i - 1]
                          [] OTHER -> ApplyInternal(f[i - 1], q[i])]

\* That is: the refused ones change nothing.
AppliedSteps(f, P, q, n) ==
    /\ f[0] = P
    /\ \A i \in 1..n : f[i] = IF q[i] \in Refused THEN f[i - 1]
                                ELSE ApplyInternal(f[i - 1], q[i])

\* There is such an f: by induction on n.
LEMMA AppliedExists ==
    ASSUME NEW P, NEW q, NEW n \in Nat
    PROVE  \E f : IsApplied(f, P, q, n)
<1> DEFINE T == {j \in Nat : ~ \E f : IsApplied(f, P, q, j)}
<1> SUFFICES ASSUME T # {}  PROVE FALSE
  OBVIOUS
<1>1. PICK m \in T : \A j \in T : m <= j
  BY LeastNatural, Zenon
<1>2. m # 0
  <2>1. IsApplied([i \in 0..0 |-> P], P, q, 0)
    BY DEF IsApplied
  <2> QED  BY <2>1
<1>3. PICK f : IsApplied(f, P, q, m - 1)
  BY <1>1, <1>2
<1> DEFINE last == IF q[m] \in Refused THEN f[m - 1] ELSE ApplyInternal(f[m - 1], q[m])
           g == [i \in 0..m |-> IF i = m THEN last ELSE f[i]]
<1>4. IsApplied(g, P, q, m)
  BY <1>2, <1>3 DEF IsApplied
<1> QED  BY <1>4

\* The transactions take P through such steps to ApplyAccepted(P, q).
LEMMA AppliedIs ==
    ASSUME NEW P, NEW q, Len(q) \in Nat
    PROVE  \E f : AppliedSteps(f, P, q, Len(q)) /\ ApplyAccepted(P, q) = f[Len(q)]
<1> DEFINE f == CHOOSE g : IsApplied(g, P, q, Len(q))
<1>1. ApplyAccepted(P, q) = f[Len(q)]
  BY Zenon DEF ApplyAccepted, IsApplied
<1>2. IsApplied(f, P, q, Len(q))
  BY AppliedExists, Zenon
<1> HIDE DEF f
<1>3. AppliedSteps(f, P, q, Len(q))
  BY <1>2 DEF IsApplied, AppliedSteps
<1> QED  BY <1>1, <1>3

\* The k-th transaction of q is accepted and is about p.
About(q, k, p) == q[k] \notin Refused /\ q[k].peer = p

\* The last of the first n transactions of q that is accepted and about p adds
\* p, or there is none and p belongs to P.
StaysIn(P, q, n, p) ==
    \/ \E k \in 1..n : /\ About(q, k, p) /\ q[k].type = "PEER_ADD"
                       /\ \A m \in 1..n : About(q, m, p) => m <= k
    \/ p \in P /\ \A k \in 1..n : ~About(q, k, p)

\* One more transaction.
LEMMA AppliedStep ==
    ASSUME NEW P, NEW q, NEW n \in Nat, n > 0, NEW p, NEW F, NEW G,
           p \in F <=> StaysIn(P, q, n - 1, p),
           G = IF q[n] \in Refused THEN F ELSE ApplyInternal(F, q[n])
    PROVE  p \in G <=> StaysIn(P, q, n, p)
<1>1. \A k \in 1..n : k \in 1 .. n - 1 \/ k = n
  OBVIOUS
<1>2. CASE ~About(q, n, p)
  <2>1. p \in G <=> p \in F
    BY <1>2 DEF About, ApplyInternal, WithNewPeer, WithRemovedPeer
  <2>2. \A k \in 1..n : About(q, k, p) => k \in 1 .. n - 1
    BY <1>1, <1>2
  <2>3. StaysIn(P, q, n, p) <=> StaysIn(P, q, n - 1, p)
    BY <2>2 DEF StaysIn
  <2> QED  BY <2>1, <2>3
<1>3. CASE About(q, n, p)
  <2>1. p \in G <=> q[n].type = "PEER_ADD"
    BY <1>3 DEF About, ApplyInternal, WithNewPeer, WithRemovedPeer
  <2>2. n \in 1..n /\ \A k \in 1..n : k <= n /\ (n <= k => k = n)
    OBVIOUS
  <2>3. StaysIn(P, q, n, p) <=> q[n].type = "PEER_ADD"
    BY <1>3, <2>2 DEF StaysIn
  <2> QED  BY <2>1, <2>3
<1> QED  BY <1>2, <1>3

\* Who is in after the transactions of q.
LEMMA AppliedMembers ==
    ASSUME NEW P, NEW q, Len(q) \in Nat, NEW p
    PROVE  p \in ApplyAccepted(P, q) <=> StaysIn(P, q, Len(q), p)
<1>1. PICK f : AppliedSteps(f, P, q, Len(q)) /\ ApplyAccepted(P, q) = f[Len(q)]
  BY AppliedIs
<1> DEFINE T == {i \in Nat : i \in 0..Len(q) /\ ~(p \in f[i] <=> StaysIn(P, q, i, p))}
<1>2. T = {}
  <2> SUFFICES ASSUME T # {}  PROVE FALSE
    OBVIOUS
  <2>1. PICK m \in T : \A j \in T : m <= j
    BY LeastNatural, Zenon
  <2>2. m # 0
    <3>1. StaysIn(P, q, 0, p) <=> p \in P
      BY DEF StaysIn
    <3> QED  BY <1>1, <3>1 DEF AppliedSteps
  <2>3. m \in Nat /\ m > 0 /\ m \in 1..Len(q) /\ m - 1 \in Nat /\ m - 1 \notin T
        /\ m - 1 \in 0..Len(q)
    BY <2>1, <2>2
  <2>4. p \in f[m - 1] <=> StaysIn(P, q, m - 1, p)
    BY <2>3
  <2>5. f[m] = IF q[m] \in Refused THEN f[m - 1] ELSE ApplyInternal(f[m - 1], q[m])
    BY <1>1, <2>3 DEF AppliedSteps
  <2>6. p \in f[m] <=> StaysIn(P, q, m, p)
    BY <2>3, <2>4, <2>5, AppliedStep
  <2> QED  BY <2>6
<1>3. Len(q) \in 0..Len(q)
  OBVIOUS
<1> QED  BY <1>1, <1>2, <1>3
-----------------------------------------------------------------------------
(***************************************************************************)
(* What each method leaves in the fields of a hashgraph.                   *)
(***************************************************************************)

\* The fields of a hashgraph.
LEMMA FieldNames ==
    DOMAIN NewHashgraph =
        {"known", "la", "fd", "round", "lamport", "witness", "famous", "rr",
         "undetermined", "decided", "pending", "lowerBound", "lastConsensusRound",
         "lastConsensus", "loaded", "frames", "blocks", "anchor", "sigPool",
         "peerSets", "validators"}
BY DEF NewHashgraph

\* InsertEvent adds the event with its coordinates.
LEMMA InsertFields ==
    ASSUME NEW h, DOMAIN h = DOMAIN NewHashgraph, NEW x,
           NEW g, g = InsertEvent(h, x)
    PROVE  /\ DOMAIN g = DOMAIN NewHashgraph
           /\ g.known = h.known \cup {x}
           /\ g.undetermined = h.undetermined \cup {x}
           /\ g.la = [h.la EXCEPT ![x] = LastAncestors(h, x)]
           /\ g.round = h.round /\ g.lamport = h.lamport /\ g.witness = h.witness
           /\ g.famous = h.famous /\ g.rr = h.rr
           /\ g.decided = h.decided /\ g.pending = h.pending
           /\ g.lowerBound = h.lowerBound
BY FieldNames DEF InsertEvent, UpdateAncestorFirstDescendant

\* DivideRounds gives the event its round, witness flag and timestamp.
LEMMA DivideFields ==
    ASSUME NEW h, DOMAIN h = DOMAIN NewHashgraph, NEW x,
           NEW g, g = DivideRounds(h, x)
    PROVE  /\ DOMAIN g = DOMAIN NewHashgraph
           /\ g.pending = Queue(h, RoundOf(h, x))
           /\ g.known = h.known /\ g.undetermined = h.undetermined
           /\ g.la = h.la /\ g.fd = h.fd
           /\ g.famous = h.famous /\ g.rr = h.rr /\ g.decided = h.decided
BY FieldNames DEF DivideRounds

\* The round and the timestamp it gives the event.
LEMMA DivideTimes ==
    ASSUME NEW h, DOMAIN h = DOMAIN NewHashgraph, NEW x,
           NEW g, g = DivideRounds(h, x)
    PROVE  /\ g.round = [h.round EXCEPT ![x] = RoundOf(h, x)]
           /\ g.lamport = [h.lamport EXCEPT ![x] = LamportTimestamp(h, x)]
BY FieldNames DEF DivideRounds

\* It gives a witness flag to that event only.
LEMMA DivideWitness ==
    ASSUME NEW h, DOMAIN h = DOMAIN NewHashgraph, NEW x \in Events,
           h.witness \in [Events -> BOOLEAN],
           NEW g, g = DivideRounds(h, x)
    PROVE  /\ g.witness \in [Events -> BOOLEAN]
           /\ \A y \in Events : y # x => g.witness[y] = h.witness[y]
<1> DEFINE w == IsWitness(h, x, RoundOf(h, x))
<1>1. w \in BOOLEAN
  BY Zenon DEF IsWitness
<1>2. g.witness = [h.witness EXCEPT ![x] = w]
  BY FieldNames DEF DivideRounds
<1> HIDE DEF w
<1> QED  BY <1>1, <1>2, Zenon

\* DecideFame leaves everything but fame and decided rounds.
LEMMA DecideFameFields ==
    ASSUME NEW h, DOMAIN h = DOMAIN NewHashgraph, NEW fame,
           NEW g, g = DecideFame(h, fame)
    PROVE  /\ DOMAIN g = DOMAIN NewHashgraph
           /\ g.known = h.known /\ g.undetermined = h.undetermined
           /\ g.la = h.la /\ g.fd = h.fd
           /\ g.round = h.round /\ g.lamport = h.lamport /\ g.witness = h.witness
           /\ g.rr = h.rr
BY FieldNames DEF DecideFame, SetFame

\* DecideFame marks rounds of PendingRounds as decided, and forgets none.
LEMMA DecidedRounds ==
    ASSUME NEW h, DOMAIN h = DOMAIN NewHashgraph, h.decided \subseteq Int,
           DOMAIN h.pending \subseteq Int, h.pending \in [DOMAIN h.pending -> BOOLEAN],
           NEW fame, NEW g, g = DecideFame(h, fame)
    PROVE  /\ h.decided \subseteq g.decided /\ g.decided \subseteq Int
           /\ DOMAIN g.pending \subseteq Int /\ g.pending \in [DOMAIN g.pending -> BOOLEAN]
<1> DEFINE f == SetFame(h, fame)
           D == {r \in DOMAIN h.pending : WitnessesDecided(f, r)}
<1>1. DOMAIN f = DOMAIN NewHashgraph /\ f.decided = h.decided
  BY FieldNames DEF SetFame
<1>2. g = [f EXCEPT !.decided = @ \cup D,
                    !.pending = [r \in DOMAIN h.pending |-> h.pending[r] \/ r \in D]]
  BY Zenon DEF DecideFame
<1>3. D \subseteq DOMAIN h.pending
  OBVIOUS
<1> HIDE DEF f, D
<1>4. /\ g.decided = h.decided \cup D
      /\ g.pending = [r \in DOMAIN h.pending |-> h.pending[r] \/ r \in D]
  BY <1>1, <1>2, FieldNames
<1> QED  BY <1>3, <1>4

\* DecideFame defines the fame of the witnesses that fame is about.
LEMMA DecidedFame ==
    ASSUME NEW h, DOMAIN h = DOMAIN NewHashgraph, NEW fame,
           NEW g, g = DecideFame(h, fame)
    PROVE  g.famous = [x \in Events |-> CASE x \notin DOMAIN fame -> h.famous[x]
                                          [] x \in DOMAIN fame /\ fame[x] -> "true"
                                          [] OTHER -> "false"]
BY FieldNames DEF DecideFame, SetFame

\* DecideRoundReceived gives some undetermined events a round-received.
LEMMA ReceivedFields ==
    ASSUME NEW h, DOMAIN h = DOMAIN NewHashgraph,
           NEW g, g = DecideRoundReceived(h)
    PROVE  /\ DOMAIN g = DOMAIN NewHashgraph
           /\ g.rr = [x \in Events |-> IF x \in h.undetermined
                                       THEN RoundReceived(h, x) ELSE h.rr[x]]
           /\ g.undetermined = {x \in h.undetermined : g.rr[x] = -1}
           /\ g.known = h.known /\ g.famous = h.famous
           /\ g.decided = h.decided /\ g.pending = h.pending
           /\ g.la = h.la /\ g.fd = h.fd
           /\ g.round = h.round /\ g.lamport = h.lamport /\ g.witness = h.witness
BY FieldNames DEF DecideRoundReceived

\* ProcessDecidedRounds only removes rounds from PendingRounds, as far as events,
\* rounds and fame are concerned.
LEMMA ProcessFields ==
    ASSUME NEW h, DOMAIN h = DOMAIN NewHashgraph, NEW n,
           NEW g, g = ProcessDecidedRounds(h, n)
    PROVE  /\ DOMAIN g = DOMAIN NewHashgraph
           /\ g.pending = [r \in DOMAIN h.pending \ Processable(h) |-> h.pending[r]]
           /\ g.known = h.known /\ g.undetermined = h.undetermined
           /\ g.la = h.la /\ g.fd = h.fd
           /\ g.round = h.round /\ g.lamport = h.lamport /\ g.witness = h.witness
           /\ g.famous = h.famous /\ g.rr = h.rr /\ g.decided = h.decided
<1> DEFINE f == ProcessRounds(h, n, Ascending(Processable(h)))[Cardinality(Processable(h))]
<1>1. g = [h EXCEPT !.frames = f.frames, !.blocks = f.blocks, !.anchor = f.anchor,
                    !.peerSets = f.peerSets, !.validators = f.validators,
                    !.lastConsensus = f.lastConsensus, !.loaded = f.loaded,
                    !.pending = [r \in DOMAIN h.pending \ Processable(h) |-> h.pending[r]],
                    !.lastConsensusRound = MaxOrNone({@} \cup Processable(h))]
  BY Zenon DEF ProcessDecidedRounds
<1> HIDE DEF f
<1> QED  BY <1>1, FieldNames, Zenon

-----------------------------------------------------------------------------
(***************************************************************************)
(* Insertion keeps the coordinates exact.                                  *)
(***************************************************************************)

\* x is not one of its parents, nor a parent of a known event: inserting it
\* changes no event's known parents.
LEMMA ParentsFixed ==
    ASSUME dag \in Dags, NEW h, h.known \subseteq Events, ParentsKnown(h),
           NEW x \in Events, x \notin h.known, CanInsert(h, x),
           NEW g, g.known = h.known \cup {x}
    PROVE  \A y \in g.known : KnownParents(g, y) = KnownParents(h, y)
<1> SUFFICES ASSUME NEW y \in g.known
             PROVE  x # SelfParent(y) /\ x # OtherParent(y)
  BY DEF KnownParents
<1>1. /\ Index(y) = 0 \/ SelfParent(y) \in h.known
      /\ Index(OtherParent(y)) = -1 \/ OtherParent(y) \in h.known
  BY DEF ParentsKnown, CanInsert
<1>2. y \in Events
  OBVIOUS
<1>3. Index(y) \in Nat /\ SelfParent(y) = <<Creator(y), Index(y) - 1>>
  BY <1>2, EventNames
<1>4. Index(x) \in Nat /\ x = <<Creator(x), Index(x)>>
  BY EventNames
<1>5. x # SelfParent(y)
  BY <1>1, <1>3, <1>4 DEF Index
<1>6. x # OtherParent(y)
  BY <1>1, <1>4
<1> QED  BY <1>5, <1>6

\* What initEventCoordinates computes for a new event.
LEMMA NewCoordinates ==
    ASSUME dag \in Dags, NEW h, GraphTypeOK(h), LastAncestorsKnown(h),
           NEW x \in Events, CanInsert(h, x)
    PROVE  /\ LastAncestors(h, x) \in [Participants -> Int]
           /\ \A p \in Participants : LastAncestors(h, x)[p] # -1 =>
                  <<p, LastAncestors(h, x)[p]>> \in h.known \cup {x}
<1>1. h.known \subseteq Events /\ h.la \in [Events -> [Participants -> Int]]
  BY DEF GraphTypeOK
<1>2. x = <<Creator(x), Index(x)>> /\ Index(x) \in Nat
  BY EventNames
<1> SUFFICES ASSUME NEW p \in Participants
             PROVE  LET m == LastAncestors(h, x)[p]
                    IN  m \in Int /\ (m # -1 => <<p, m>> \in h.known \cup {x})
  BY Zenon DEF LastAncestors
<1>3. CASE p = Creator(x)
  BY <1>2, <1>3 DEF LastAncestors
<1>4. CASE p # Creator(x)
  <2> DEFINE f == [y \in Events |-> h.la[y][p]]
             S == {h.la[y][p] : y \in KnownParents(h, x)}
             m == MaxOrNone(S)
  <2>1. f \in [Events -> Int]
    BY <1>1
  <2>2. KnownParents(h, x) \subseteq h.known
    BY DEF KnownParents
  <2>3. \A v : v \in S <=> \E y \in KnownParents(h, x) : v = f[y]
    BY <1>1, <2>2, Zenon
  <2>4. LastAncestors(h, x)[p] = m
    BY <1>4 DEF LastAncestors
  <2>f. \A y \in Events : f[y] = h.la[y][p]
    OBVIOUS
  <2> HIDE DEF f, S
  <2>5. /\ m \in Int
        /\ KnownParents(h, x) = {} => m = -1
        /\ KnownParents(h, x) # {} => \E y \in KnownParents(h, x) : m = f[y]
    BY <1>1, <2>1, <2>3, ParentMax
  <2> HIDE DEF m
  <2>6. ASSUME m # -1  PROVE <<p, m>> \in h.known
    <3>1. PICK y \in KnownParents(h, x) : m = f[y]
      BY <2>5, <2>6
    <3>2. y \in h.known /\ m = h.la[y][p]
      BY <1>1, <2>2, <2>f, <3>1
    <3> QED  BY <2>6, <3>2, Zenon DEF LastAncestorsKnown
  <2> QED  BY <2>4, <2>5, <2>6
<1> QED  BY <1>3, <1>4

\* The coordinates are exact after an insertion.
LEMMA InsertCoordinates ==
    ASSUME dag \in Dags, NEW h, GraphInv(h),
           NEW x \in Events, x \notin h.known, CanInsert(h, x),
           NEW g, g.known = h.known \cup {x},
           g.la = [h.la EXCEPT ![x] = LastAncestors(h, x)]
    PROVE  ParentsKnown(g) /\ LastAncestorsKnown(g) /\ ParentsBelow(g)
<1>1. /\ h.known \subseteq Events /\ h.la \in [Events -> [Participants -> Int]]
      /\ ParentsKnown(h) /\ LastAncestorsKnown(h) /\ ParentsBelow(h)
  BY DEF GraphInv, GraphTypeOK
<1>2. \A y \in g.known : KnownParents(g, y) = KnownParents(h, y)
  BY <1>1, ParentsFixed
<1>3. \A y \in g.known : KnownParents(h, y) \subseteq h.known
  BY DEF KnownParents
<1>4. /\ g.la[x] = LastAncestors(h, x)
      /\ \A y \in h.known : g.la[y] = h.la[y]
  BY <1>1
<1>5. ParentsKnown(g)
  BY <1>1 DEF ParentsKnown, CanInsert
<1>6. LastAncestorsKnown(g)
  <2> SUFFICES ASSUME NEW y \in g.known, NEW p \in Participants
               PROVE  /\ g.la[y][p] = IF p = Creator(y) THEN Index(y)
                                 ELSE MaxOrNone({g.la[z][p] : z \in KnownParents(g, y)})
                      /\ g.la[y][p] # -1 => <<p, g.la[y][p]>> \in g.known
    BY Zenon DEF LastAncestorsKnown
  <2>1. {g.la[z][p] : z \in KnownParents(g, y)} = {h.la[z][p] : z \in KnownParents(h, y)}
    BY <1>2, <1>3, <1>4
  <2>2. CASE y = x
    <3>1. g.la[y][p] = LastAncestors(h, x)[p]
      BY <1>4, <2>2
    <3>2. LastAncestors(h, x)[p] # -1 => <<p, LastAncestors(h, x)[p]>> \in g.known
      BY <1>1, NewCoordinates DEF GraphInv
    <3> QED  BY <2>1, <2>2, <3>1, <3>2, Zenon DEF LastAncestors
  <2>3. CASE y \in h.known
    <3>1. g.la[y] = h.la[y]
      BY <1>4, <2>3
    <3>2. /\ h.la[y][p] = IF p = Creator(y) THEN Index(y)
                          ELSE MaxOrNone({h.la[z][p] : z \in KnownParents(h, y)})
          /\ h.la[y][p] # -1 => <<p, h.la[y][p]>> \in h.known
      BY <1>1, <2>3, Zenon DEF LastAncestorsKnown
    <3>3. h.la[y][p] # -1 => <<p, h.la[y][p]>> \in g.known
      BY <3>2
    <3> QED  BY <2>1, <3>1, <3>2, <3>3, Zenon
  <2> QED  BY <2>2, <2>3
<1>7. ParentsBelow(g)
  <2> SUFFICES ASSUME NEW y \in g.known, NEW z \in KnownParents(g, y)
               PROVE  g.la[z][Creator(y)] < Index(y)
    BY DEF ParentsBelow
  <2>1. z \in KnownParents(h, y) /\ z \in h.known /\ g.la[z] = h.la[z]
    BY <1>2, <1>3, <1>4
  <2>2. CASE y \in h.known
    BY <1>1, <2>1, <2>2 DEF ParentsBelow
  <2>3. CASE y = x
    <3> DEFINE k == h.la[z][Creator(x)]
    <3>1. Creator(x) \in Participants /\ Index(x) \in Nat
      BY EventNames
    <3>2. k \in Int
      BY <1>1, <2>1, <3>1
    <3>5. k # -1 => <<Creator(x), k>> \in h.known
      BY <1>1, <2>1, <3>1, Zenon DEF LastAncestorsKnown
    <3>3. Creator(<<Creator(x), k>>) = Creator(x) /\ Index(<<Creator(x), k>>) = k
      BY DEF Creator, Index
    <3>4. k # -1 => k < Index(x)
      BY <3>5, <3>3 DEF CanInsert
    <3> QED  BY <2>1, <2>3, <3>1, <3>2, <3>4
  <2> QED  BY <2>2, <2>3
<1> QED  BY <1>5, <1>6, <1>7

-----------------------------------------------------------------------------
(***************************************************************************)
(* Seeing, through the parents.                                            *)
(***************************************************************************)

\* When the coordinates are exact, x sees y iff y is x or a parent of x sees y.
LEMMA SeeThroughParents ==
    ASSUME dag \in Dags, NEW h,
           h.known \subseteq Events, h.la \in [Events -> [Participants -> Int]],
           ParentsKnown(h), LastAncestorsKnown(h), ParentsBelow(h),
           NEW x \in h.known, NEW y \in h.known
    PROVE  See(h, x, y) <=> x = y \/ \E z \in KnownParents(h, x) : See(h, z, y)
<1> DEFINE p == Creator(y)
           K == KnownParents(h, x)
<1>1. K \subseteq h.known
  BY DEF KnownParents
<1>2. /\ p \in Participants /\ Index(y) \in Nat /\ y = <<p, Index(y)>>
      /\ Index(x) \in Nat /\ x = <<Creator(x), Index(x)>>
      /\ SelfParent(x) = <<Creator(x), Index(x) - 1>>
  BY EventNames
<1>3. \A z \in h.known : h.la[z][p] \in Int
  BY <1>2
<1>4. h.la[y][p] = Index(y)
  BY <1>2, Zenon DEF LastAncestorsKnown
<1>5. CASE p = Creator(x)
  <2>1. h.la[x][p] = Index(x)
    BY <1>2, <1>5, Zenon DEF LastAncestorsKnown
  <2>2. ASSUME x # y, See(h, x, y)  PROVE \E z \in K : See(h, z, y)
    <3>0. h.la[x][p] >= Index(y) /\ Index(x) # Index(y)
      BY <1>2, <1>5, <2>2, Zenon DEF See
    <3>n. Index(x) \in Nat /\ Index(y) \in Nat /\ Index(x) >= Index(y)
      BY <1>2, <2>1, <3>0, Zenon
    <3>1. Index(y) <= Index(x) - 1
      BY <3>0, <3>n
    <3>2. SelfParent(x) \in h.known
      BY <1>2, <3>1 DEF ParentsKnown
    <3>3. Creator(SelfParent(x)) = p /\ Index(SelfParent(x)) = Index(x) - 1
      BY <1>2, <1>5 DEF Creator, Index
    <3>4. h.la[SelfParent(x)][p] = Index(x) - 1
      BY <1>2, <3>2, <3>3, Zenon DEF LastAncestorsKnown
    <3>5. See(h, SelfParent(x), y) /\ SelfParent(x) \in K
      BY <3>1, <3>2, <3>4, <1>2 DEF See, KnownParents
    <3> QED  BY <3>5
  <2>3. ASSUME NEW z \in K, See(h, z, y)  PROVE See(h, x, y)
    <3>1. h.la[z][p] < Index(x)
      BY <1>5 DEF ParentsBelow
    <3>2. h.la[z][p] >= Index(y)
      BY <1>2, <1>4, <2>3 DEF See
    <3> QED  BY <1>1, <1>2, <1>3, <2>1, <3>1, <3>2 DEF See
  <2> QED  BY <2>2, <2>3 DEF See
<1>6. CASE p # Creator(x)
  <2> DEFINE f == [z \in Events |-> h.la[z][p]]
             S == {h.la[z][p] : z \in K}
  <2>1. f \in [Events -> Int] /\ \A z \in Events : f[z] = h.la[z][p]
    BY <1>2
  <2>2. \A v : v \in S <=> \E z \in K : v = f[z]
    BY <1>1, Zenon
  <2>3. h.la[x][p] = MaxOrNone(S)
    BY <1>2, <1>6, Zenon DEF LastAncestorsKnown
  <2> HIDE DEF f, S
  <2>m. /\ K = {} => MaxOrNone(S) = -1
        /\ \A z \in K : f[z] <= MaxOrNone(S)
        /\ K # {} => \E z \in K : MaxOrNone(S) = f[z]
    BY <2>1, <2>2, ParentMax
  <2>4. /\ K = {} => h.la[x][p] = -1
        /\ \A z \in K : f[z] <= h.la[x][p]
        /\ K # {} => \E z \in K : h.la[x][p] = f[z]
    BY <2>3, <2>m, Zenon
  <2>5. \A z \in K : f[z] = h.la[z][p] /\ h.la[z][p] \in Int
    BY <1>1, <1>3, <2>1
  <2>6. \A z \in K : See(h, z, y) <=> h.la[z][p] >= Index(y)
    BY <1>2, <1>4 DEF See
  <2>7. x # y
    BY <1>6
  <2>8. See(h, x, y) <=> h.la[x][p] >= Index(y)
    BY <2>7 DEF See
  <2> HIDE DEF K, p
  <2>9. h.la[x][p] >= Index(y) <=> \E z \in K : h.la[z][p] >= Index(y)
    BY <1>2, <1>3, <2>4, <2>5
  <2> QED  BY <2>6, <2>7, <2>8, <2>9 DEF K
<1> QED  BY <1>5, <1>6

\* round is at least the round of the parents.
LEMMA RoundOfParents ==
    ASSUME NEW h, NEW x, h.known \subseteq Events, h.round \in [Events -> Int]
    PROVE  /\ RoundOf(h, x) \in Int
           /\ \A y \in KnownParents(h, x) : h.round[y] <= RoundOf(h, x)
<1>1. /\ ParentRound(h, x) \in Int
      /\ \A y \in KnownParents(h, x) : h.round[y] <= ParentRound(h, x)
  BY ParentMax DEF ParentRound
<1>2. /\ RoundOf(h, x) \in Int
      /\ ParentRound(h, x) <= RoundOf(h, x)
  BY <1>1, Z3 DEF RoundOf
<1>3. KnownParents(h, x) \subseteq Events
  BY DEF KnownParents
<1> QED  BY <1>1, <1>2, <1>3

\* lamportTimestamp is above that of the parents.
LEMMA LamportOfParents ==
    ASSUME NEW h, NEW x, h.known \subseteq Events, h.lamport \in [Events -> Int]
    PROVE  /\ LamportTimestamp(h, x) \in Int
           /\ \A y \in KnownParents(h, x) : h.lamport[y] < LamportTimestamp(h, x)
<1> DEFINE m == MaxOrNone({h.lamport[y] : y \in KnownParents(h, x)})
<1>1. m \in Int /\ \A y \in KnownParents(h, x) : h.lamport[y] <= m
  BY ParentMax
<1>2. LamportTimestamp(h, x) = m + 1
  BY DEF LamportTimestamp
<1>3. \A y \in KnownParents(h, x) : h.lamport[y] \in Int
  BY DEF KnownParents
<1> HIDE DEF m
<1> QED  BY <1>1, <1>2, <1>3

\* A new event sees only events with lower timestamps and no higher rounds, and
\* no known event sees it.
LEMMA InsertTimestamps ==
    ASSUME dag \in Dags, NEW h, GraphInv(h),
           NEW x \in Events, x \notin h.known, CanInsert(h, x),
           NEW r \in Int, NEW l \in Int,
           \A y \in KnownParents(h, x) : h.lamport[y] < l /\ h.round[y] <= r,
           NEW g, g.known = h.known \cup {x},
           g.la = [h.la EXCEPT ![x] = LastAncestors(h, x)],
           g.round = [h.round EXCEPT ![x] = r],
           g.lamport = [h.lamport EXCEPT ![x] = l]
    PROVE  SeenIsLower(g)
<1>1. /\ h.known \subseteq Events /\ h.la \in [Events -> [Participants -> Int]]
      /\ h.round \in [Events -> Int] /\ h.lamport \in [Events -> Int]
      /\ ParentsKnown(h) /\ LastAncestorsKnown(h) /\ SeenIsLower(h)
  BY DEF GraphInv, GraphTypeOK
<1>2. /\ \A y \in h.known : g.la[y] = h.la[y] /\ g.round[y] = h.round[y]
                            /\ g.lamport[y] = h.lamport[y]
      /\ g.round[x] = r /\ g.lamport[x] = l
  BY <1>1
<1>3. /\ ParentsKnown(g) /\ LastAncestorsKnown(g) /\ ParentsBelow(g)
  BY InsertCoordinates
<1>4. g.known \subseteq Events /\ g.la \in [Events -> [Participants -> Int]]
  BY <1>1, NewCoordinates DEF GraphInv
<1>5. KnownParents(g, x) = KnownParents(h, x) /\ KnownParents(h, x) \subseteq h.known
  BY <1>1, ParentsFixed DEF KnownParents
<1> SUFFICES ASSUME NEW u \in g.known, NEW w \in g.known, See(g, u, w), u # w
             PROVE  g.lamport[w] < g.lamport[u] /\ g.round[w] <= g.round[u]
  BY DEF SeenIsLower
<1>6. CASE u \in h.known /\ w \in h.known
  <2>1. See(h, u, w)
    BY <1>2, <1>6 DEF See
  <2> QED  BY <1>1, <1>2, <1>6, <2>1, Zenon DEF SeenIsLower
<1>7. CASE u = x /\ w \in h.known
  <2>1. PICK z \in KnownParents(g, x) : See(g, z, w)
    BY <1>3, <1>4, <1>7, SeeThroughParents
  <2>2. z \in h.known /\ h.lamport[z] < l /\ h.round[z] <= r
    BY <1>5
  <2>3. See(h, z, w)
    BY <1>2, <2>1, <2>2 DEF See
  <2>4. z = w \/ (h.lamport[w] < h.lamport[z] /\ h.round[w] <= h.round[z])
    BY <1>1, <1>7, <2>2, <2>3, Zenon DEF SeenIsLower
  <2>5. /\ h.lamport[z] \in Int /\ h.lamport[w] \in Int
        /\ h.round[z] \in Int /\ h.round[w] \in Int
    BY <1>1, <1>7, <2>2
  <2>6. h.lamport[w] < l /\ h.round[w] <= r
    BY <2>2, <2>4, <2>5
  <2> QED  BY <1>2, <1>7, <2>6
<1>8. CASE w = x /\ u \in h.known
  <2> DEFINE p == Creator(x)
             k == h.la[u][p]
  <2>1. p \in Participants /\ Index(x) \in Nat
    BY EventNames
  <2>2. k \in Int /\ k >= Index(x)
    BY <1>1, <1>2, <1>8, <2>1 DEF See
  <2>3. k # -1
    BY <2>1, <2>2
  <2>4. <<p, k>> \in h.known
    BY <1>1, <1>8, <2>1, <2>3, Zenon DEF LastAncestorsKnown
  <2>5. k < Index(x)
    BY <2>4 DEF CanInsert, Creator, Index
  <2> QED  BY <2>1, <2>2, <2>5
<1> QED  BY <1>6, <1>7, <1>8

-----------------------------------------------------------------------------
(***************************************************************************)
(* Every method keeps the invariant.                                       *)
(***************************************************************************)

\* The part of the invariant about coordinates and timestamps depends on four
\* fields only.
LEMMA SameGraph ==
    ASSUME NEW h, NEW g, g.known = h.known, g.la = h.la, g.round = h.round,
           g.lamport = h.lamport,
           ParentsKnown(h), LastAncestorsKnown(h), ParentsBelow(h), SeenIsLower(h)
    PROVE  ParentsKnown(g) /\ LastAncestorsKnown(g) /\ ParentsBelow(g) /\ SeenIsLower(g)
<1>1. \A x : KnownParents(g, x) = KnownParents(h, x)
  BY DEF KnownParents
<1>2. ParentsKnown(g)
  BY DEF ParentsKnown
<1>3. LastAncestorsKnown(g)
  <2> SUFFICES ASSUME NEW x \in g.known, NEW p \in Participants
               PROVE  /\ g.la[x][p] = IF p = Creator(x) THEN Index(x)
                                 ELSE MaxOrNone({g.la[y][p] : y \in KnownParents(g, x)})
                      /\ g.la[x][p] # -1 => <<p, g.la[x][p]>> \in g.known
    BY Zenon DEF LastAncestorsKnown
  <2>1. {g.la[y][p] : y \in KnownParents(g, x)} = {h.la[y][p] : y \in KnownParents(h, x)}
    BY <1>1
  <2>2. /\ h.la[x][p] = IF p = Creator(x) THEN Index(x)
                        ELSE MaxOrNone({h.la[y][p] : y \in KnownParents(h, x)})
        /\ h.la[x][p] # -1 => <<p, h.la[x][p]>> \in h.known
    BY Zenon DEF LastAncestorsKnown
  <2> QED  BY <2>1, <2>2, Zenon
<1>4. ParentsBelow(g)
  BY <1>1 DEF ParentsBelow
<1>5. SeenIsLower(g)
  BY DEF SeenIsLower, See
<1> QED  BY <1>2, <1>3, <1>4, <1>5

\* InsertEvent keeps the types.
LEMMA InsertType ==
    ASSUME dag \in Dags, NEW h, GraphInv(h), NEW x \in Events, CanInsert(h, x)
    PROVE  GraphTypeOK(InsertEvent(h, x))
<1> DEFINE g == InsertEvent(h, x)
<1>1. GraphTypeOK(h)
  BY DEF GraphInv
<1>2. LastAncestors(h, x) \in [Participants -> Int]
  BY NewCoordinates DEF GraphInv
<1>3. Creator(x) \in Participants /\ Index(x) \in Int
  BY EventNames
<1>4. g.fd \in [Events -> [Participants -> Int]]
  <2> DEFINE i == [h EXCEPT !.la[x] = LastAncestors(h, x),
                            !.fd[x][Creator(x)] = Index(x),
                            !.known = @ \cup {x},
                            !.undetermined = @ \cup {x},
                            !.loaded = IF IsLoaded(x) THEN @ + 1 ELSE @,
                            !.sigPool = @ \cup dag[x].sigs]
  <2>1. DOMAIN i = DOMAIN NewHashgraph
        /\ i.fd = [h.fd EXCEPT ![x][Creator(x)] = Index(x)]
    BY <1>1, FieldNames DEF GraphTypeOK
  <2>2. i.fd \in [Events -> [Participants -> Int]]
    BY <1>1, <1>3, <2>1 DEF GraphTypeOK
  <2>3. g = UpdateAncestorFirstDescendant(i, x)
    BY Zenon DEF InsertEvent
  <2> HIDE DEF i, g
  <2>4. g.fd = [a \in Events |-> IF ReachedFrom(i, x, a)
                                 THEN [i.fd[a] EXCEPT ![Creator(x)] = Index(x)]
                                 ELSE i.fd[a]]
    BY <2>1, <2>3, FieldNames DEF UpdateAncestorFirstDescendant
  <2>5. \A a \in Events : [i.fd[a] EXCEPT ![Creator(x)] = Index(x)] \in [Participants -> Int]
    BY <1>3, <2>2
  <2> QED  BY <2>2, <2>4, <2>5
<1> HIDE DEF g
<1>5. /\ DOMAIN g = DOMAIN NewHashgraph
      /\ g.known = h.known \cup {x}
      /\ g.undetermined = h.undetermined \cup {x}
      /\ g.la = [h.la EXCEPT ![x] = LastAncestors(h, x)]
      /\ g.round = h.round /\ g.lamport = h.lamport /\ g.witness = h.witness
      /\ g.famous = h.famous /\ g.rr = h.rr
      /\ g.decided = h.decided /\ g.pending = h.pending
  BY <1>1, InsertFields DEF g, GraphTypeOK
<1>6. g.la \in [Events -> [Participants -> Int]]
  BY <1>1, <1>2, <1>5 DEF GraphTypeOK
<1>7. g.known \subseteq Events /\ g.undetermined \subseteq g.known
  BY <1>1, <1>5 DEF GraphTypeOK
<1>8. GraphTypeOK(g)
  BY <1>1, <1>4, <1>5, <1>6, <1>7 DEF GraphTypeOK
<1> QED  BY <1>8 DEF g

\* DivideRounds keeps the types.
LEMMA DivideType ==
    ASSUME NEW h, GraphTypeOK(h), NEW x \in Events
    PROVE  GraphTypeOK(DivideRounds(h, x))
<1> DEFINE g == DivideRounds(h, x)
<1>1. /\ RoundOf(h, x) \in Int /\ LamportTimestamp(h, x) \in Int
  BY RoundOfParents, LamportOfParents DEF GraphTypeOK
<1>3. DOMAIN Queue(h, RoundOf(h, x)) \subseteq Int
      /\ Queue(h, RoundOf(h, x)) \in [DOMAIN Queue(h, RoundOf(h, x)) -> BOOLEAN]
  BY <1>1 DEF Queue, GraphTypeOK
<1>e. g = DivideRounds(h, x) /\ DOMAIN h = DOMAIN NewHashgraph
  BY DEF GraphTypeOK
<1> HIDE DEF g
<1>t. /\ g.round = [h.round EXCEPT ![x] = RoundOf(h, x)]
      /\ g.lamport = [h.lamport EXCEPT ![x] = LamportTimestamp(h, x)]
  BY <1>e, DivideTimes
<1>4. /\ DOMAIN g = DOMAIN NewHashgraph
      /\ g.pending = Queue(h, RoundOf(h, x))
      /\ g.known = h.known /\ g.undetermined = h.undetermined
      /\ g.la = h.la /\ g.fd = h.fd
      /\ g.famous = h.famous /\ g.rr = h.rr /\ g.decided = h.decided
  BY <1>e, DivideFields
<1>5. /\ g.round \in [Events -> Int] /\ g.lamport \in [Events -> Int]
  BY <1>1, <1>t DEF GraphTypeOK
<1>6. g.witness \in [Events -> BOOLEAN]
  BY <1>e, DivideWitness DEF GraphTypeOK
<1>7. GraphTypeOK(g)
  BY <1>3, <1>4, <1>5, <1>6 DEF GraphTypeOK
<1> QED  BY <1>7 DEF g

\* InsertEvent and DivideRounds keep the invariant.
LEMMA InsertInv ==
    ASSUME dag \in Dags, NEW h, GraphInv(h),
           NEW x \in Events, x \notin h.known, CanInsert(h, x)
    PROVE  GraphInv(DivideRounds(InsertEvent(h, x), x))
<1> DEFINE i == InsertEvent(h, x)
           g == DivideRounds(i, x)
<1>1. GraphTypeOK(h) /\ ParentsKnown(h) /\ UndeterminedIsUnreceived(h)
      /\ DOMAIN h = DOMAIN NewHashgraph /\ h.known \subseteq Events
  BY DEF GraphInv, GraphTypeOK
<1>2. GraphTypeOK(i)
  BY InsertType
<1>3. GraphTypeOK(g)
  BY <1>2, DivideType
<1>e. i = InsertEvent(h, x) /\ g = DivideRounds(i, x)
  OBVIOUS
<1> HIDE DEF i, g
<1>4. /\ i.known = h.known \cup {x}
      /\ i.undetermined = h.undetermined \cup {x}
      /\ i.la = [h.la EXCEPT ![x] = LastAncestors(h, x)]
      /\ i.round = h.round /\ i.lamport = h.lamport /\ i.rr = h.rr
      /\ DOMAIN i = DOMAIN NewHashgraph
  BY <1>1, <1>e, InsertFields
<1>t. /\ g.round = [i.round EXCEPT ![x] = RoundOf(i, x)]
      /\ g.lamport = [i.lamport EXCEPT ![x] = LamportTimestamp(i, x)]
  BY <1>4, <1>e, DivideTimes
<1>5. /\ g.known = i.known /\ g.undetermined = i.undetermined
      /\ g.la = i.la /\ g.rr = i.rr
  BY <1>4, <1>e, DivideFields
<1>6. KnownParents(i, x) = KnownParents(h, x)
  BY <1>1, <1>4, ParentsFixed
<1>7. /\ RoundOf(i, x) \in Int /\ LamportTimestamp(i, x) \in Int
      /\ \A y \in KnownParents(i, x) : i.round[y] <= RoundOf(i, x)
      /\ \A y \in KnownParents(i, x) : i.lamport[y] < LamportTimestamp(i, x)
  BY <1>2, RoundOfParents, LamportOfParents DEF GraphTypeOK
<1>8. \A y \in KnownParents(h, x) : h.lamport[y] < LamportTimestamp(i, x)
                                    /\ h.round[y] <= RoundOf(i, x)
  BY <1>4, <1>6, <1>7
<1>9. /\ g.known = h.known \cup {x}
      /\ g.la = [h.la EXCEPT ![x] = LastAncestors(h, x)]
      /\ g.round = [h.round EXCEPT ![x] = RoundOf(i, x)]
      /\ g.lamport = [h.lamport EXCEPT ![x] = LamportTimestamp(i, x)]
  BY <1>4, <1>5, <1>t
<1>10. SeenIsLower(g)
  BY <1>7, <1>8, <1>9, InsertTimestamps
<1>11. ParentsKnown(g) /\ LastAncestorsKnown(g) /\ ParentsBelow(g)
  BY <1>9, InsertCoordinates
<1>12. UndeterminedIsUnreceived(g)
  BY <1>1, <1>4, <1>5 DEF UndeterminedIsUnreceived
<1>13. GraphInv(g)
  BY <1>3, <1>10, <1>11, <1>12 DEF GraphInv
<1> QED  BY <1>13 DEF g, i

\* InsertEvent and DivideRounds revise nothing about the known events.
LEMMA InsertKeeps ==
    ASSUME dag \in Dags, NEW h, GraphInv(h),
           NEW x \in Events, x \notin h.known, CanInsert(h, x)
    PROVE  Keeps(h, DivideRounds(InsertEvent(h, x), x))
<1> DEFINE i == InsertEvent(h, x)
           g == DivideRounds(i, x)
<1>1. GraphTypeOK(h) /\ DOMAIN h = DOMAIN NewHashgraph /\ h.known \subseteq Events
  BY DEF GraphInv, GraphTypeOK
<1>2. i = InsertEvent(h, x) /\ g = DivideRounds(i, x)
  OBVIOUS
<1> HIDE DEF i, g
<1>3. /\ i.known = h.known \cup {x}
      /\ i.la = [h.la EXCEPT ![x] = LastAncestors(h, x)]
      /\ i.round = h.round /\ i.lamport = h.lamport /\ i.rr = h.rr
      /\ i.famous = h.famous /\ i.decided = h.decided /\ i.witness = h.witness
      /\ DOMAIN i = DOMAIN NewHashgraph
  BY <1>1, <1>2, InsertFields
<1>4. /\ g.round = [i.round EXCEPT ![x] = RoundOf(i, x)]
      /\ g.lamport = [i.lamport EXCEPT ![x] = LamportTimestamp(i, x)]
  BY <1>2, <1>3, DivideTimes
<1>5. /\ g.known = i.known /\ g.la = i.la /\ g.rr = i.rr
      /\ g.famous = i.famous /\ g.decided = i.decided
  BY <1>2, <1>3, DivideFields
<1>6. h.witness \in [Events -> BOOLEAN]
  BY <1>1 DEF GraphTypeOK
<1>7. \A y \in Events : y # x => g.witness[y] = i.witness[y]
  BY <1>2, <1>3, <1>6, DivideWitness
<1>8. \A y \in h.known : g.witness[y] = h.witness[y]
  BY <1>1, <1>3, <1>7, Zenon
<1>9. \A y \in h.known : /\ g.la[y] = h.la[y]
                         /\ g.round[y] = h.round[y]
                         /\ g.lamport[y] = h.lamport[y]
  BY <1>1, <1>3, <1>4, <1>5 DEF GraphTypeOK
<1>10. Keeps(h, g)
  BY <1>3, <1>5, <1>8, <1>9 DEF Keeps
<1> QED  BY <1>10 DEF g, i

\* DecideFame keeps the invariant and the fame that was defined.
LEMMA FameInv ==
    ASSUME NEW h, GraphInv(h), NEW fame \in FameDecisions(h),
           NEW g, g = DecideFame(h, fame)
    PROVE  GraphInv(g) /\ Keeps(h, g)
<1>1. GraphTypeOK(h) /\ DOMAIN h = DOMAIN NewHashgraph
  BY DEF GraphInv, GraphTypeOK
<1>2. /\ DOMAIN g = DOMAIN NewHashgraph
      /\ g.known = h.known /\ g.undetermined = h.undetermined
      /\ g.la = h.la /\ g.fd = h.fd
      /\ g.round = h.round /\ g.lamport = h.lamport /\ g.witness = h.witness
      /\ g.rr = h.rr
  BY <1>1, DecideFameFields
<1>3. g.famous = [x \in Events |-> CASE x \notin DOMAIN fame -> h.famous[x]
                                     [] x \in DOMAIN fame /\ fame[x] -> "true"
                                     [] OTHER -> "false"]
  BY <1>1, DecidedFame
<1>4. g.famous \in [Events -> Trilean]
  BY <1>1, <1>3 DEF GraphTypeOK, Trilean
<1>5. \A x \in DOMAIN fame : h.famous[x] = "undefined"
  BY DEF FameDecisions
<1>6. \A x \in Events : h.famous[x] # "undefined" => g.famous[x] = h.famous[x]
  BY <1>3, <1>5
<1>7. /\ h.decided \subseteq g.decided /\ g.decided \subseteq Int
      /\ DOMAIN g.pending \subseteq Int /\ g.pending \in [DOMAIN g.pending -> BOOLEAN]
  BY <1>1, DecidedRounds DEF GraphTypeOK
<1>8. GraphTypeOK(g)
  BY <1>1, <1>2, <1>4, <1>7 DEF GraphTypeOK
<1>9. ParentsKnown(g) /\ LastAncestorsKnown(g) /\ ParentsBelow(g) /\ SeenIsLower(g)
  BY <1>2, SameGraph DEF GraphInv
<1>10. UndeterminedIsUnreceived(g)
  BY <1>2 DEF GraphInv, UndeterminedIsUnreceived
<1>11. Keeps(h, g)
  BY <1>1, <1>2, <1>6, <1>7 DEF Keeps, GraphTypeOK
<1> QED  BY <1>8, <1>9, <1>10, <1>11 DEF GraphInv

\* The round an event is received in, or -1, is a number.
LEMMA RoundReceivedType ==
    ASSUME NEW h, GraphTypeOK(h), NEW x \in Events
    PROVE  RoundReceived(h, x) \in Int
<1> DEFINE S == {i \in h.round[x] + 1 .. LastRound(h) :
                    i \in h.decided /\ LoopReaches(h, x, i) /\ SeenByFamous(h, x, i)}
           low == h.round[x] + 1
<1>1. h.round[x] \in Int
  BY DEF GraphTypeOK
<1>2. low \in Int /\ S \subseteq Int /\ \A k \in S : low <= k
  BY <1>1 DEF GraphTypeOK
<1>3. RoundReceived(h, x) = IF S = {} THEN -1 ELSE CHOOSE i \in S : \A k \in S : i <= k
  BY Zenon DEF RoundReceived
<1> HIDE DEF S, low
<1>4. CASE S # {}
  <2>1. \E m \in S : \A k \in S : m <= k
    BY <1>2, <1>4, LeastInteger, Zenon
  <2> QED  BY <1>2, <1>3, <1>4, <2>1, Zenon
<1> QED  BY <1>3, <1>4

\* DecideRoundReceived keeps the invariant and the rounds already received.
LEMMA ReceivedInv ==
    ASSUME NEW h, GraphInv(h), NEW g, g = DecideRoundReceived(h)
    PROVE  GraphInv(g) /\ Keeps(h, g)
<1>1. GraphTypeOK(h) /\ DOMAIN h = DOMAIN NewHashgraph /\ UndeterminedIsUnreceived(h)
  BY DEF GraphInv, GraphTypeOK
<1>2. /\ DOMAIN g = DOMAIN NewHashgraph
      /\ g.rr = [x \in Events |-> IF x \in h.undetermined
                                  THEN RoundReceived(h, x) ELSE h.rr[x]]
      /\ g.undetermined = {x \in h.undetermined : g.rr[x] = -1}
      /\ g.known = h.known /\ g.famous = h.famous
      /\ g.decided = h.decided /\ g.pending = h.pending
      /\ g.la = h.la /\ g.fd = h.fd
      /\ g.round = h.round /\ g.lamport = h.lamport /\ g.witness = h.witness
  BY <1>1, ReceivedFields
<1>3. g.rr \in [Events -> Int]
  BY <1>1, <1>2, RoundReceivedType DEF GraphTypeOK
<1>4. \A x \in Events : h.rr[x] # -1 => g.rr[x] = h.rr[x]
  BY <1>1, <1>2 DEF UndeterminedIsUnreceived
<1>5. h.known \subseteq Events /\ h.undetermined \subseteq h.known
  BY <1>1 DEF GraphTypeOK
<1>6. \A x \in Events : x \notin h.undetermined => g.rr[x] = h.rr[x]
  BY <1>2
<1>7. UndeterminedIsUnreceived(g)
  BY <1>1, <1>2, <1>4, <1>5, <1>6 DEF UndeterminedIsUnreceived
<1>8. GraphTypeOK(g)
  BY <1>1, <1>2, <1>3, <1>5 DEF GraphTypeOK
<1>9. ParentsKnown(g) /\ LastAncestorsKnown(g) /\ ParentsBelow(g) /\ SeenIsLower(g)
  BY <1>2, SameGraph DEF GraphInv
<1>10. Keeps(h, g)
  BY <1>2, <1>4, <1>5 DEF Keeps
<1> QED  BY <1>7, <1>8, <1>9, <1>10 DEF GraphInv

\* ProcessDecidedRounds keeps the invariant: frames, blocks and the commit
\* callback touch no event.
LEMMA ProcessInv ==
    ASSUME NEW h, GraphInv(h), NEW n, NEW g, g = ProcessDecidedRounds(h, n)
    PROVE  GraphInv(g) /\ Keeps(h, g)
<1>1. GraphTypeOK(h) /\ DOMAIN h = DOMAIN NewHashgraph
  BY DEF GraphInv, GraphTypeOK
<1>2. /\ DOMAIN g = DOMAIN NewHashgraph
      /\ g.pending = [r \in DOMAIN h.pending \ Processable(h) |-> h.pending[r]]
      /\ g.known = h.known /\ g.undetermined = h.undetermined
      /\ g.la = h.la /\ g.fd = h.fd
      /\ g.round = h.round /\ g.lamport = h.lamport /\ g.witness = h.witness
      /\ g.famous = h.famous /\ g.rr = h.rr /\ g.decided = h.decided
  BY <1>1, ProcessFields
<1>3. DOMAIN g.pending \subseteq Int /\ g.pending \in [DOMAIN g.pending -> BOOLEAN]
  BY <1>1, <1>2 DEF GraphTypeOK
<1>4. GraphTypeOK(g)
  BY <1>1, <1>2, <1>3 DEF GraphTypeOK
<1>5. ParentsKnown(g) /\ LastAncestorsKnown(g) /\ ParentsBelow(g) /\ SeenIsLower(g)
  BY <1>2, SameGraph DEF GraphInv
<1>6. UndeterminedIsUnreceived(g)
  BY <1>2 DEF GraphInv, UndeterminedIsUnreceived
<1>7. Keeps(h, g)
  BY <1>2 DEF Keeps
<1> QED  BY <1>4, <1>5, <1>6, <1>7 DEF GraphInv

\* So does ProcessSigPool.
LEMMA SignaturesInv ==
    ASSUME NEW h, GraphInv(h), NEW g, g = AppendSignatures(h)
    PROVE  GraphInv(g) /\ Keeps(h, g)
<1>1. GraphTypeOK(h) /\ DOMAIN h = DOMAIN NewHashgraph
  BY DEF GraphInv, GraphTypeOK
<1>2. /\ DOMAIN g = DOMAIN NewHashgraph /\ g.pending = h.pending
      /\ g.known = h.known /\ g.undetermined = h.undetermined
      /\ g.la = h.la /\ g.fd = h.fd
      /\ g.round = h.round /\ g.lamport = h.lamport /\ g.witness = h.witness
      /\ g.famous = h.famous /\ g.rr = h.rr /\ g.decided = h.decided
  BY <1>1, FieldNames DEF AppendSignatures
<1>3. GraphTypeOK(g)
  BY <1>1, <1>2 DEF GraphTypeOK
<1>4. ParentsKnown(g) /\ LastAncestorsKnown(g) /\ ParentsBelow(g) /\ SeenIsLower(g)
  BY <1>2, SameGraph DEF GraphInv
<1>5. UndeterminedIsUnreceived(g)
  BY <1>2 DEF GraphInv, UndeterminedIsUnreceived
<1>6. Keeps(h, g)
  BY <1>2 DEF Keeps
<1> QED  BY <1>3, <1>4, <1>5, <1>6 DEF GraphInv

\* To keep what was kept is to keep it.
LEMMA KeepsTransitive ==
    ASSUME NEW f, NEW g, NEW h, Keeps(f, g), Keeps(g, h)
    PROVE  Keeps(f, h)
<1> SUFFICES ASSUME NEW x \in f.known
             PROVE  /\ x \in h.known
                    /\ h.la[x] = f.la[x]
                    /\ h.round[x] = f.round[x]
                    /\ h.lamport[x] = f.lamport[x]
                    /\ h.witness[x] = f.witness[x]
                    /\ f.famous[x] # "undefined" => h.famous[x] = f.famous[x]
                    /\ f.rr[x] # -1 => h.rr[x] = f.rr[x]
  BY DEF Keeps
<1> QED  BY Zenon DEF Keeps

\* The empty hashgraph of NewHashgraph satisfies the invariant.
LEMMA InitGraph ==
    GraphInv(NewHashgraph)
<1>1. GraphTypeOK(NewHashgraph)
  <2> DEFINE h == NewHashgraph
  <2>1. /\ h.known = {} /\ h.undetermined = {} /\ h.decided = {}
        /\ h.la = [x \in Events |-> [p \in Participants |-> -1]]
        /\ h.fd = [x \in Events |-> [p \in Participants |-> -1]]
    BY DEF NewHashgraph
  <2>2. /\ h.round = [x \in Events |-> -1]
        /\ h.lamport = [x \in Events |-> -1]
        /\ h.rr = [x \in Events |-> -1]
    BY DEF NewHashgraph
  <2>3. /\ h.witness = [x \in Events |-> FALSE]
        /\ h.famous = [x \in Events |-> "undefined"]
        /\ h.pending = [r \in {} |-> FALSE]
    BY DEF NewHashgraph
  <2>4. DOMAIN h = DOMAIN NewHashgraph
    OBVIOUS
  <2> HIDE DEF h
  <2>5. /\ h.la \in [Events -> [Participants -> Int]]
        /\ h.fd \in [Events -> [Participants -> Int]]
    BY <2>1
  <2>6. /\ h.round \in [Events -> Int]
        /\ h.lamport \in [Events -> Int]
        /\ h.rr \in [Events -> Int]
    BY <2>2
  <2>7. /\ h.witness \in [Events -> BOOLEAN]
        /\ h.famous \in [Events -> Trilean]
        /\ DOMAIN h.pending = {}
        /\ h.pending \in [DOMAIN h.pending -> BOOLEAN]
    BY <2>3 DEF Trilean
  <2>8. GraphTypeOK(h)
    BY <2>1, <2>4, <2>5, <2>6, <2>7 DEF GraphTypeOK
  <2> QED  BY <2>8 DEF h
<1>2. NewHashgraph.known = {} /\ NewHashgraph.undetermined = {}
      /\ NewHashgraph.rr = [x \in Events |-> -1]
  BY DEF NewHashgraph
<1>3. UndeterminedIsUnreceived(NewHashgraph)
  BY <1>2 DEF UndeterminedIsUnreceived
<1>4. /\ ParentsKnown(NewHashgraph) /\ LastAncestorsKnown(NewHashgraph)
      /\ ParentsBelow(NewHashgraph) /\ SeenIsLower(NewHashgraph)
  BY <1>2 DEF ParentsKnown, LastAncestorsKnown, ParentsBelow, SeenIsLower
<1> QED  BY <1>1, <1>3, <1>4 DEF GraphInv

\* What a step does to the hashgraph of the node that takes it.
LEMMA InsertStep ==
    ASSUME GraphInvariant, NEW n \in Nodes, NEW x \in Events,
           InsertEventAndRunConsensus(n, x)
    PROVE  /\ dag' = dag
           /\ \E g : hg' = [hg EXCEPT ![n] = g] /\ GraphInv(g) /\ Keeps(hg[n], g)
<1> DEFINE h == hg[n]
           d == DivideRounds(InsertEvent(h, x), x)
<1>1. dag \in Dags /\ GraphInv(h) /\ x \notin h.known /\ CanInsert(h, x)
  BY DEF GraphInvariant, InsertEventAndRunConsensus
<1>2. PICK fame \in FameDecisions(d) :
          hg' = [hg EXCEPT ![n] =
                   ProcessDecidedRounds(DecideRoundReceived(DecideFame(d, fame)), n)]
  BY Zenon DEF InsertEventAndRunConsensus
<1>3. GraphInv(d) /\ Keeps(h, d)
  BY <1>1, InsertInv, InsertKeeps
<1> HIDE DEF d
<1> DEFINE f == DecideFame(d, fame)
           r == DecideRoundReceived(f)
           g == ProcessDecidedRounds(r, n)
<1>4. GraphInv(f) /\ Keeps(d, f)
  BY <1>3, FameInv
<1> HIDE DEF f
<1>5. GraphInv(r) /\ Keeps(f, r)
  BY <1>4, ReceivedInv
<1> HIDE DEF r
<1>6. GraphInv(g) /\ Keeps(r, g)
  BY <1>5, ProcessInv
<1> HIDE DEF g
<1>7. Keeps(h, f)
  BY <1>3, <1>4, KeepsTransitive
<1>8. Keeps(h, r)
  BY <1>5, <1>7, KeepsTransitive
<1>9. Keeps(h, g)
  BY <1>6, <1>8, KeepsTransitive
<1>10. hg' = [hg EXCEPT ![n] = g]
  BY <1>2 DEF g, r, f
<1>11. dag' = dag
  BY DEF InsertEventAndRunConsensus
<1> QED  BY <1>6, <1>9, <1>10, <1>11, Zenon

\* GraphInv and Keeps read no variable but dag, which no step changes: the
\* invariant carries over to the next state.
LEMMA NextGraph ==
    ASSUME dag \in Dags, dag' = dag, DOMAIN hg' = Nodes,
           \A m \in Nodes : GraphInv(hg'[m])
    PROVE  GraphInvariant'
<1>2. ASSUME NEW CONSTANT h, GraphInv(h)  PROVE GraphInv(h)'
  <2>1. /\ Events' = Events
        /\ \A x : OtherParent(x)' = OtherParent(x)
        /\ (DOMAIN NewHashgraph)' = DOMAIN NewHashgraph
    BY DEF Events, OtherParent, NewHashgraph
  <2>2. \A x : KnownParents(h, x)' = KnownParents(h, x)
    BY DEF KnownParents, OtherParent
  <2>3. GraphTypeOK(h)'
    BY <1>2, <2>1 DEF GraphInv, GraphTypeOK
  <2>4. ParentsKnown(h)'
    BY <1>2, <2>1 DEF GraphInv, ParentsKnown
  <2>5. LastAncestorsKnown(h)'
    BY <1>2, <2>2, Zenon DEF GraphInv, LastAncestorsKnown
  <2>6. ParentsBelow(h)'
    BY <1>2, <2>2 DEF GraphInv, ParentsBelow
  <2>7. SeenIsLower(h)'
    BY <1>2 DEF GraphInv, SeenIsLower
  <2>8. UndeterminedIsUnreceived(h)'
    BY <1>2, <2>1 DEF GraphInv, UndeterminedIsUnreceived
  <2> QED  BY <2>3, <2>4, <2>5, <2>6, <2>7, <2>8 DEF GraphInv
<1> QED  BY <1>2 DEF GraphInvariant

-----------------------------------------------------------------------------
(***************************************************************************)
(* Theorems.                                                               *)
(***************************************************************************)

\* GraphInvariant is inductive, and no step of Next revises what was computed
\* about an event.
LEMMA NextInvariant ==
    ASSUME GraphInvariant, [Next]_vars
    PROVE  /\ GraphInvariant'
           /\ ~UNCHANGED vars => \A n \in Nodes : Keeps(hg[n], hg'[n])
<1>1. \A h : Keeps(h, h)
  BY DEF Keeps
<1>2. ASSUME NEW n \in Nodes, dag' = dag,
             NEW g, hg' = [hg EXCEPT ![n] = g], GraphInv(g), Keeps(hg[n], g)
      PROVE  GraphInvariant' /\ \A m \in Nodes : Keeps(hg[m], hg'[m])
  <2>1. DOMAIN hg = Nodes /\ dag \in Dags /\ \A m \in Nodes : GraphInv(hg[m])
    BY DEF GraphInvariant
  <2>2. GraphInvariant'
    BY <1>2, <2>1, NextGraph
  <2>3. \A m \in Nodes : Keeps(hg[m], hg'[m])
    BY <1>1, <1>2, <2>1
  <2> QED  BY <2>2, <2>3
<1>3. ASSUME NEW n \in Nodes, NEW x \in Events, InsertEventAndRunConsensus(n, x)
      PROVE  GraphInvariant' /\ \A m \in Nodes : Keeps(hg[m], hg'[m])
  <2>1. PICK g : hg' = [hg EXCEPT ![n] = g] /\ GraphInv(g) /\ Keeps(hg[n], g)
    BY <1>3, InsertStep
  <2> QED  BY <1>2, <1>3, <2>1, InsertStep, Zenon
<1>4. ASSUME NEW n \in Nodes, ProcessSigPool(n)
      PROVE  GraphInvariant' /\ \A m \in Nodes : Keeps(hg[m], hg'[m])
  <2> DEFINE g == AppendSignatures(hg[n])
  <2>1. GraphInv(hg[n])
    BY DEF GraphInvariant
  <2>2. GraphInv(g) /\ Keeps(hg[n], g)
    BY <2>1, SignaturesInv
  <2>3. hg' = [hg EXCEPT ![n] = g] /\ dag' = dag
    BY <1>4 DEF ProcessSigPool
  <2> HIDE DEF g
  <2> QED  BY <1>2, <2>2, <2>3, Zenon
<1>5. CASE Next
  BY <1>3, <1>4, <1>5 DEF Next
<1>6. CASE UNCHANGED vars
  <2>1. dag' = dag /\ hg' = hg
    BY <1>6 DEF vars
  <2>2. GraphInvariant'
    BY <2>1, NextGraph DEF GraphInvariant
  <2> QED  BY <1>6, <2>2
<1> QED  BY <1>5, <1>6

\* In every reachable state the graph of every node is well typed, closed under
\* parents, has exact lastAncestors and causal timestamps: for any peers, any
\* graph of events and any interleaving of insertions.
THEOREM GraphCorrect ==
    Spec => []GraphInvariant
<1>1. Init => GraphInvariant
  BY InitGraph DEF Init, GraphInvariant
<1>2. GraphInvariant /\ [Next]_vars => GraphInvariant'
  BY NextInvariant
<1> QED  BY <1>1, <1>2, PTL DEF Spec

\* ancestor and see, which compare an index with lastAncestors, compute the
\* recursive definition of ancestry.
THEOREM SeeCorrect ==
    Spec => []SeeByParents
<1>1. GraphInvariant => SeeByParents
  <2> SUFFICES ASSUME GraphInvariant, NEW n \in Nodes,
                      NEW x \in hg[n].known, NEW y \in hg[n].known
               PROVE  See(hg[n], x, y) <=>
                          x = y \/ \E z \in KnownParents(hg[n], x) : See(hg[n], z, y)
    BY Zenon DEF SeeByParents
  <2> DEFINE h == hg[n]
  <2>1. dag \in Dags /\ GraphInv(h)
    BY DEF GraphInvariant
  <2> HIDE DEF h
  <2>2. /\ h.known \subseteq Events /\ h.la \in [Events -> [Participants -> Int]]
        /\ ParentsKnown(h) /\ LastAncestorsKnown(h) /\ ParentsBelow(h)
    BY <2>1 DEF GraphInv, GraphTypeOK
  <2>3. x \in h.known /\ y \in h.known
    BY DEF h
  <2>4. See(h, x, y) <=> x = y \/ \E z \in KnownParents(h, x) : See(h, z, y)
    BY <2>1, <2>2, <2>3, SeeThroughParents
  <2> QED  BY <2>4 DEF h
<1> QED  BY <1>1, GraphCorrect, PTL

\* An event that sees another has a higher Lamport timestamp and a round that is
\* no lower: the consensus order extends causality.
THEOREM TimestampsCorrect ==
    Spec => []CausalTimestamps
<1>1. GraphInvariant => CausalTimestamps
  BY Zenon DEF GraphInvariant, GraphInv, SeenIsLower, CausalTimestamps
<1> QED  BY <1>1, GraphCorrect, PTL

\* No step of any node revises what it computed about an event: coordinates,
\* round, timestamp, witness flag, defined fame and round-received.
THEOREM NothingRevised ==
    Spec => EventsFrozen
<1>1. GraphInvariant /\ [Next]_vars => [\A n \in Nodes : Keeps(hg[n], hg'[n])]_vars
  BY NextInvariant
<1> QED  BY <1>1, GraphCorrect, PTL DEF Spec, EventsFrozen
-----------------------------------------------------------------------------
(***************************************************************************)
(* The loop of ProcessDecidedRounds is well defined.                       *)
(***************************************************************************)

\* f is what the passes of the loop over rounds leave, up to the k-th.
IsLoop(f, h, n, rounds, k) ==
    f = [i \in 0..k |-> IF i = 0 THEN h ELSE ProcessRound(f[i - 1], n, rounds[i])]

\* That is: f[0] is h, and a pass takes what the one before leaves.
IsPasses(f, h, n, rounds, k) ==
    f[0] = h /\ \A i \in 1..k : f[i] = ProcessRound(f[i - 1], n, rounds[i])

\* There is such an f: by induction on k.
LEMMA LoopExists ==
    ASSUME NEW h, NEW n, NEW rounds, NEW k \in Nat
    PROVE  \E f : IsLoop(f, h, n, rounds, k)
<1> DEFINE T == {j \in Nat : ~ \E f : IsLoop(f, h, n, rounds, j)}
<1> SUFFICES ASSUME T # {}  PROVE FALSE
  OBVIOUS
<1>1. PICK m \in T : \A j \in T : m <= j
  BY LeastNatural, Zenon
<1>2. m # 0
  <2>1. IsLoop([i \in 0..0 |-> h], h, n, rounds, 0)
    BY DEF IsLoop
  <2> QED  BY <2>1
<1>3. PICK f : IsLoop(f, h, n, rounds, m - 1)
  BY <1>1, <1>2
<1> DEFINE g == [i \in 0..m |-> IF i = m THEN ProcessRound(f[m - 1], n, rounds[m]) ELSE f[i]]
<1>4. IsLoop(g, h, n, rounds, m)
  BY <1>2, <1>3 DEF IsLoop
<1> QED  BY <1>4

\* ProcessRounds starts from h, and a pass takes the result of the one before.
LEMMA LoopSteps ==
    ASSUME NEW h, NEW n, NEW rounds, Len(rounds) \in Nat,
           NEW f, f = ProcessRounds(h, n, rounds)
    PROVE  IsPasses(f, h, n, rounds, Len(rounds))
<1>1. f = CHOOSE g : IsLoop(g, h, n, rounds, Len(rounds))
  BY Zenon DEF ProcessRounds, IsLoop
<1>2. IsLoop(f, h, n, rounds, Len(rounds))
  BY <1>1, LoopExists, Zenon
<1> QED  BY <1>2 DEF IsLoop, IsPasses

-----------------------------------------------------------------------------
(***************************************************************************)
(* Insertion and rounds.                                                   *)
(***************************************************************************)

\* The part of a hashgraph that only ProcessDecidedRounds changes.
SameChain(h, g) ==
    /\ g.lastConsensusRound = h.lastConsensusRound /\ g.lowerBound = h.lowerBound
    /\ g.frames = h.frames /\ g.blocks = h.blocks /\ g.anchor = h.anchor
    /\ g.peerSets = h.peerSets /\ g.validators = h.validators

\* To leave it alone twice is to leave it alone.
LEMMA SameChainTransitive ==
    ASSUME NEW f, NEW g, NEW h, SameChain(f, g), SameChain(g, h)
    PROVE  SameChain(f, h)
BY Zenon DEF SameChain

\* InsertEvent leaves it alone, and decides nothing.
LEMMA InsertChain ==
    ASSUME NEW h, DOMAIN h = DOMAIN NewHashgraph, NEW x,
           NEW g, g = InsertEvent(h, x)
    PROVE  /\ SameChain(h, g)
           /\ DOMAIN g = DOMAIN NewHashgraph
           /\ g.known = h.known \cup {x} /\ g.undetermined = h.undetermined \cup {x}
           /\ g.round = h.round /\ g.witness = h.witness
           /\ g.famous = h.famous /\ g.rr = h.rr
           /\ g.decided = h.decided /\ g.pending = h.pending
BY FieldNames DEF InsertEvent, UpdateAncestorFirstDescendant, SameChain

\* So does DivideRounds, which gives x its round.
LEMMA DivideChain ==
    ASSUME NEW h, DOMAIN h = DOMAIN NewHashgraph, NEW x,
           NEW g, g = DivideRounds(h, x)
    PROVE  SameChain(h, g) /\ g.round = [h.round EXCEPT ![x] = RoundOf(h, x)]
BY FieldNames DEF DivideRounds, SameChain

\* So does DecideFame, which gives a fame to the witnesses that it is about.
LEMMA FameChain ==
    ASSUME NEW h, DOMAIN h = DOMAIN NewHashgraph, NEW fame,
           NEW g, g = DecideFame(h, fame)
    PROVE  /\ SameChain(h, g)
           /\ \A x \in Events : x \notin DOMAIN fame => g.famous[x] = h.famous[x]
BY FieldNames DEF DecideFame, SetFame, SameChain

\* So does DecideRoundReceived.
LEMMA ReceivedChain ==
    ASSUME NEW h, DOMAIN h = DOMAIN NewHashgraph,
           NEW g, g = DecideRoundReceived(h)
    PROVE  SameChain(h, g)
BY FieldNames DEF DecideRoundReceived, SameChain

\* A new event raises the last round by one at most.
LEMMA RoundOfBound ==
    ASSUME NEW h, h.known \subseteq Events, h.round \in [Events -> Int], RoundInv(h),
           NEW x, NEW i, i.round = h.round, i.known \subseteq Events,
           KnownParents(i, x) \subseteq h.known
    PROVE  RoundOf(i, x) \in 0 .. LastRound(h) + 1
<1> DEFINE L == LastRound(h)
           r == ParentRound(i, x)
<1>1. L \in Int /\ L >= -1 /\ \A y \in h.known : h.round[y] \in 0..L
  BY DEF RoundInv
<1>2. /\ r \in Int
      /\ KnownParents(i, x) = {} => r = -1
      /\ KnownParents(i, x) # {} => \E y \in KnownParents(i, x) : r = i.round[y]
  <2>1. i.round \in [Events -> Int]
    OBVIOUS
  <2> DEFINE S == {i.round[y] : y \in KnownParents(i, x)}
  <2>2. \A v : v \in S <=> \E y \in KnownParents(i, x) : v = i.round[y]
    OBVIOUS
  <2>3. r = MaxOrNone(S)
    BY DEF ParentRound
  <2> HIDE DEF S, r
  <2>4. /\ MaxOrNone(S) \in Int
        /\ KnownParents(i, x) = {} => MaxOrNone(S) = -1
        /\ KnownParents(i, x) # {} => \E y \in KnownParents(i, x) : MaxOrNone(S) = i.round[y]
    BY <2>1, <2>2, ParentMax
  <2> QED  BY <2>3, <2>4, Zenon
<1> HIDE DEF L
<1>3. r = -1 \/ r \in 0..L
  BY <1>1, <1>2
<1> HIDE DEF r
<1>4. RoundOf(i, x) = 0 \/ (r # -1 /\ RoundOf(i, x) \in {r, r + 1})
  BY Z3 DEF RoundOf, r
<1>5. RoundOf(i, x) \in 0 .. L + 1
  BY <1>1, <1>3, <1>4
<1> QED  BY <1>5 DEF L

\* The last round after an event gets round r.
LEMMA LastRoundAfter ==
    ASSUME NEW h, h.known \subseteq Events, h.round \in [Events -> Int], RoundInv(h),
           NEW x \in Events, x \notin h.known, NEW r \in 0 .. LastRound(h) + 1,
           NEW g, g.known = h.known \cup {x}, g.round = [h.round EXCEPT ![x] = r]
    PROVE  /\ LastRound(g) = IF r <= LastRound(h) THEN LastRound(h) ELSE r
           /\ \A y \in g.known : g.round[y] \in 0..LastRound(g)
           /\ \A k \in 0..LastRound(g) : \E y \in g.known : g.round[y] = k
<1> DEFINE L == LastRound(h)
           M == IF r <= L THEN L ELSE r
           S == {g.round[y] : y \in g.known}
<1>1. /\ L \in Int /\ L >= -1 /\ \A y \in h.known : h.round[y] \in 0..L
      /\ \A k \in 0..L : \E y \in h.known : h.round[y] = k
  BY DEF RoundInv
<1>2. r \in Int /\ 0 <= r /\ r <= L + 1
  BY <1>1
<1> HIDE DEF L
<1>3. g.round[x] = r /\ \A y \in h.known : g.round[y] = h.round[y]
  OBVIOUS
<1>4. M \in Int /\ \A y \in g.known : g.round[y] \in 0..M
  BY <1>1, <1>2, <1>3
<1>5. \A k \in 0..M : \E y \in g.known : g.round[y] = k
  BY <1>1, <1>2, <1>3
<1>6. M \in 0..M
  BY <1>2, <1>4
<1>7. M \in S /\ \A k \in S : k <= M
  BY <1>4, <1>5, <1>6
<1>8. S \subseteq Int
  BY <1>4
<1> HIDE DEF M
<1>9. LastRound(g) = M
  <2>1. MaxOrNone(S) = M
    BY <1>7, <1>8, MaxIs
  <2> QED  BY <2>1 DEF LastRound
<1> QED  BY <1>4, <1>5, <1>9 DEF M, L
\* The last round depends on two fields only.
LEMMA SameLastRound ==
    ASSUME NEW h, NEW g, g.known = h.known, g.round = h.round
    PROVE  LastRound(g) = LastRound(h)
BY DEF LastRound

\* InsertEvent and DivideRounds keep the rounds contiguous, and a round that is
\* new becomes pending.
LEMMA InsertRounds ==
    ASSUME dag \in Dags, NEW h, GraphInv(h), RoundInv(h), PendingInv(h),
           NEW x \in Events, x \notin h.known, CanInsert(h, x),
           NEW i, i = InsertEvent(h, x), NEW d, d = DivideRounds(i, x)
    PROVE  /\ RoundInv(d) /\ PendingInv(d) /\ SameChain(h, d)
           /\ LastRound(h) <= LastRound(d) /\ LastRound(d) <= LastRound(h) + 1
<1> DEFINE L == LastRound(h)
           r == RoundOf(i, x)
           lcr == h.lastConsensusRound
<1>1. /\ DOMAIN h = DOMAIN NewHashgraph /\ h.known \subseteq Events
      /\ h.round \in [Events -> Int] /\ ParentsKnown(h)
  BY DEF GraphInv, GraphTypeOK
<1>2. /\ DOMAIN i = DOMAIN NewHashgraph /\ i.known = h.known \cup {x}
      /\ i.round = h.round /\ i.famous = h.famous
      /\ i.decided = h.decided /\ i.pending = h.pending /\ i.lowerBound = h.lowerBound
  BY <1>1, InsertChain DEF SameChain
<1>3. /\ d.pending = Queue(i, r) /\ d.known = i.known
      /\ d.famous = i.famous /\ d.decided = i.decided
  BY <1>2, DivideFields
<1>4. d.round = [i.round EXCEPT ![x] = r]
  BY <1>2, DivideChain
<1>5. SameChain(h, d)
  <2>1. SameChain(h, i)
    BY <1>1, InsertChain
  <2>2. SameChain(i, d)
    BY <1>2, DivideChain, Zenon
  <2> QED  BY <2>1, <2>2, SameChainTransitive
<1>6. KnownParents(i, x) \subseteq h.known
  BY <1>1, <1>2, ParentsFixed DEF KnownParents
<1>7. r \in 0 .. L + 1
  BY <1>1, <1>2, <1>6, RoundOfBound
<1> HIDE DEF r
<1>8. /\ LastRound(d) = IF r <= L THEN L ELSE r
      /\ \A y \in d.known : d.round[y] \in 0..LastRound(d)
      /\ \A k \in 0..LastRound(d) : \E y \in d.known : d.round[y] = k
  BY <1>1, <1>2, <1>3, <1>4, <1>7, LastRoundAfter
<1>9. L \in Int /\ L >= -1 /\ h.lowerBound = -1 /\ h.decided \subseteq 0..L
  BY DEF RoundInv
<1>10. /\ lcr \in Int /\ lcr >= -1 /\ lcr <= L
       /\ 0..lcr \subseteq h.decided /\ DOMAIN h.frames = 0..lcr
       /\ DOMAIN h.pending = lcr + 1 .. L
       /\ \A k \in DOMAIN h.pending : h.pending[k] <=> k \in h.decided
  BY DEF PendingInv
<1>11. /\ d.lowerBound = -1 /\ d.lastConsensusRound = lcr /\ d.frames = h.frames
  BY <1>5, <1>9 DEF SameChain
<1> HIDE DEF L, lcr
<1>12. LastRound(d) \in Int /\ L <= LastRound(d) /\ LastRound(d) <= L + 1
  BY <1>7, <1>8, <1>9
<1>13. RoundInv(d)
  <2>1. IsFiniteSet(d.known)
    BY <1>2, <1>3, FS_AddElement DEF RoundInv
  <2>2. d.decided \subseteq 0..LastRound(d)
    BY <1>2, <1>3, <1>9, <1>12
  <2>3. \A y \in Events : d.famous[y] # "undefined" => y \in d.known
    BY <1>2, <1>3 DEF RoundInv
  <2>4. LastRound(d) >= -1
    BY <1>9, <1>12
  <2> QED  BY <1>8, <1>11, <1>12, <2>1, <2>2, <2>3, <2>4 DEF RoundInv
<1>14. /\ DOMAIN d.pending = lcr + 1 .. LastRound(d)
       /\ \A k \in DOMAIN d.pending : d.pending[k] <=> k \in d.decided
  <2>1. CASE r <= L
    <3>1. r \in DOMAIN h.pending \cup h.decided
      BY <1>7, <1>9, <1>10, <2>1
    <3>2. d.pending = h.pending
      BY <1>2, <1>3, <3>1 DEF Queue
    <3> QED  BY <1>2, <1>3, <1>8, <1>10, <2>1, <3>2, Zenon
  <2>2. CASE ~(r <= L)
    <3>1. r = L + 1 /\ LastRound(d) = r
      BY <1>7, <1>8, <1>9, <2>2
    <3>2. r \notin DOMAIN h.pending /\ r \notin h.decided /\ ~(r <= -1)
      BY <1>7, <1>9, <1>10, <3>1
    <3>3. d.pending = [k \in DOMAIN h.pending \cup {r} |-> k # r /\ h.pending[k]]
      BY <1>2, <1>3, <1>9, <3>2 DEF Queue
    <3>4. DOMAIN h.pending \cup {r} = lcr + 1 .. r
      BY <1>9, <1>10, <3>1
    <3>5. d.decided = h.decided
      BY <1>2, <1>3
    <3> QED  BY <1>10, <3>1, <3>2, <3>3, <3>4, <3>5, Zenon
  <2> QED  BY <2>1, <2>2
<1>15. PendingInv(d)
  <2>1. lcr <= LastRound(d)
    BY <1>9, <1>10, <1>12
  <2> QED  BY <1>2, <1>3, <1>10, <1>11, <1>14, <2>1 DEF PendingInv
<1> QED  BY <1>5, <1>12, <1>13, <1>15 DEF L

\* DecideFame decides some of the pending rounds.
LEMMA FameRounds ==
    ASSUME NEW h, GraphInv(h), RoundInv(h), PendingInv(h),
           NEW fame \in FameDecisions(h), NEW g, g = DecideFame(h, fame)
    PROVE  RoundInv(g) /\ PendingInv(g) /\ SameChain(h, g) /\ LastRound(g) = LastRound(h)
<1> DEFINE f == SetFame(h, fame)
           D == {r \in DOMAIN h.pending : WitnessesDecided(f, r)}
<1>1. DOMAIN h = DOMAIN NewHashgraph
  BY DEF GraphInv, GraphTypeOK
<1>2. DOMAIN f = DOMAIN NewHashgraph /\ f.decided = h.decided
  BY <1>1, FieldNames DEF SetFame
<1>3. g = [f EXCEPT !.decided = @ \cup D,
                    !.pending = [r \in DOMAIN h.pending |-> h.pending[r] \/ r \in D]]
  BY Zenon DEF DecideFame
<1>4. D \subseteq DOMAIN h.pending
  OBVIOUS
<1> HIDE DEF f, D
<1>5. /\ g.decided = h.decided \cup D
      /\ g.pending = [r \in DOMAIN h.pending |-> h.pending[r] \/ r \in D]
  BY <1>2, <1>3, FieldNames
<1>6. g.known = h.known /\ g.round = h.round
  BY <1>1, DecideFameFields
<1>7. LastRound(g) = LastRound(h)
  BY <1>6, SameLastRound
<1>8. SameChain(h, g)
  BY <1>1, FameChain
<1>9. g.lowerBound = h.lowerBound /\ g.lastConsensusRound = h.lastConsensusRound
      /\ g.frames = h.frames
  BY <1>8 DEF SameChain
<1>10. \A x \in Events : g.famous[x] # "undefined" => x \in g.known
  <2>1. DOMAIN fame \subseteq h.known
    BY DEF FameDecisions
  <2>2. \A x \in Events : x \notin DOMAIN fame => g.famous[x] = h.famous[x]
    BY <1>1, FameChain
  <2> QED  BY <1>6, <2>1, <2>2 DEF RoundInv
<1>11. D \subseteq 0..LastRound(h)
  BY <1>4 DEF PendingInv, RoundInv
<1>12. RoundInv(g)
  <2>1. g.decided \subseteq 0..LastRound(g)
    BY <1>5, <1>7, <1>11, Zenon DEF RoundInv
  <2> QED  BY <1>6, <1>7, <1>9, <1>10, <2>1 DEF RoundInv
<1>13. \A r \in DOMAIN g.pending : g.pending[r] <=> r \in g.decided
  BY <1>5, Zenon DEF PendingInv
<1>14. PendingInv(g)
  BY <1>5, <1>7, <1>9, <1>13 DEF PendingInv
<1> QED  BY <1>7, <1>8, <1>12, <1>14

\* DecideRoundReceived changes no round.
LEMMA ReceivedRounds ==
    ASSUME NEW h, GraphInv(h), RoundInv(h), PendingInv(h),
           NEW g, g = DecideRoundReceived(h)
    PROVE  RoundInv(g) /\ PendingInv(g) /\ SameChain(h, g) /\ LastRound(g) = LastRound(h)
<1>1. DOMAIN h = DOMAIN NewHashgraph
  BY DEF GraphInv, GraphTypeOK
<1>2. /\ g.known = h.known /\ g.round = h.round /\ g.famous = h.famous
      /\ g.decided = h.decided /\ g.pending = h.pending
  BY <1>1, ReceivedFields, Zenon
<1>3. LastRound(g) = LastRound(h)
  BY <1>2, SameLastRound
<1>4. SameChain(h, g)
  BY <1>1, ReceivedChain
<1>5. RoundInv(g)
  BY <1>2, <1>3, <1>4 DEF RoundInv, SameChain
<1>6. PendingInv(g)
  BY <1>2, <1>3, <1>4, Zenon DEF PendingInv, SameChain
<1> QED  BY <1>3, <1>4, <1>5, <1>6
-----------------------------------------------------------------------------
(***************************************************************************)
(* What a pass of the loop of ProcessDecidedRounds leaves.                 *)
(***************************************************************************)

\* h has the fields of a hashgraph.
IsHashgraph(h) == DOMAIN h = DOMAIN NewHashgraph

\* g has the events, rounds, fame and pending rounds of h.
SameEvents(h, g) ==
    /\ IsHashgraph(g)
    /\ g.known = h.known /\ g.undetermined = h.undetermined
    /\ g.la = h.la /\ g.fd = h.fd
    /\ g.round = h.round /\ g.lamport = h.lamport /\ g.witness = h.witness
    /\ g.famous = h.famous /\ g.rr = h.rr
    /\ g.decided = h.decided /\ g.pending = h.pending
    /\ g.lowerBound = h.lowerBound /\ g.lastConsensusRound = h.lastConsensusRound

\* SetBlock changes blocks only.
LEMMA SetBlockEvents ==
    ASSUME NEW h, IsHashgraph(h), NEW b, NEW g, g = SetBlock(h, b)
    PROVE  /\ SameEvents(h, g) /\ g.frames = h.frames
           /\ g.anchor = h.anchor /\ g.peerSets = h.peerSets /\ g.validators = h.validators
BY FieldNames DEF IsHashgraph, SetBlock, SameEvents

\* SetAnchorBlock changes the anchor only.
LEMMA SetAnchorEvents ==
    ASSUME NEW h, IsHashgraph(h), NEW b, NEW g, g = SetAnchorBlock(h, b)
    PROVE  /\ SameEvents(h, g) /\ g.frames = h.frames /\ g.blocks = h.blocks
           /\ g.peerSets = h.peerSets /\ g.validators = h.validators
BY FieldNames DEF IsHashgraph, SetAnchorBlock, SameEvents

\* ProcessAccepted changes peer-sets and validators only.
LEMMA AcceptedEvents ==
    ASSUME NEW h, IsHashgraph(h), NEW b, NEW g, g = ProcessAccepted(h, b)
    PROVE  /\ SameEvents(h, g) /\ g.frames = h.frames /\ g.blocks = h.blocks
           /\ g.anchor = h.anchor
<1> DEFINE v == ApplyAccepted(h.validators, b.itxs)
           P == SetPeerSet(h.peerSets, b.round + EffectiveDelay, v)
<1>1. g = h \/ g = [h EXCEPT !.validators = v, !.peerSets = P]
  BY Zenon DEF ProcessAccepted
<1> HIDE DEF v, P
<1> QED  BY <1>1, FieldNames, Zenon DEF IsHashgraph, SameEvents

\* To have the same events is transitive.
LEMMA SameEventsTransitive ==
    ASSUME NEW f, NEW g, NEW h, SameEvents(f, g), SameEvents(g, h)
    PROVE  SameEvents(f, h)
BY Zenon DEF SameEvents

\* Nothing that Commit does touches events or frames.
LEMMA CommitFields ==
    ASSUME NEW h, IsHashgraph(h), NEW n, NEW b, NEW g, g = Commit(h, n, b)
    PROVE  SameEvents(h, g) /\ g.frames = h.frames
<1>1. CASE <<n, b.index>> \in AppFailures
  BY <1>1 DEF Commit, SameEvents
<1>2. CASE <<n, b.index>> \notin AppFailures
  <2> DEFINE c == [b EXCEPT !.committed = TRUE, !.sigs = {n} \cap GetPeerSet(h, b.round)]
             i == SetBlock(h, c)
             j == SetAnchorBlock(i, c)
  <2>1. g = ProcessAccepted(j, c)
    BY <1>2, Zenon DEF Commit
  <2>7. i = SetBlock(h, c) /\ j = SetAnchorBlock(i, c)
    OBVIOUS
  <2> HIDE DEF c, i, j
  <2>2. SameEvents(h, i) /\ i.frames = h.frames
    BY <2>7, SetBlockEvents, Zenon
  <2>8. IsHashgraph(i)
    BY <2>2 DEF SameEvents
  <2>3. SameEvents(i, j) /\ j.frames = i.frames
    BY <2>7, <2>8, SetAnchorEvents, Zenon
  <2>9. IsHashgraph(j)
    BY <2>3 DEF SameEvents
  <2>4. SameEvents(j, g) /\ g.frames = j.frames
    BY <2>1, <2>9, AcceptedEvents
  <2>5. SameEvents(h, j)
    BY <2>2, <2>3, SameEventsTransitive
  <2>6. SameEvents(h, g)
    BY <2>4, <2>5, SameEventsTransitive
  <2> QED  BY <2>2, <2>3, <2>4, <2>6
<1> QED  BY <1>1, <1>2

\* The frames after the frame of round r is made.
WithFrame(h, r) ==
    [k \in DOMAIN h.frames \cup {r} |-> IF k = r THEN GetFrame(h, r) ELSE h.frames[k]]

\* g is f with a block for the events that h received in round r, if any of
\* them has a payload, committed by node n.
IsCommitted(h, n, r, f, g) ==
    LET b == NewBlockFromFrame(LastBlockIndex(h) + 1, GetFrame(h, r))
    IN  /\ IsHashgraph(f)
        /\ f.blocks = h.blocks /\ f.anchor = h.anchor
        /\ f.peerSets = h.peerSets /\ f.validators = h.validators
        /\ g = IF HasPayload(b) THEN Commit(SetBlock(f, b), n, b) ELSE f

\* A pass adds the frame of its round, and changes at most blocks, anchor,
\* peer-sets and validators otherwise.
LEMMA PassFields ==
    ASSUME NEW h, IsHashgraph(h), NEW n, NEW r, NEW g, g = ProcessRound(h, n, r)
    PROVE  /\ SameEvents(h, g)
           /\ g.frames = WithFrame(h, r)
           /\ \E f : IsCommitted(h, n, r, f, g)
<1> DEFINE frame == GetFrame(h, r)
           F == [k \in DOMAIN h.frames \cup {r} |-> IF k = r THEN frame ELSE h.frames[k]]
           last(p) == LET pos == PositionsOf(frame.events, p)
                      IN  CHOOSE i \in pos : \A k \in pos : k <= i
           C == [p \in Participants |-> IF PositionsOf(frame.events, p) = {}
                                        THEN h.lastConsensus[p]
                                        ELSE Index(frame.events[last(p)])]
           l == h.loaded - Cardinality({x \in Range(frame.events) : IsLoaded(x)})
           f == [h EXCEPT !.frames = F, !.lastConsensus = C, !.loaded = l]
           b == NewBlockFromFrame(LastBlockIndex(h) + 1, frame)
<1>1. g = IF HasPayload(b) THEN Commit(SetBlock(f, b), n, b) ELSE f
  BY Zenon DEF ProcessRound
<1> HIDE DEF F, C, l, b, frame
<1>3. /\ SameEvents(h, f) /\ f.frames = F
      /\ f.blocks = h.blocks /\ f.anchor = h.anchor
      /\ f.peerSets = h.peerSets /\ f.validators = h.validators
  BY FieldNames DEF IsHashgraph, SameEvents
<1> HIDE DEF f
<1>4. SameEvents(h, g) /\ g.frames = F
  <2>1. CASE HasPayload(b)
    <3> DEFINE i == SetBlock(f, b)
    <3>2. g = Commit(i, n, b) /\ i = SetBlock(f, b)
      BY <1>1, <2>1
    <3> HIDE DEF i
    <3>5. IsHashgraph(f)
      BY <1>3 DEF SameEvents
    <3>1. SameEvents(f, i) /\ i.frames = f.frames
      BY <3>2, <3>5, SetBlockEvents, Zenon
    <3>6. IsHashgraph(i)
      BY <3>1 DEF SameEvents
    <3>3. SameEvents(i, g) /\ g.frames = i.frames
      BY <3>2, <3>6, CommitFields
    <3>4. SameEvents(h, i)
      BY <1>3, <3>1, SameEventsTransitive
    <3> QED  BY <1>3, <3>1, <3>3, <3>4, SameEventsTransitive
  <2>2. CASE ~HasPayload(b)
    BY <1>1, <1>3, <2>2
  <2> QED  BY <2>1, <2>2
<1>5. IsHashgraph(f)
  BY <1>3 DEF SameEvents
<1> QED  BY <1>1, <1>3, <1>4, <1>5, Zenon DEF F, b, frame, WithFrame, IsCommitted
-----------------------------------------------------------------------------
(***************************************************************************)
(* Peer-sets.                                                              *)
(***************************************************************************)

\* A round from 0 on is governed by a recorded round.
LEMMA Governed ==
    ASSUME NEW ps, DOMAIN ps \subseteq Int, 0 \in DOMAIN ps, NEW r \in Int, r >= 0
    PROVE  GoverningRound(ps, r) \in DOMAIN ps /\ GoverningRound(ps, r) <= r
<1> DEFINE S == {k \in DOMAIN ps : k <= r}
<1>1. S \subseteq Int /\ S # {} /\ \A k \in S : k <= r
  OBVIOUS
<1>2. MaxOrNone(S) \in S /\ \A k \in S : k <= MaxOrNone(S)
  BY <1>1, GreatestInteger
<1>3. \E k \in DOMAIN ps : k <= r /\ \A m \in DOMAIN ps : m <= r => m <= k
  BY <1>2
<1>4. \E k \in DOMAIN ps : k <= r
  OBVIOUS
<1> QED  BY <1>3, <1>4 DEF GoverningRound

\* So its peer-set is one of those recorded.
LEMMA PeersOfRound ==
    ASSUME NEW h, NEW last, PeerSetsInv(h, last), last \in Int, NEW r \in Int, r >= 0
    PROVE  /\ GetPeerSet(h, r) \subseteq Participants /\ IsFiniteSet(GetPeerSet(h, r))
           /\ TrustCount(GetPeerSet(h, r)) \in Nat
<1> DEFINE P == GetPeerSet(h, r)
<1>1. DOMAIN h.peerSets \subseteq Int /\ 0 \in DOMAIN h.peerSets
  BY DEF PeerSetsInv
<1>2. P \subseteq Participants
  BY <1>1, Governed DEF GetPeerSet, PeerSetAt, PeerSetsInv
<1> HIDE DEF P
<1>3. IsFiniteSet(P) /\ Cardinality(P) \in Nat
  BY <1>2, ParticipantsAssumption, FS_Subset, FS_CardinalityType
<1>4. TrustCount(P) \in Nat
  BY <1>3 DEF TrustCount
<1> QED  BY <1>2, <1>3, <1>4 DEF P

\* A peer-set recorded for a later round does not change that of round r.
LEMMA PeersOfRoundKept ==
    ASSUME NEW ps, DOMAIN ps \subseteq Int, 0 \in DOMAIN ps,
           NEW e \in Int, e \notin DOMAIN ps, NEW P, NEW r \in Int, r >= 0, r < e
    PROVE  PeerSetAt(SetPeerSet(ps, e, P), r) = PeerSetAt(ps, r)
<1> DEFINE qs == SetPeerSet(ps, e, P)
<1>1. DOMAIN qs = DOMAIN ps \cup {e} /\ \A k \in DOMAIN ps : qs[k] = ps[k]
  BY DEF SetPeerSet
<1> HIDE DEF qs
<1>2. ~(e <= r)
  OBVIOUS
<1>3. \A k : k \in DOMAIN qs /\ k <= r /\ (\A m \in DOMAIN qs : m <= r => m <= k)
               <=> k \in DOMAIN ps /\ k <= r /\ (\A m \in DOMAIN ps : m <= r => m <= k)
  BY <1>1, <1>2
<1>4. (\E k \in DOMAIN qs : k <= r) /\ (\E k \in DOMAIN ps : k <= r)
  BY <1>1
<1>5. GoverningRound(qs, r) =
        CHOOSE k : k \in DOMAIN qs /\ k <= r /\ \A m \in DOMAIN qs : m <= r => m <= k
  BY <1>4, Zenon DEF GoverningRound
<1>6. GoverningRound(ps, r) =
        CHOOSE k : k \in DOMAIN ps /\ k <= r /\ \A m \in DOMAIN ps : m <= r => m <= k
  BY <1>4, Zenon DEF GoverningRound
<1>7. GoverningRound(qs, r) = GoverningRound(ps, r)
  BY <1>3, <1>5, <1>6, Zenon
<1>8. GoverningRound(ps, r) \in DOMAIN ps
  BY Governed
<1> QED  BY <1>1, <1>7, <1>8 DEF PeerSetAt, qs

\* The rounds that are processed have peer-sets that no later block changes.
SamePeers(h, g, last) == \A k \in Int : k >= 0 /\ k <= last => GetPeerSet(g, k) = GetPeerSet(h, k)

\* A new peer-set for the sixth round after r becomes the last one.
LEMMA PeerSetsGrow ==
    ASSUME NEW r \in Int, r >= 0, NEW h, PeerSetsInv(h, r - 1),
           NEW g, g.validators \subseteq Participants,
           g.peerSets = SetPeerSet(h.peerSets, r + EffectiveDelay, g.validators)
    PROVE  PeerSetsInv(g, r) /\ SamePeers(h, g, r + EffectiveDelay - 1)
<1> DEFINE ps == h.peerSets
           qs == g.peerSets
           e == r + EffectiveDelay
<1>1. /\ 0 \in DOMAIN ps /\ DOMAIN ps \subseteq Int
      /\ \A k \in DOMAIN ps : k >= 0 /\ k < e
      /\ \A k \in DOMAIN ps : ps[k] \subseteq Participants
  BY DEF PeerSetsInv, EffectiveDelay
<1>2. e \in Int /\ e \notin DOMAIN ps /\ e >= 0 /\ e = r + 6
  BY <1>1 DEF EffectiveDelay
<1>3. qs = SetPeerSet(ps, e, g.validators)
  OBVIOUS
<1>4. SamePeers(h, g, e - 1)
  <2>1. ASSUME NEW k \in Int, k >= 0, k <= e - 1  PROVE PeerSetAt(qs, k) = PeerSetAt(ps, k)
    <3>1. k < e
      BY <1>2, <2>1
    <3> HIDE DEF ps, qs, e
    <3> QED  BY <1>1, <1>2, <1>3, <2>1, <3>1, PeersOfRoundKept
  <2> QED  BY <2>1 DEF SamePeers, GetPeerSet
<1>5. DOMAIN qs = DOMAIN ps \cup {e} /\ qs[e] = g.validators /\ \A k \in DOMAIN ps : qs[k] = ps[k]
  BY <1>2, <1>3 DEF SetPeerSet
<1> HIDE DEF e
<1>6. DOMAIN qs \subseteq Int /\ \A k \in DOMAIN qs : k <= e
  BY <1>1, <1>2, <1>5
<1>7. MaxOrNone(DOMAIN qs) = e
  BY <1>5, <1>6, MaxIs
<1>8. DOMAIN qs \subseteq 0 .. r + EffectiveDelay
  BY <1>1, <1>2, <1>5 DEF EffectiveDelay
<1>9. \A k \in DOMAIN qs : qs[k] \subseteq Participants
  BY <1>1, <1>5
<1>10. PeerSetsInv(g, r)
  BY <1>1, <1>5, <1>7, <1>8, <1>9 DEF PeerSetsInv
<1>11. SamePeers(h, g, r + EffectiveDelay - 1)
  <2>1. e - 1 = r + EffectiveDelay - 1
    BY DEF e, EffectiveDelay
  <2> QED  BY <1>4, <2>1
<1> QED  BY <1>10, <1>11

\* Without a new one, nothing changes.
LEMMA PeerSetsStay ==
    ASSUME NEW r \in Int, NEW h, PeerSetsInv(h, r - 1),
           NEW g, g.peerSets = h.peerSets, g.validators = h.validators
    PROVE  PeerSetsInv(g, r) /\ SamePeers(h, g, r + EffectiveDelay - 1)
<1>1. SamePeers(h, g, r + EffectiveDelay - 1)
  BY DEF SamePeers, GetPeerSet
<1>2. DOMAIN h.peerSets \subseteq 0 .. r + EffectiveDelay
  BY DEF PeerSetsInv, EffectiveDelay
<1> QED  BY <1>1, <1>2 DEF PeerSetsInv
=============================================================================
