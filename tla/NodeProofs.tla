----------------------------- MODULE NodeProofs -----------------------------
(***************************************************************************)
(* Theorems about a node and what it works with, for every value of the    *)
(* constants: who is a validator when (Membership), the timer that paces   *)
(* gossip (ControlTimer), and the client of the application (AppProxy).    *)
(* No proof uses the fairness of a specification.                          *)
(***************************************************************************)
EXTENDS Membership, ControlTimer, AppProxy, FiniteSetTheorems, TLAPS

-----------------------------------------------------------------------------
(***************************************************************************)
(* Membership, for any peers, any configuration and any number of rounds.  *)
(* Without fast-sync every node goes through the same history H, which is  *)
(* what the receipts of the rounds make of the genesis peers; nodes that   *)
(* are not at the same round agree up to the round at which the later one  *)
(* can have made a change.                                                 *)
(*                                                                         *)
(* That who left is out is a matter of what was submitted.  Until the      *)
(* second request nobody but one joiner is in the receipts (JoinsAlone);   *)
(* when the second is its leave, a removal is the last receipt (Leaver).   *)
(***************************************************************************)

CoreFields == {"state", "last", "peers", "validators", "sets", "targetRound",
               "removedRound", "acceptedRound", "promises"}

\* The peer-sets recorded by SetPeerSet, one per round.
IsSets(sets) ==
    /\ [round |-> 0, peers |-> Genesis] \in sets
    /\ \A s \in sets : s.round \in Nat
    /\ \A s, t \in sets : s.round = t.round => s = t

\* They take effect six rounds after the last round at the latest.
IsCore(c) ==
    /\ DOMAIN c = CoreFields /\ c.last \in Int /\ c.last >= -1
    /\ IsSets(c.sets) /\ \A s \in c.sets : s.round <= c.last + 6

Struct ==
    /\ \E S : chain \in Seq(S)
    /\ requests \in Nat /\ DOMAIN node = Nodes /\ DOMAIN leaving = Nodes
    /\ \A n \in Nodes : IsCore(node[n]) /\ node[n].last < Round

Accepts(receipts) == \E x \in ToSet(receipts) : x.accepted

\* What the receipts of round r make of a, a core or an entry of the history.
AfterRound(a, r, receipts, b) ==
    LET W == WithChanges(a.validators, receipts)
    IN  /\ Accepts(receipts) =>
              b.validators = W /\ b.sets = a.sets \cup {[round |-> r + 6, peers |-> W]}
        /\ ~Accepts(receipts) => b.validators = a.validators /\ b.sets = a.sets

Beginning == [validators |-> Genesis, sets |-> {[round |-> 0, peers |-> Genesis]}]

\* H[k] is what the first k rounds make of the genesis peers.
History(H, ch) ==
    /\ DOMAIN H = 0..Len(ch) /\ H[0] = Beginning
    /\ \A k \in 1..Len(ch) : AfterRound(H[k - 1], k - 1, ch[k], H[k])

\* Rounds after the first i do not touch a peer-set of round i + 5 or before.
Grows(H, l) ==
    \A i, j \in 0..l : i <= j =>
        /\ H[i].sets \subseteq H[j].sets
        /\ \A s \in H[j].sets : s.round <= i + 5 => s \in H[i].sets

\* The core has gone through the first rounds of H.
IsAt(c, H) ==
    /\ c.state # "CatchingUp"
    /\ c.validators = H[c.last + 1].validators /\ c.sets = H[c.last + 1].sets

Agree ==
    ~FastSync => \E H : /\ History(H, chain) /\ Grows(H, Round)
                       /\ \A n \in Nodes : IsAt(node[n], H)

\* One receipt, for p.
Says(receipts, p, type) ==
    \E b : receipts = <<[tx |-> [type |-> type, peer |-> p], accepted |-> b]>>

\* Nobody but the genesis peers and j, and j only if there was a receipt.
OnlyWith(peers, j, ch) ==
    \A p \in peers \ Genesis : p = j /\ \E k \in 1..Len(ch) : ch[k] # <<>>

\* Nothing was asked for, except that j may join, once.
JoinsAlone(j) ==
    /\ pending \subseteq {[tx |-> AddPeer(j), number |-> 0]}
    /\ pending # {} => \A k \in 1..Round : chain[k] = <<>>
    /\ \A k \in 1..Round : chain[k] # <<>> => Says(chain[k], j, "PEER_ADD")
    /\ \A n \in Nodes :
          /\ OnlyWith(node[n].validators, j, chain)
          /\ \A s \in node[n].sets : OnlyWith(s.peers, j, chain)
          /\ node[n].removedRound = None

\* The node has processed its removal.
Out(n, c, ch) ==
    \E d \in 0..c.last :
        /\ c.removedRound = d + 6 /\ Says(ch[d + 1], n, "PEER_REMOVE")
        /\ \A t \in c.sets : t.round <= d + 6
        /\ \E s \in c.sets : s.round = d + 6 /\ n \notin s.peers

\* n asked to join, and then to leave.
Leaver(n) ==
    /\ pending \subseteq {[tx |-> RemovePeer(n), number |-> 1]}
    /\ \A k \in 1..Round : chain[k] # <<>> =>
           Says(chain[k], n, "PEER_ADD") \/ Says(chain[k], n, "PEER_REMOVE")
    /\ pending # {} => \A k \in 1..Round : ~Says(chain[k], n, "PEER_REMOVE")
    /\ \A i, k \in 1..Round :
           i < k /\ Says(chain[i], n, "PEER_REMOVE") => chain[k] = <<>>
    /\ node[n].state \in {"Babbling", "Shutdown"}
    /\ node[n].removedRound = None \/ Out(n, node[n], chain)
    /\ leaving[n] = "left" =>
           node[n].state = "Shutdown" /\ node[n].last >= node[n].removedRound

Few ==
    /\ requests = 0 => pending = {} /\ \A k \in 1..Round : chain[k] = <<>>
    /\ requests <= 1 => (\A n \in Nodes : leaving[n] = "no") /\ \E j : JoinsAlone(j)
    /\ requests = 2 => \A n \in Nodes : leaving[n] # "no" => Leaver(n)

\* A non-empty set of natural numbers up to r has a greatest element.
LEMMA GreatestUpTo ==
    ASSUME NEW T, NEW r \in Nat, T \subseteq 0..r, T # {}
    PROVE  \E m \in T : \A k \in T : k <= m
<1> DEFINE U == {k \in Nat : r - k \in T}
           R == OpToRel(<, Nat)
<1>1. PICK t : t \in T
  OBVIOUS
<1>2. r - t \in U /\ U \subseteq Nat
  BY <1>1
<1>3. IsWellFoundedOn(R, Nat)
  BY NatLessThanWellFounded, Zenon
<1>4. R = {ss \in Nat \X Nat : ss[1] < ss[2]}
  BY Zenon DEF OpToRel
<1> HIDE DEF R
<1>5. PICK u \in U : \A k \in U : ~(<<k, u>> \in R)
  BY <1>2, <1>3, WFMin, Zenon
<1>6. \A k \in U : ~(k < u)
  BY <1>2, <1>4, <1>5, Zenon
<1>7. r - u \in T
  OBVIOUS
<1>8. ASSUME NEW k \in T  PROVE k <= r - u
  <2>1. k \in Int /\ r - k \in Nat /\ r - (r - k) = k
    OBVIOUS
  <2>2. r - k \in U
    BY <2>1
  <2>3. ~(r - k < u)
    BY <1>6, <2>2
  <2> QED  BY <2>1, <2>3
<1> QED  BY <1>7, <1>8

\* GetPeerSet returns the peers of the latest set up to round r.
LEMMA PeerSetIs ==
    ASSUME NEW c, IsSets(c.sets), NEW r \in Nat
    PROVE  \E s \in c.sets :
               /\ s.round <= r /\ PeerSet(c, r) = s.peers
               /\ \A t \in c.sets : t.round <= r => t.round <= s.round
<1> DEFINE T == {0} \cup {s.round : s \in {t \in c.sets : t.round <= r}}
           at == Max(T)
<1>1. T \subseteq 0..r /\ T # {}
  BY DEF IsSets
<1>2. PICK m \in T : \A k \in T : k <= m
  BY <1>1, GreatestUpTo, Zenon
<1>3. \A k \in T : m >= k
  BY <1>1, <1>2
<1>4. at \in T /\ \A k \in T : at >= k
  BY <1>3, Zenon DEF Max
<1>5. PICK s \in c.sets : s.round = at
  BY <1>4, Zenon DEF IsSets
<1>6. PeerSet(c, r) = (CHOOSE t \in c.sets : t.round = at).peers
  BY DEF PeerSet
<1> DEFINE x == CHOOSE t \in c.sets : t.round = at
<1>7. x \in c.sets /\ x.round = at
  BY <1>5, Zenon
<1>8. at <= r
  BY <1>1, <1>4
<1>9. \A t \in c.sets : t.round <= r => t.round \in T
  OBVIOUS
<1>10. ASSUME NEW t \in c.sets, t.round <= r  PROVE t.round <= at
  <2>1. at >= t.round
    BY <1>4, <1>9, <1>10, Zenon
  <2>2. at \in Int /\ t.round \in Int
    BY <1>1, <1>4 DEF IsSets
  <2> HIDE DEF at
  <2> QED  BY <2>1, <2>2
<1> QED  BY <1>6, <1>7, <1>8, <1>10, Zenon

\* WithChanges on no receipt and on one.
LEMMA WithOneChange ==
    ASSUME NEW peers, NEW x
    PROVE  WithChanges(peers, <<x>>) = WithChange(peers, x)
<1> DEFINE P(f) == f = [i \in 0..Len(<<x>>) |->
                          IF i = 0 THEN peers ELSE WithChange(f[i - 1], <<x>>[i])]
           g == [i \in 0..1 |-> IF i = 0 THEN peers ELSE WithChange(peers, x)]
<1>1. Len(<<x>>) = 1 /\ <<x>>[1] = x
  OBVIOUS
<1>2. P(g)
  BY <1>1
<1>3. \E f : P(f)
  BY <1>2, Zenon
<1>4. ASSUME NEW f, P(f)  PROVE f[1] = WithChange(peers, x)
  <2>1. f[0] = peers
    BY <1>1, <1>4
  <2> QED  BY <1>1, <1>4, <2>1
<1>5. WithChanges(peers, <<x>>) = (CHOOSE f : P(f))[Len(<<x>>)]
  BY DEF WithChanges
<1>6. P(CHOOSE f : P(f))
  BY <1>3
<1> HIDE DEF P
<1> QED  BY <1>1, <1>4, <1>5, <1>6

\* What processAccepted makes of the core of n, for a round that has recorded
\* no peer-set yet.
Processed(n, c, r, receipts, d) ==
    /\ DOMAIN d = CoreFields /\ d.state = c.state /\ d.last = c.last
    /\ AfterRound(c, r, receipts, d)
    /\ [tx |-> RemovePeer(n), accepted |-> TRUE] \in ToSet(receipts) => d.removedRound = r + 6
    /\ [tx |-> RemovePeer(n), accepted |-> TRUE] \notin ToSet(receipts) =>
           d.removedRound = c.removedRound

LEMMA ProcessAccepted ==
    ASSUME NEW n, NEW c, DOMAIN c = CoreFields, NEW r \in Nat, NEW receipts,
           \A s \in c.sets : s.round \in Nat /\ s.round <= r + 5
    PROVE  Processed(n, c, r, receipts, processAccepted(n, c, r, receipts))
<1> DEFINE W == WithChanges(c.validators, receipts)
           removal == [tx |-> RemovePeer(n), accepted |-> TRUE]
           v == IF removal \in ToSet(receipts) THEN effectiveRound(r) ELSE c.removedRound
           b == [c EXCEPT !.removedRound = v]
           R == {[round |-> effectiveRound(r), peers |-> W]}
           Q == WithChanges(b.peers, receipts)
           t == targetRound(c, r)
           d == processAccepted(n, c, r, receipts)
<1>1. effectiveRound(r) = r + 6
  BY DEF effectiveRound
<1>2. changed(n, receipts) <=> Accepts(receipts)
  BY Zenon DEF changed, Accepts
<1>3. ~ \E s \in c.sets : s.round = effectiveRound(r)
  BY <1>1
<1>4. d = IF ~changed(n, receipts) \/ \E s \in c.sets : s.round = effectiveRound(r) THEN b
          ELSE [b EXCEPT !.sets = b.sets \cup R, !.validators = W, !.peers = Q, !.targetRound = t]
  BY Zenon DEF processAccepted
<1>5. /\ removal \in ToSet(receipts) => v = r + 6
      /\ removal \notin ToSet(receipts) => v = c.removedRound
  BY <1>1
<1> HIDE DEF v, R, Q, t, d, W
<1>6. /\ DOMAIN b = CoreFields /\ b.state = c.state /\ b.last = c.last
      /\ b.sets = c.sets /\ b.validators = c.validators /\ b.removedRound = v
  BY DEF CoreFields
<1> HIDE DEF b
<1>7. CASE Accepts(receipts)
  <2>1. d = [b EXCEPT !.sets = b.sets \cup R, !.validators = W, !.peers = Q, !.targetRound = t]
    BY <1>2, <1>3, <1>4, <1>7
  <2>2. /\ DOMAIN d = CoreFields /\ d.state = b.state /\ d.last = b.last
        /\ d.sets = b.sets \cup R /\ d.validators = W /\ d.removedRound = b.removedRound
    BY <1>6, <2>1 DEF CoreFields
  <2>3. R = {[round |-> r + 6, peers |-> W]}
    BY <1>1 DEF R
  <2>4. AfterRound(c, r, receipts, d)
    BY <1>6, <1>7, <2>2, <2>3, Zenon DEF AfterRound, W
  <2> QED  BY <1>5, <1>6, <2>2, <2>4, Zenon DEF Processed, d
<1>8. CASE ~Accepts(receipts)
  <2>1. d = b
    BY <1>2, <1>4, <1>8
  <2>2. AfterRound(c, r, receipts, d)
    BY <1>6, <1>8, <2>1, Zenon DEF AfterRound
  <2> QED  BY <1>5, <1>6, <2>1, <2>2, Zenon DEF Processed, d
<1> QED  BY <1>7, <1>8

\* The peer-sets stay well formed.
LEMMA AfterSets ==
    ASSUME NEW a, NEW b, NEW r \in Nat, NEW receipts, AfterRound(a, r, receipts, b),
           IsSets(a.sets), \A s \in a.sets : s.round <= r + 5
    PROVE  IsSets(b.sets) /\ \A s \in b.sets : s.round <= r + 6
<1>1. CASE ~Accepts(receipts)
  <2>1. b.sets = a.sets
    BY <1>1 DEF AfterRound
  <2> QED  BY <2>1 DEF IsSets
<1>2. CASE Accepts(receipts)
  <2>1. PICK p : b.sets = a.sets \cup {[round |-> r + 6, peers |-> p]}
    BY <1>2, Zenon DEF AfterRound
  <2>2. \A s \in b.sets : s \in a.sets \/ s = [round |-> r + 6, peers |-> p]
    BY <2>1
  <2>3. \A s \in a.sets : s.round \in Nat /\ s.round # r + 6
    BY DEF IsSets
  <2>4. \A s \in b.sets : s.round \in Nat /\ s.round <= r + 6
    BY <2>2, <2>3
  <2>5. ASSUME NEW s \in b.sets, NEW t \in b.sets, s.round = t.round  PROVE s = t
    BY <2>2, <2>3, <2>5 DEF IsSets
  <2> QED  BY <2>1, <2>4, <2>5 DEF IsSets
<1> QED  BY <1>1, <1>2

\* The history goes on with a round.
LEMMA HistoryGrows ==
    ASSUME NEW ch, NEW S, ch \in Seq(S), NEW x, NEW H, History(H, ch), Grows(H, Len(ch))
    PROVE  \E G : /\ History(G, Append(ch, x)) /\ Grows(G, Len(ch) + 1)
                  /\ \A k \in 0..Len(ch) : G[k] = H[k]
<1> DEFINE l == Len(ch)
           a == H[l]
           W == WithChanges(a.validators, x)
<1>1. l \in Nat /\ Len(Append(ch, x)) = l + 1 /\ Append(ch, x)[l + 1] = x
      /\ \A k \in 1..l : Append(ch, x)[k] = ch[k]
  OBVIOUS
<1>2. PICK b : AfterRound(a, l, x, b)
  <2>1. CASE Accepts(x)
    <3> DEFINE b == [validators |-> W, sets |-> a.sets \cup {[round |-> l + 6, peers |-> W]}]
    <3>1. AfterRound(a, l, x, b)
      BY <2>1 DEF AfterRound
    <3> QED  BY <3>1
  <2>2. CASE ~Accepts(x)
    BY <2>2, Zenon DEF AfterRound
  <2> QED  BY <2>1, <2>2
<1>3. PICK G : G = [k \in 0..l + 1 |-> IF k = l + 1 THEN b ELSE H[k]]
  BY Zenon
<1>4. /\ DOMAIN G = 0..l + 1 /\ G[l + 1] = b /\ \A k \in 0..l : G[k] = H[k]
  BY <1>1, <1>3
<1>5. History(G, Append(ch, x))
  <2>1. ASSUME NEW k \in 1..l + 1
        PROVE  AfterRound(G[k - 1], k - 1, Append(ch, x)[k], G[k])
    <3>1. CASE k = l + 1
      <4>1. G[k - 1] = a /\ k - 1 = l /\ Append(ch, x)[k] = x /\ G[k] = b
        BY <1>1, <1>4, <3>1
      <4> QED  BY <1>2, <4>1
    <3>2. CASE k # l + 1
      <4>1. k \in 1..l /\ k - 1 \in 0..l /\ k \in 0..l
        BY <1>1, <3>2
      <4>2. G[k - 1] = H[k - 1] /\ G[k] = H[k] /\ Append(ch, x)[k] = ch[k]
        BY <1>1, <1>4, <4>1
      <4> QED  BY <4>1, <4>2, Zenon DEF History
    <3> QED  BY <3>1, <3>2
  <2>2. G[0] = Beginning
    BY <1>1, <1>4 DEF History
  <2> QED  BY <1>1, <1>4, <2>1, <2>2, Zenon DEF History
<1>6. Grows(G, l + 1)
  <2> SUFFICES ASSUME NEW i \in 0..l + 1, NEW j \in 0..l + 1, i <= j
               PROVE  /\ G[i].sets \subseteq G[j].sets
                      /\ \A s \in G[j].sets : s.round <= i + 5 => s \in G[i].sets
    BY DEF Grows
  <2>1. CASE j \in 0..l
    <3>1. i \in 0..l
      BY <1>1, <2>1
    <3> QED  BY <1>4, <2>1, <3>1 DEF Grows
  <2>2. CASE j = l + 1 /\ i \in 0..l
    <3>1. G[j] = b /\ G[i] = H[i] /\ i + 5 < l + 6
      BY <1>1, <1>4, <2>2
    <3>2. a.sets \subseteq b.sets /\ \A s \in b.sets : s \in a.sets \/ s.round = l + 6
      BY <1>2 DEF AfterRound
    <3>3. H[i].sets \subseteq a.sets /\ \A s \in a.sets : s.round <= i + 5 => s \in H[i].sets
      BY <1>1, <2>2 DEF Grows
    <3>4. \A s \in b.sets : s.round <= i + 5 => s \in a.sets
      BY <1>1, <2>2, <3>2
    <3> HIDE DEF a
    <3> QED  BY <3>1, <3>2, <3>3, <3>4, Zenon
  <2>3. CASE j = l + 1 /\ i = l + 1
    BY <2>3, Zenon
  <2> QED  BY <1>1, <2>1, <2>2, <2>3
<1> QED  BY <1>4, <1>5, <1>6

-----------------------------------------------------------------------------
(* Steps that leave the history of each core alone.                        *)

Kept(c, d) ==
    /\ DOMAIN d = CoreFields /\ d.last = c.last
    /\ d.sets = c.sets /\ d.validators = c.validators
    /\ d.removedRound \in {c.removedRound, None}
    /\ d.state = "CatchingUp" => c.state = "CatchingUp" \/ FastSync

Keeps ==
    /\ conf' = conf /\ chain' = chain /\ requests' \in Nat
    /\ DOMAIN leaving' = Nodes /\ DOMAIN node' = Nodes
    /\ \A m \in Nodes : Kept(node[m], node'[m])

LEMMA SelfKept ==
    ASSUME NEW c, IsCore(c)
    PROVE  Kept(c, c)
BY DEF IsCore, Kept

LEMMA StateKept ==
    ASSUME NEW c, IsCore(c), NEW v, v # "CatchingUp"
    PROVE  Kept(c, [c EXCEPT !.state = v])
BY DEF IsCore, Kept, CoreFields

LEMMA PromisesKept ==
    ASSUME NEW c, IsCore(c), NEW v
    PROVE  Kept(c, [c EXCEPT !.promises = v])
BY DEF IsCore, Kept, CoreFields

LEMMA KeepsOne ==
    ASSUME Struct, NEW n \in Nodes, NEW c, Kept(node[n], c), node' = [node EXCEPT ![n] = c],
           conf' = conf, chain' = chain, requests' \in Nat, DOMAIN leaving' = Nodes
    PROVE  Keeps
<1>1. DOMAIN node' = Nodes /\ node'[n] = c /\ \A m \in Nodes : m # n => node'[m] = node[m]
  BY DEF Struct
<1>2. \A m \in Nodes : Kept(node[m], node[m])
  BY SelfKept DEF Struct
<1> QED  BY <1>1, <1>2 DEF Keeps

LEMMA KeepsNone ==
    ASSUME Struct, node' = node, conf' = conf, chain' = chain, requests' \in Nat,
           DOMAIN leaving' = Nodes
    PROVE  Keeps
BY SelfKept DEF Struct, Keeps

LEMMA LeaveKeeps ==
    ASSUME Struct, NEW n \in Nodes, Leave(n)
    PROVE  Keeps
<1> DEFINE c == [node[n] EXCEPT !.promises = @ \cup {RemovePeer(n)}]
<1>1. node' = [node EXCEPT ![n] = c]
  BY DEF Leave
<1>2. /\ conf' = conf /\ chain' = chain /\ requests' \in Nat /\ DOMAIN leaving' = Nodes
  BY DEF Leave, Struct
<1>3. Kept(node[n], c)
  BY PromisesKept, Zenon DEF Struct
<1> HIDE DEF c
<1> QED  BY <1>1, <1>2, <1>3, KeepsOne, Zenon

LEMMA EndKeeps ==
    ASSUME Struct, NEW n \in Nodes, Left(n) \/ LeaveTimeout(n) \/ CheckSuspend(n)
    PROVE  Keeps
<1>1. PICK v \in {"Shutdown", "Suspended"} : node' = [node EXCEPT ![n].state = v]
  BY Zenon DEF Left, LeaveTimeout, CheckSuspend
<1> DEFINE c == [node[n] EXCEPT !.state = v]
<1>2. node' = [node EXCEPT ![n] = c]
  BY <1>1
<1>3. /\ conf' = conf /\ chain' = chain /\ requests' \in Nat /\ DOMAIN leaving' = Nodes
  BY DEF Left, LeaveTimeout, CheckSuspend, Struct
<1>4. Kept(node[n], c)
  BY <1>1, StateKept, Zenon DEF Struct
<1> HIDE DEF c
<1> QED  BY <1>2, <1>3, <1>4, KeepsOne, Zenon

LEMMA JoinKeeps ==
    ASSUME Struct, NEW j \in Joiners, Join(j) \/ JoinTimeout(j)
    PROVE  Keeps
<1>1. /\ conf' = conf /\ chain' = chain /\ requests' \in Nat /\ DOMAIN leaving' = Nodes
  BY DEF Join, JoinTimeout, Struct
<1>2. node' = node \/ \E n \in Genesis : Dispatch(j, n)
  BY Zenon DEF Join, JoinTimeout, AlreadyPresent
<1>3. CASE node' = node
  BY <1>1, <1>3, KeepsNone
<1>4. ASSUME NEW n \in Genesis, Dispatch(j, n)  PROVE Keeps
  <2> DEFINE c == [node[n] EXCEPT !.promises = @ \cup {AddPeer(j)}]
  <2>1. node' = [node EXCEPT ![n] = c] /\ n \in Nodes
    BY <1>4 DEF Dispatch, Nodes
  <2>2. Kept(node[n], c)
    BY <2>1, PromisesKept, Zenon DEF Struct
  <2> HIDE DEF c
  <2> QED  BY <1>1, <2>1, <2>2, KeepsOne, Zenon
<1> QED  BY <1>2, <1>3, <1>4

LEMMA JoinedKeeps ==
    ASSUME Struct, NEW j \in Joiners, Joined(j)
    PROVE  Keeps
<1> DEFINE a == [node[j] EXCEPT !.acceptedRound = request[j].round, !.removedRound = None,
                                !.state = IF FastSync THEN "CatchingUp" ELSE "Babbling"]
           b == [node[j] EXCEPT !.state = "Shutdown"]
<1>1. /\ conf' = conf /\ chain' = chain /\ requests' \in Nat /\ DOMAIN leaving' = Nodes
      /\ j \in Nodes
  BY DEF Joined, Struct, Nodes
<1>2. PICK c \in {a, b} : node' = [node EXCEPT ![j] = c]
  BY Zenon DEF Joined
<1>3. IsCore(node[j])
  BY <1>1 DEF Struct
<1>4. Kept(node[j], a)
  BY <1>3 DEF IsCore, Kept, CoreFields
<1>5. Kept(node[j], b)
  BY <1>3, StateKept
<1> QED  BY <1>1, <1>2, <1>4, <1>5, KeepsOne, Zenon

\* The steps that are left.
Proceeds ==
    DecideRound \/ \E n \in Nodes : ProcessRound(n) \/ FastForward(n) \/ Restart(n)

LEMMA Steps ==
    ASSUME Struct, [Next]_vars
    PROVE  Keeps \/ Proceeds
<1>1. CASE UNCHANGED vars
  <2>1. /\ node' = node /\ conf' = conf /\ chain' = chain /\ requests' = requests
        /\ leaving' = leaving
    BY <1>1 DEF vars
  <2> QED  BY <2>1, KeepsNone DEF Struct
<1>2. CASE Next
  BY <1>2, LeaveKeeps, EndKeeps, JoinKeeps, JoinedKeeps DEF Next, Proceeds
<1> QED  BY <1>1, <1>2

-----------------------------------------------------------------------------
(* Steps that process a round.                                             *)

\* d is the core that processAccepted leaves; ProcessRound and FastForward set
\* no other field that matters here but the last round and the state.
Becomes(n, d, r, state) ==
    /\ DOMAIN node' = Nodes /\ \A m \in Nodes : m # n => node'[m] = node[m]
    /\ DOMAIN node'[n] = CoreFields /\ node'[n].last = r /\ node'[n].state = state
    /\ node'[n].sets = d.sets /\ node'[n].validators = d.validators
    /\ node'[n].removedRound = d.removedRound
    /\ conf' = conf /\ chain' = chain /\ pending' = pending /\ requests' = requests
    /\ DOMAIN leaving' = Nodes
    /\ \A m \in Nodes : /\ leaving'[m] = "no" <=> leaving[m] = "no"
                        /\ leaving'[m] = "left" => leaving[m] = "left"

Advances(n, r, d) ==
    /\ node[n].state = "Babbling" /\ r = node[n].last + 1 /\ r \in Nat /\ r < Round
    /\ Processed(n, node[n], r, chain[r + 1], d)
    /\ Becomes(n, d, r, "Babbling")

LEMMA ProcessAdvances ==
    ASSUME Struct, NEW n \in Nodes, ProcessRound(n)
    PROVE  \E r, d : Advances(n, r, d)
<1> DEFINE r == node[n].last + 1
           receipts == chain[r + 1]
           d == processAccepted(n, node[n], r, receipts)
           p == KeptPromises(n, receipts)
           e == [d EXCEPT !.last = r, !.promises = p]
<1>1. /\ node[n].state = "Babbling" /\ r < Round
      /\ node' = [node EXCEPT ![n] = e] /\ LeaveAnswered(n, receipts)
      /\ conf' = conf /\ chain' = chain /\ pending' = pending /\ requests' = requests
  BY Zenon DEF ProcessRound
<1>2. IsCore(node[n])
  BY DEF Struct
<1>3. r \in Nat /\ \A s \in node[n].sets : s.round \in Nat /\ s.round <= r + 5
  BY <1>2 DEF IsCore, IsSets
<1>4. Processed(n, node[n], r, receipts, d)
  BY <1>2, <1>3, ProcessAccepted DEF IsCore
<1> HIDE DEF d, p
<1>5. DOMAIN d = CoreFields /\ d.state = "Babbling"
  BY <1>1, <1>4 DEF Processed
<1>6. /\ DOMAIN e = CoreFields /\ e.last = r /\ e.state = "Babbling" /\ e.sets = d.sets
      /\ e.validators = d.validators /\ e.removedRound = d.removedRound
  BY <1>5 DEF CoreFields
<1>7. DOMAIN node' = Nodes /\ node'[n] = e /\ \A m \in Nodes : m # n => node'[m] = node[m]
  BY <1>1 DEF Struct
<1>8. \/ leaving' = leaving
      \/ leaving[n] = "waiting" /\ leaving' = [leaving EXCEPT ![n] = "reaching"]
  BY <1>1 DEF LeaveAnswered
<1>9. /\ DOMAIN leaving' = Nodes
      /\ \A m \in Nodes : /\ leaving'[m] = "no" <=> leaving[m] = "no"
                          /\ leaving'[m] = "left" => leaving[m] = "left"
  BY <1>8 DEF Struct
<1> HIDE DEF e
<1>10. Becomes(n, d, r, "Babbling")
  BY <1>1, <1>6, <1>7, <1>9, Zenon DEF Becomes
<1>11. Advances(n, r, d)
  BY <1>1, <1>3, <1>4, <1>10, Zenon DEF Advances
<1> QED  BY <1>11

\* c is the core of the frame.
Skips(n, m, r, c, d) ==
    /\ node[n].state = "CatchingUp" /\ m \in Nodes /\ r \in Nat /\ r <= node[m].last
    /\ c.sets = {s \in node[m].sets : s.round < r + 6}
    /\ c.validators = PeerSet([sets |-> c.sets], r)
    /\ c.removedRound = node[n].removedRound
    /\ Processed(n, c, r, chain[r + 1], d)
    /\ Becomes(n, d, r, "Babbling")

LEMMA FastForwardSkips ==
    ASSUME Struct, NEW n \in Nodes, FastForward(n)
    PROVE  \E m, r, c, d : Skips(n, m, r, c, d)
<1>1. /\ node[n].state = "CatchingUp" /\ conf' = conf /\ chain' = chain
      /\ pending' = pending /\ requests' = requests /\ leaving' = leaving
  BY Zenon DEF FastForward
<1>2. PICK m \in Genesis : \E r \in 0..node[m].last :
          LET sets == {s \in node[m].sets : s.round < effectiveRound(r)}
              peers == PeerSet([sets |-> sets], r)
              c == [node[n] EXCEPT !.sets = sets, !.peers = peers, !.validators = peers,
                                   !.last = r]
          IN  node' = [node EXCEPT ![n] =
                  [processAccepted(n, c, r, chain[r + 1]) EXCEPT !.state = "Babbling"]]
  BY Zenon DEF FastForward
<1>3. PICK r \in 0..node[m].last :
          LET sets == {s \in node[m].sets : s.round < effectiveRound(r)}
              peers == PeerSet([sets |-> sets], r)
              c == [node[n] EXCEPT !.sets = sets, !.peers = peers, !.validators = peers,
                                   !.last = r]
          IN  node' = [node EXCEPT ![n] =
                  [processAccepted(n, c, r, chain[r + 1]) EXCEPT !.state = "Babbling"]]
  BY <1>2, Zenon
<1> DEFINE sets == {s \in node[m].sets : s.round < effectiveRound(r)}
           peers == PeerSet([sets |-> sets], r)
           c == [node[n] EXCEPT !.sets = sets, !.peers = peers, !.validators = peers, !.last = r]
           d == processAccepted(n, c, r, chain[r + 1])
           e == [d EXCEPT !.state = "Babbling"]
<1>4. node' = [node EXCEPT ![n] = e]
  BY <1>3, Zenon
<1>5. m \in Nodes /\ IsCore(node[m]) /\ IsCore(node[n])
  BY DEF Struct, Nodes
<1>6. r \in Nat /\ r <= node[m].last /\ effectiveRound(r) = r + 6
  BY <1>5 DEF IsCore, effectiveRound
<1>7. sets = {s \in node[m].sets : s.round < r + 6}
  BY <1>6
<1>8. \A s \in sets : s.round \in Nat /\ s.round <= r + 5
  BY <1>5, <1>6, <1>7 DEF IsCore, IsSets
<1>9. peers = PeerSet([sets |-> sets], r)
  OBVIOUS
<1> HIDE DEF sets, peers
<1>10. /\ DOMAIN c = CoreFields /\ c.sets = sets /\ c.validators = peers /\ c.last = r
       /\ c.removedRound = node[n].removedRound
  BY <1>5 DEF IsCore, CoreFields
<1>11. d = processAccepted(n, c, r, chain[r + 1])
  OBVIOUS
<1> HIDE DEF c, d
<1>12. Processed(n, c, r, chain[r + 1], d)
  BY <1>6, <1>8, <1>10, <1>11, ProcessAccepted
<1>13. DOMAIN d = CoreFields /\ d.last = r
  BY <1>10, <1>12 DEF Processed
<1>14. /\ DOMAIN e = CoreFields /\ e.last = r /\ e.state = "Babbling" /\ e.sets = d.sets
       /\ e.validators = d.validators /\ e.removedRound = d.removedRound
  BY <1>13 DEF CoreFields
<1>15. DOMAIN node' = Nodes /\ node'[n] = e /\ \A k \in Nodes : k # n => node'[k] = node[k]
  BY <1>4 DEF Struct
<1> HIDE DEF e
<1>16. Becomes(n, d, r, "Babbling")
  BY <1>1, <1>14, <1>15, Zenon DEF Becomes, Struct
<1>17. Skips(n, m, r, c, d)
  BY <1>1, <1>5, <1>6, <1>7, <1>9, <1>10, <1>12, <1>16, Zenon DEF Skips
<1> QED  BY <1>17

-----------------------------------------------------------------------------
(* Nodes agree on the peer-sets.                                           *)

LEMMA NewCoreIs ==
    ASSUME NEW state
    PROVE  /\ IsCore(NewCore(state)) /\ NewCore(state).last = -1
           /\ NewCore(state).state = state /\ NewCore(state).removedRound = None
           /\ NewCore(state).validators = Beginning.validators
           /\ NewCore(state).sets = Beginning.sets
BY DEF NewCore, None, IsCore, IsSets, CoreFields, Beginning

LEMMA DecideEffect ==
    ASSUME Struct, DecideRound
    PROVE  /\ \E x : chain' = Append(chain, x)
           /\ node' = node /\ conf' = conf /\ leaving' = leaving /\ requests' = requests
BY Zenon DEF DecideRound

LEMMA RestartEffect ==
    ASSUME Struct, NEW n \in Nodes, Restart(n)
    PROVE  /\ DOMAIN node' = Nodes /\ node'[n] = NewCore("Joining")
           /\ \A m \in Nodes : m # n => node'[m] = node[m] /\ leaving'[m] = leaving[m]
           /\ DOMAIN leaving' = Nodes /\ leaving'[n] = "no"
           /\ conf' = conf /\ chain' = chain /\ pending' = pending /\ requests' = requests
<1>1. /\ node' = [node EXCEPT ![n] = NewCore("Joining")] /\ leaving' = [leaving EXCEPT ![n] = "no"]
      /\ conf' = conf /\ chain' = chain /\ pending' = pending /\ requests' = requests
  BY DEF Restart
<1> QED  BY <1>1 DEF Struct

\* A node that has gone to round r has a core with the peer-sets of d.
LEMMA BecomesStruct ==
    ASSUME Struct, NEW n \in Nodes, NEW c, NEW d, NEW r \in Nat, r < Round, NEW state,
           IsSets(c.sets), \A s \in c.sets : s.round <= r + 5,
           Processed(n, c, r, chain[r + 1], d), Becomes(n, d, r, state)
    PROVE  Struct'
<1>1. IsSets(d.sets) /\ \A s \in d.sets : s.round <= r + 6
  BY AfterSets DEF Processed
<1>2. IsCore(node'[n]) /\ node'[n].last < Round
  BY <1>1 DEF Becomes, IsCore
<1>3. \A m \in Nodes : IsCore(node'[m]) /\ node'[m].last < Round
  BY <1>2 DEF Struct, Becomes
<1> QED  BY <1>3 DEF Struct, Becomes, Round

LEMMA StructStep ==
    ASSUME Struct, [Next]_vars
    PROVE  Struct'
<1>1. CASE Keeps
  <2>1. \A m \in Nodes : IsCore(node'[m]) /\ node'[m].last < Round
    BY <1>1 DEF Struct, Keeps, Kept, IsCore
  <2> QED  BY <1>1, <2>1 DEF Struct, Keeps, Round
<1>2. CASE DecideRound
  <2>1. PICK x : chain' = Append(chain, x)
    BY <1>2, DecideEffect
  <2>2. PICK S : chain \in Seq(S)
    BY DEF Struct
  <2>3. chain' \in Seq(S \cup {x}) /\ Len(chain') = Len(chain) + 1 /\ Len(chain) \in Nat
    BY <2>1, <2>2
  <2>4. \A m \in Nodes : IsCore(node[m]) /\ node[m].last < Len(chain) + 1
    BY <2>3 DEF Struct, IsCore, Round
  <2> QED  BY <1>2, <2>3, <2>4, DecideEffect DEF Struct, Round
<1>3. ASSUME NEW n \in Nodes, ProcessRound(n)  PROVE Struct'
  <2>1. PICK r, d : Advances(n, r, d)
    BY <1>3, ProcessAdvances
  <2>2. /\ r = node[n].last + 1 /\ r \in Nat /\ r < Round
        /\ Processed(n, node[n], r, chain[r + 1], d) /\ Becomes(n, d, r, "Babbling")
    BY <2>1 DEF Advances
  <2>3. IsSets(node[n].sets) /\ \A s \in node[n].sets : s.round <= r + 5
    BY <2>2 DEF Struct, IsCore
  <2> QED  BY <2>2, <2>3, BecomesStruct
<1>4. ASSUME NEW n \in Nodes, FastForward(n)  PROVE Struct'
  <2>1. PICK m, r, c, d : Skips(n, m, r, c, d)
    BY <1>4, FastForwardSkips, Zenon
  <2>2. /\ m \in Nodes /\ r \in Nat /\ r <= node[m].last
        /\ c.sets = {s \in node[m].sets : s.round < r + 6}
        /\ Processed(n, c, r, chain[r + 1], d) /\ Becomes(n, d, r, "Babbling")
    BY <2>1 DEF Skips
  <2>3. IsCore(node[m]) /\ node[m].last < Round /\ Round \in Nat
    BY <2>2 DEF Struct, Round
  <2>4. r < Round
    BY <2>2, <2>3 DEF IsCore
  <2>5. IsSets(c.sets) /\ \A s \in c.sets : s.round <= r + 5
    BY <2>2, <2>3 DEF IsCore, IsSets
  <2> QED  BY <2>2, <2>4, <2>5, BecomesStruct, Zenon
<1>5. ASSUME NEW n \in Nodes, Restart(n)  PROVE Struct'
  <2>1. IsCore(node'[n]) /\ node'[n].last = -1
    BY <1>5, RestartEffect, NewCoreIs
  <2>2. Round \in Nat
    BY DEF Struct, Round
  <2>3. \A m \in Nodes : IsCore(node'[m]) /\ node'[m].last < Round
    BY <1>5, <2>1, <2>2, RestartEffect DEF Struct
  <2> QED  BY <1>5, <2>3, RestartEffect DEF Struct, Round
<1> QED  BY <1>1, <1>2, <1>3, <1>4, <1>5, Steps DEF Proceeds

LEMMA AgreeStep ==
    ASSUME Struct, Agree, [Next]_vars
    PROVE  Agree'
<1>1. conf' = conf
  BY Steps, DecideEffect, RestartEffect, ProcessAdvances, FastForwardSkips, Zenon
     DEF Keeps, Proceeds, Advances, Skips, Becomes
<1>2. FastSync' = FastSync
  BY <1>1 DEF FastSync
<1> SUFFICES ASSUME ~FastSync  PROVE Agree'
  BY <1>2, Zenon DEF Agree
<1>3. PICK H : /\ History(H, chain) /\ Grows(H, Round)
               /\ \A n \in Nodes : IsAt(node[n], H)
  BY Zenon DEF Agree
<1>4. ASSUME chain' = chain, \A n \in Nodes : IsAt(node'[n], H)
      PROVE  Agree'
  <2>1. History(H, chain) <=> History(H, chain')
    BY <1>4
  <2>2. Grows(H, Round') 
    BY <1>3, <1>4 DEF Round
  <2>3. \E G : /\ History(G, chain') /\ Grows(G, Round')
               /\ \A n \in Nodes : IsAt(node'[n], G)
    BY <1>3, <1>4, <2>1, <2>2, Zenon
  <2> QED  BY <2>3, Zenon DEF Agree
<1>5. CASE Keeps
  <2>1. \A n \in Nodes : IsAt(node'[n], H)
    BY <1>3, <1>5 DEF Keeps, Kept, IsAt
  <2> QED  BY <1>4, <1>5, <2>1 DEF Keeps
<1>6. CASE DecideRound
  <2>1. PICK x : chain' = Append(chain, x)
    BY <1>6, DecideEffect
  <2>2. PICK S : chain \in Seq(S)
    BY DEF Struct
  <2>3. PICK G : /\ History(G, Append(chain, x)) /\ Grows(G, Len(chain) + 1)
                 /\ \A k \in 0..Len(chain) : G[k] = H[k]
    BY <1>3, <2>2, HistoryGrows DEF Round
  <2>4. Len(chain') = Len(chain) + 1 /\ Len(chain) \in Nat
    BY <2>1, <2>2
  <2>5. ASSUME NEW n \in Nodes  PROVE IsAt(node'[n], G)
    <3>1. node[n].last + 1 \in 0..Len(chain)
      BY <2>4 DEF Struct, IsCore, Round
    <3>2. node'[n] = node[n] /\ G[node[n].last + 1] = H[node[n].last + 1]
      BY <1>6, <2>3, <3>1, DecideEffect
    <3> QED  BY <1>3, <3>2, Zenon DEF IsAt
  <2>6. History(G, chain') /\ Grows(G, Round')
    BY <2>1, <2>3, <2>4 DEF Round
  <2> QED  BY <2>5, <2>6, Zenon DEF Agree
<1>7. ASSUME NEW n \in Nodes, ProcessRound(n)  PROVE Agree'
  <2>1. PICK r, d : Advances(n, r, d)
    BY <1>7, ProcessAdvances
  <2>2. /\ r = node[n].last + 1 /\ r \in Nat /\ r < Round
        /\ AfterRound(node[n], r, chain[r + 1], d) /\ Becomes(n, d, r, "Babbling")
    BY <2>1 DEF Advances, Processed
  <2>3. r + 1 \in 1..Round /\ (r + 1) - 1 = r /\ Round = Len(chain)
    BY <2>2 DEF Struct, Round
  <2>4. AfterRound(H[r], r, chain[r + 1], H[r + 1])
    BY <1>3, <2>3 DEF History
  <2>5. node[n].validators = H[r].validators /\ node[n].sets = H[r].sets
    BY <1>3, <2>2 DEF IsAt
  <2>6. d.validators = H[r + 1].validators /\ d.sets = H[r + 1].sets
    BY <2>2, <2>4, <2>5, Zenon DEF AfterRound
  <2>7. IsAt(node'[n], H)
    BY <2>2, <2>6 DEF Becomes, IsAt
  <2>8. \A m \in Nodes : IsAt(node'[m], H)
    BY <1>3, <2>2, <2>7 DEF Becomes
  <2> QED  BY <1>4, <2>2, <2>8 DEF Becomes
<1>8. ASSUME NEW n \in Nodes, FastForward(n)  PROVE FALSE
  <2>1. node[n].state = "CatchingUp"
    BY <1>8, Zenon DEF FastForward
  <2> QED  BY <1>3, <2>1 DEF IsAt
<1>9. ASSUME NEW n \in Nodes, Restart(n)  PROVE Agree'
  <2>1. IsAt(node'[n], H)
    BY <1>3, <1>9, RestartEffect, NewCoreIs DEF IsAt, History
  <2>2. \A m \in Nodes : IsAt(node'[m], H)
    BY <1>3, <1>9, <2>1, RestartEffect
  <2> QED  BY <1>4, <1>9, <2>2, RestartEffect
<1> QED  BY <1>5, <1>6, <1>7, <1>8, <1>9, Steps DEF Proceeds

\* Two cores that went through the same history.
LEMMA SamePeerSet ==
    ASSUME NEW H, NEW l \in Nat, Grows(H, l), NEW c, IsCore(c), IsAt(c, H), c.last < l,
           NEW d, IsCore(d), IsAt(d, H), d.last < l, c.last <= d.last,
           NEW r \in Nat, r <= c.last + 6
    PROVE  PeerSet(c, r) = PeerSet(d, r)
<1> DEFINE i == c.last + 1
           j == d.last + 1
<1>1. i \in 0..l /\ j \in 0..l /\ i <= j
  BY DEF IsCore
<1>2. c.sets \subseteq d.sets /\ \A s \in d.sets : s.round <= i + 5 => s \in c.sets
  <2>1. H[i].sets \subseteq H[j].sets /\ \A s \in H[j].sets : s.round <= i + 5 => s \in H[i].sets
    BY <1>1 DEF Grows
  <2> QED  BY <2>1 DEF IsAt
<1>3. IsSets(c.sets) /\ IsSets(d.sets)
  BY DEF IsCore
<1>4. PICK s \in c.sets : /\ s.round <= r /\ PeerSet(c, r) = s.peers
                          /\ \A t \in c.sets : t.round <= r => t.round <= s.round
  BY <1>3, PeerSetIs
<1>5. PICK t \in d.sets : /\ t.round <= r /\ PeerSet(d, r) = t.peers
                          /\ \A u \in d.sets : u.round <= r => u.round <= t.round
  BY <1>3, PeerSetIs
<1>6. t.round \in Nat /\ s.round \in Nat /\ s \in d.sets
  BY <1>2, <1>3 DEF IsSets
<1>7. t.round <= i + 5
  BY <1>5, <1>6 DEF IsCore
<1>8. t \in c.sets
  BY <1>2, <1>7
<1>9. t.round = s.round
  BY <1>4, <1>5, <1>6, <1>8
<1>10. t = s
  BY <1>3, <1>6, <1>9 DEF IsSets
<1> QED  BY <1>4, <1>5, <1>10

LEMMA AgreeImplies ==
    Struct /\ Agree => (~FastSync => PeerSetsAgree)
<1> SUFFICES ASSUME Struct, Agree, ~FastSync, NEW m \in Nodes, NEW n \in Nodes,
                    NEW r \in 0..effectiveRound(Min({node[m].last, node[n].last}))
             PROVE  PeerSet(node[m], r) = PeerSet(node[n], r)
  BY DEF PeerSetsAgree
<1>1. PICK H : /\ History(H, chain) /\ Grows(H, Round)
               /\ \A k \in Nodes : IsAt(node[k], H)
  BY Zenon DEF Agree
<1>2. /\ IsCore(node[m]) /\ node[m].last < Round /\ IsAt(node[m], H)
      /\ IsCore(node[n]) /\ node[n].last < Round /\ IsAt(node[n], H)
      /\ Round \in Nat
  BY <1>1 DEF Struct, Round
<1>3. node[m].last \in Int /\ node[n].last \in Int
  BY <1>2 DEF IsCore
<1>4. \A a, b \in Int : a <= b => Min({a, b}) = a /\ Min({b, a}) = a
  BY DEF Min
<1>5. CASE node[m].last <= node[n].last
  <2>1. r \in Nat /\ r <= node[m].last + 6
    BY <1>3, <1>4, <1>5 DEF effectiveRound
  <2> QED  BY <1>1, <1>2, <1>5, <2>1, SamePeerSet
<1>6. CASE node[n].last <= node[m].last
  <2>1. r \in Nat /\ r <= node[n].last + 6
    BY <1>3, <1>4, <1>6 DEF effectiveRound
  <2>2. PeerSet(node[n], r) = PeerSet(node[m], r)
    BY <1>1, <1>2, <1>6, <2>1, SamePeerSet
  <2> QED  BY <2>2
<1> QED  BY <1>3, <1>5, <1>6

LEMMA InitStruct == Init => Struct /\ Agree
<1> SUFFICES ASSUME Init  PROVE Struct /\ Agree
  OBVIOUS
<1>1. /\ chain = <<>> /\ requests = 0 /\ DOMAIN node = Nodes /\ DOMAIN leaving = Nodes
  BY DEF Init
<1>2. \A n \in Nodes : \E state \in {"Babbling", "Joining"} : node[n] = NewCore(state)
  BY DEF Init
<1>3. \A n \in Nodes : IsCore(node[n]) /\ node[n].last = -1
  BY <1>2, NewCoreIs, Zenon
<1>4. Len(chain) = 0 /\ chain \in Seq({})
  BY <1>1
<1>5. Struct
  BY <1>1, <1>3, <1>4 DEF Struct, Round
<1>6. PICK H : H = [k \in 0..0 |-> Beginning]
  BY Zenon
<1>7. DOMAIN H = 0..0 /\ H[0] = Beginning
  BY <1>6
<1>8. History(H, chain)
  BY <1>4, <1>7 DEF History
<1>9. Grows(H, Round)
  <2>1. \A i \in 0..Round : i = 0
    BY <1>4 DEF Round
  <2> QED  BY <2>1, Zenon DEF Grows
<1>10. ASSUME NEW n \in Nodes  PROVE IsAt(node[n], H)
  <2>1. PICK state \in {"Babbling", "Joining"} : node[n] = NewCore(state)
    BY <1>2
  <2>2. /\ node[n].state # "CatchingUp" /\ node[n].last + 1 = 0
        /\ node[n].validators = Beginning.validators /\ node[n].sets = Beginning.sets
    BY <2>1, NewCoreIs
  <2> QED  BY <1>7, <2>2 DEF IsAt
<1> QED  BY <1>5, <1>8, <1>9, <1>10 DEF Agree

\* Without fast-sync, two nodes that have recorded peer-sets up to some round
\* agree on the peer-set of that round, whatever joins, leaves, retries and
\* refusals they processed (processAcceptedInternalTransactions, SetPeerSet).
\* With fast-sync they need not.
THEOREM PeerSetsCorrect == Spec => [](~FastSync => PeerSetsAgree)
<1>1. Struct /\ Agree /\ [Next]_vars => (Struct /\ Agree)'
  BY StructStep, AgreeStep
<1> QED  BY <1>1, InitStruct, AgreeImplies, PTL DEF Spec

-----------------------------------------------------------------------------
(* Who left is out.                                                        *)

LEMMA SaysOne ==
    ASSUME NEW receipts, NEW p
    PROVE  /\ ~Says(<<>>, p, "PEER_ADD") /\ ~Says(<<>>, p, "PEER_REMOVE")
           /\ ~(Says(receipts, p, "PEER_ADD") /\ Says(receipts, p, "PEER_REMOVE"))
BY DEF Says

\* A round with at most one submission to receive.
LEMMA DecideOne ==
    ASSUME DecideRound, NEW p, pending \subseteq {p}
    PROVE  \/ chain' = Append(chain, <<>>) /\ pending' \subseteq pending
           \/ /\ pending # {} /\ pending' = {}
              /\ \E b : chain' = Append(chain, <<[tx |-> p.tx, accepted |-> b]>>)
<1>1. PICK S \in SUBSET pending :
          /\ \E o \in Orders(S), ok \in [S -> IF Refusals THEN BOOLEAN ELSE {TRUE}] :
                chain' = Append(chain, [i \in DOMAIN o |-> [tx |-> o[i].tx, accepted |-> ok[o[i]]]])
          /\ pending' = pending \ S
  BY Zenon DEF DecideRound
<1>2. PICK o \in Orders(S), ok \in [S -> IF Refusals THEN BOOLEAN ELSE {TRUE}] :
          chain' = Append(chain, [i \in DOMAIN o |-> [tx |-> o[i].tx, accepted |-> ok[o[i]]]])
  BY <1>1, Zenon
<1> DEFINE rc == [i \in DOMAIN o |-> [tx |-> o[i].tx, accepted |-> ok[o[i]]]]
<1>3. o \in [1..Cardinality(S) -> S]
  BY <1>2, Zenon DEF Orders
<1>4. CASE S = {}
  <2>1. Cardinality(S) = 0
    BY <1>4, FS_EmptySet
  <2>2. DOMAIN o = {}
    BY <1>3, <2>1
  <2>3. rc = <<>>
    BY <2>2
  <2> QED  BY <1>1, <1>2, <1>4, <2>3, Zenon
<1>5. CASE S # {}
  <2>1. S = {p} /\ pending = {p}
    BY <1>1, <1>5
  <2>2. Cardinality(S) = 1
    BY <2>1, FS_Singleton
  <2>3. DOMAIN o = 1..1 /\ o[1] = p
    BY <1>3, <2>1, <2>2
  <2>4. rc = <<[tx |-> p.tx, accepted |-> ok[p]]>>
    BY <2>3
  <2>5. pending' = {}
    BY <1>1, <2>1
  <2> HIDE DEF rc
  <2>6. chain' = Append(chain, rc)
    BY <1>2 DEF rc
  <2> QED  BY <2>1, <2>4, <2>5, <2>6, Zenon
<1> QED  BY <1>4, <1>5, Zenon

\* What a step that touches neither rounds nor submissions leaves.
LEMMA AloneKept ==
    ASSUME NEW j, JoinsAlone(j), chain' = chain, pending' = pending,
           \A n \in Nodes : /\ node'[n].validators = node[n].validators
                            /\ node'[n].sets = node[n].sets
                            /\ node'[n].removedRound \in {node[n].removedRound, None}
    PROVE  JoinsAlone(j)'
<1>1. Round' = Round
  BY DEF Round
<1>2. \A n \in Nodes : node'[n].removedRound = None
  BY DEF JoinsAlone
<1> QED  BY <1>1, <1>2 DEF JoinsAlone, None, AddPeer

LEMMA LeaverKept ==
    ASSUME NEW n, Leaver(n), chain' = chain, pending' = pending, node'[n] = node[n],
           leaving'[n] = "left" => leaving[n] = "left"
    PROVE  Leaver(n)'
<1>1. Round' = Round
  BY DEF Round
<1> QED  BY <1>1, Zenon DEF Leaver, None, RemovePeer

LEMMA OnlyWithLater ==
    ASSUME NEW ch, NEW dh, NEW j, Len(ch) \in Nat, Len(dh) = Len(ch) + 1,
           \A k \in 1..Len(ch) : dh[k] = ch[k], NEW peers, OnlyWith(peers, j, ch)
    PROVE  OnlyWith(peers, j, dh)
BY DEF OnlyWith

LEMMA DecideFew ==
    ASSUME Struct, Few, DecideRound
    PROVE  Few'
<1>1. node' = node /\ leaving' = leaving /\ requests' = requests
  BY DecideEffect
<1>2. PICK Z : chain \in Seq(Z)
  BY DEF Struct
<1>3. Round \in Nat /\ Round = Len(chain) /\ Round' = Len(chain')
  BY <1>2 DEF Round
<1>4. ASSUME NEW x, chain' = Append(chain, x)
      PROVE  /\ Round' = Round + 1 /\ chain'[Round + 1] = x
             /\ \A k \in 1..Round : chain'[k] = chain[k]
             /\ \A k \in 1..Round' : k \in 1..Round \/ k = Round + 1
  BY <1>2, <1>3, <1>4
<1>5. ASSUME NEW j, JoinsAlone(j)  PROVE JoinsAlone(j)'
  <2> DEFINE p == [tx |-> AddPeer(j), number |-> 0]
  <2>1. pending \subseteq {p}
    BY <1>5 DEF JoinsAlone
  <2>2. PICK x : /\ chain' = Append(chain, x) /\ pending' \subseteq pending
                 /\ x = <<>> \/ (pending # {} /\ pending' = {} /\ Says(x, j, "PEER_ADD"))
    <3>1. p.tx = [type |-> "PEER_ADD", peer |-> j]
      BY DEF AddPeer
    <3> HIDE DEF p
    <3> QED  BY <2>1, <3>1, DecideOne, Zenon DEF Says
  <2>3. pending' \subseteq {p}
    BY <2>1, <2>2
  <2>4. pending' # {} => \A k \in 1..Round' : chain'[k] = <<>>
    BY <1>4, <1>5, <2>2, Zenon DEF JoinsAlone
  <2>5. \A k \in 1..Round' : chain'[k] # <<>> => Says(chain'[k], j, "PEER_ADD")
    BY <1>4, <1>5, <2>2, Zenon DEF JoinsAlone
  <2>6. Len(chain) \in Nat /\ Len(chain') = Len(chain) + 1
        /\ \A k \in 1..Len(chain) : chain'[k] = chain[k]
    BY <1>3, <1>4, <2>2
  <2>7. ASSUME NEW n \in Nodes
        PROVE  /\ OnlyWith(node[n].validators, j, chain')
               /\ \A s \in node[n].sets : OnlyWith(s.peers, j, chain')
               /\ node[n].removedRound = None
    BY <1>5, <2>6, OnlyWithLater DEF JoinsAlone
  <2> QED  BY <1>1, <2>3, <2>4, <2>5, <2>7 DEF JoinsAlone, None, AddPeer
<1>6. ASSUME NEW n \in Nodes, Leaver(n)  PROVE Leaver(n)'
  <2> DEFINE p == [tx |-> RemovePeer(n), number |-> 1]
  <2>1. pending \subseteq {p}
    BY <1>6 DEF Leaver
  <2>2. PICK x : /\ chain' = Append(chain, x) /\ pending' \subseteq pending
                 /\ x = <<>> \/ (pending # {} /\ pending' = {} /\ Says(x, n, "PEER_REMOVE"))
    <3>1. p.tx = [type |-> "PEER_REMOVE", peer |-> n]
      BY DEF RemovePeer
    <3> HIDE DEF p
    <3> QED  BY <2>1, <3>1, DecideOne, Zenon DEF Says
  <2>3. pending' \subseteq {p}
    BY <2>1, <2>2
  <2>4. /\ \A k \in 1..Round : chain'[k] = chain[k]
        /\ \A k \in 1..Round' : k \in 1..Round \/ k = Round + 1
        /\ chain'[Round + 1] = x
    BY <1>4, <2>2, Zenon
  <2>5. \A k \in 1..Round : chain[k] # <<>> =>
            Says(chain[k], n, "PEER_ADD") \/ Says(chain[k], n, "PEER_REMOVE")
    BY <1>6 DEF Leaver
  <2>6. \A k \in 1..Round' : chain'[k] # <<>> =>
            Says(chain'[k], n, "PEER_ADD") \/ Says(chain'[k], n, "PEER_REMOVE")
    BY <2>2, <2>4, <2>5, Zenon
  <2>7. pending # {} => \A k \in 1..Round : ~Says(chain[k], n, "PEER_REMOVE")
    BY <1>6 DEF Leaver
  <2>8. pending' # {} => \A k \in 1..Round' : ~Says(chain'[k], n, "PEER_REMOVE")
    <3>1. pending' # {} => pending # {} /\ x = <<>>
      BY <2>2
    <3> QED  BY <2>4, <2>7, <3>1, SaysOne
  <2>9. ASSUME NEW i \in 1..Round', NEW k \in 1..Round', i < k,
               Says(chain'[i], n, "PEER_REMOVE")
        PROVE  chain'[k] = <<>>
    <3>1. i \in 1..Round
      BY <1>3, <1>4, <2>2, <2>9
    <3>2. Says(chain[i], n, "PEER_REMOVE")
      BY <2>4, <2>9, <3>1
    <3>3. CASE k \in 1..Round
      BY <1>6, <2>4, <2>9, <3>1, <3>2, <3>3 DEF Leaver
    <3>4. CASE k = Round + 1
      BY <2>2, <2>4, <2>7, <3>1, <3>2, <3>4, Zenon
    <3> QED  BY <2>4, <3>3, <3>4
  <2>10. node[n].removedRound = None \/ Out(n, node[n], chain')
    <3> SUFFICES ASSUME Out(n, node[n], chain)  PROVE Out(n, node[n], chain')
      BY <1>6 DEF Leaver
    <3>1. IsCore(node[n]) /\ node[n].last < Round
      BY DEF Struct
    <3>2. \A d \in 0..node[n].last : d + 1 \in 1..Round
      BY <1>3, <3>1 DEF IsCore
    <3>3. \A d \in 0..node[n].last : chain'[d + 1] = chain[d + 1]
      BY <2>4, <3>2
    <3> QED  BY <3>3, Zenon DEF Out
  <2>11. /\ node[n].state \in {"Babbling", "Shutdown"}
         /\ leaving[n] = "left" =>
               node[n].state = "Shutdown" /\ node[n].last >= node[n].removedRound
    BY <1>6 DEF Leaver
  <2> QED  BY <1>1, <2>3, <2>6, <2>8, <2>9, <2>10, <2>11 DEF Leaver, None, RemovePeer
<1>7. requests = 0 => pending' = {} /\ \A k \in 1..Round' : chain'[k] = <<>>
  <2> SUFFICES ASSUME requests = 0  PROVE pending' = {} /\ \A k \in 1..Round' : chain'[k] = <<>>
    OBVIOUS
  <2>1. pending = {} /\ \A k \in 1..Round : chain[k] = <<>>
    BY DEF Few
  <2>2. chain' = Append(chain, <<>>) /\ pending' = {}
    BY <2>1, DecideOne
  <2> QED  BY <1>4, <2>1, <2>2, Zenon
<1>8. requests <= 1 => (\A n \in Nodes : leaving[n] = "no") /\ \E j : JoinsAlone(j)'
  BY <1>5, Zenon DEF Few
<1>9. requests = 2 => \A n \in Nodes : leaving[n] # "no" => Leaver(n)'
  BY <1>6, Zenon DEF Few
<1> QED  BY <1>1, <1>7, <1>8, <1>9 DEF Few

\* What a round makes of a core, by its receipt.
LEMMA AfterNone ==
    ASSUME NEW a, NEW r, NEW b, AfterRound(a, r, <<>>, b)
    PROVE  /\ b.validators = a.validators /\ b.sets = a.sets
           /\ \A n : [tx |-> RemovePeer(n), accepted |-> TRUE] \notin ToSet(<<>>)
<1>1. ToSet(<<>>) = {}
  BY DEF ToSet
<1> QED  BY <1>1 DEF AfterRound, Accepts

\* b has at most p more than a, in a peer-set six rounds after r.
AddsOnly(a, r, b, p) ==
    \/ b.validators = a.validators /\ b.sets = a.sets
    \/ \E W : /\ \A q \in W : q \in a.validators \/ q = p
              /\ b.validators = W
              /\ b.sets = a.sets \cup {[round |-> r + 6, peers |-> W]}

LEMMA AfterAdd ==
    ASSUME NEW a, NEW r, NEW b, NEW receipts, AfterRound(a, r, receipts, b),
           NEW p, Says(receipts, p, "PEER_ADD")
    PROVE  /\ AddsOnly(a, r, b, p)
           /\ \A n : [tx |-> RemovePeer(n), accepted |-> TRUE] \notin ToSet(receipts)
<1>1. PICK v : receipts = <<[tx |-> [type |-> "PEER_ADD", peer |-> p], accepted |-> v]>>
  BY DEF Says
<1> DEFINE x == [tx |-> [type |-> "PEER_ADD", peer |-> p], accepted |-> v]
<1>2. ToSet(receipts) = {x}
  BY <1>1 DEF ToSet
<1>3. \A n : [tx |-> RemovePeer(n), accepted |-> TRUE] # x
  BY DEF RemovePeer
<1>4. CASE Accepts(receipts)
  <2>1. x.accepted /\ x.tx.type = "PEER_ADD" /\ x.tx.peer = p
    BY <1>2, <1>4 DEF Accepts
  <2>2. WithChanges(a.validators, receipts) = WithChange(a.validators, x)
    BY <1>1, WithOneChange
  <2> HIDE DEF x
  <2>3. WithChange(a.validators, x) = a.validators \cup {p}
    BY <2>1 DEF WithChange
  <2>4. PICK W : W = a.validators \cup {p}
    BY Zenon
  <2>5. b.validators = W /\ b.sets = a.sets \cup {[round |-> r + 6, peers |-> W]}
    BY <1>4, <2>2, <2>3, <2>4, Zenon DEF AfterRound
  <2>6. \A q \in W : q \in a.validators \/ q = p
    BY <2>4
  <2> QED  BY <1>2, <1>3, <2>5, <2>6, Zenon DEF x, AddsOnly
<1>5. CASE ~Accepts(receipts)
  BY <1>2, <1>3, <1>5, Zenon DEF AfterRound, AddsOnly
<1> QED  BY <1>4, <1>5

LEMMA AfterRemove ==
    ASSUME NEW a, NEW r, NEW b, NEW receipts, AfterRound(a, r, receipts, b), NEW p,
           Says(receipts, p, "PEER_REMOVE"),
           [tx |-> RemovePeer(p), accepted |-> TRUE] \in ToSet(receipts)
    PROVE  \E W : p \notin W /\ b.sets = a.sets \cup {[round |-> r + 6, peers |-> W]}
<1>1. PICK v : receipts = <<[tx |-> [type |-> "PEER_REMOVE", peer |-> p], accepted |-> v]>>
  BY Zenon DEF Says
<1> DEFINE x == [tx |-> [type |-> "PEER_REMOVE", peer |-> p], accepted |-> v]
<1>2. ToSet(receipts) = {x}
  BY <1>1 DEF ToSet
<1>3. x = [tx |-> RemovePeer(p), accepted |-> TRUE]
  BY <1>2
<1>4. x.accepted = TRUE /\ x.tx.type = "PEER_REMOVE" /\ x.tx.peer = p
  BY <1>3 DEF RemovePeer
<1>5. WithChanges(a.validators, receipts) = WithChange(a.validators, x)
  BY <1>1, WithOneChange
<1> HIDE DEF x
<1>6. Accepts(receipts)
  BY <1>2, <1>4 DEF Accepts
<1>7. WithChange(a.validators, x) = a.validators \ {p}
  BY <1>4 DEF WithChange
<1>8. PICK W : W = a.validators \ {p}
  BY Zenon
<1>9. b.sets = a.sets \cup {[round |-> r + 6, peers |-> W]}
  BY <1>5, <1>6, <1>7, <1>8, Zenon DEF AfterRound
<1>10. p \notin W
  BY <1>8
<1> QED  BY <1>9, <1>10

\* A node that processes round r does not disturb JoinsAlone.
LEMMA AloneBecomes ==
    ASSUME Struct, NEW j, JoinsAlone(j), NEW n \in Nodes, NEW c, NEW d, NEW r \in Nat, r < Round,
           NEW state, Processed(n, c, r, chain[r + 1], d), Becomes(n, d, r, state),
           OnlyWith(c.validators, j, chain), \A s \in c.sets : OnlyWith(s.peers, j, chain),
           c.removedRound = None
    PROVE  JoinsAlone(j)'
<1>1. r + 1 \in 1..Len(chain) /\ Round' = Round /\ Round = Len(chain)
  BY DEF Struct, Round, Becomes
<1>2. AfterRound(c, r, chain[r + 1], d)
  BY DEF Processed
<1>3. /\ OnlyWith(d.validators, j, chain) /\ \A s \in d.sets : OnlyWith(s.peers, j, chain)
      /\ d.removedRound = None
  <2>1. CASE chain[r + 1] = <<>>
    BY <1>2, <2>1, AfterNone DEF Processed
  <2>2. CASE chain[r + 1] # <<>>
    <3>1. Says(chain[r + 1], j, "PEER_ADD")
      BY <1>1, <2>2 DEF JoinsAlone
    <3>2. d.removedRound = None
      BY <1>2, <3>1, AfterAdd DEF Processed
    <3>3. CASE d.validators = c.validators /\ d.sets = c.sets
      BY <3>2, <3>3
    <3>4. ASSUME NEW W, \A q \in W : q \in c.validators \/ q = j, d.validators = W,
                 d.sets = c.sets \cup {[round |-> r + 6, peers |-> W]}
          PROVE  /\ OnlyWith(d.validators, j, chain)
                 /\ \A s \in d.sets : OnlyWith(s.peers, j, chain)
      <4>1. OnlyWith(W, j, chain)
        BY <1>1, <2>2, <3>4, Zenon DEF OnlyWith
      <4>2. \A s \in d.sets : s \in c.sets \/ s.peers = W
        BY <3>4
      <4> QED  BY <3>4, <4>1, <4>2, Zenon
    <3>5. AddsOnly(c, r, d, j)
      BY <1>2, <3>1, AfterAdd
    <3> QED  BY <3>2, <3>3, <3>4, <3>5, Zenon DEF AddsOnly
  <2> QED  BY <2>1, <2>2
<1>4. ASSUME NEW m \in Nodes
      PROVE  /\ OnlyWith(node'[m].validators, j, chain')
             /\ \A s \in node'[m].sets : OnlyWith(s.peers, j, chain')
             /\ node'[m].removedRound = None
  <2>1. chain' = chain
    BY DEF Becomes
  <2>2. CASE m = n
    BY <1>3, <2>1, <2>2 DEF Becomes
  <2>3. CASE m # n
    BY <2>1, <2>3 DEF Becomes, JoinsAlone
  <2> QED  BY <2>2, <2>3
<1>5. chain' = chain /\ pending' = pending
  BY DEF Becomes
<1> QED  BY <1>1, <1>4, <1>5 DEF JoinsAlone, None, AddPeer

\* The node that leaves processes a round: its removal is the last receipt.
LEMMA LeaverAdvances ==
    ASSUME Struct, NEW n \in Nodes, Leaver(n), NEW r, NEW d, Advances(n, r, d)
    PROVE  Leaver(n)'
<1> DEFINE c == node[n]
           receipts == chain[r + 1]
<1>1. /\ r \in Nat /\ Round \in Nat /\ r + 1 \in 1..Round /\ Round' = Round
      /\ chain' = chain /\ pending' = pending
      /\ c.last + 1 = r /\ c.last \in Int /\ c.last < r /\ c.state = "Babbling"
  BY DEF Advances, Becomes, Struct, IsCore, Round
<1>2. /\ node'[n].state = "Babbling" /\ node'[n].last = r /\ node'[n].sets = d.sets
      /\ node'[n].removedRound = d.removedRound
  BY DEF Advances, Becomes
<1>3. leaving'[n] # "left"
  BY <1>1 DEF Advances, Becomes, Leaver
<1>4. AfterRound(c, r, receipts, d) /\ Processed(n, c, r, receipts, d)
  BY DEF Advances, Processed
<1>5. \A s \in c.sets : s.round \in Nat /\ s.round <= r + 5
  BY <1>1 DEF Struct, IsCore, IsSets
<1>6. receipts = <<>> \/ Says(receipts, n, "PEER_ADD") \/ Says(receipts, n, "PEER_REMOVE")
  BY <1>1 DEF Leaver
<1>7. Out(n, c, chain) => receipts = <<>>
  <2> SUFFICES ASSUME Out(n, c, chain)  PROVE receipts = <<>>
    OBVIOUS
  <2>0. PICK e \in 0..c.last : Says(chain[e + 1], n, "PEER_REMOVE")
    BY Zenon DEF Out
  <2>1. e + 1 \in 1..Round /\ e + 1 < r + 1
    BY <1>1
  <2> QED  BY <1>1, <2>0, <2>1 DEF Leaver
<1> HIDE DEF c, receipts
<1>8. d.removedRound = None \/ Out(n, node'[n], chain)
  <2>1. CASE receipts = <<>>
    <3>1. d.sets = c.sets /\ d.removedRound = c.removedRound
      BY <1>4, <2>1, AfterNone DEF Processed
    <3>2. ASSUME Out(n, c, chain)  PROVE Out(n, node'[n], chain)
      <4>1. PICK e \in 0..c.last :
                /\ c.removedRound = e + 6 /\ Says(chain[e + 1], n, "PEER_REMOVE")
                /\ \A t \in c.sets : t.round <= e + 6
                /\ \E s \in c.sets : s.round = e + 6 /\ n \notin s.peers
        BY <3>2 DEF Out
      <4>2. e \in 0..node'[n].last
        BY <1>1, <1>2
      <4> QED  BY <1>2, <3>1, <4>1, <4>2 DEF Out
    <3>3. c.removedRound = None \/ Out(n, c, chain)
      BY DEF Leaver, c
    <3> QED  BY <3>1, <3>2, <3>3
  <2>2. CASE Says(receipts, n, "PEER_ADD")
    <3>1. c.removedRound = None
      BY <1>7, <2>2, SaysOne, Zenon DEF Leaver, c
    <3> QED  BY <1>4, <2>2, <3>1, AfterAdd DEF Processed
  <2>3. CASE Says(receipts, n, "PEER_REMOVE")
    <3>1. c.removedRound = None
      BY <1>7, <2>3, SaysOne, Zenon DEF Leaver, c
    <3>2. CASE [tx |-> RemovePeer(n), accepted |-> TRUE] \notin ToSet(receipts)
      BY <1>4, <3>1, <3>2 DEF Processed
    <3>3. CASE [tx |-> RemovePeer(n), accepted |-> TRUE] \in ToSet(receipts)
      <4>1. d.removedRound = r + 6
        BY <1>4, <3>3 DEF Processed
      <4>2. PICK W : n \notin W /\ d.sets = c.sets \cup {[round |-> r + 6, peers |-> W]}
        BY <1>4, <2>3, <3>3, AfterRemove
      <4>3. \A t \in d.sets : t.round <= r + 6
        BY <1>1, <1>5, <4>2
      <4>4. \E s \in d.sets : s.round = r + 6 /\ n \notin s.peers
        <5> DEFINE s == [round |-> r + 6, peers |-> W]
        <5>1. s.round = r + 6 /\ s.peers = W
          OBVIOUS
        <5>2. s \in d.sets
          BY <4>2
        <5> QED  BY <4>2, <5>1, <5>2, Zenon
      <4>5. r \in 0..node'[n].last /\ Says(chain[r + 1], n, "PEER_REMOVE")
        BY <1>1, <1>2, <2>3 DEF receipts
      <4> QED  BY <1>2, <4>1, <4>3, <4>4, <4>5 DEF Out
    <3> QED  BY <3>2, <3>3
  <2> QED  BY <1>6, <2>1, <2>2, <2>3
<1>9. (node[n].removedRound = None \/ Out(n, node[n], chain))'
  BY <1>1, <1>2, <1>8, Zenon DEF None
<1>10. (/\ pending \subseteq {[tx |-> RemovePeer(n), number |-> 1]}
        /\ \A k \in 1..Round : chain[k] # <<>> =>
               Says(chain[k], n, "PEER_ADD") \/ Says(chain[k], n, "PEER_REMOVE")
        /\ pending # {} => \A k \in 1..Round : ~Says(chain[k], n, "PEER_REMOVE")
        /\ \A i, k \in 1..Round :
               i < k /\ Says(chain[i], n, "PEER_REMOVE") => chain[k] = <<>>)'
  BY <1>1, Zenon DEF Leaver, RemovePeer
<1> QED  BY <1>2, <1>3, <1>9, <1>10 DEF Leaver

\* Few, when a step is no request.
LEMMA FewSame ==
    ASSUME Struct, Few, requests' = requests, chain' = chain, pending' = pending,
           requests <= 1 => /\ \A n \in Nodes : leaving'[n] = "no"
                            /\ \A j : JoinsAlone(j) => JoinsAlone(j)',
           requests = 2 => \A n \in Nodes : leaving'[n] # "no" => Leaver(n)'
    PROVE  Few'
<1>1. Round' = Round
  BY DEF Round
<1>2. (requests = 0 => pending = {} /\ \A k \in 1..Round : chain[k] = <<>>)'
  BY <1>1 DEF Few
<1>3. (requests <= 1 => (\A n \in Nodes : leaving[n] = "no") /\ \E j : JoinsAlone(j))'
  BY Zenon DEF Few
<1>4. (requests = 2 => \A n \in Nodes : leaving[n] # "no" => Leaver(n))'
  BY Zenon
<1> QED  BY <1>2, <1>3, <1>4 DEF Few

LEMMA ProcessFew ==
    ASSUME Struct, Few, NEW n \in Nodes, ProcessRound(n)
    PROVE  Few'
<1>1. PICK r, d : Advances(n, r, d)
  BY ProcessAdvances
<1>2. /\ requests' = requests /\ chain' = chain /\ pending' = pending
      /\ \A m \in Nodes : /\ leaving'[m] = "no" <=> leaving[m] = "no"
                          /\ leaving'[m] = "left" => leaving[m] = "left"
                          /\ m # n => node'[m] = node[m]
  BY <1>1 DEF Advances, Becomes
<1>3. ASSUME NEW j, JoinsAlone(j)  PROVE JoinsAlone(j)'
  BY <1>1, <1>3, AloneBecomes, Zenon DEF Advances, JoinsAlone
<1>4. ASSUME NEW m \in Nodes, Leaver(m)  PROVE Leaver(m)'
  BY <1>1, <1>2, <1>4, LeaverAdvances, LeaverKept, Zenon
<1>5. requests <= 1 => \A m \in Nodes : leaving'[m] = "no"
  BY <1>2 DEF Few
<1>6. requests = 2 => \A m \in Nodes : leaving'[m] # "no" => Leaver(m)'
  BY <1>2, <1>4, Zenon DEF Few
<1> QED  BY <1>2, <1>3, <1>5, <1>6, FewSame, Zenon

LEMMA FastForwardFew ==
    ASSUME Struct, Few, NEW n \in Nodes, FastForward(n)
    PROVE  Few'
<1>1. PICK m, r, c, d : Skips(n, m, r, c, d)
  BY FastForwardSkips
<1>2. /\ requests' = requests /\ chain' = chain /\ pending' = pending
      /\ \A k \in Nodes : /\ leaving'[k] = "no" <=> leaving[k] = "no"
                          /\ leaving'[k] = "left" => leaving[k] = "left"
                          /\ k # n => node'[k] = node[k]
  BY <1>1, Zenon DEF Skips, Becomes
<1>3. /\ m \in Nodes /\ r \in Nat /\ r < Round /\ Round \in Nat
      /\ IsSets(node[m].sets) /\ node[n].state = "CatchingUp"
  <2>1. /\ m \in Nodes /\ r \in Nat /\ r <= node[m].last
        /\ node[n].state = "CatchingUp"
    BY <1>1, Zenon DEF Skips
  <2>2. IsSets(node[m].sets) /\ node[m].last \in Int /\ node[m].last < Round
    BY <2>1, Zenon DEF Struct, IsCore
  <2>3. Round \in Nat
    BY DEF Struct, Round
  <2> QED  BY <2>1, <2>2, <2>3
<1>4. PICK s \in c.sets : c.validators = s.peers
  <2>1. IsSets(c.sets) /\ [sets |-> c.sets].sets = c.sets
    BY <1>1, <1>3 DEF Skips, IsSets
  <2> DEFINE f == [sets |-> c.sets]
  <2>2. IsSets(f.sets) /\ c.validators = PeerSet(f, r)
    BY <1>1, <2>1 DEF Skips
  <2> HIDE DEF f
  <2>3. \E s \in f.sets : PeerSet(f, r) = s.peers
    BY <1>3, <2>2, PeerSetIs
  <2> QED  BY <2>2, <2>3 DEF f
<1>5. ASSUME NEW j, JoinsAlone(j)  PROVE JoinsAlone(j)'
  <2>1. \A t \in c.sets : OnlyWith(t.peers, j, chain)
    BY <1>1, <1>3, <1>5, Zenon DEF Skips, JoinsAlone
  <2>2. OnlyWith(c.validators, j, chain) /\ c.removedRound = None
    BY <1>1, <1>4, <1>5, <2>1, Zenon DEF Skips, JoinsAlone
  <2> QED  BY <1>1, <1>3, <1>5, <2>1, <2>2, AloneBecomes, Zenon DEF Skips
<1>6. ASSUME NEW k \in Nodes, Leaver(k)  PROVE Leaver(k)'
  <2>1. k # n
    BY <1>3, <1>6 DEF Leaver
  <2> QED  BY <1>2, <1>6, <2>1, LeaverKept, Zenon
<1>7. requests <= 1 => \A k \in Nodes : leaving'[k] = "no"
  BY <1>2 DEF Few
<1>8. requests = 2 => \A k \in Nodes : leaving'[k] # "no" => Leaver(k)'
  BY <1>2, <1>6, Zenon DEF Few
<1> QED  BY <1>2, <1>5, <1>7, <1>8, FewSame, Zenon

LEMMA RestartFew ==
    ASSUME Struct, Few, NEW n \in Nodes, Restart(n)
    PROVE  Few'
<1>1. /\ requests' = requests /\ chain' = chain /\ pending' = pending /\ leaving'[n] = "no"
      /\ \A m \in Nodes : m # n => node'[m] = node[m] /\ leaving'[m] = leaving[m]
  BY RestartEffect
<1>2. ~(requests <= 1)
  BY DEF Restart, Few
<1>3. ASSUME requests = 2, NEW m \in Nodes, leaving'[m] # "no"  PROVE Leaver(m)'
  <2>1. m # n /\ Leaver(m)
    BY <1>1, <1>3 DEF Few
  <2> QED  BY <1>1, <2>1, LeaverKept, Zenon
<1> QED  BY <1>1, <1>2, <1>3, FewSame, Zenon

\* The first request is to join; after the second nobody has left yet.
LEMMA JoinFew ==
    ASSUME Struct, Few, NEW j \in Joiners, Join(j)
    PROVE  Few'
<1>1. /\ requests' = requests + 1 /\ requests \in Nat /\ chain' = chain /\ leaving' = leaving
      /\ Round' = Round
  BY DEF Join, Struct, Round
<1>2. pending' = pending \/ pending' = pending \cup {Submission(AddPeer(j))}
  BY Zenon DEF Join, AlreadyPresent, Dispatch
<1>3. \A m \in Nodes : Kept(node[m], node'[m])
  BY JoinKeeps DEF Keeps
<1>4. ASSUME requests = 0  PROVE JoinsAlone(j)'
  <2>1. pending = {} /\ \A k \in 1..Round : chain[k] = <<>>
    BY <1>4 DEF Few
  <2>2. PICK i : JoinsAlone(i)
    BY <1>4 DEF Few
  <2>3. \A peers : OnlyWith(peers, i, chain) => OnlyWith(peers, j, chain)
    BY <2>1 DEF OnlyWith, Round
  <2>4. pending' \subseteq {[tx |-> AddPeer(j), number |-> 0]}
    BY <1>2, <1>4, <2>1 DEF Submission
  <2>5. \A k \in 1..Round' : chain'[k] = <<>>
    BY <1>1, <2>1
  <2>6. ASSUME NEW m \in Nodes
        PROVE  /\ OnlyWith(node'[m].validators, j, chain')
               /\ \A s \in node'[m].sets : OnlyWith(s.peers, j, chain')
               /\ node'[m].removedRound = None
    <3>1. /\ node'[m].validators = node[m].validators /\ node'[m].sets = node[m].sets
          /\ node'[m].removedRound \in {node[m].removedRound, None}
      BY <1>3 DEF Kept
    <3>2. /\ OnlyWith(node[m].validators, i, chain)
          /\ \A s \in node[m].sets : OnlyWith(s.peers, i, chain)
          /\ node[m].removedRound = None
      BY <2>2 DEF JoinsAlone
    <3> QED  BY <1>1, <2>3, <3>1, <3>2
  <2> QED  BY <2>4, <2>5, <2>6, Zenon DEF JoinsAlone, None, AddPeer
<1>5. requests' # 0 /\ (requests' <= 1 => requests = 0) /\ (requests' = 2 => requests <= 1)
  BY <1>1
<1>6. requests <= 1 => \A m \in Nodes : leaving'[m] = "no"
  BY <1>1 DEF Few
<1>7. requests = 0 => requests <= 1
  OBVIOUS
<1> QED  BY <1>4, <1>5, <1>6, <1>7, Zenon DEF Few

LEMMA JoinedFew ==
    ASSUME Struct, Few, NEW j \in Joiners, JoinTimeout(j) \/ Joined(j)
    PROVE  Few'
<1>1. /\ requests' = requests /\ chain' = chain /\ pending' = pending /\ leaving' = leaving
      /\ node[j].state = "Joining"
  BY DEF JoinTimeout, Joined
<1>2. \A m \in Nodes : Kept(node[m], node'[m])
  BY JoinKeeps, JoinedKeeps DEF Keeps
<1>3. \A m \in Nodes : m # j => node'[m] = node[m]
  <2>1. \E c : node' = [node EXCEPT ![j] = c] \/ node' = node
    BY Zenon DEF JoinTimeout, Joined
  <2> QED  BY <2>1 DEF Struct
<1>4. ASSUME NEW i, JoinsAlone(i)  PROVE JoinsAlone(i)'
  BY <1>1, <1>2, <1>4, AloneKept DEF Kept
<1>5. ASSUME NEW m \in Nodes, Leaver(m)  PROVE Leaver(m)'
  <2>1. m # j
    BY <1>1, <1>5 DEF Leaver
  <2> QED  BY <1>1, <1>3, <1>5, <2>1, LeaverKept, Zenon
<1>6. requests <= 1 => \A m \in Nodes : leaving'[m] = "no"
  BY <1>1 DEF Few
<1>7. requests = 2 => \A m \in Nodes : leaving'[m] # "no" => Leaver(m)'
  BY <1>1, <1>5, Zenon DEF Few
<1> QED  BY <1>1, <1>4, <1>6, <1>7, FewSame, Zenon

\* A node that leaves is a validator: it has asked to join, and was received.
LEMMA LeaveFew ==
    ASSUME Struct, Few, NEW n \in Nodes, Leave(n)
    PROVE  Few'
<1>1. /\ requests' = requests + 1 /\ requests \in Nat /\ chain' = chain /\ Round' = Round
      /\ n \in Joiners /\ n \in node[n].validators /\ node[n].state = "Babbling"
      /\ pending' \in {pending, pending \cup {Submission(RemovePeer(n))}}
      /\ leaving' = [leaving EXCEPT ![n] = "waiting"]
      /\ node' = [node EXCEPT ![n].promises = @ \cup {RemovePeer(n)}]
  BY DEF Leave, Struct, Round
<1>2. leaving'[n] = "waiting" /\ \A m \in Nodes : m # n => leaving'[m] = leaving[m]
  BY <1>1 DEF Struct
<1>3. node'[n].state = "Babbling" /\ node'[n].removedRound = node[n].removedRound
  BY <1>1 DEF Struct, IsCore, CoreFields
<1>4. n \notin Genesis
  BY <1>1, MembershipAssumption
<1>5. ASSUME NEW j, JoinsAlone(j)
      PROVE  n = j /\ pending = {} /\ \E k \in 1..Round : chain[k] # <<>>
  <2>1. OnlyWith(node[n].validators, j, chain)
    BY <1>5 DEF JoinsAlone
  <2>2. n = j /\ \E k \in 1..Len(chain) : chain[k] # <<>>
    BY <1>1, <1>4, <2>1, Zenon DEF OnlyWith
  <2> QED  BY <1>5, <2>2 DEF JoinsAlone, Round
<1>6. requests # 0
  <2> SUFFICES ASSUME requests = 0  PROVE FALSE
    OBVIOUS
  <2>1. PICK j : JoinsAlone(j)
    BY DEF Few
  <2> QED  BY <1>5, <2>1 DEF Few
<1>7. ASSUME requests = 1  PROVE Leaver(n)'
  <2>1. PICK j : JoinsAlone(j)
    BY <1>7 DEF Few
  <2>2. n = j /\ pending = {}
    BY <1>5, <2>1
  <2>3. pending' \subseteq {[tx |-> RemovePeer(n), number |-> 1]}
    BY <1>1, <1>7, <2>2 DEF Submission
  <2>4. \A k \in 1..Round : chain[k] # <<>> => Says(chain[k], n, "PEER_ADD")
    BY <2>1, <2>2 DEF JoinsAlone
  <2>5. \A k \in 1..Round : ~Says(chain[k], n, "PEER_REMOVE")
    BY <2>4, SaysOne, Zenon
  <2>6. (\A k \in 1..Round : chain[k] # <<>> => Says(chain[k], n, "PEER_ADD"))'
        /\ (\A k \in 1..Round : ~Says(chain[k], n, "PEER_REMOVE"))'
    BY <1>1, <2>4, <2>5, Zenon
  <2>7. node'[n].removedRound = None
    BY <1>3, <2>1 DEF JoinsAlone
  <2>8. (node[n].removedRound = None \/ Out(n, node[n], chain))'
    BY <2>7, Zenon DEF None
  <2> QED  BY <1>2, <1>3, <2>3, <2>6, <2>8, Zenon DEF Leaver, RemovePeer
<1>8. requests' # 0 /\ ~(requests' <= 1) /\ (requests' = 2 => requests = 1)
  BY <1>1, <1>6
<1>9. requests = 1 => \A m \in Nodes : m # n => leaving'[m] = "no"
  BY <1>2 DEF Few
<1> QED  BY <1>7, <1>8, <1>9, Zenon DEF Few

\* leave comes to an end, or the node is evicted.
LEMMA EndFew ==
    ASSUME Struct, Few, NEW n \in Nodes, Left(n) \/ LeaveTimeout(n) \/ CheckSuspend(n)
    PROVE  Few'
<1>1. /\ requests' = requests /\ chain' = chain /\ pending' = pending /\ Round' = Round
  BY DEF Left, LeaveTimeout, CheckSuspend, Round
<1>2. \A m \in Nodes : Kept(node[m], node'[m])
  BY EndKeeps DEF Keeps
<1>3. \A m \in Nodes : m # n => node'[m] = node[m] /\ leaving'[m] = leaving[m]
  BY DEF Left, LeaveTimeout, CheckSuspend, Struct
<1>4. ASSUME NEW j, JoinsAlone(j)  PROVE JoinsAlone(j)'
  BY <1>1, <1>2, <1>4, AloneKept DEF Kept
<1>5. ASSUME requests <= 1, NEW m \in Nodes  PROVE leaving'[m] = "no"
  <2>1. leaving[n] = "no" /\ leaving[m] = "no"
    BY <1>5 DEF Few
  <2> QED  BY <2>1 DEF Left, LeaveTimeout, CheckSuspend
<1>6. ASSUME requests = 2, NEW m \in Nodes, leaving'[m] # "no"  PROVE Leaver(m)'
  <2>1. CASE m # n
    BY <1>1, <1>3, <1>6, <2>1, LeaverKept, Zenon DEF Few
  <2>2. CASE m = n
    <3>1. Left(n) \/ LeaveTimeout(n)
      BY <1>6, <2>2 DEF CheckSuspend
    <3>2. leaving[n] # "no" /\ node' = [node EXCEPT ![n].state = "Shutdown"]
      BY <3>1 DEF Left, LeaveTimeout
    <3>3. Leaver(n)
      BY <1>6, <3>2 DEF Few
    <3>4. /\ node'[n].state = "Shutdown" /\ node'[n].removedRound = node[n].removedRound
          /\ node'[n].sets = node[n].sets /\ node'[n].last = node[n].last
      BY <3>2 DEF Struct, IsCore, CoreFields
    <3>5. leaving'[n] = "left" => node'[n].last >= node'[n].removedRound
      BY <3>1, <3>4 DEF Left, LeaveTimeout, Struct
    <3>6. Out(n, node[n], chain) => Out(n, node'[n], chain')
      BY <1>1, <3>4 DEF Out
    <3>7. (node[n].removedRound = None \/ Out(n, node[n], chain))'
      BY <3>3, <3>4, <3>6, Zenon DEF Leaver, None
    <3> QED  BY <1>1, <2>2, <3>3, <3>4, <3>5, <3>7, Zenon DEF Leaver, RemovePeer
  <2> QED  BY <2>1, <2>2
<1> QED  BY <1>1, <1>4, <1>5, <1>6, FewSame, Zenon

LEMMA FewStep ==
    ASSUME Struct, Few, [Next]_vars
    PROVE  Few'
<1>1. CASE UNCHANGED vars
  <2>1. /\ requests' = requests /\ chain' = chain /\ pending' = pending /\ leaving' = leaving
        /\ node' = node
    BY <1>1 DEF vars
  <2>2. ASSUME NEW j, JoinsAlone(j)  PROVE JoinsAlone(j)'
    BY <2>1, <2>2, AloneKept
  <2>3. ASSUME NEW m \in Nodes, Leaver(m)  PROVE Leaver(m)'
    BY <2>1, <2>3, LeaverKept
  <2>4. requests <= 1 => \A m \in Nodes : leaving'[m] = "no"
    BY <2>1 DEF Few
  <2>5. requests = 2 => \A m \in Nodes : leaving'[m] # "no" => Leaver(m)'
    BY <2>1, <2>3, Zenon DEF Few
  <2> QED  BY <2>1, <2>2, <2>4, <2>5, FewSame, Zenon
<1>2. CASE DecideRound
  BY <1>2, DecideFew
<1>3. ASSUME NEW n \in Nodes, ProcessRound(n)  PROVE Few'
  BY <1>3, ProcessFew
<1>4. ASSUME NEW n \in Nodes, FastForward(n)  PROVE Few'
  BY <1>4, FastForwardFew
<1>5. ASSUME NEW n \in Nodes, Restart(n)  PROVE Few'
  BY <1>5, RestartFew
<1>6. ASSUME NEW n \in Nodes, Leave(n)  PROVE Few'
  BY <1>6, LeaveFew
<1>7. ASSUME NEW n \in Nodes, Left(n) \/ LeaveTimeout(n) \/ CheckSuspend(n)  PROVE Few'
  BY <1>7, EndFew
<1>8. ASSUME NEW j \in Joiners, Join(j)  PROVE Few'
  BY <1>8, JoinFew
<1>9. ASSUME NEW j \in Joiners, JoinTimeout(j) \/ Joined(j)  PROVE Few'
  BY <1>9, JoinedFew
<1> QED  BY <1>1, <1>2, <1>3, <1>4, <1>5, <1>6, <1>7, <1>8, <1>9, Zenon DEF Next

LEMMA InitFew == Init => Few
<1> SUFFICES ASSUME Init  PROVE Few
  OBVIOUS
<1>1. pending = {} /\ chain = <<>> /\ requests = 0 /\ \A n \in Nodes : leaving[n] = "no"
  BY DEF Init
<1>2. Round = 0
  BY <1>1 DEF Round
<1>3. ASSUME NEW n \in Nodes
      PROVE  /\ node[n].validators = Genesis /\ node[n].sets = {[round |-> 0, peers |-> Genesis]}
             /\ node[n].removedRound = None
  <2>1. PICK state : node[n] = NewCore(state)
    BY DEF Init
  <2> QED  BY <2>1 DEF NewCore
<1>4. \A j : OnlyWith(Genesis, j, chain)
  BY DEF OnlyWith
<1>5. PICK j : j = 0
  OBVIOUS
<1>6. JoinsAlone(j)
  BY <1>1, <1>2, <1>3, <1>4 DEF JoinsAlone
<1> QED  BY <1>1, <1>2, <1>6 DEF Few

LEMMA FewImplies == Struct /\ Few => LeftIsOut
<1> SUFFICES ASSUME Struct, Few, NEW n \in Joiners, leaving[n] = "left", requests <= 2,
                    node[n].removedRound > 0
             PROVE  n \notin PeerSet(node[n], node[n].last)
  BY DEF LeftIsOut
<1>1. n \in Nodes /\ requests \in Nat
  BY DEF Nodes, Struct
<1>2. requests = 2
  BY <1>1 DEF Few
<1>3. Leaver(n)
  BY <1>1, <1>2 DEF Few
<1>4. PICK d \in 0..node[n].last :
          /\ node[n].removedRound = d + 6
          /\ \A t \in node[n].sets : t.round <= d + 6
          /\ \E s \in node[n].sets : s.round = d + 6 /\ n \notin s.peers
  BY <1>3 DEF Leaver, None, Out
<1>5. PICK s \in node[n].sets : s.round = d + 6 /\ n \notin s.peers
  BY <1>4
<1>6. IsSets(node[n].sets) /\ node[n].last \in Int
  BY <1>1 DEF Struct, IsCore
<1>7. d + 6 <= node[n].last /\ node[n].last \in Nat
  BY <1>3, <1>4, <1>6 DEF Leaver
<1>8. PICK t \in node[n].sets :
          /\ PeerSet(node[n], node[n].last) = t.peers
          /\ \A u \in node[n].sets : u.round <= node[n].last => u.round <= t.round
  BY <1>6, <1>7, PeerSetIs
<1>9. t.round = s.round
  BY <1>4, <1>5, <1>6, <1>7, <1>8 DEF IsSets
<1>10. t = s
  BY <1>5, <1>6, <1>8, <1>9 DEF IsSets
<1> QED  BY <1>5, <1>8, <1>10

\* A node whose removal was accepted, and which waited in leave for the round of
\* its removal, is out of the peer-set of the round it left in, for any peers,
\* any configuration and any number of rounds (core.go, leave; node.go, Leave).
THEOREM LeftCorrect == Spec => []LeftIsOut
<1>1. Init => Struct /\ Few
  BY InitStruct, InitFew
<1>2. (Struct /\ Few) /\ [Next]_vars => (Struct /\ Few)'
  BY StructStep, FewStep
<1>3. Struct /\ Few => LeftIsOut
  BY FewImplies
<1> QED  BY <1>1, <1>2, <1>3, PTL DEF Spec

-----------------------------------------------------------------------------
(***************************************************************************)
(* ControlTimer, for every number of goroutines that reset the timer.  The *)
(* types of the timer, SetMeansTick and OneSender are inductive together.  *)
(***************************************************************************)

TimerInv == TypeOK /\ SetMeansTick /\ OneSender

\* The inductive invariant holds when run starts.
LEMMA TimerStart == TimerInit => TimerInv
  BY ProcsAssumption, Zenon DEF TimerInit, TimerInv, TypeOK, SetMeansTick, OneSender,
       TimerProcs, Home

\* Steps of the timer goroutine alone.
LEMMA TimerStep ==
    ASSUME TimerInv, Fire \/ Unset \/ SetTimer
    PROVE  TimerInv'
  <1>1. UNCHANGED <<pc, coreLock>>
    BY DEF Fire, Unset, SetTimer
  <1>2. TypeOK' /\ SetMeansTick'
    BY Zenon DEF TimerInv, TypeOK, SetMeansTick, Fire, Unset, SetTimer
  <1>3. OneSender'
    BY <1>1 DEF TimerInv, OneSender
  <1> QED
    BY <1>2, <1>3 DEF TimerInv

\* Steps of babble and of the callers outside resetTimer.
LEMMA OutsideStep ==
    ASSUME TimerInv, TimerTick \/ Exit \/ \E c \in Handlers : Call(c)
    PROVE  TimerInv'
  <1>1. PICK p \in TimerProcs :
            /\ pc[p] \in {"wait", "idle"}
            /\ \E l \in {"lock", "exited"} : pc' = [pc EXCEPT ![p] = l]
    BY DEF TimerTick, Exit, Call, TimerProcs
  <1>2. UNCHANGED <<armed, isSet, coreLock>> /\ (timer' = timer \/ timer' = "unset")
    BY DEF TimerTick, Exit, Call
  <1>3. TypeOK' /\ SetMeansTick'
    BY <1>1, <1>2 DEF TimerInv, TypeOK, SetMeansTick
  <1>4. OneSender'
    BY <1>1, <1>2 DEF TimerInv, TypeOK, OneSender
  <1> QED
    BY <1>3, <1>4 DEF TimerInv

\* Steps inside resetTimer.
LEMMA ResetTimerStep ==
    ASSUME TimerInv, NEW p \in TimerProcs, ResetTimer(p)
    PROVE  TimerInv'
  <1>1. NoOne \notin TimerProcs /\ Home(p) \in {"wait", "idle"}
    BY ProcsAssumption DEF TimerProcs, Home
  <1>2. CASE Lock(p)
    BY <1>1, <1>2 DEF Lock, TimerInv, TypeOK, SetMeansTick, OneSender
  <1>3. CASE ReadSet(p)
    BY <1>1, <1>3 DEF ReadSet, TimerInv, TypeOK, SetMeansTick, OneSender
  <1>4. CASE ReadUnset(p)
    BY <1>1, <1>4 DEF ReadUnset, TimerInv, TypeOK, SetMeansTick, OneSender
  <1>5. CASE Reset(p)
    BY <1>1, <1>5 DEF Reset, TimerInv, TypeOK, SetMeansTick, OneSender
  <1> QED
    BY <1>2, <1>3, <1>4, <1>5 DEF ResetTimer

\* The invariant is inductive: every step of the goroutines around the timer
\* (control_timer.go, resetTimer in node.go) keeps it.
THEOREM TimerInductive == TimerSpec => []TimerInv
  <1>1. TimerInv /\ [TimerNext]_timerVars => TimerInv'
    <2> SUFFICES ASSUME TimerInv, [TimerNext]_timerVars PROVE TimerInv'
      OBVIOUS
    <2>1. CASE UNCHANGED timerVars
      BY <2>1 DEF timerVars, TimerInv, TypeOK, SetMeansTick, OneSender
    <2> QED
      BY <2>1, TimerStep, OutsideStep, ResetTimerStep DEF TimerNext
  <1> QED
    BY <1>1, TimerStart, PTL DEF TimerSpec

\* A timer that says it is set (controlTimer.isSet) has a tick to come, so a
\* resetTimer that leaves it alone stops no heartbeat.
THEOREM SetCorrect == TimerSpec => []SetMeansTick
  BY TimerInductive, PTL DEF TimerInv

\* Of all the goroutines in resetTimer, the one that holds coreLock is the only
\* one that reads isSet or sends on resetCh.
THEOREM SenderCorrect == TimerSpec => []OneSender
  BY TimerInductive, PTL DEF TimerInv
-----------------------------------------------------------------------------
(***************************************************************************)
(* AppProxy, for any number of attempts, blocks and snapshots.  A reply    *)
(* names the call it answers: that the application has got the block of    *)
(* that call needs that the calls of CommitBlock are numbered as the       *)
(* blocks are (Numbered).                                                  *)
(***************************************************************************)

CallSet == [pc : {"idle", "connect", "dial", "go", "wait", "close", "reset"},
            try : Nat, conn : Nat, arg : Nat, made : Nat]

AppTypes ==
    /\ caller \in [Methods -> CallSet]
    /\ rpc \in Nat /\ dialled \in Nat
    /\ app \in Seq(Nat)

\* The blocks that have reached the application.
Applied == {app[i] : i \in 1..Len(app)}

\* The number of a call of CommitBlock is the block it commits, so an answer to
\* it tells which block the application has got.
Numbered ==
    /\ "commit" \in Methods => caller["commit"].arg = caller["commit"].made
    /\ \A m \in unhandled : m.from = "commit" => m.arg = m.call /\ m.arg \in Nat
    /\ \A m \in replies : m.from = "commit" => m.call \in Applied

AppInv == AppTypes /\ Numbered /\ acked \subseteq Applied

\* Nothing was called when the proxy starts.
LEMMA AppStart == ProxyInit => AppInv
  BY DEF ProxyInit, Idle, AppInv, AppTypes, CallSet, Numbered, Applied

\* Caller c changes.
LEMMA CallerChange ==
    ASSUME caller \in [Methods -> CallSet], NEW c \in Methods, NEW d \in CallSet,
           caller' = [caller EXCEPT ![c] = d]
    PROVE  /\ caller' \in [Methods -> CallSet]
           /\ caller'[c] = d /\ \A k \in Methods : k # c => caller'[k] = caller[k]
  OBVIOUS

\* Caller c calls.
LEMMA CallBegins ==
    ASSUME AppTypes, NEW c \in Methods, NEW arg \in Nat, call(c, arg)
    PROVE  /\ caller' \in [Methods -> CallSet]
           /\ caller'[c].arg = arg /\ caller'[c].made = caller[c].made + 1
           /\ \A k \in Methods : k # c => caller'[k] = caller[k]
  <1>1. caller \in [Methods -> CallSet]
    BY DEF AppTypes
  <1>2. PICK n \in Nat : n = caller[c].made + 1
    BY <1>1 DEF CallSet
  <1> DEFINE d == [pc |-> "connect", try |-> 0, conn |-> caller[c].conn, arg |-> arg, made |-> n]
  <1>3. caller' = [caller EXCEPT ![c] = d]
    BY <1>2 DEF call
  <1>4. d \in CallSet /\ d.arg = arg /\ d.made = n
    BY <1>1 DEF CallSet
  <1> HIDE DEF d
  <1> QED
    BY <1>1, <1>2, <1>3, <1>4, CallerChange

\* A caller c moves, and says no more than before.
Moves(c) ==
    /\ caller'[c].arg = caller[c].arg /\ caller'[c].made = caller[c].made
    /\ \A d \in Methods : d # c => caller'[d] = caller[d]

LEMMA AppMove ==
    ASSUME AppInv, NEW c \in Methods, AppTypes', Moves(c), app' = app, replies' = replies,
           unhandled' \subseteq unhandled, acked' \subseteq Applied
    PROVE  AppInv'
  <1>1. Applied' = Applied
    BY DEF Applied
  <1>2. "commit" \in Methods => caller'["commit"].arg = caller'["commit"].made
    BY DEF Moves, AppInv, Numbered
  <1> QED
    BY <1>1, <1>2 DEF AppInv, Numbered

\* The steps of call that neither send a request nor return without an error.
LEMMA TryStep ==
    ASSUME AppInv, NEW c \in Methods,
           \/ getConnection(c) \/ Dial(c) \/ DialFails(c) \/ Fails(c)
           \/ Timeout(c) \/ Close(c) \/ ResetClient(c)
    PROVE  AppInv'
  <1> USE DEF At, Goto, Again, Panic
  <1>1. app' = app /\ replies' = replies /\ unhandled' = unhandled /\ acked' = acked
    BY DEF getConnection, Dial, DialFails, Fails, Timeout, Close, ResetClient
  <1>2. rpc' \in Nat /\ dialled' \in Nat
    BY DEF getConnection, Dial, DialFails, Fails, Timeout, Close,
         ResetClient, AppInv, AppTypes
  <1>3. \/ caller' = caller
        \/ \E s \in {"dial", "go", "close", "reset"} : caller' = [caller EXCEPT ![c].pc = s]
        \/ \E s \in {"connect", "idle"} :
              caller' = [caller EXCEPT ![c].try = @ + 1, ![c].pc = s]
    BY DEF getConnection, Dial, DialFails, Fails, Timeout, Close, ResetClient
  <1>4. caller' \in [Methods -> CallSet] /\ Moves(c)
    <2>1. caller \in [Methods -> CallSet] /\ caller[c] \in CallSet
      BY DEF AppInv, AppTypes
    <2>2. CASE caller' = caller
      BY <2>1, <2>2 DEF Moves
    <2>3. ASSUME NEW s \in {"dial", "go", "close", "reset"}, caller' = [caller EXCEPT ![c].pc = s]
          PROVE  caller' \in [Methods -> CallSet] /\ Moves(c)
      <3> DEFINE d == [caller[c] EXCEPT !.pc = s]
      <3>1. d \in CallSet /\ d.arg = caller[c].arg /\ d.made = caller[c].made
        BY <2>1 DEF CallSet
      <3>2. caller' = [caller EXCEPT ![c] = d]
        BY <2>3
      <3> HIDE DEF d
      <3> QED
        BY <2>1, <3>1, <3>2, CallerChange DEF Moves
    <2>4. ASSUME NEW s \in {"connect", "idle"},
                 caller' = [caller EXCEPT ![c].try = @ + 1, ![c].pc = s]
          PROVE  caller' \in [Methods -> CallSet] /\ Moves(c)
      <3>0. PICK n \in Nat : n = caller[c].try + 1
        BY <2>1 DEF CallSet
      <3> DEFINE d == [caller[c] EXCEPT !.try = n, !.pc = s]
      <3>1. d \in CallSet /\ d.arg = caller[c].arg /\ d.made = caller[c].made
        BY <2>1, Zenon DEF CallSet
      <3>2. caller' = [caller EXCEPT ![c] = d]
        BY <2>4, <3>0, Zenon
      <3> HIDE DEF d
      <3> QED
        BY <2>1, <3>1, <3>2, CallerChange DEF Moves
    <2> QED
      BY <1>3, <2>2, <2>3, <2>4
  <1>5. AppTypes'
    BY <1>1, <1>2, <1>4 DEF AppInv, AppTypes
  <1> QED
    BY <1>1, <1>4, <1>5, AppMove DEF AppInv

\* The request that Go sends carries the block of its call.
LEMMA GoStep ==
    ASSUME AppInv, NEW c \in Methods, Go(c)
    PROVE  AppInv'
  <1>1. CASE rpc = 0
    <2>1. UNCHANGED <<rpc, dialled, caller, unhandled, replies, app, acked>>
      BY <1>1 DEF Go, Panic
    <2> QED
      BY <2>1 DEF AppInv, AppTypes, Numbered, Applied
  <1>2. CASE rpc # 0
    <2> DEFINE r == [from |-> c, call |-> caller[c].made, try |-> caller[c].try,
                     conn |-> rpc, arg |-> caller[c].arg]
    <2>1. /\ UNCHANGED <<rpc, dialled, replies, app, acked>>
          /\ caller' = [caller EXCEPT ![c].pc = "wait", ![c].conn = rpc]
          /\ unhandled' \subseteq unhandled \cup {r}
      BY <1>2 DEF Go
    <2>2. AppTypes' /\ Moves(c) /\ Applied' = Applied
      BY <2>1, Zenon DEF AppInv, AppTypes, CallSet, Moves, Applied
    <2>3. r.from = c /\ r.call = caller[c].made /\ r.arg = caller[c].arg /\ r.arg \in Nat
      BY DEF AppInv, AppTypes, CallSet
    <2> HIDE DEF r
    <2>4. r.from = "commit" => r.arg = r.call /\ r.arg \in Nat
      BY <2>3 DEF AppInv, Numbered
    <2>5. "commit" \in Methods => caller'["commit"].arg = caller'["commit"].made
      BY <2>2 DEF Moves, AppInv, Numbered
    <2> QED
      BY <2>1, <2>2, <2>4, <2>5 DEF AppInv, Numbered
  <1> QED
    BY <1>1, <1>2

\* The reply that Done takes is the one to the call of its block.
LEMMA DoneStep ==
    ASSUME AppInv, NEW c \in Methods, Done(c)
    PROVE  AppInv'
  <1>1. /\ UNCHANGED <<rpc, dialled, unhandled, replies, app>>
        /\ caller' = [caller EXCEPT ![c].pc = "idle"]
        /\ acked' = IF c = "commit" THEN acked \cup {caller[c].arg} ELSE acked
    BY DEF Done, Goto
  <1>2. PICK m \in replies : m.from = c /\ m.call = caller[c].made
    BY DEF Done, Answers
  <1>3. c = "commit" => caller[c].arg \in Applied
    BY <1>2 DEF AppInv, Numbered
  <1>4. AppTypes' /\ Moves(c)
    BY <1>1, Zenon DEF AppInv, AppTypes, CallSet, Moves
  <1>5. acked' \subseteq Applied
    BY <1>1, <1>3 DEF AppInv
  <1> QED
    BY <1>1, <1>4, <1>5, AppMove

\* A call begins.
LEMMA BeginCall ==
    ASSUME AppInv, CommitBlock \/ GetSnapshot
    PROVE  AppInv'
  <1>1. UNCHANGED <<rpc, dialled, unhandled, replies, app, acked>>
    BY DEF CommitBlock, GetSnapshot
  <1>2. Applied' = Applied /\ Applied \subseteq Nat
    BY <1>1 DEF Applied, AppInv, AppTypes
  <1>3. CASE CommitBlock
    <2> DEFINE n == caller["commit"].arg + 1
    <2>1. "commit" \in Methods /\ call("commit", n)
      BY <1>3 DEF CommitBlock
    <2>2. n \in Nat /\ n = caller["commit"].made + 1
      BY <2>1 DEF AppInv, AppTypes, CallSet, Numbered
    <2> HIDE DEF n
    <2>3. /\ caller' \in [Methods -> CallSet]
          /\ caller'["commit"].arg = n /\ caller'["commit"].made = n
      BY <2>1, <2>2, CallBegins DEF AppInv
    <2>4. AppTypes'
      BY <1>1, <2>3 DEF AppInv, AppTypes
    <2> QED
      BY <1>1, <1>2, <2>3, <2>4 DEF AppInv, Numbered
  <1>4. CASE GetSnapshot
    <2>1. "snapshot" \in Methods /\ \E i \in acked : call("snapshot", i)
      BY <1>4 DEF GetSnapshot
    <2>2. PICK i \in acked : call("snapshot", i)
      BY <2>1
    <2>3. i \in Nat
      BY <1>2 DEF AppInv
    <2>4. /\ caller' \in [Methods -> CallSet]
          /\ "commit" \in Methods => caller'["commit"] = caller["commit"]
      BY <2>1, <2>2, <2>3, CallBegins DEF AppInv
    <2>5. AppTypes'
      BY <1>1, <2>4 DEF AppInv, AppTypes
    <2> QED
      BY <1>1, <1>2, <2>4, <2>5 DEF AppInv, Numbered
  <1> QED
    BY <1>3, <1>4

\* The application handles a request.
LEMMA HandleStep ==
    ASSUME AppInv, Handle
    PROVE  AppInv'
  <1>1. PICK m \in unhandled : /\ CommitHandler(m) \/ SnapshotHandler(m)
                              /\ unhandled' = unhandled \ {m}
    BY DEF Handle
  <1>2. UNCHANGED <<rpc, dialled, caller, acked>>
    BY DEF Handle
  <1>3. CASE CommitHandler(m)
    <2>1. m.from = "commit" /\ m.arg = m.call /\ m.arg \in Nat /\ app' = Append(app, m.arg)
      BY <1>3 DEF CommitHandler, AppInv, Numbered
    <2>2. AppTypes'
      BY <1>2, <2>1 DEF AppInv, AppTypes
    <2>3. Applied \subseteq Applied' /\ m.call \in Applied'
      <3>1. app \in Seq(Nat) /\ Len(app) \in Nat
        BY DEF AppInv, AppTypes
      <3>2. Len(app') = Len(app) + 1 /\ app'[Len(app) + 1] = m.arg
            /\ \A i \in 1..Len(app) : app'[i] = app[i]
        BY <2>1, <3>1
      <3> QED
        BY <2>1, <3>1, <3>2 DEF Applied
    <2>4. \A r \in replies' : r \in replies \/ r.call = m.call
      BY <1>3 DEF CommitHandler, Respond
    <2> QED
      BY <1>1, <1>2, <2>2, <2>3, <2>4 DEF AppInv, Numbered
  <1>4. CASE SnapshotHandler(m)
    <2>1. m.from = "snapshot" /\ app' = app
      BY <1>4 DEF SnapshotHandler
    <2>2. \A r \in replies' : r \in replies \/ r.from = "snapshot"
      BY <1>4, <2>1 DEF SnapshotHandler, Respond
    <2>3. AppTypes' /\ Applied' = Applied
      BY <1>2, <2>1 DEF AppInv, AppTypes, Applied
    <2> QED
      BY <1>1, <1>2, <2>2, <2>3 DEF AppInv, Numbered
  <1> QED
    BY <1>1, <1>3, <1>4

\* A connection breaks.
LEMMA BreakStep ==
    ASSUME AppInv, Break
    PROVE  AppInv'
  <1>1. UNCHANGED <<rpc, dialled, caller, replies, app, acked>> /\ unhandled' \subseteq unhandled
    BY DEF Break
  <1>2. AppTypes' /\ Applied' = Applied
    BY <1>1 DEF AppInv, AppTypes, Applied
  <1> QED
    BY <1>1, <1>2 DEF AppInv, Numbered

\* A block whose CommitBlock returned without an error has reached the
\* CommitHandler (SocketAppProxyClient.call), however many attempts timed out
\* and whatever the other caller did to the connection.
THEOREM AckedCorrect == ProxySpec => []AckedIsApplied
  <1>1. AppInv /\ [ProxyNext]_proxyVars => AppInv'
    <2> SUFFICES ASSUME AppInv, [ProxyNext]_proxyVars PROVE AppInv'
      OBVIOUS
    <2>1. CASE UNCHANGED proxyVars
      BY <2>1 DEF proxyVars, AppInv, AppTypes, Numbered, Applied
    <2>2. ASSUME NEW c \in Methods, Client(c) PROVE AppInv'
      BY <2>2, TryStep, GoStep, DoneStep DEF Client
    <2> QED
      BY <2>1, <2>2, BeginCall, HandleStep, BreakStep DEF ProxyNext
  <1>2. AppInv => AckedIsApplied
    BY DEF AppInv, AppTypes, Applied, AckedIsApplied, Range
  <1> QED
    BY <1>1, <1>2, AppStart, PTL DEF ProxySpec
=============================================================================
