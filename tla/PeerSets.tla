------------------------------ MODULE PeerSets ------------------------------
(***************************************************************************)
(* Peer-sets and the cache that maps consensus rounds to them.             *)
(*                                                                         *)
(* A peer-set (src/peers/peer_set.go) is modelled by the set of its        *)
(* members' public keys.  A PeerSetCache (src/hashgraph/caches.go) is a    *)
(* function whose domain is the set of rounds at which a peer-set was      *)
(* recorded.                                                               *)
(***************************************************************************)
EXTENDS Integers, FiniteSets

\* PeerSet.SuperMajority: strictly more than two thirds of the members.
SuperMajority(P) == (2 * Cardinality(P)) \div 3 + 1

\* PeerSet.TrustCount: a third of the members, rounded up; 0 for a peer alone.
TrustCount(P) == IF Cardinality(P) > 1 THEN (Cardinality(P) + 2) \div 3 ELSE 0

\* PeerSet.WithNewPeer: adding a member twice changes nothing.
WithNewPeer(P, p) == P \cup {p}

\* PeerSet.WithRemovedPeer.
WithRemovedPeer(P, p) == P \ {p}

-----------------------------------------------------------------------------

\* The recorded round that governs round r: the latest one not above r, or the
\* first one when r precedes them all.
GoverningRound(ps, r) ==
    IF \E k \in DOMAIN ps : k <= r
    THEN CHOOSE k \in DOMAIN ps : k <= r /\ \A m \in DOMAIN ps : m <= r => m <= k
    ELSE CHOOSE k \in DOMAIN ps : \A m \in DOMAIN ps : k <= m

\* PeerSetCache.Get: the peer-set of round r.
PeerSetAt(ps, r) == ps[GoverningRound(ps, r)]

\* PeerSetCache.Set: a second peer-set for the same round is refused
\* (KeyAlreadyExists).
SetPeerSet(ps, r, P) ==
    IF r \in DOMAIN ps
    THEN ps
    ELSE [k \in DOMAIN ps \cup {r} |-> IF k = r THEN P ELSE ps[k]]

\* PeerSetCache.RepertoireByPubKey: everyone who belongs to some peer-set.
Repertoire(ps) == UNION {ps[k] : k \in DOMAIN ps}

\* PeerSetCache.FirstRound <= r: p was a member of a peer-set recorded at or
\* before round r.
AddedBy(ps, p, r) == \E k \in DOMAIN ps : k <= r /\ p \in ps[k]
=============================================================================
