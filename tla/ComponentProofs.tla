-------------------------- MODULE ComponentProofs ---------------------------
(***************************************************************************)
(* Theorems about the components that stand on their own, for every value  *)
(* of their constants: the election of a witness (FameElection), the cache *)
(* of a participant's events (RollingIndex), the goroutines of a node and  *)
(* its shutdown (NodeState), and the connections of the transport          *)
(* (Transport).  No proof uses the fairness of a specification.            *)
(***************************************************************************)
EXTENDS FameElection, RollingIndex, NodeState, Transport, FiniteSetTheorems, TLAPS

-----------------------------------------------------------------------------
(***************************************************************************)
(* FameElection, for any peer-sets and any coin frequency.                 *)
(***************************************************************************)

\* Of any peer-set, a super-majority is more than two thirds.
LEMMA SuperMajorityBound ==
    ASSUME NEW P, IsFiniteSet(P)
    PROVE  /\ SuperMajority(P) \in Nat \ {0}
           /\ Cardinality(P) \in Nat
           /\ 3 * SuperMajority(P) > 2 * Cardinality(P)
  <1> DEFINE n == Cardinality(P)
  <1>1. n \in Nat
    BY FS_CardinalityType
  <1>2. /\ (2 * n) \div 3 + 1 \in Nat \ {0}
        /\ 3 * ((2 * n) \div 3 + 1) > 2 * n
    BY <1>1
  <1> QED
    BY <1>1, <1>2 DEF SuperMajority

\* The super-majority of a round is a number, above two thirds of its peers.
LEMMA QuorumBound ==
    ASSUME NEW d \in 1..MaxDiff
    PROVE  /\ IsFiniteSet(PeersAt[d])
           /\ Quorum(d) \in Nat \ {0}
           /\ Cardinality(PeersAt[d]) \in Nat
           /\ 3 * Quorum(d) > 2 * Cardinality(PeersAt[d])
  <1>1. IsFiniteSet(PeersAt[d])
    BY FS_Subset, PeersAssumption
  <1> QED
    BY <1>1, SuperMajorityBound DEF Quorum

\* The two camps are disjoint and belong to the peer-set of the round.
LEMMA CampsBound ==
    ASSUME ElectionTypeOK
    PROVE  /\ Cardinality(Ayes) \in Nat
           /\ Cardinality(Noes) \in Nat
           /\ Cardinality(Ayes) + Cardinality(Noes)
                <= Cardinality(PeersAt[diff])
  <1> DEFINE T == Ayes
             F == Noes
             P == PeersAt[diff]
  <1>1. IsFiniteSet(P)
    BY QuorumBound DEF ElectionTypeOK
  <1>2. /\ T \subseteq P
        /\ F \subseteq P
        /\ T \cap F = {}
        /\ T \cup F \subseteq P
    BY DEF ElectionTypeOK, Ayes, Noes, Voters
  <1>3. /\ IsFiniteSet(T)
        /\ IsFiniteSet(F)
    BY <1>1, <1>2, FS_Subset
  <1>4. Cardinality(T \cup F) <= Cardinality(P)
    BY <1>1, <1>2, FS_Subset
  <1>5. Cardinality(T \cup F) = Cardinality(T) + Cardinality(F) - Cardinality(T \cap F)
    BY <1>3, FS_Union
  <1>6. Cardinality(T \cap F) = 0
    BY <1>2, FS_EmptySet
  <1>7. /\ Cardinality(T) \in Nat
        /\ Cardinality(F) \in Nat
        /\ Cardinality(P) \in Nat
    BY <1>1, <1>3, FS_CardinalityType
  <1> QED
    BY <1>4, <1>5, <1>6, <1>7

-----------------------------------------------------------------------------

VoteOf(b) == Vote(b.yays, b.nays, diff + 1, Quorum(diff + 1), b.bit)
IsDecider(b) == Decides(b.yays, b.nays, diff + 1, Quorum(diff + 1))

\* What a ballot counts is bounded by the two camps, and reaches the quorum.
LEMMA BallotType ==
    ASSUME ElectionTypeOK, NEW b \in Ballots
    PROVE  /\ b.yays \in Nat
           /\ b.nays \in Nat
           /\ b.bit \in BOOLEAN
           /\ b.yays <= Cardinality(Ayes)
           /\ b.nays <= Cardinality(Noes)
           /\ b.yays + b.nays >= Quorum(diff)
  BY CampsBound DEF Ballots

\* A camp with a super-majority of the voters has the majority of any
\* super-majority of them.
LEMMA CampArithmetic ==
    ASSUME NEW n \in Nat, NEW q \in Nat, NEW T \in Nat, NEW F \in Nat,
           NEW y \in Nat, NEW m \in Nat,
           3 * q > 2 * n, T + F <= n, y <= T, m <= F, y + m >= q
    PROVE  /\ T >= q => y > m
           /\ F >= q => m > y
  OBVIOUS

\* When the voters of a round all vote v, so do all the witnesses of the next
\* one: a coin is not tossed, because the super-majority did not grow.
LEMMA UnanimityPersists ==
    ASSUME ElectionTypeOK, SafePeerSets, diff < MaxDiff,
           NEW v \in BOOLEAN, \A w \in Voters : votes[w] = v,
           NEW b \in Ballots
    PROVE  VoteOf(b) = v
  <1>1. /\ diff \in 1..MaxDiff
        /\ diff + 1 \in 1..MaxDiff
        /\ diff + 1 <= MaxDiff
    BY MaxDiffAssumption DEF ElectionTypeOK
  <1>2. /\ Quorum(diff) \in Nat \ {0}
        /\ Quorum(diff + 1) \in Nat
        /\ CoinRound(diff + 1) => Quorum(diff + 1) <= Quorum(diff)
    BY <1>1, QuorumBound DEF SafePeerSets
  <1>3. /\ b.yays \in Nat
        /\ b.nays \in Nat
        /\ b.yays <= Cardinality(Ayes)
        /\ b.nays <= Cardinality(Noes)
        /\ b.yays + b.nays >= Quorum(diff)
    BY BallotType
  <1>4. CASE v = TRUE
    <2>1. Noes = {}
      BY <1>4, Zenon DEF Noes
    <2>2. Cardinality(Noes) = 0
      BY <2>1, FS_EmptySet
    <2>3. b.nays = 0
      BY <1>3, <2>2
    <2>4. Majority(b.yays, b.nays)
      BY <1>3, <2>3 DEF Majority
    <2>5. Tally(b.yays, b.nays) = b.yays
      BY <2>4 DEF Tally
    <2>6. ~(CoinRound(diff + 1) /\ Tally(b.yays, b.nays) < Quorum(diff + 1))
      BY <1>2, <1>3, <2>3, <2>5
    <2>7. VoteOf(b) = Majority(b.yays, b.nays)
      BY <2>6 DEF VoteOf, Vote
    <2> QED
      BY <1>4, <2>4, <2>7, Zenon DEF Majority
  <1>5. CASE v = FALSE
    <2>1. Ayes = {}
      BY <1>5 DEF Ayes
    <2>2. Cardinality(Ayes) = 0
      BY <2>1, FS_EmptySet
    <2>3. b.yays = 0
      BY <1>3, <2>2
    <2>4. ~Majority(b.yays, b.nays)
      BY <1>2, <1>3, <2>3 DEF Majority
    <2>5. Tally(b.yays, b.nays) = b.nays
      BY <2>4 DEF Tally
    <2>6. ~(CoinRound(diff + 1) /\ Tally(b.yays, b.nays) < Quorum(diff + 1))
      BY <1>2, <1>3, <2>3, <2>5
    <2>7. VoteOf(b) = Majority(b.yays, b.nays)
      BY <2>6 DEF VoteOf, Vote
    <2> QED
      BY <1>5, <2>4, <2>7 DEF Majority
  <1> QED
    BY <1>4, <1>5, Zenon

\* When one witness of a round decides, the others vote as it does: more than
\* two thirds of the previous voters are in its camp, and every witness counts
\* the votes of more than two thirds of them.
LEMMA DeciderConvinces ==
    ASSUME ElectionTypeOK, SafePeerSets, diff < MaxDiff,
           NEW c \in Ballots, IsDecider(c),
           NEW b \in Ballots
    PROVE  VoteOf(b) = VoteOf(c)
  <1> DEFINE q == Quorum(diff)
             n == Cardinality(PeersAt[diff])
             T == Cardinality(Ayes)
             F == Cardinality(Noes)
  <1>1. /\ diff \in 1..MaxDiff
        /\ diff + 1 \in 1..MaxDiff
        /\ diff + 1 <= MaxDiff
    BY MaxDiffAssumption DEF ElectionTypeOK
  <1>2. ~CoinRound(diff + 1)
    BY DEF IsDecider, Decides
  <1>3. /\ q \in Nat
        /\ n \in Nat
        /\ 3 * q > 2 * n
        /\ Quorum(diff + 1) \in Nat
        /\ q <= Quorum(diff + 1)
    BY <1>1, <1>2, QuorumBound DEF SafePeerSets
  <1>4. /\ T \in Nat
        /\ F \in Nat
        /\ T + F <= n
    BY CampsBound
  <1>5. /\ VoteOf(b) = Majority(b.yays, b.nays)
        /\ VoteOf(c) = Majority(c.yays, c.nays)
    BY <1>2 DEF VoteOf, Vote
  <1>6. Tally(c.yays, c.nays) >= Quorum(diff + 1)
    BY DEF IsDecider, Decides
  <1>7. /\ b.yays \in Nat /\ b.nays \in Nat
        /\ b.yays <= T /\ b.nays <= F
        /\ b.yays + b.nays >= q
        /\ c.yays \in Nat /\ c.nays \in Nat
        /\ c.yays <= T /\ c.nays <= F
    BY BallotType
  <1>8. /\ T >= q => b.yays > b.nays
        /\ F >= q => b.nays > b.yays
    <2> HIDE DEF q, n, T, F
    <2> QED
      BY <1>3, <1>4, <1>7, CampArithmetic
  <1>9. CASE Majority(c.yays, c.nays)
    <2>1. Tally(c.yays, c.nays) = c.yays
      BY <1>9 DEF Tally
    <2>2. T >= q
      <3>1. c.yays >= Quorum(diff + 1)
        BY <2>1, <1>6
      <3> HIDE DEF q, n, T, F
      <3> QED
        BY <3>1, <1>3, <1>4, <1>7
    <2> QED
      BY <2>2, <1>5, <1>7, <1>8, <1>9 DEF Majority
  <1>10. CASE ~Majority(c.yays, c.nays)
    <2>1. Tally(c.yays, c.nays) = c.nays
      BY <1>10 DEF Tally
    <2>2. F >= q
      <3>1. c.nays >= Quorum(diff + 1)
        BY <2>1, <1>6
      <3> HIDE DEF q, n, T, F
      <3> QED
        BY <3>1, <1>3, <1>4, <1>7
    <2> QED
      BY <2>2, <1>5, <1>7, <1>8, <1>10 DEF Majority
  <1> QED
    BY <1>9, <1>10

-----------------------------------------------------------------------------

\* The steps of NextRound in terms of the abbreviations above.
LEMMA NextRoundFacts ==
    ASSUME ElectionTypeOK, ElectionNext
    PROVE  /\ diff < MaxDiff
           /\ diff' = diff + 1
           /\ lateWitness' = lateWitness
           /\ \E ballot : /\ DOMAIN ballot \subseteq PeersAt[diff + 1]
                          /\ \A y \in DOMAIN ballot : ballot[y] \in Ballots
                          /\ votes' = [y \in DOMAIN ballot |-> VoteOf(ballot[y])]
                          /\ fame' = fame \cup {v \in BOOLEAN :
                                 \E y \in DOMAIN ballot :
                                     IsDecider(ballot[y]) /\ VoteOf(ballot[y]) = v}
  <1>1. PICK W \in SUBSET PeersAt[diff + 1] :
            \E ballot \in [W -> Ballots] : NextRound(ballot)
    BY DEF ElectionNext
  <1>2. PICK ballot \in [W -> Ballots] : NextRound(ballot)
    BY <1>1
  <1> QED
    BY <1>1, <1>2 DEF ElectionNext, NextRound, VoteOf, IsDecider

\* A vote is a Boolean.
LEMMA VoteType ==
    ASSUME ElectionTypeOK, NEW b \in Ballots
    PROVE  VoteOf(b) \in BOOLEAN
  <1>1. b.bit \in BOOLEAN
    BY BallotType
  <1>2. Majority(b.yays, b.nays) \in BOOLEAN
    BY DEF Majority
  <1> QED
    BY <1>1, <1>2, Zenon DEF VoteOf, Vote

\* The election keeps its types: witnesses vote in the peer-set of their round.
THEOREM ElectionTypeCorrect == ElectionSpec => []ElectionTypeOK
  <1>1. ElectionInit => ElectionTypeOK
    <2> SUFFICES ASSUME ElectionInit PROVE ElectionTypeOK
      OBVIOUS
    <2>1. PICK W \in SUBSET PeersAt[1] : votes \in [W -> BOOLEAN]
      BY DEF ElectionInit
    <2> QED
      BY <2>1, MaxDiffAssumption DEF ElectionInit, ElectionTypeOK, Voters
  <1>2. ElectionTypeOK /\ [ElectionNext]_electionVars => ElectionTypeOK'
    <2> SUFFICES ASSUME ElectionTypeOK, [ElectionNext]_electionVars PROVE ElectionTypeOK'
      OBVIOUS
    <2>1. CASE ElectionNext
      <3>1. PICK ballot :
               /\ DOMAIN ballot \subseteq PeersAt[diff + 1]
               /\ \A y \in DOMAIN ballot : ballot[y] \in Ballots
               /\ votes' = [y \in DOMAIN ballot |-> VoteOf(ballot[y])]
               /\ fame' = fame \cup {v \in BOOLEAN :
                      \E y \in DOMAIN ballot :
                          IsDecider(ballot[y]) /\ VoteOf(ballot[y]) = v}
        BY <2>1, NextRoundFacts
      <3>2. diff' = diff + 1 /\ diff' \in 1..MaxDiff
        BY <2>1, NextRoundFacts, MaxDiffAssumption DEF ElectionTypeOK
      <3>3. DOMAIN votes' = DOMAIN ballot
        BY <3>1
      <3>4. \A y \in DOMAIN ballot : votes'[y] \in BOOLEAN
        BY <3>1, VoteType
      <3>5. votes' \in [DOMAIN votes' -> BOOLEAN]
        BY <3>1, <3>3, <3>4
      <3>6. fame' \subseteq BOOLEAN
        BY <3>1 DEF ElectionTypeOK
      <3> QED
        BY <2>1, <3>1, <3>2, <3>3, <3>5, <3>6, NextRoundFacts DEF ElectionTypeOK, Voters
    <2>2. CASE UNCHANGED electionVars
      BY <2>2 DEF electionVars, ElectionTypeOK, Voters
    <2> QED
      BY <2>1, <2>2
  <1> QED
    BY <1>1, <1>2, PTL DEF ElectionSpec

-----------------------------------------------------------------------------

\* The inductive invariant of the election.  FameAgreement is not inductive
\* alone: that a later witness cannot decide otherwise rests on every vote
\* being in favour of what was decided.
ElectionInv == ElectionTypeOK /\ FameAgreement /\ DecisionIsFinal

\* The invariant holds initially: nothing is decided.
LEMMA InitElectionInv == ElectionInit => ElectionInv
  <1> SUFFICES ASSUME ElectionInit PROVE ElectionInv
    OBVIOUS
  <1>1. PICK W \in SUBSET PeersAt[1] : votes \in [W -> BOOLEAN]
    BY DEF ElectionInit
  <1> QED
    BY <1>1, MaxDiffAssumption
    DEF ElectionInit, ElectionInv, ElectionTypeOK, Voters, FameAgreement, DecisionIsFinal

\* A round of witnesses keeps the invariant, when the peer-sets are safe.
LEMMA NextElectionInv ==
    ASSUME SafePeerSets, ElectionInv, ElectionTypeOK', ElectionNext
    PROVE  FameAgreement' /\ DecisionIsFinal'
  <1>1. PICK ballot :
           /\ DOMAIN ballot \subseteq PeersAt[diff + 1]
           /\ \A y \in DOMAIN ballot : ballot[y] \in Ballots
           /\ votes' = [y \in DOMAIN ballot |-> VoteOf(ballot[y])]
           /\ fame' = fame \cup {v \in BOOLEAN :
                  \E y \in DOMAIN ballot :
                      IsDecider(ballot[y]) /\ VoteOf(ballot[y]) = v}
    BY NextRoundFacts DEF ElectionInv
  <1>2. diff < MaxDiff
    BY NextRoundFacts DEF ElectionInv
  \* Every witness of the new round votes for whatever is decided by then.
  <1>3. ASSUME NEW v \in fame', NEW y \in DOMAIN ballot
        PROVE  VoteOf(ballot[y]) = v
    <2>1. CASE v \in fame
      <3>1. /\ v \in BOOLEAN
            /\ \A w \in Voters : votes[w] = v
        BY <2>1 DEF ElectionInv, ElectionTypeOK, DecisionIsFinal
      <3> QED
        BY <3>1, <1>1, <1>2, UnanimityPersists DEF ElectionInv
    <2>2. CASE \E z \in DOMAIN ballot : IsDecider(ballot[z]) /\ VoteOf(ballot[z]) = v
      BY <2>2, <1>1, <1>2, DeciderConvinces DEF ElectionInv
    <2> QED
      BY <2>1, <2>2, <1>1
  <1>4. FameAgreement'
    <2> SUFFICES ASSUME NEW u \in fame', NEW v \in fame' PROVE u = v
      BY DEF FameAgreement
    <2>1. CASE DOMAIN ballot = {}
      BY <2>1, <1>1 DEF ElectionInv, FameAgreement
    <2>2. CASE DOMAIN ballot # {}
      BY <2>2, <1>3
    <2> QED
      BY <2>1, <2>2
  <1>5. DecisionIsFinal'
    <2> SUFFICES ASSUME NEW v \in fame', NEW y \in Voters' PROVE votes'[y] = v
      BY DEF DecisionIsFinal
    <2>1. y \in DOMAIN ballot /\ votes'[y] = VoteOf(ballot[y])
      BY <1>1 DEF Voters
    <2> QED
      BY <2>1, <1>3
  <1> QED
    BY <1>4, <1>5

\* ElectionInv is an inductive invariant of the election.
LEMMA ElectionInductive ==
    ASSUME SafePeerSets
    PROVE  ElectionSpec => []ElectionInv
  <1>1. ElectionTypeOK /\ ElectionTypeOK' /\ ElectionInv /\ [ElectionNext]_electionVars
            => ElectionInv'
    <2> SUFFICES ASSUME ElectionTypeOK', ElectionInv, [ElectionNext]_electionVars
                 PROVE  ElectionInv'
      OBVIOUS
    <2>1. CASE ElectionNext
      BY <2>1, NextElectionInv DEF ElectionInv
    <2>2. CASE UNCHANGED electionVars
      BY <2>2 DEF electionVars, ElectionInv, ElectionTypeOK, Voters, FameAgreement, DecisionIsFinal
    <2> QED
      BY <2>1, <2>2
  <1> QED
    BY <1>1, InitElectionInv, ElectionTypeCorrect, PTL DEF ElectionSpec

\* No two nodes decide the fame of a witness differently, for every number of
\* peers and every coin frequency, as long as the peer-sets of the rounds the
\* election spans are safe (in particular when they do not change).
THEOREM Agreement == SafePeerSets => (ElectionSpec => []FameAgreement)
  <1> SUFFICES ASSUME SafePeerSets PROVE ElectionSpec => []FameAgreement
    OBVIOUS
  <1>1. ElectionInv => FameAgreement
    BY DEF ElectionInv
  <1> QED
    BY <1>1, ElectionInductive, PTL

\* A decided fame is final: it is the vote of every later witness.
THEOREM Finality == SafePeerSets => (ElectionSpec => []DecisionIsFinal)
  <1> SUFFICES ASSUME SafePeerSets PROVE ElectionSpec => []DecisionIsFinal
    OBVIOUS
  <1>1. ElectionInv => DecisionIsFinal
    BY DEF ElectionInv
  <1> QED
    BY <1>1, ElectionInductive, PTL

-----------------------------------------------------------------------------

\* The inductive invariant of the election of a late witness: from the second
\* round on, every vote is a no.
LateInv ==
    /\ ElectionTypeOK
    /\ lateWitness /\ diff = 1 => Cardinality(Noes) >= Quorum(1)
    /\ lateWitness /\ diff > 1 => \A w \in Voters : ~votes[w]
    /\ LateWitnessNeverFamous

\* The second round of an election is not a coin round.
LEMMA SecondRoundIsNormal == ~CoinRound(2)
  BY CoinAssumption DEF CoinRound

\* A no of a super-majority of the first voters is a no of everyone after.
LEMMA LateVote ==
    ASSUME SafePeerSets, LateInv, lateWitness, diff < MaxDiff, NEW b \in Ballots
    PROVE  ~VoteOf(b)
  <1>1. CASE diff = 1
    <2>1. VoteOf(b) = Majority(b.yays, b.nays)
      BY <1>1, SecondRoundIsNormal DEF VoteOf, Vote
    <2>2. b.nays > b.yays
      <3> DEFINE q == Quorum(1)
                 n == Cardinality(PeersAt[1])
                 T == Cardinality(Ayes)
                 F == Cardinality(Noes)
      <3>1. q \in Nat /\ n \in Nat /\ 3 * q > 2 * n
        BY MaxDiffAssumption, QuorumBound
      <3>2. T \in Nat /\ F \in Nat /\ T + F <= n /\ F >= q
        BY <1>1, CampsBound DEF LateInv
      <3>3. /\ b.yays \in Nat /\ b.nays \in Nat
            /\ b.yays <= T /\ b.nays <= F /\ b.yays + b.nays >= q
        BY <1>1, BallotType DEF LateInv
      <3> HIDE DEF q, n, T, F
      <3> QED
        BY <3>1, <3>2, <3>3, CampArithmetic
    <2>3. b.yays \in Nat /\ b.nays \in Nat
      BY BallotType DEF LateInv
    <2>4. ~(b.yays >= b.nays)
      BY <2>2, <2>3
    <2> QED
      BY <2>1, <2>4, Zenon DEF Majority
  <1>2. CASE diff > 1
    <2>1. \A w \in Voters : votes[w] = FALSE
      BY <1>2 DEF LateInv, ElectionTypeOK
    <2>2. VoteOf(b) = FALSE
      BY <2>1, UnanimityPersists, Zenon DEF LateInv
    <2> QED
      BY <2>2, Zenon
  <1>3. diff = 1 \/ diff > 1
    BY DEF LateInv, ElectionTypeOK
  <1> QED
    BY <1>1, <1>2, <1>3, Zenon

\* A witness that a super-majority of the next round does not see is never
\* decided famous, so the round it comes late to may be closed without it.
THEOREM LateWitness == SafePeerSets => (ElectionSpec => []LateWitnessNeverFamous)
  <1> SUFFICES ASSUME SafePeerSets PROVE ElectionSpec => []LateWitnessNeverFamous
    OBVIOUS
  <1>1. ElectionInit => LateInv
    <2> SUFFICES ASSUME ElectionInit PROVE LateInv
      OBVIOUS
    <2>1. ElectionTypeOK
      BY InitElectionInv DEF ElectionInv
    <2>2. diff = 1 /\ TRUE \notin fame
      BY DEF ElectionInit
    <2>3. lateWitness => Cardinality(Noes) >= Quorum(1)
      BY Zenon DEF ElectionInit
    <2>4. ~(diff > 1)
      BY <2>2
    <2> QED
      BY <2>1, <2>2, <2>3, <2>4, Zenon DEF LateInv, LateWitnessNeverFamous
  <1>2. ElectionTypeOK' /\ LateInv /\ [ElectionNext]_electionVars => LateInv'
    <2> SUFFICES ASSUME ElectionTypeOK', LateInv, [ElectionNext]_electionVars PROVE LateInv'
      OBVIOUS
    <2>1. CASE ElectionNext /\ lateWitness
      <3>1. PICK ballot :
               /\ DOMAIN ballot \subseteq PeersAt[diff + 1]
               /\ \A y \in DOMAIN ballot : ballot[y] \in Ballots
               /\ votes' = [y \in DOMAIN ballot |-> VoteOf(ballot[y])]
               /\ fame' = fame \cup {v \in BOOLEAN :
                      \E y \in DOMAIN ballot :
                          IsDecider(ballot[y]) /\ VoteOf(ballot[y]) = v}
        BY <2>1, NextRoundFacts DEF LateInv
      <3>2. diff < MaxDiff /\ diff' = diff + 1
        BY <2>1, NextRoundFacts DEF LateInv
      <3>3. \A y \in DOMAIN ballot : ~VoteOf(ballot[y])
        BY <2>1, <3>1, <3>2, LateVote
      <3>4. \A w \in Voters' : ~votes'[w]
        BY <3>1, <3>3 DEF Voters
      <3>5. TRUE \notin fame'
        BY <2>1, <3>1, <3>3, Zenon DEF LateInv, LateWitnessNeverFamous
      <3>6. diff' # 1
        BY <3>2 DEF LateInv, ElectionTypeOK
      <3> QED
        BY <3>4, <3>5, <3>6, Zenon DEF LateInv, LateWitnessNeverFamous
    <2>2. CASE ElectionNext /\ ~lateWitness
      <3>1. ~lateWitness'
        BY <2>2, NextRoundFacts DEF LateInv
      <3> QED
        BY <3>1, Zenon DEF LateInv, LateWitnessNeverFamous
    <2>3. CASE UNCHANGED electionVars
      BY <2>3, Zenon DEF electionVars, LateInv, ElectionTypeOK, Voters, Noes, LateWitnessNeverFamous
    <2> QED
      BY <2>1, <2>2, <2>3
  <1>3. LateInv => LateWitnessNeverFamous
    BY DEF LateInv
  <1> QED
    BY <1>1, <1>2, <1>3, ElectionTypeCorrect, PTL DEF ElectionSpec

-----------------------------------------------------------------------------
(***************************************************************************)
(* RollingIndex, for every capacity, item and bound.                       *)
(*                                                                         *)
(* WindowOfLog is inductive together with the types.  KeepsHalf is not: a  *)
(* short cache that has forgotten something would lose it.  What holds is  *)
(* that a cache that has forgotten something is at least half full.        *)
(***************************************************************************)

Forgetful == \E i \in DOMAIN written : i < OldestCachedIndex

HalfFull == Forgetful => Len(items) >= Size \div 2

CacheInv == CacheTypeOK /\ WindowOfLog /\ HalfFull

\* What roll leaves of a cache: a suffix, at most half of which is gone.
LEMMA RollIsSuffix ==
    ASSUME items \in Seq(Item), items # <<>>
    PROVE  /\ Roll \in Seq(Item)
           /\ Len(Roll) <= Len(items)
           /\ \A k \in 1..Len(Roll) : Roll[k] = items[Len(items) - Len(Roll) + k]
           /\ Len(Roll) < Len(items) =>
                 /\ Len(items) >= Size
                 /\ Len(Roll) = Len(items) - Size \div 2
  <1>1. CASE Len(items) >= Size
    <2>1. Size \div 2 \in Nat /\ Size \div 2 <= Len(items) /\ Len(items) \in Nat
      BY <1>1, SizeAssumption
    <2>2. Roll = SubSeq(items, Size \div 2 + 1, Len(items))
      BY <1>1, Zenon DEF Roll
    <2>3. /\ Roll \in Seq(Item)
          /\ Len(Roll) = Len(items) - Size \div 2
          /\ \A k \in 1..Len(Roll) : Roll[k] = items[Size \div 2 + k]
      BY <2>1, <2>2
    <2> QED
      BY <1>1, <2>1, <2>3
  <1>2. CASE ~(Len(items) >= Size)
    BY <1>2 DEF Roll
  <1> QED
    BY <1>1, <1>2

\* An empty cache rolls to itself.
LEMMA RollEmpty == ASSUME items = <<>> PROVE Roll = <<>>
  <1>1. Size \div 2 \in Nat
    BY SizeAssumption
  <1>2. SubSeq(<<>>, Size \div 2 + 1, 0) = <<>>
    BY <1>1
  <1> QED
    BY <1>2 DEF Roll

\* A cache without a last index is empty, and nothing was written.
LEMMA NothingYet ==
    ASSUME CacheInv, lastIndex < 0
    PROVE  items = <<>> /\ lastIndex = -1 /\ DOMAIN written = {}
  BY MaxIndexAssumption DEF CacheInv, CacheTypeOK, WindowOfLog

\* The first item that a cache holds.
LEMMA AppendFirst ==
    ASSUME CacheInv, lastIndex < 0,
           NEW index \in 0..MaxIndex, NEW item \in Item, AppendItem(index, item)
    PROVE  CacheInv'
  <1>1. items = <<>> /\ lastIndex = -1 /\ DOMAIN written = {}
    BY NothingYet
  <1>2. items' = <<item>> /\ lastIndex' = index
    BY <1>1, RollEmpty DEF AppendItem
  <1>3. DOMAIN written' = {index} /\ written'[index] = item
    BY <1>1 DEF AppendItem
  <1>4. OldestCachedIndex' = index
    BY <1>2 DEF OldestCachedIndex
  <1>5. CacheTypeOK'
    BY <1>2, <1>3, MaxIndexAssumption DEF CacheTypeOK
  <1>6. WindowOfLog'
    BY <1>2, <1>3, <1>4 DEF WindowOfLog
  <1>7. HalfFull'
    BY <1>3, <1>4 DEF HalfFull, Forgetful
  <1> QED
    BY <1>5, <1>6, <1>7 DEF CacheInv

\* A later item.
LEMMA AppendNext ==
    ASSUME CacheInv, lastIndex >= 0,
           NEW index \in 0..MaxIndex, NEW item \in Item, AppendItem(index, item)
    PROVE  CacheInv'
  <1> DEFINE n == Len(items)
             m == Len(Roll)
             o == OldestCachedIndex
  <1>1. /\ items \in Seq(Item) /\ items # <<>> /\ n \in Nat
        /\ lastIndex \in 0..MaxIndex /\ index = lastIndex + 1
        /\ o = lastIndex - n + 1 /\ o \in Int
    BY MaxIndexAssumption DEF CacheInv, CacheTypeOK, WindowOfLog, AppendItem, OldestCachedIndex
  <1>2. /\ Roll \in Seq(Item) /\ m \in Nat /\ m <= n
        /\ \A k \in 1..m : Roll[k] = items[n - m + k]
        /\ m < n => n >= Size /\ m = n - Size \div 2
    BY <1>1, RollIsSuffix
  <1>3. items' = Append(Roll, item) /\ lastIndex' = index
    BY DEF AppendItem
  <1>4. /\ items' \in Seq(Item) /\ Len(items') = m + 1 /\ items'[m + 1] = item
        /\ \A k \in 1..m : items'[k] = Roll[k]
    BY <1>2, <1>3
  <1>5. OldestCachedIndex' = o + (n - m)
    BY <1>1, <1>2, <1>3, <1>4 DEF OldestCachedIndex
  <1>6. /\ DOMAIN written' = DOMAIN written \cup {index}
        /\ written'[index] = item
        /\ \A i \in DOMAIN written : i # index => written'[i] = written[i]
    BY DEF AppendItem
  <1>7. \A i \in DOMAIN written : i \in 0..MaxIndex /\ i <= lastIndex
    BY DEF CacheInv, CacheTypeOK, WindowOfLog
  <1>8. CacheTypeOK'
    <2>1. \A i \in DOMAIN written' : written'[i] \in Item
      BY <1>6 DEF CacheInv, CacheTypeOK
    <2>2. DOMAIN written' \subseteq 0..MaxIndex
      BY <1>6, <1>7
    <2> QED
      BY <1>3, <1>4, <2>1, <2>2, MaxIndexAssumption DEF CacheTypeOK
  <1>9. ASSUME NEW k \in 1..(m + 1)
        PROVE  /\ OldestCachedIndex' + k - 1 \in DOMAIN written'
               /\ items'[k] = written'[OldestCachedIndex' + k - 1]
    <2>1. CASE k = m + 1
      BY <2>1, <1>1, <1>2, <1>4, <1>5, <1>6
    <2>2. CASE k \in 1..m
      <3>1. n - m + k \in 1..n
        BY <2>2, <1>1, <1>2
      <3>2. /\ o + (n - m + k) - 1 \in DOMAIN written
            /\ items[n - m + k] = written[o + (n - m + k) - 1]
        BY <3>1 DEF CacheInv, WindowOfLog
      <3>3. OldestCachedIndex' + k - 1 = o + (n - m + k) - 1
        BY <2>2, <1>1, <1>2, <1>5
      <3>4. o + (n - m + k) - 1 # index
        BY <3>2, <1>1, <1>7
      <3>5. items'[k] = items[n - m + k]
        BY <2>2, <1>2, <1>4
      <3> QED
        BY <3>2, <3>3, <3>4, <3>5, <1>6
    <2>3. k = m + 1 \/ k \in 1..m
      BY <1>2
    <2> QED
      BY <2>1, <2>2, <2>3, Zenon
  <1>10. WindowOfLog'
    <2>1. OldestCachedIndex' \in DOMAIN written'
      <3>1. 1 \in 1..(m + 1) /\ OldestCachedIndex' + 1 - 1 = OldestCachedIndex'
        BY <1>1, <1>2, <1>5
      <3> QED
        BY <3>1, <1>9
    <2>2. items' # <<>> /\ lastIndex' >= 0
      BY <1>1, <1>2, <1>3, <1>4
    <2>3. \A i \in DOMAIN written' : i <= lastIndex'
      BY <1>1, <1>3, <1>6, <1>7
    <2> QED
      BY <2>1, <2>2, <2>3, <1>4, <1>9 DEF WindowOfLog
  <1>11. HalfFull'
    <2> SUFFICES ASSUME Forgetful' PROVE Len(items') >= Size \div 2
      BY DEF HalfFull
    <2>1. CASE m < n
      BY <2>1, <1>1, <1>2, <1>4, SizeAssumption
    <2>2. CASE m = n
      <3>1. Forgetful
        BY <2>2, <1>1, <1>5, <1>6, <1>7 DEF Forgetful
      <3> QED
        BY <2>2, <3>1, <1>1, <1>4, SizeAssumption DEF CacheInv, HalfFull
    <2> QED
      BY <2>1, <2>2, <1>1, <1>2
  <1> QED
    BY <1>8, <1>10, <1>11 DEF CacheInv

\* An item set in place.
LEMMA ReplaceInv ==
    ASSUME CacheInv, NEW index \in 0..MaxIndex, NEW item \in Item, Replace(index, item)
    PROVE  CacheInv'
  <1> DEFINE n == Len(items)
             o == OldestCachedIndex
             j == index - o + 1
  <1>1. /\ items \in Seq(Item) /\ n \in Nat /\ lastIndex \in 0..MaxIndex
        /\ o = lastIndex - n + 1 /\ o <= index /\ index <= lastIndex
    BY MaxIndexAssumption DEF CacheInv, CacheTypeOK, Replace, OldestCachedIndex
  <1>2. j \in 1..n
    BY <1>1
  <1>3. items' = [items EXCEPT ![j] = item] /\ lastIndex' = lastIndex
    BY DEF Replace
  <1>4. /\ items' \in Seq(Item) /\ Len(items') = n /\ items'[j] = item
        /\ \A k \in 1..n : k # j => items'[k] = items[k]
    BY <1>1, <1>2, <1>3
  <1>5. OldestCachedIndex' = o
    BY <1>3, <1>4 DEF OldestCachedIndex
  <1>6. \A k \in 1..n : o + k - 1 \in DOMAIN written /\ items[k] = written[o + k - 1]
    BY DEF CacheInv, WindowOfLog
  <1>7. index \in DOMAIN written
    <2>1. o + j - 1 = index
      BY <1>1
    <2> QED
      BY <2>1, <1>2, <1>6
  <1>8. /\ DOMAIN written' = DOMAIN written /\ written'[index] = item
        /\ \A i \in DOMAIN written : i # index => written'[i] = written[i]
    BY <1>7 DEF Replace
  <1>9. CacheTypeOK'
    BY <1>3, <1>4, <1>8 DEF CacheInv, CacheTypeOK
  <1>10. WindowOfLog'
    <2>1. \A k \in 1..n : o + k - 1 = index <=> k = j
      BY <1>1
    <2>2. \A k \in 1..n : items'[k] = written'[o + k - 1]
      BY <2>1, <1>4, <1>6, <1>8
    <2>3. /\ items # <<>> <=> lastIndex >= 0
          /\ lastIndex >= 0 => o \in DOMAIN written
          /\ \A i \in DOMAIN written : i <= lastIndex
      BY Zenon DEF CacheInv, WindowOfLog
    <2>4. items' # <<>> <=> items # <<>>
      BY <1>4 DEF CacheInv, CacheTypeOK
    <2>5. \A k \in 1..Len(items') : /\ o + k - 1 \in DOMAIN written'
                                   /\ items'[k] = written'[o + k - 1]
      BY <2>2, <1>4, <1>6, <1>8, Zenon
    <2> QED
      BY <2>3, <2>4, <2>5, <1>3, <1>5, <1>8, Zenon DEF WindowOfLog
  <1>11. HalfFull'
    BY <1>4, <1>5, <1>8 DEF CacheInv, HalfFull, Forgetful
  <1> QED
    BY <1>9, <1>10, <1>11 DEF CacheInv

\* CacheInv is an invariant of the cache.
THEOREM CacheInductive == CacheSpec => []CacheInv
  <1>1. CacheInit => CacheInv
    BY MaxIndexAssumption, SizeAssumption
    DEF CacheInit, CacheInv, CacheTypeOK, WindowOfLog, HalfFull, Forgetful, OldestCachedIndex
  <1>2. CacheInv /\ [CacheNext]_cacheVars => CacheInv'
    <2> SUFFICES ASSUME CacheInv, [CacheNext]_cacheVars PROVE CacheInv'
      OBVIOUS
    <2>1. CASE UNCHANGED cacheVars
      BY <2>1 DEF cacheVars, CacheInv, CacheTypeOK, WindowOfLog, HalfFull, Forgetful,
                  OldestCachedIndex
    <2>2. CASE CacheNext
      <3> PICK index \in 0..MaxIndex, item \in Item : Set(index, item)
        BY <2>2 DEF CacheNext
      <3>1. CASE AppendItem(index, item)
        BY <3>1, AppendFirst, AppendNext DEF CacheInv, CacheTypeOK
      <3>2. CASE Replace(index, item)
        BY <3>2, ReplaceInv
      <3>3. CASE Refuse(index)
        BY <3>3, <2>1 DEF Refuse
      <3> QED
        BY <3>1, <3>2, <3>3 DEF Set
    <2> QED
      BY <2>1, <2>2
  <1> QED
    BY <1>1, <1>2, PTL DEF CacheSpec

-----------------------------------------------------------------------------

\* The cache is the end of what was written, without gaps (WindowOfLog).
THEOREM WindowCorrect == CacheSpec => []WindowOfLog
  <1>1. CacheInv => WindowOfLog
    BY DEF CacheInv
  <1> QED
    BY <1>1, CacheInductive, PTL

\* Get returns every item above the index it is given, or TooLate.
THEOREM GetCorrect == CacheSpec => []GetIsComplete
  <1>1. ASSUME CacheInv, NEW skip \in -1..MaxIndex, Get(skip).err = "nil"
        PROVE  Complete(Get(skip).items, skip)
    <2> DEFINE n == Len(items)
               o == OldestCachedIndex
               res == Get(skip).items
    <2>1. /\ items \in Seq(Item) /\ n \in Nat /\ lastIndex \in -1..MaxIndex
          /\ skip \in Int /\ o = lastIndex - n + 1 /\ o \in Int
      BY <1>1, MaxIndexAssumption DEF CacheInv, CacheTypeOK, OldestCachedIndex
    <2>2. \A i \in DOMAIN written : i \in Int /\ i <= lastIndex
      BY <1>1 DEF CacheInv, CacheTypeOK, WindowOfLog
    <2>3. \A k \in 1..n : items[k] = written[o + k - 1]
      BY <1>1 DEF CacheInv, WindowOfLog
    <2>4. CASE skip > lastIndex
      <3>1. res = <<>>
        BY <2>4 DEF Get
      <3>2. \A i \in DOMAIN written : ~(i > skip)
        BY <2>1, <2>2, <2>4
      <3> QED
        BY <3>1, <3>2 DEF Complete
    <2>5. CASE skip <= lastIndex
      <3>1. ~(skip > lastIndex) /\ ~(skip + 1 < o)
        BY <1>1, <2>1, <2>5 DEF Get, TooLate
      <3>2. res = SubSeq(items, skip - o + 2, n)
        BY <3>1 DEF Get
      <3> HIDE DEF res, o, n
      <3>3. skip - o + 2 \in 1..(n + 1)
        BY <2>1, <2>5, <3>1
      <3>4. /\ Len(res) = lastIndex - skip
            /\ \A k \in 1..Len(res) : res[k] = items[skip - o + 2 + k - 1]
        BY <3>2, <3>3, <2>1 DEF n
      <3>5. lastIndex - Len(res) = skip /\ Len(res) \in Nat
        BY <3>4, <2>1, <2>5
      <3>6. ASSUME NEW k \in 1..Len(res)
            PROVE  skip + k > skip /\ res[k] = written[skip + k]
        <4>1. k \in Nat /\ k >= 1 /\ k <= lastIndex - skip
          BY <3>4, <3>5
        <4>2. skip - o + 2 + k - 1 \in 1..n
          BY <4>1, <3>3, <2>1
        <4>3. o + (skip - o + 2 + k - 1) - 1 = skip + k
          BY <4>1, <2>1
        <4>4. skip + k > skip
          BY <4>1, <2>1
        <4> QED
          BY <4>2, <4>3, <4>4, <3>4, <2>3
      <3> QED
        BY <3>5, <3>6 DEF Complete, res
    <2> QED
      BY <2>1, <2>4, <2>5
  <1>2. ASSUME CacheInv, NEW index \in 0..MaxIndex
        PROVE  GetItemIsWritten(index)
    <2> DEFINE n == Len(items)
               o == OldestCachedIndex
    <2>1. /\ n \in Nat /\ lastIndex \in -1..MaxIndex /\ index \in Int
          /\ o = lastIndex - n + 1 /\ o \in Int
      BY <1>2, MaxIndexAssumption DEF CacheInv, CacheTypeOK, OldestCachedIndex
    <2>2. \A i \in DOMAIN written : i \in Int /\ i <= lastIndex
      BY <1>2 DEF CacheInv, CacheTypeOK, WindowOfLog
    <2>3. \A k \in 1..n : o + k - 1 \in DOMAIN written /\ items[k] = written[o + k - 1]
      BY <1>2 DEF CacheInv, WindowOfLog
    <2>4. CASE index < o
      <3>1. GetItem(index).err = TooLate
        BY <2>1, <2>4 DEF GetItem
      <3> QED
        BY <3>1 DEF GetItemIsWritten, TooLate, KeyNotFound
    <2>5. CASE index >= o + n
      <3>1. index \notin DOMAIN written
        BY <2>1, <2>2, <2>5
      <3>2. GetItem(index).err = KeyNotFound
        BY <2>1, <2>5 DEF GetItem
      <3> QED
        BY <3>1, <3>2 DEF GetItemIsWritten, KeyNotFound
    <2>6. CASE index >= o /\ index < o + n
      <3>1. index - o + 1 \in 1..n /\ o + (index - o + 1) - 1 = index
        BY <2>1, <2>6
      <3>2. index \in DOMAIN written /\ items[index - o + 1] = written[index]
        BY <2>3, <3>1
      <3>3. ~(index < o) /\ ~(index >= o + n)
        BY <2>1, <2>6
      <3>4. GetItem(index).err = "nil" /\ GetItem(index).item = items[index - o + 1]
        BY <3>3 DEF GetItem
      <3> QED
        BY <3>2, <3>4 DEF GetItemIsWritten, KeyNotFound
    <2> QED
      BY <2>1, <2>4, <2>5, <2>6
  <1>3. ASSUME CacheInv PROVE GetIsComplete
    BY <1>1, <1>2, <1>3 DEF GetIsComplete
  <1> QED
    BY <1>3, CacheInductive, PTL

\* A reader that lags less than half the capacity is never told TooLate.
THEOREM HalfKept == CacheSpec => []KeepsHalf
  <1>1. ASSUME CacheInv PROVE KeepsHalf
    <2> SUFFICES ASSUME NEW i \in DOMAIN written, i > lastIndex - Size \div 2,
                        i < OldestCachedIndex
                 PROVE  FALSE
      BY <1>1, MaxIndexAssumption DEF KeepsHalf, CacheInv, CacheTypeOK, OldestCachedIndex
    <2>1. Len(items) >= Size \div 2
      BY <1>1 DEF CacheInv, HalfFull, Forgetful
    <2>2. i \in Int /\ lastIndex \in Int /\ Len(items) \in Nat /\ Size \div 2 \in Int
      BY <1>1, SizeAssumption, MaxIndexAssumption DEF CacheInv, CacheTypeOK
    <2> QED
      BY <2>1, <2>2 DEF OldestCachedIndex
  <1> QED
    BY <1>1, CacheInductive, PTL

\* A cache of capacity two or more never exceeds its capacity.  For a capacity
\* of one the statement is false: half of one is no item.
THEOREM Bounded == ASSUME Size >= 2 PROVE CacheSpec => []UpToSize
  <1>1. CacheInit => UpToSize
    BY SizeAssumption DEF CacheInit, UpToSize
  <1>2. CacheInv /\ UpToSize /\ [CacheNext]_cacheVars => UpToSize'
    <2> SUFFICES ASSUME CacheInv, UpToSize, [CacheNext]_cacheVars PROVE UpToSize'
      OBVIOUS
    <2>0. items \in Seq(Item) /\ Len(items) \in Nat /\ Size \in Nat
      BY SizeAssumption DEF CacheInv, CacheTypeOK
    <2>1. CASE UNCHANGED cacheVars
      BY <2>1 DEF cacheVars, UpToSize
    <2>2. CASE CacheNext
      <3> PICK index \in 0..MaxIndex, item \in Item : Set(index, item)
        BY <2>2 DEF CacheNext
      <3>1. CASE AppendItem(index, item)
        <4>1. CASE items = <<>>
          BY <4>1, <3>1, <2>0, RollEmpty DEF AppendItem, UpToSize
        <4>2. CASE items # <<>>
          <5>1. Roll \in Seq(Item) /\ Len(Roll) <= Size - 1
            <6>1. CASE Len(items) >= Size
              <7>1. Size \div 2 \in Nat /\ Size \div 2 >= 1 /\ Size \div 2 <= Size
                BY <2>0
              <7>2. Roll = SubSeq(items, Size \div 2 + 1, Len(items))
                BY <6>1, Zenon DEF Roll
              <7> QED
                BY <7>1, <7>2, <6>1, <2>0 DEF UpToSize
            <6>2. CASE ~(Len(items) >= Size)
              BY <6>2, <2>0 DEF Roll
            <6> QED
              BY <6>1, <6>2
          <5> QED
            BY <5>1, <3>1, <2>0 DEF AppendItem, UpToSize
        <4> QED
          BY <4>1, <4>2
      <3>2. CASE Replace(index, item)
        BY <3>2, <2>0 DEF Replace, UpToSize
      <3>3. CASE Refuse(index)
        BY <3>3, <2>1 DEF Refuse
      <3> QED
        BY <3>1, <3>2, <3>3 DEF Set
    <2> QED
      BY <2>1, <2>2
  <1> QED
    BY <1>1, <1>2, CacheInductive, PTL DEF CacheSpec

-----------------------------------------------------------------------------

\* A step of the cache is a step of the log, or leaves the log alone.
LEMMA StepIsLogStep ==
    ASSUME CacheInv, CacheInv', [CacheNext]_cacheVars
    PROVE  [Log!Next]_(Log!logVars)
  <1>1. CASE UNCHANGED cacheVars
    BY <1>1 DEF cacheVars, Log!logVars, OldestCachedIndex
  <1>2. CASE CacheNext
    <2> PICK index \in 0..MaxIndex, item \in Item : Set(index, item)
      BY <1>2 DEF CacheNext
    <2>1. CASE AppendItem(index, item) /\ lastIndex < 0
      <3>0. lastIndex < 0
        BY <2>1
      <3>1. items = <<>> /\ lastIndex = -1 /\ DOMAIN written = {}
        BY <3>0, NothingYet
      <3>2. items' = <<item>> /\ lastIndex' = index
        BY <2>1, <3>1, RollEmpty DEF AppendItem
      <3>3. OldestCachedIndex' = index
        BY <3>2 DEF OldestCachedIndex
      <3>4. Log!Start(index, item)
        BY <2>1, <3>1, <3>3 DEF AppendItem, Log!Start, Log!Written
      <3> QED
        BY <3>4 DEF Log!Next
    <2>2. CASE AppendItem(index, item) /\ lastIndex >= 0
      <3> DEFINE n == Len(items)
                 m == Len(Roll)
      <3>1. /\ items \in Seq(Item) /\ items # <<>> /\ n \in Nat
            /\ lastIndex \in 0..MaxIndex /\ index = lastIndex + 1
        BY <2>2, MaxIndexAssumption DEF CacheInv, CacheTypeOK, WindowOfLog, AppendItem
      <3>2. Roll \in Seq(Item) /\ m \in Nat /\ m <= n
        BY <3>1, RollIsSuffix
      <3>3. Len(items') = m + 1 /\ lastIndex' = index
        BY <2>2, <3>2 DEF AppendItem
      <3>4. /\ OldestCachedIndex = lastIndex - n + 1
            /\ OldestCachedIndex' = index - m
        BY <3>1, <3>2, <3>3 DEF OldestCachedIndex
      <3>5. OldestCachedIndex' \in OldestCachedIndex..index
        BY <3>1, <3>2, <3>4
      <3>6. index - 1 \in DOMAIN written
        <4>1. n \in 1..n /\ OldestCachedIndex + n - 1 = index - 1
          BY <3>1, <3>4
        <4> QED
          BY <4>1 DEF CacheInv, WindowOfLog
      <3>7. index \notin DOMAIN written
        BY <3>1 DEF CacheInv, CacheTypeOK, WindowOfLog
      <3>8. Log!Extend(index, item)
        BY <2>2, <3>5, <3>6, <3>7 DEF AppendItem, Log!Extend, Log!Written
      <3> QED
        BY <3>8 DEF Log!Next
    <2>3. CASE Replace(index, item)
      <3> DEFINE n == Len(items)
                 o == OldestCachedIndex
      <3>1. /\ items \in Seq(Item) /\ n \in Nat /\ lastIndex \in 0..MaxIndex
            /\ o = lastIndex - n + 1 /\ o <= index /\ index <= lastIndex
        BY <2>3, MaxIndexAssumption DEF CacheInv, CacheTypeOK, Replace, OldestCachedIndex
      <3>2. index \in DOMAIN written
        <4>1. index - o + 1 \in 1..n /\ o + (index - o + 1) - 1 = index
          BY <3>1
        <4> QED
          BY <4>1 DEF CacheInv, WindowOfLog
      <3>3. Len(items') = n /\ OldestCachedIndex' = o
        BY <2>3, <3>1 DEF Replace, OldestCachedIndex
      <3>4. written' = [k \in DOMAIN written \cup {index} |->
                           IF k = index THEN item ELSE written[k]]
        <4>1. DOMAIN written \cup {index} = DOMAIN written
          BY <3>2
        <4> QED
          BY <2>3, <4>1, Zenon DEF Replace
      <3>5. Log!Overwrite(index, item)
        BY <3>1, <3>2, <3>3, <3>4 DEF Log!Overwrite, Log!Written
      <3> QED
        BY <3>5 DEF Log!Next
    <2>4. CASE Refuse(index)
      BY <2>4, <1>1 DEF Refuse
    <2> QED
      BY <2>1, <2>2, <2>3, <2>4 DEF Set, AppendItem, CacheInv, CacheTypeOK
  <1> QED
    BY <1>1, <1>2

\* The cache implements the log with a forgotten beginning (EventLog), for
\* every capacity, a capacity of one included.
THEOREM Refinement == CacheSpec => ImplementsLog
  <1>1. CacheInit => Log!Init
    <2> SUFFICES ASSUME CacheInit PROVE Log!Init
      OBVIOUS
    <2>1. OldestCachedIndex = 0
      <3>1. lastIndex = -1 /\ Len(items) = 0
        BY DEF CacheInit
      <3> QED
        BY <3>1 DEF OldestCachedIndex
    <2>2. DOMAIN written = {}
      BY DEF CacheInit
    <2> QED
      BY <2>1, <2>2 DEF Log!Init
  <1>2. CacheInv /\ CacheInv' /\ [CacheNext]_cacheVars => [Log!Next]_(Log!logVars)
    BY StepIsLogStep
  <1> QED
    BY <1>1, <1>2, CacheInductive, PTL DEF CacheSpec, ImplementsLog, Log!Spec

-----------------------------------------------------------------------------
(***************************************************************************)
(* NodeState, for any number of goroutines and any limit of GoFunc.        *)
(*                                                                         *)
(* What Shutdown waited for is over when the store is closed (Drained).    *)
(* This is not inductive.  It rests on WaitRoutines having returned once   *)
(* (Ordered), after which only late goroutines are launched (Kept), and on *)
(* no goroutine entering Shutdown a second time (Once), which for Run      *)
(* depends on the state: join is never called again after a refusal.       *)
(***************************************************************************)

Places == {"out", "checked", "set", "closed", "waited", "done", "skipped"}

Types ==
    /\ state \in {"Babbling", "CatchingUp", "Joining", "Suspended", "Shutdown"}
    /\ sd \in [Procs -> Places]
    /\ routine \in [Routines -> {"free", "launched", "running"}]

Once ==
    /\ sd[Main] \in Places \ {"out", "checked"} => state # "Joining"
    /\ sd[Main] = "checked" => main = "refused"
    /\ main = "join" => sd[Main] = "out"
    /\ background \in {"select", "leave"} => sd[Background] = "out"

Ordered == closed => Waited

Kept == Waited => Wg \subseteq late

IInv == Types /\ Once /\ Ordered /\ Kept

-----------------------------------------------------------------------------

\* Nobody is in Shutdown when Run starts.
LEMMA Start == Init => IInv
  BY NodeAssumption DEF Init, IInv, Types, Places, Once, Ordered, Kept, Waited, Procs,
       Main, Background

\* Steps that neither launch nor end goroutines, nor move anyone in Shutdown.
LEMMA StateStep ==
    ASSUME IInv, UNCHANGED <<sd, routine, late, closed>>, Types', Once'
    PROVE  IInv'
  BY DEF IInv, Ordered, Kept, Waited, Wg

\* The steps of Run that change only where it is, and the state.
LEMMA RunStep ==
    ASSUME IInv,
           \/ Dispatch \/ Wake \/ Tick \/ Monologue \/ CheckSuspend
           \/ TransitionToSuspended \/ CloseSuspendCh \/ SuspendReturns \/ BabbleReturns
           \/ WaitToCatchUp \/ FastForward \/ FastForwardFails
           \/ JoinAccepted \/ JoinFails \/ RefusedReturns
    PROVE  IInv'
  <1> USE DEF IInv, Types, Once, Places, channels, spawned, ends
  <1>0. Main \in Procs /\ sd[Main] \in Places
    BY DEF Procs
  <1>1. CASE Dispatch
    <2>1. main # "refused" /\ (main' = "join" => state = "Joining")
      BY <1>1 DEF Dispatch
    <2>2. UNCHANGED <<state, sd, routine, late, closed, background>>
      BY <1>1 DEF Dispatch
    <2>3. sd[Main] # "checked"
      BY <2>1
    <2> QED
      BY <1>0, <2>1, <2>2, <2>3, StateStep
  <1>2. CASE Wake \/ Tick \/ Monologue \/ SuspendReturns \/ BabbleReturns
    BY <1>2, StateStep DEF Wake, Tick, Monologue, SuspendReturns, BabbleReturns
  <1>3. CASE CheckSuspend
    BY <1>3, StateStep DEF CheckSuspend
  <1>4. CASE TransitionToSuspended \/ CloseSuspendCh
    BY <1>4, StateStep DEF TransitionToSuspended, CloseSuspendCh
  <1>5. CASE WaitToCatchUp \/ FastForward \/ FastForwardFails
    BY <1>5, StateStep DEF WaitToCatchUp, FastForward, FastForwardFails
  <1>6. CASE JoinAccepted \/ JoinFails
    BY <1>6, StateStep DEF JoinAccepted, JoinFails
  <1>7. CASE RefusedReturns
    BY <1>7, StateStep DEF RefusedReturns
  <1> QED
    BY <1>1, <1>2, <1>3, <1>4, <1>5, <1>6, <1>7

\* The steps of doBackgroundWork of that kind.
LEMMA BackgroundStep ==
    ASSUME IInv, Signal \/ OsExit \/ BackgroundReturns
    PROVE  IInv'
  BY StateStep DEF Signal, OsExit, BackgroundReturns, channels, spawned, ends, IInv, Types, Once

\* GoFunc, by the background goroutine or by Run.
LEMMA LaunchStep ==
    ASSUME IInv, ReceiveRPC \/ LaunchGossip
    PROVE  IInv'
  <1>1. /\ UNCHANGED <<state, background, sd, closed>>
        /\ GoFunc
        /\ main' = main \/ (main = "gossip" /\ main' = "check")
    BY DEF ReceiveRPC, LaunchGossip, channels, ends
  <1>2. Types' /\ Once' /\ Ordered'
    BY <1>1 DEF IInv, Types, Once, Ordered, Waited, GoFunc, spawned
  <1>3. Waited' <=> Waited
    BY <1>1 DEF Waited
  <1>4. Kept'
    BY <1>1, <1>3 DEF IInv, Types, Kept, Wg, GoFunc, spawned
  <1> QED
    BY <1>2, <1>4 DEF IInv

\* A goroutine of GoFunc starts or ends.
LEMMA WorkStep ==
    ASSUME IInv, NEW r \in Routines, Work(r)
    PROVE  IInv'
  <1>1. UNCHANGED <<state, main, background, sd, closed>>
    BY DEF Work, RoutineStarts, RoutineEnds, channels, ends
  <1>2. Types'
    BY <1>1 DEF IInv, Types, Work, RoutineStarts, RoutineEnds
  <1>3. Once' /\ Ordered'
    BY <1>1 DEF IInv, Once, Ordered, Waited
  <1>4. Wg' \subseteq Wg /\ (late' = late \/ late' = late \ {r}) /\ (r \in Wg' => late' = late)
    BY DEF Work, RoutineStarts, RoutineEnds, Wg, IInv, Types
  <1>5. Kept'
    BY <1>1, <1>4 DEF IInv, Kept, Waited
  <1> QED
    BY <1>2, <1>3, <1>5 DEF IInv

\* Someone enters Shutdown, for the first time.
LEMMA BeginStep ==
    ASSUME IInv, LeaveReturns \/ JoinRefused \/ \E c \in AppRoutines : CallShutdown(c)
    PROVE  IInv'
  <1>1. PICK p \in Procs : sd[p] = "out" /\ BeginShutdown(p)
    BY DEF LeaveReturns, JoinRefused, CallShutdown, IInv, Once, Procs
  <1>2. UNCHANGED <<state, routine, late, closed>>
    BY DEF LeaveReturns, JoinRefused, CallShutdown, spawned, ends
  <1>3. /\ sd' = [sd EXCEPT ![p] = sd'[p]]
        /\ sd'[p] = IF state = "Shutdown" THEN "skipped" ELSE "checked"
    BY <1>1 DEF BeginShutdown, IInv, Types
  <1>4. Types'
    BY <1>2, <1>3 DEF IInv, Types, Places
  <1>5. Waited' <=> Waited
    BY <1>1, <1>3 DEF Waited, IInv, Types
  <1>6. Ordered' /\ Kept'
    BY <1>2, <1>5 DEF IInv, Ordered, Kept, Wg
  <1>7. Once'
    <2> USE DEF IInv, Types, Once, Places, Procs, BeginShutdown
    <2>0. Main \notin AppRoutines /\ Background \notin AppRoutines /\ Main # Background
      BY NodeAssumption DEF Main, Background
    <2>1. CASE LeaveReturns
      BY <2>0, <2>1 DEF LeaveReturns
    <2>2. CASE JoinRefused
      BY <2>0, <2>2 DEF JoinRefused
    <2>3. ASSUME NEW c \in AppRoutines, CallShutdown(c) PROVE Once'
      BY <2>0, <2>3 DEF CallShutdown
    <2> QED
      BY <2>1, <2>2, <2>3
  <1> QED
    BY <1>4, <1>6, <1>7 DEF IInv

\* Shutdown, from its check to the closing of the store.
LEMMA ShutdownStep ==
    ASSUME IInv, NEW p \in Procs, Shutdown(p)
    PROVE  IInv'
  <1> DEFINE Moves(x, y) == sd[p] = x /\ sd' = [sd EXCEPT ![p] = y]
  <1>1. UNCHANGED <<main, background, routine, late>>
    BY DEF Shutdown, TransitionToShutdown, CloseShutdownCh, WaitRoutines, CloseAll, spawned
  <1>2. \/ Moves("checked", "set") /\ state' = "Shutdown" /\ closed' = closed
        \/ Moves("set", "closed") /\ state' = state /\ closed' = closed
        \/ Moves("closed", "waited") /\ state' = state /\ closed' = closed /\ Wg = {}
        \/ Moves("waited", "done") /\ state' = state /\ closed' = TRUE
    BY DEF Shutdown, TransitionToShutdown, CloseShutdownCh, WaitRoutines, CloseAll, ends
  <1> HIDE DEF Moves
  <1>3. Types'
    BY <1>1, <1>2 DEF IInv, Types, Places, Moves
  <1>4. Once'
    <2>1. Main \in Procs /\ Background \in Procs
      BY DEF Procs
    <2>2. /\ sd[p] # "out" /\ sd'[p] \in Places \ {"out", "checked"}
          /\ \A q \in Procs \ {p} : sd'[q] = sd[q]
      BY <1>2 DEF IInv, Types, Places, Moves
    <2>3. p = Main => state' # "Joining"
      BY <1>2 DEF IInv, Once, Places, Moves
    <2>4. state' = state \/ state' = "Shutdown"
      BY <1>2
    <2> QED
      BY <1>1, <2>1, <2>2, <2>3, <2>4 DEF IInv, Once
  <1>5. CASE Moves("checked", "set") \/ Moves("set", "closed")
    <2>1. Waited' <=> Waited
      BY <1>5 DEF Waited, Moves, IInv, Types
    <2>2. closed' = closed
      BY <1>2, <1>5 DEF Moves
    <2> QED
      BY <1>1, <1>3, <1>4, <2>1, <2>2 DEF IInv, Ordered, Kept, Wg
  <1>6. CASE Moves("closed", "waited")
    <2>1. Wg' = {}
      BY <1>1, <1>2, <1>6 DEF Moves, Wg
    <2>2. Waited'
      BY <1>6 DEF Waited, Moves, IInv, Types
    <2> QED
      BY <1>3, <1>4, <2>1, <2>2 DEF IInv, Ordered, Kept
  <1>7. CASE Moves("waited", "done")
    <2>1. Waited /\ Waited'
      BY <1>7 DEF Waited, Moves, IInv, Types
    <2> QED
      BY <1>1, <1>3, <1>4, <2>1 DEF IInv, Ordered, Kept, Wg
  <1> QED
    BY <1>2, <1>5, <1>6, <1>7

\* The invariant is inductive: one lemma per kind of step of the goroutines of
\* node.go and state.go.
THEOREM Inductive == Spec => []IInv
  <1>1. IInv /\ [Next]_vars => IInv'
    <2> SUFFICES ASSUME IInv, [Next]_vars PROVE IInv'
      OBVIOUS
    <2>1. CASE UNCHANGED vars
      BY <2>1 DEF vars, IInv, Types, Once, Ordered, Kept, Waited, Wg
    <2>2. CASE Run
      BY <2>2, RunStep, LaunchStep, BeginStep DEF Run
    <2>3. CASE Next
      BY <2>2, <2>3, BackgroundStep, LaunchStep, BeginStep, ShutdownStep, WorkStep DEF Next
    <2> QED
      BY <2>1, <2>3
  <1> QED
    BY <1>1, Start, PTL DEF Spec

\* When Shutdown has closed the transport and the store, the goroutines of
\* GoFunc that are at work are those launched after WaitRoutines returned.
THEOREM DrainedCorrect == Spec => []Drained
  <1>1. IInv => Drained
    BY DEF IInv, Ordered, Kept, Drained
  <1> QED
    BY <1>1, Inductive, PTL

-----------------------------------------------------------------------------
(***************************************************************************)
(* Transport, for any number of callers, calls and pooled connections,     *)
(* with newlines that arrive late and transports that close.               *)
(*                                                                         *)
(* That a caller gets its own reply rests on two facts about connections.  *)
(* One that is pooled, or about to be used, is quiet: no reply is due on   *)
(* it.  One on which a caller waits has at most one reply due, to the      *)
(* request of that caller, somewhere between the two ends.  Both need that *)
(* a connection has one user.                                              *)
(***************************************************************************)

\* A record with the fields of a connection.
IsLink(l) ==
    \E u, d, h, t, s, m :
        l = [up |-> u, down |-> d, here |-> h, there |-> t, handler |-> s, command |-> m]

\* l has these fields.
Has(l, u, d, h, t, s, m) ==
    /\ l.up = u /\ l.down = d /\ l.here = h
    /\ l.there = t /\ l.handler = s /\ l.command = m

Leftover == {<<>>, <<Newline>>}

Quiet(l) ==
    /\ l.down = <<>>
    /\ l.there => l.handler = "type" /\ l.up \in Leftover

\* The reply to r is due on l, unless the target has hung up.
Due(l, r) ==
    \/ ~l.there /\ l.down \in {<<>>, <<r>>}
    \/ /\ l.handler = "type" /\ l.down = <<>>
       /\ l.up \in {<<Type, r, Newline>>, <<Newline, Type, r, Newline>>}
    \/ l.handler = "decode" /\ l.down = <<>> /\ l.up = <<r, Newline>>
    \/ l.handler = "dispatch" /\ l.down = <<>> /\ l.command = r /\ l.up \in Leftover
    \/ l.handler = "type" /\ l.down = <<r>> /\ l.up \in Leftover

Links == \E S : link \in Seq(S) /\ \A l \in S : IsLink(l)

TransportTypes ==
    /\ Links
    /\ caller \in [Callers -> [pc : {"idle", "send", "receive", "return"}, made : Nat, conn : Nat]]
    /\ pool \in Seq(Nat)

\* What holds of the connection that c is using.
Using(c) ==
    \/ At(c, "idle") /\ caller[c].conn = 0
    \/ /\ caller[c].conn \in DOMAIN link /\ Conn(c).here
       /\ \/ caller[c].pc \in {"send", "return"} /\ Quiet(Conn(c))
          \/ At(c, "receive") /\ Due(Conn(c), Request(c))

PoolQuiet ==
    \A i \in DOMAIN pool :
        pool[i] \in DOMAIN link /\ link[pool[i]].here /\ Quiet(link[pool[i]])

TransportInv ==
    /\ TransportTypes /\ (\A c \in Callers : Using(c))
    /\ PoolQuiet /\ OneUser /\ NoLeak /\ OwnReply

-----------------------------------------------------------------------------

\* What the decoders take from the sequences of Due.
LEMMA Parts ==
    ASSUME NEW r
    PROVE  /\ Head(<<Type, r, Newline>>) = Type /\ Tail(<<Type, r, Newline>>) = <<r, Newline>>
           /\ Head(<<Newline, Type, r, Newline>>) = Newline
           /\ Head(<<r, Newline>>) = r /\ Tail(<<r, Newline>>) = <<Newline>>
           /\ Head(<<Newline>>) = Newline /\ Tail(<<Newline>>) = <<>>
           /\ Head(<<r>>) = r /\ Tail(<<r>>) = <<>>
           /\ Append(<<>>, r) = <<r>>
           /\ Type # Newline /\ <<r>> # <<>>
           /\ <<Type, r, Newline>> # <<>> /\ <<Newline, Type, r, Newline>> # <<>>
  BY DEF Type, Newline

\* What is sent on a quiet connection.
LEMMA Sent ==
    ASSUME NEW r
    PROVE  /\ <<>> \o <<Type, r, Newline>> = <<Type, r, Newline>>
           /\ <<Newline>> \o <<Type, r, Newline>> = <<Newline, Type, r, Newline>>
  <1> DEFINE S == {Newline, Type, r}
             s == <<Type, r, Newline>>
             n == <<Newline>>
  <1>1. s \in Seq(S) /\ n \in Seq(S) /\ Len(s) = 3 /\ Len(n) = 1
    OBVIOUS
  <1>2. <<>> \o s = s
    BY <1>1
  <1>3. n \o s \in Seq(S) /\ Len(n \o s) = 4
    BY <1>1
  <1>4. /\ (n \o s)[1] = Newline /\ (n \o s)[2] = Type
        /\ (n \o s)[3] = r /\ (n \o s)[4] = Newline
    BY <1>1
  <1>5. n \o s = <<Newline, Type, r, Newline>>
    <2> DEFINE q == <<Newline, Type, r, Newline>>
               p == n \o s
    <2>1. q \in Seq(S) /\ Len(q) = 4
      OBVIOUS
    <2>2. \A i \in 1..4 : p[i] = q[i]
      BY <1>4
    <2>3. p \in Seq(S) /\ Len(p) = 4
      BY <1>3
    <2> HIDE DEF p, q
    <2>4. p = q
      BY <2>1, <2>2, <2>3
    <2> QED
      BY <2>4 DEF p, q
  <1> QED
    BY <1>2, <1>5

\* A connection is a record.
LEMMA LinkAt ==
    ASSUME Links, NEW k \in DOMAIN link
    PROVE  IsLink(link[k])
  BY DEF Links

\* One connection changes.
LEMMA LinkChange ==
    ASSUME Links, NEW k \in DOMAIN link, NEW l, IsLink(l), link' = [link EXCEPT ![k] = l]
    PROVE  /\ Links'
           /\ DOMAIN link' = DOMAIN link
           /\ link'[k] = l
           /\ \A j \in DOMAIN link : j # k => link'[j] = link[j]
  <1>1. PICK S : link \in Seq(S) /\ \A x \in S : IsLink(x)
    BY DEF Links
  <1>2. link' \in Seq(S \cup {l}) /\ DOMAIN link' = DOMAIN link
    BY <1>1
  <1>3. \A x \in S \cup {l} : IsLink(x)
    BY <1>1
  <1>4. Links'
    BY <1>2, <1>3 DEF Links
  <1> QED
    BY <1>1, <1>2, <1>4

\* The fields of a record of this form.
LEMMA Fields ==
    ASSUME NEW u, NEW d, NEW h, NEW t, NEW s, NEW m, NEW l,
           l = [up |-> u, down |-> d, here |-> h, there |-> t, handler |-> s, command |-> m]
    PROVE  IsLink(l) /\ Has(l, u, d, h, t, s, m)
  BY Zenon DEF IsLink, Has

\* The records that the handlers and the callers make of a connection l.
LEMMA Rewrite ==
    ASSUME NEW l, IsLink(l), NEW u, NEW d, NEW s, NEW m, NEW n
    PROVE  /\ n = [l EXCEPT !.up = u] =>
                  IsLink(n) /\ Has(n, u, l.down, l.here, l.there, l.handler, l.command)
           /\ n = [l EXCEPT !.down = d] =>
                  IsLink(n) /\ Has(n, l.up, d, l.here, l.there, l.handler, l.command)
           /\ n = [l EXCEPT !.here = FALSE, !.down = d] =>
                  IsLink(n) /\ Has(n, l.up, d, FALSE, l.there, l.handler, l.command)
           /\ n = [l EXCEPT !.up = u, !.handler = s] =>
                  IsLink(n) /\ Has(n, u, l.down, l.here, l.there, s, l.command)
           /\ n = [l EXCEPT !.down = d, !.handler = s] =>
                  IsLink(n) /\ Has(n, l.up, d, l.here, l.there, s, l.command)
           /\ n = [l EXCEPT !.command = m, !.up = u, !.handler = s] =>
                  IsLink(n) /\ Has(n, u, l.down, l.here, l.there, s, m)
  <1>1. PICK u0, d0, h0, t0, s0, m0 :
            l = [up |-> u0, down |-> d0, here |-> h0, there |-> t0, handler |-> s0, command |-> m0]
    BY Zenon DEF IsLink
  <1>2. Has(l, u0, d0, h0, t0, s0, m0)
    BY <1>1, Fields
  <1>3. ASSUME n = [l EXCEPT !.up = u]
        PROVE  IsLink(n) /\ Has(n, u, l.down, l.here, l.there, l.handler, l.command)
    <2>1. n = [up |-> u, down |-> d0, here |-> h0, there |-> t0,
              handler |-> s0, command |-> m0]
      BY <1>1, <1>3
    <2> QED
      BY <1>2, <2>1, Fields DEF Has
  <1>4. ASSUME n = [l EXCEPT !.down = d]
        PROVE  IsLink(n) /\ Has(n, l.up, d, l.here, l.there, l.handler, l.command)
    <2>1. n = [up |-> u0, down |-> d, here |-> h0, there |-> t0,
              handler |-> s0, command |-> m0]
      BY <1>1, <1>4
    <2> QED
      BY <1>2, <2>1, Fields DEF Has
  <1>5. ASSUME n = [l EXCEPT !.here = FALSE, !.down = d]
        PROVE  IsLink(n) /\ Has(n, l.up, d, FALSE, l.there, l.handler, l.command)
    <2>1. n = [up |-> u0, down |-> d, here |-> FALSE, there |-> t0,
              handler |-> s0, command |-> m0]
      BY <1>1, <1>5, Zenon
    <2> QED
      BY <1>2, <2>1, Fields DEF Has
  <1>6. ASSUME n = [l EXCEPT !.up = u, !.handler = s]
        PROVE  IsLink(n) /\ Has(n, u, l.down, l.here, l.there, s, l.command)
    <2>1. n = [up |-> u, down |-> d0, here |-> h0, there |-> t0,
              handler |-> s, command |-> m0]
      BY <1>1, <1>6, Zenon
    <2> QED
      BY <1>2, <2>1, Fields DEF Has
  <1>7. ASSUME n = [l EXCEPT !.down = d, !.handler = s]
        PROVE  IsLink(n) /\ Has(n, l.up, d, l.here, l.there, s, l.command)
    <2>1. n = [up |-> u0, down |-> d, here |-> h0, there |-> t0,
              handler |-> s, command |-> m0]
      BY <1>1, <1>7, Zenon
    <2> QED
      BY <1>2, <2>1, Fields DEF Has
  <1>8. ASSUME n = [l EXCEPT !.command = m, !.up = u, !.handler = s]
        PROVE  IsLink(n) /\ Has(n, u, l.down, l.here, l.there, s, m)
    <2>1. n = [up |-> u, down |-> d0, here |-> h0, there |-> t0,
              handler |-> s, command |-> m]
      BY <1>1, <1>8, Zenon
    <2> QED
      BY <1>2, <2>1, Fields DEF Has
  <1> QED
    BY <1>3, <1>4, <1>5, <1>6, <1>7, <1>8, Zenon

-----------------------------------------------------------------------------
(***************************************************************************)
(* The handler of a connection.                                            *)
(***************************************************************************)

\* What a handler may do to its connection, from l to n: a quiet one stays
\* quiet, and a reply that is due stays due.
Served(l, n) ==
    /\ IsLink(n)
    /\ n.here = l.here
    /\ l.here => (Quiet(l) => Quiet(n)) /\ \A r : Due(l, r) => Due(n, r)

\* A due reply that has been sent is the only one.
LEMMA DownOfDue ==
    ASSUME NEW l, NEW r, Due(l, r)
    PROVE  l.down \in {<<>>, <<r>>}
  BY Zenon DEF Due

\* A handler that hangs up.
LEMMA HangupServes ==
    ASSUME Links, NEW k \in DOMAIN link, Hangup(k)
    PROVE  \E n : link' = [link EXCEPT ![k] = n] /\ Served(link[k], n)
  <1> DEFINE l == link[k]
             n == [up |-> <<>>, down |-> l.down, here |-> l.here, there |-> FALSE,
                   handler |-> "type", command |-> Newline]
  <1>2. link' = [link EXCEPT ![k] = n]
    BY DEF Hangup
  <1>3. IsLink(n) /\ n.here = l.here /\ n.there = FALSE /\ n.down = l.down
    BY Fields DEF Has
  <1> HIDE DEF n
  <1>4. Quiet(l) => Quiet(n)
    BY <1>3 DEF Quiet
  <1>5. \A r : Due(l, r) => Due(n, r)
    BY <1>3, DownOfDue DEF Due
  <1> QED
    BY <1>2, <1>3, <1>4, <1>5, Zenon DEF Served

\* ReadType.
LEMMA ReadTypeServes ==
    ASSUME Links, NEW k \in DOMAIN link, ReadType(k)
    PROVE  \E n : link' = [link EXCEPT ![k] = n] /\ Served(link[k], n)
  <1> DEFINE l == link[k]
  <1>0. IsLink(l) /\ l.there /\ l.handler = "type" /\ l.up # <<>>
    BY LinkAt DEF ReadType, Handles, Unread
  <1>1. CASE Head(l.up) # Type
    BY <1>1, HangupServes DEF ReadType, Unread
  <1>2. CASE Head(l.up) = Type
    <2> DEFINE n == [l EXCEPT !.up = Tail(l.up), !.handler = "decode"]
    <2>1. link' = [link EXCEPT ![k] = n]
      BY <1>2 DEF ReadType, Unread
    <2>2. IsLink(n) /\ Has(n, Tail(l.up), l.down, l.here, l.there, "decode", l.command)
      BY <1>0, Rewrite, Zenon
    <2> HIDE DEF n
    <2>3. ~Quiet(l)
      BY <1>0, <1>2, Parts, Zenon DEF Quiet, Leftover
    <2>4. ASSUME NEW r, Due(l, r) PROVE Due(n, r)
      <3>1. l.up = <<Type, r, Newline>> /\ l.down = <<>>
        BY <1>0, <1>2, <2>4, Parts, Zenon DEF Due, Leftover
      <3> QED
        BY <2>2, <3>1, Parts DEF Due, Has
    <2> QED
      BY <2>1, <2>2, <2>3, <2>4, Zenon DEF Served, Has
  <1> QED
    BY <1>1, <1>2

\* Decode.
LEMMA DecodeServes ==
    ASSUME Links, NEW k \in DOMAIN link, Decode(k)
    PROVE  \E n : link' = [link EXCEPT ![k] = n] /\ Served(link[k], n)
  <1> DEFINE l == link[k]
  <1>0. IsLink(l) /\ l.there /\ l.handler = "decode"
    BY LinkAt DEF Decode, Handles
  <1>1. PICK rest \in {Tail(l.up), Tail(Tail(l.up))} :
            link' = [link EXCEPT ![k].command = Head(l.up), ![k].up = rest,
                                 ![k].handler = "dispatch"]
    BY Zenon DEF Decode, Unread
  <1> DEFINE n == [l EXCEPT !.command = Head(l.up), !.up = rest, !.handler = "dispatch"]
  <1>2. link' = [link EXCEPT ![k] = n]
    BY <1>1, Zenon
  <1>3. IsLink(n) /\ Has(n, rest, l.down, l.here, l.there, "dispatch", Head(l.up))
    BY <1>0, Rewrite, Zenon
  <1> HIDE DEF n
  <1>4. ~Quiet(l)
    BY <1>0 DEF Quiet
  <1>5. ASSUME NEW r, Due(l, r) PROVE Due(n, r)
    <2>1. l.up = <<r, Newline>> /\ l.down = <<>>
      BY <1>0, <1>5 DEF Due
    <2>2. rest \in Leftover
      BY <1>1, <2>1, Parts DEF Leftover
    <2> QED
      BY <1>3, <2>1, <2>2, Parts DEF Due, Has
  <1> QED
    BY <1>2, <1>3, <1>4, <1>5, Zenon DEF Served, Has

\* Respond.
LEMMA RespondServes ==
    ASSUME Links, NEW k \in DOMAIN link, Respond(k)
    PROVE  \E n : link' = [link EXCEPT ![k] = n] /\ Served(link[k], n)
  <1> DEFINE l == link[k]
             d == IF l.here THEN Append(l.down, l.command) ELSE l.down
             n == [l EXCEPT !.down = d, !.handler = "type"]
  <1>0. IsLink(l) /\ l.there /\ l.handler = "dispatch"
    BY LinkAt DEF Respond, Handles
  <1>1. link' = [link EXCEPT ![k] = n]
    BY Zenon DEF Respond
  <1>2. IsLink(n) /\ Has(n, l.up, d, l.here, l.there, "type", l.command)
    BY <1>0, Rewrite, Zenon
  <1> HIDE DEF n
  <1>3. ~Quiet(l)
    BY <1>0 DEF Quiet
  <1>4. ASSUME NEW r, Due(l, r), l.here PROVE Due(n, r)
    <2>1. l.down = <<>> /\ l.command = r /\ l.up \in Leftover
      BY <1>0, <1>4 DEF Due
    <2>2. d = <<r>>
      BY <1>4, <2>1, Parts
    <2> QED
      BY <1>2, <2>1, <2>2 DEF Due, Has
  <1> QED
    BY <1>1, <1>2, <1>3, <1>4, Zenon DEF Served, Has

\* The invariant survives every step of a handler.
LEMMA ServeStep ==
    ASSUME TransportInv, NEW k \in DOMAIN link, Serve(k)
    PROVE  TransportInv'
  <1>1. PICK n : link' = [link EXCEPT ![k] = n] /\ Served(link[k], n)
    <2>1. Links
      BY DEF TransportInv, TransportTypes
    <2> QED
      BY <2>1, ReadTypeServes, DecodeServes, RespondServes, HangupServes
         DEF Serve, ReadEOF, RespondFails, HandlerStops
  <1>2. UNCHANGED <<caller, pool, mixed>>
    BY DEF Serve, ReadType, ReadEOF, Decode, Respond, RespondFails, HandlerStops
  <1>3. /\ Links' /\ DOMAIN link' = DOMAIN link /\ link'[k] = n
        /\ \A j \in DOMAIN link : j # k => link'[j] = link[j]
    BY <1>1, LinkChange, Zenon DEF TransportInv, TransportTypes, Served
  <1>4. TransportTypes'
    BY <1>2, <1>3 DEF TransportInv, TransportTypes
  <1>5. \A j \in DOMAIN link :
            /\ link'[j].here = link[j].here
            /\ link[j].here => (Quiet(link[j]) => Quiet(link'[j]))
                               /\ \A r : Due(link[j], r) => Due(link'[j], r)
    BY <1>1, <1>3 DEF Served
  <1>6. ASSUME NEW c \in Callers PROVE Using(c)'
    BY <1>2, <1>3, <1>5, Zenon DEF TransportInv, Using, At, Conn, Request
  <1>7. PoolQuiet'
    BY <1>2, <1>3, <1>5 DEF TransportInv, PoolQuiet
  <1>8. OneUser' /\ NoLeak' /\ OwnReply'
    BY <1>2, <1>3, <1>5 DEF TransportInv, OneUser, NoLeak, OwnReply, Pooled, Held
  <1> QED
    BY <1>4, <1>6, <1>7, <1>8 DEF TransportInv

-----------------------------------------------------------------------------
(***************************************************************************)
(* The callers.                                                            *)
(***************************************************************************)

CallerType == [pc : {"idle", "send", "receive", "return"}, made : Nat, conn : Nat]

\* Members of the pool, and connections in use.
LEMMA Users ==
    ASSUME NEW k
    PROVE  /\ k \in Pooled <=> \E i \in DOMAIN pool : pool[i] = k
           /\ k \in Held <=> k # 0 /\ \E c \in Callers : caller[c].conn = k
  BY DEF Pooled, Held, Range

\* Connections are numbered from 1.
LEMMA Numbers ==
    ASSUME Links
    PROVE  0 \notin DOMAIN link /\ DOMAIN link = 1..Len(link) /\ Len(link) \in Nat
  BY DEF Links

\* A caller whose connection nobody touches.
LEMMA OtherCaller ==
    ASSUME NEW d \in Callers, Using(d), caller'[d] = caller[d],
           caller[d].conn \in DOMAIN link =>
               /\ caller[d].conn \in DOMAIN link'
               /\ link'[caller[d].conn] = link[caller[d].conn]
    PROVE  Using(d)'
  BY DEF Using, At, Conn, Request

\* Caller c changes and no connection but its own, k: the others are as before.
LEMMA Alone ==
    ASSUME TransportInv, NEW c \in Callers, NEW x \in CallerType,
           caller' = [caller EXCEPT ![c] = x],
           NEW k \in DOMAIN link, caller[c].conn = k,
           NEW n, IsLink(n), link' = [link EXCEPT ![k] = n]
    PROVE  /\ Links' /\ caller' \in [Callers -> CallerType] /\ caller'[c] = x
           /\ DOMAIN link' = DOMAIN link /\ link'[k] = n
           /\ \A j \in DOMAIN link : j # k => link'[j] = link[j]
           /\ \A d \in Callers \ {c} : /\ caller'[d] = caller[d] /\ caller[d].conn # k
                                       /\ Using(d)'
           /\ \A i \in DOMAIN pool : pool[i] # k
  <1>1. /\ Links' /\ DOMAIN link' = DOMAIN link /\ link'[k] = n
        /\ \A j \in DOMAIN link : j # k => link'[j] = link[j]
    BY LinkChange, Zenon DEF TransportInv, TransportTypes
  <1>2. /\ caller' \in [Callers -> CallerType] /\ caller'[c] = x
        /\ \A d \in Callers \ {c} : caller'[d] = caller[d]
    BY DEF TransportInv, TransportTypes, CallerType
  <1>3. k # 0
    BY Numbers DEF TransportInv, TransportTypes
  <1>4. \A d \in Callers \ {c} : caller[d].conn # k
    BY <1>3 DEF TransportInv, OneUser
  <1>5. k \in Held
    BY <1>3, Users
  <1>6. \A i \in DOMAIN pool : pool[i] # k
    BY <1>5, Users DEF TransportInv, OneUser
  <1>7. ASSUME NEW d \in Callers \ {c} PROVE Using(d)'
    <2>1. Using(d)
      BY DEF TransportInv
    <2> QED
      BY <1>1, <1>2, <1>4, <2>1, OtherCaller
  <1> QED
    BY <1>1, <1>2, <1>4, <1>6, <1>7

\* Caller c, in state x, can wait for a reply on l, or return l.
Ready(l, c, x) ==
    \/ x.pc = "return" /\ Quiet(l)
    \/ x.pc = "receive" /\ Due(l, <<c, x.made>>)

\* The caller keeps its connection.
LEMMA KeepsConn ==
    ASSUME TransportInv, NEW c \in Callers, NEW x \in CallerType,
           caller' = [caller EXCEPT ![c] = x],
           NEW k \in DOMAIN link, caller[c].conn = k, x.conn = k,
           NEW n, IsLink(n), n.here, link' = [link EXCEPT ![k] = n],
           pool' = pool, mixed' = FALSE, Ready(n, c, x)
    PROVE  TransportInv'
  <1>1. /\ Links' /\ caller' \in [Callers -> CallerType] /\ caller'[c] = x
        /\ DOMAIN link' = DOMAIN link /\ link'[k] = n
        /\ \A j \in DOMAIN link : j # k => link'[j] = link[j]
        /\ \A d \in Callers \ {c} : /\ caller'[d] = caller[d] /\ caller[d].conn # k
                                    /\ Using(d)'
        /\ \A i \in DOMAIN pool : pool[i] # k
    BY Alone, Zenon
  <1>2. TransportTypes'
    BY <1>1 DEF TransportInv, TransportTypes, CallerType
  <1>3. Using(c)'
    BY <1>1 DEF Using, At, Conn, Request, Ready
  <1>4. \A d \in Callers : caller'[d].conn = caller[d].conn
    BY <1>1
  <1>5. Held' = Held /\ Pooled' = Pooled
    BY <1>4 DEF Held, Pooled
  <1>6. PoolQuiet'
    BY <1>1 DEF TransportInv, PoolQuiet
  <1>7. OneUser'
    BY <1>4, <1>5 DEF TransportInv, OneUser
  <1>8. NoLeak'
    <2>1. k \in Held
      BY Numbers, Users, Zenon DEF TransportInv, TransportTypes
    <2> QED
      BY <1>1, <1>5, <2>1 DEF TransportInv, NoLeak
  <1> QED
    BY <1>1, <1>2, <1>3, <1>6, <1>7, <1>8 DEF TransportInv, OwnReply

\* The caller gives its connection up: into the pool, or closed.
LEMMA Drops ==
    ASSUME TransportInv, NEW c \in Callers, NEW x \in CallerType,
           caller' = [caller EXCEPT ![c] = x],
           NEW k \in DOMAIN link, caller[c].conn = k, x.pc = "idle", x.conn = 0,
           NEW n, IsLink(n), link' = [link EXCEPT ![k] = n], mixed' = mixed,
           \/ ~n.here /\ pool' = pool
           \/ n.here /\ Quiet(n) /\ pool' = Append(pool, k)
    PROVE  TransportInv'
  <1>0. Links /\ k # 0 /\ 0 \notin DOMAIN link
    BY Numbers DEF TransportInv, TransportTypes
  <1>3. /\ Links' /\ caller' \in [Callers -> CallerType] /\ caller'[c] = x
        /\ DOMAIN link' = DOMAIN link /\ link'[k] = n
        /\ \A j \in DOMAIN link : j # k => link'[j] = link[j]
        /\ \A d \in Callers \ {c} : /\ caller'[d] = caller[d] /\ caller[d].conn # k
                                    /\ Using(d)'
        /\ \A i \in DOMAIN pool : pool[i] # k
    BY Alone, Zenon
  <1>4. Using(c)'
    BY <1>3 DEF Using, At
  <1>5. TransportTypes'
    <2>1. k \in Nat
      BY Numbers DEF TransportInv, TransportTypes
    <2>2. pool \in Seq(Nat)
      BY DEF TransportInv, TransportTypes
    <2>3. Append(pool, k) \in Seq(Nat)
      BY <2>1, <2>2
    <2>4. pool' \in Seq(Nat)
      BY <2>2, <2>3
    <2> QED
      BY <1>3, <2>4 DEF TransportTypes, CallerType
  <1>6. \A j : j \in Held' <=> j \in Held /\ j # k
    BY <1>0, <1>3 DEF Held
  <1>7. \/ ~n.here /\ pool' = pool
        \/ /\ n.here /\ Quiet(n)
           /\ DOMAIN pool' = 1..(Len(pool) + 1) /\ DOMAIN pool = 1..Len(pool) /\ Len(pool) \in Nat
           /\ \A i \in DOMAIN pool : pool'[i] = pool[i]
           /\ pool'[Len(pool) + 1] = k
    <2>1. CASE pool' = pool
      BY <2>1 DEF TransportInv, TransportTypes
    <2>2. CASE n.here /\ Quiet(n) /\ pool' = Append(pool, k)
      BY <2>2 DEF TransportInv, TransportTypes
    <2> QED
      BY <2>1, <2>2
  <1>8. PoolQuiet'
    BY <1>3, <1>7 DEF TransportInv, PoolQuiet
  <1>9. \A j : j \in Pooled' <=> j \in Pooled \/ (n.here /\ j = k)
    BY <1>7 DEF Pooled, Range
  <1>10. OneUser'
    <2>1. Pooled' \cap Held' = {}
      BY <1>6, <1>9 DEF TransportInv, OneUser
    <2>2. \A i, j \in DOMAIN pool' : i # j => pool'[i] # pool'[j]
      BY <1>3, <1>7 DEF TransportInv, OneUser
    <2>3. \A d, e \in Callers : d # e /\ caller'[d].conn # 0 => caller'[d].conn # caller'[e].conn
      BY <1>3 DEF TransportInv, OneUser
    <2> QED
      BY <2>1, <2>2, <2>3 DEF OneUser
  <1>11. NoLeak'
    BY <1>3, <1>6, <1>9 DEF TransportInv, NoLeak
  <1> QED
    BY <1>3, <1>4, <1>5, <1>8, <1>10, <1>11 DEF TransportInv, OwnReply

\* The same, for Return.
LEMMA DropsConn ==
    ASSUME TransportInv, NEW c \in Callers, Return(c), NEW k \in DOMAIN link, caller[c].conn = k,
           mixed' = mixed,
           \/ Release(k) /\ pool' = pool
           \/ Quiet(link[k]) /\ link[k].here /\ link' = link /\ pool' = Append(pool, k)
    PROVE  TransportInv'
  <1>0. IsLink(link[k]) /\ Links /\ k # 0 /\ 0 \notin DOMAIN link
    BY LinkAt, Numbers DEF TransportInv, TransportTypes
  <1>1. PICK x \in CallerType : x.pc = "idle" /\ x.conn = 0 /\ caller' = [caller EXCEPT ![c] = x]
    <2> DEFINE y == [caller[c] EXCEPT !.pc = "idle", !.conn = 0]
    <2>1. y \in CallerType /\ y.pc = "idle" /\ y.conn = 0
      BY Zenon DEF TransportInv, TransportTypes, CallerType
    <2>2. caller' = [caller EXCEPT ![c] = y]
      BY DEF Return
    <2> QED
      BY <2>1, <2>2, Zenon
  <1>2. PICK n : /\ link' = [link EXCEPT ![k] = n] /\ IsLink(n)
                 /\ \/ ~n.here /\ pool' = pool
                    \/ n.here /\ Quiet(n) /\ pool' = Append(pool, k)
    <2>1. CASE link' = link /\ Quiet(link[k]) /\ link[k].here /\ pool' = Append(pool, k)
      <3>1. link = [link EXCEPT ![k] = link[k]]
        BY <1>0 DEF Links
      <3> QED
        BY <1>0, <2>1, <3>1
    <2>2. CASE Release(k) /\ pool' = pool
      <3> DEFINE m == [link[k] EXCEPT !.here = FALSE, !.down = <<>>]
      <3>1. IsLink(m) /\ m.here = FALSE
        <4>1. IsLink(m) /\ Has(m, link[k].up, <<>>, FALSE, link[k].there, link[k].handler,
                               link[k].command)
          BY <1>0, Rewrite, Zenon
        <4> QED
          BY <4>1 DEF Has
      <3>2. link' = [link EXCEPT ![k] = m]
        BY <2>2 DEF Release
      <3> QED
        BY <2>2, <3>1, <3>2, Zenon
    <2> QED
      BY <2>1, <2>2
  <1> QED
    BY <1>1, <1>2, Drops, Zenon

\* A caller at work has a connection.
LEMMA Working ==
    ASSUME TransportInv, NEW c \in Callers, NEW k, k = caller[c].conn, caller[c].pc # "idle"
    PROVE  /\ k \in DOMAIN link /\ IsLink(link[k]) /\ link[k].here
           /\ caller[c].pc \in {"send", "return"} => Quiet(link[k])
           /\ At(c, "receive") => Due(link[k], Request(c))
           /\ caller[c] \in CallerType
  <1>1. k \in DOMAIN link
    BY DEF TransportInv, Using, At
  <1>2. IsLink(link[k])
    BY <1>1, LinkAt DEF TransportInv, TransportTypes
  <1> QED
    BY <1>1, <1>2 DEF TransportInv, TransportTypes, CallerType, Using, At, Conn

\* sendRPC.
LEMMA SendStep ==
    ASSUME TransportInv, NEW c \in Callers, sendRPC(c)
    PROVE  TransportInv'
  <1>1. PICK k : k = caller[c].conn
    OBVIOUS
  <1>2. PICK l : l = link[k]
    OBVIOUS
  <1>3. /\ At(c, "send") /\ k \in DOMAIN link /\ IsLink(l) /\ l.here /\ Quiet(l)
        /\ caller[c] \in CallerType
    BY <1>1, <1>2, Working DEF sendRPC, At
  <1>4. PICK u : u = IF l.there THEN l.up \o <<Type, Request(c), Newline>> ELSE l.up
    BY Zenon
  <1>5. PICK n : n = [l EXCEPT !.up = u]
    BY Zenon
  <1>6. IsLink(n) /\ Has(n, u, l.down, l.here, l.there, l.handler, l.command)
    BY <1>3, <1>5, Rewrite, Zenon
  <1>7. link' = [link EXCEPT ![k] = n]
    BY <1>1, <1>2, <1>3, <1>4, <1>5 DEF sendRPC, Conn
  <1>8. PICK x \in CallerType : /\ x.pc = "receive" /\ x.made = caller[c].made /\ x.conn = k
                                /\ caller' = [caller EXCEPT ![c] = x]
    <2> DEFINE y == [caller[c] EXCEPT !.pc = "receive"]
    <2>1. y \in CallerType /\ y.pc = "receive" /\ y.made = caller[c].made /\ y.conn = k
      BY <1>1, <1>3 DEF CallerType
    <2>2. caller' = [caller EXCEPT ![c] = y]
      BY DEF sendRPC
    <2> QED
      BY <2>1, <2>2, Zenon
  <1>9. Due(n, <<c, x.made>>)
    <2>1. CASE ~l.there
      BY <1>3, <1>6, <2>1 DEF Due, Has, Quiet
    <2>2. CASE l.there
      <3>1. l.handler = "type" /\ l.down = <<>> /\ l.up \in {<<>>, <<Newline>>}
        BY <1>3, <2>2 DEF Quiet, Leftover
      <3>2. u \in {<<Type, Request(c), Newline>>, <<Newline, Type, Request(c), Newline>>}
        BY <1>4, <2>2, <3>1, Sent, Zenon
      <3> QED
        BY <1>6, <1>8, <3>1, <3>2 DEF Due, Has, Request
    <2> QED
      BY <2>1, <2>2
  <1>10. n.here /\ pool' = pool /\ mixed' = FALSE
    BY <1>3, <1>6 DEF Has, sendRPC, TransportInv, OwnReply
  <1>11. k \in DOMAIN link /\ caller[c].conn = k /\ IsLink(n)
    BY <1>1, <1>3, <1>6
  <1>12. Ready(n, c, x)
    BY <1>8, <1>9 DEF Ready
  <1> QED
    BY <1>7, <1>8, <1>10, <1>11, <1>12, KeepsConn, Zenon

\* decodeResponse: the reply on a connection is the one that is due.
LEMMA ReceiveStep ==
    ASSUME TransportInv, NEW c \in Callers, decodeResponse(c)
    PROVE  TransportInv'
  <1>1. PICK k : k = caller[c].conn
    OBVIOUS
  <1>2. PICK l : l = link[k]
    OBVIOUS
  <1>3. /\ k \in DOMAIN link /\ IsLink(l) /\ l.here /\ Due(l, Request(c))
        /\ l.down # <<>> /\ caller[c] \in CallerType
    BY <1>1, <1>2, Working DEF decodeResponse, At, Conn
  <1>4. l.down = <<Request(c)>>
    BY <1>3, DownOfDue
  <1>5. mixed' = FALSE /\ pool' = pool
    <2>1. Head(l.down) = Request(c)
      BY <1>4, Parts
    <2> QED
      BY <1>1, <1>2, <2>1, Zenon DEF decodeResponse, Conn, TransportInv, OwnReply
  <1>6. PICK n : n = [l EXCEPT !.down = Tail(l.down)]
    BY Zenon
  <1>7. IsLink(n) /\ Has(n, l.up, Tail(l.down), l.here, l.there, l.handler, l.command)
    BY <1>3, <1>6, Rewrite, Zenon
  <1>8. link' = [link EXCEPT ![k] = n]
    BY <1>1, <1>2, <1>3, <1>6 DEF decodeResponse
  <1>9. PICK x \in CallerType : /\ x.pc = "return" /\ x.conn = k
                                /\ caller' = [caller EXCEPT ![c] = x]
    <2> DEFINE y == [caller[c] EXCEPT !.pc = "return"]
    <2>1. y \in CallerType /\ y.pc = "return" /\ y.conn = k
      BY <1>1, <1>3 DEF CallerType
    <2>2. caller' = [caller EXCEPT ![c] = y]
      BY DEF decodeResponse
    <2> QED
      BY <2>1, <2>2, Zenon
  <1>10. Quiet(n)
    <2>1. n.down = <<>>
      BY <1>4, <1>7, Parts DEF Has
    <2>2. l.there => l.handler = "type" /\ l.up \in Leftover
      BY <1>3, <1>4, Parts DEF Due
    <2> QED
      BY <1>7, <2>1, <2>2, Zenon DEF Quiet, Has
  <1>11. n.here
    BY <1>3, <1>7 DEF Has
  <1>12. k \in DOMAIN link /\ caller[c].conn = k /\ IsLink(n)
    BY <1>1, <1>3, <1>7
  <1>13. Ready(n, c, x)
    BY <1>9, <1>10 DEF Ready
  <1> QED
    BY <1>5, <1>8, <1>9, <1>11, <1>12, <1>13, KeepsConn, Zenon

\* sendRPC and decodeResponse that fail, and returnConn.
LEMMA LeaveStep ==
    ASSUME TransportInv, NEW c \in Callers, sendFails(c) \/ decodeFails(c) \/ returnConn(c)
    PROVE  TransportInv'
  <1>1. PICK k : k = caller[c].conn
    OBVIOUS
  <1>2. k \in DOMAIN link /\ (At(c, "return") => Quiet(link[k]) /\ link[k].here)
    BY <1>1, Working, Zenon DEF sendFails, decodeFails, returnConn, At
  <1>3. /\ Return(c) /\ mixed' = mixed
        /\ \/ Release(k) /\ pool' = pool
           \/ At(c, "return") /\ link' = link /\ pool' = Append(pool, k)
    BY <1>1 DEF sendFails, decodeFails, returnConn
  <1>4. \/ Release(k) /\ pool' = pool
        \/ Quiet(link[k]) /\ link[k].here /\ link' = link /\ pool' = Append(pool, k)
    BY <1>2, <1>3
  <1>5. Return(c) /\ mixed' = mixed /\ k \in DOMAIN link /\ caller[c].conn = k
    BY <1>1, <1>2, <1>3
  <1> QED
    BY <1>4, <1>5, DropsConn

\* A caller that is idle takes connection k, which nobody uses: one from the
\* pool, or a new one.
LEMMA Takes ==
    ASSUME TransportInv, NEW c \in Callers, At(c, "idle"), NEW x \in CallerType, x.pc = "send",
           caller' = [caller EXCEPT ![c] = x], mixed' = mixed,
           Links', pool' \in Seq(Nat), NEW k, x.conn = k,
           k \in DOMAIN link', link'[k].here, Quiet(link'[k]),
           \A j \in DOMAIN link : j \in DOMAIN link' /\ link'[j] = link[j],
           \A j \in DOMAIN link' : j = k \/ j \in DOMAIN link,
           \A i \in DOMAIN pool' : i \in DOMAIN pool /\ pool'[i] = pool[i] /\ pool'[i] # k,
           \A i \in DOMAIN pool : i \in DOMAIN pool' \/ pool[i] = k,
           \A d \in Callers : caller[d].conn # k
    PROVE  TransportInv'
  <1>1. /\ caller' \in [Callers -> CallerType] /\ caller'[c] = x
        /\ \A d \in Callers \ {c} : caller'[d] = caller[d]
    BY DEF TransportInv, TransportTypes, CallerType
  <1>2. TransportTypes'
    BY <1>1 DEF TransportTypes, CallerType
  <1>3. ASSUME NEW d \in Callers PROVE Using(d)'
    <2>1. CASE d = c
      BY <1>1, <2>1 DEF Using, At, Conn
    <2>2. CASE d # c
      <3>1. Using(d)
        BY DEF TransportInv
      <3> QED
        BY <1>1, <2>2, <3>1, OtherCaller
    <2> QED
      BY <2>1, <2>2
  <1>4. PoolQuiet'
    BY DEF TransportInv, PoolQuiet
  <1>5. k # 0 /\ caller[c].conn = 0
    <2>1. caller[c].conn = 0
      BY DEF TransportInv, Using, At
    <2> QED
      BY <2>1
  <1>6. \A j : j \in Held' <=> j \in Held \/ j = k
    BY <1>1, <1>5, Zenon DEF Held
  <1>7. \A j : j \in Pooled' => j \in Pooled /\ j # k
    <2> SUFFICES ASSUME NEW i \in DOMAIN pool' PROVE pool'[i] \in Pooled /\ pool'[i] # k
      BY Zenon DEF Pooled, Range
    <2>1. i \in DOMAIN pool /\ pool'[i] = pool[i] /\ pool'[i] # k
      BY Zenon
    <2> QED
      BY <2>1, Zenon DEF Pooled, Range
  <1>8. \A j : j \in Pooled => j \in Pooled' \/ j = k
    <2> SUFFICES ASSUME NEW i \in DOMAIN pool PROVE pool[i] \in Pooled' \/ pool[i] = k
      BY Zenon DEF Pooled, Range
    <2>1. CASE i \in DOMAIN pool'
      BY <2>1, Zenon DEF Pooled, Range
    <2> QED
      BY <2>1
  <1>9. OneUser'
    <2>1. Pooled' \cap Held' = {}
      BY <1>6, <1>7 DEF TransportInv, OneUser
    <2>2. \A i, j \in DOMAIN pool' : i # j => pool'[i] # pool'[j]
      <3>1. \A i, j \in DOMAIN pool : i # j => pool[i] # pool[j]
        BY Zenon DEF TransportInv, OneUser
      <3> QED
        BY <3>1
    <2>3. \A d, e \in Callers : d # e /\ caller'[d].conn # 0 => caller'[d].conn # caller'[e].conn
      BY <1>1 DEF TransportInv, OneUser
    <2> QED
      BY <2>1, <2>2, <2>3 DEF OneUser
  <1>10. NoLeak'
    BY <1>6, <1>8, Zenon DEF TransportInv, NoLeak
  <1> QED
    BY <1>2, <1>3, <1>4, <1>9, <1>10 DEF TransportInv, OwnReply

\* getConn: a connection of the pool, a new one, or none.
LEMMA GetStep ==
    ASSUME TransportInv, NEW c \in Callers, getConn(c)
    PROVE  TransportInv'
  <1>0. /\ At(c, "idle") /\ mixed' = mixed /\ caller[c] \in CallerType /\ Links
        /\ pool \in Seq(Nat)
    BY DEF getConn, TransportInv, TransportTypes, CallerType
  <1>1. CASE getPooledConn(c)
    <2>1. PICK k : k = pool[Len(pool)]
      OBVIOUS
    <2>2. /\ Len(pool) \in Nat \ {0} /\ DOMAIN pool = 1..Len(pool) /\ k \in Nat
          /\ pool' \in Seq(Nat) /\ DOMAIN pool' = 1..(Len(pool) - 1)
          /\ \A i \in DOMAIN pool' : pool'[i] = pool[i]
      BY <1>0, <1>1, <2>1 DEF getPooledConn, Front
    <2>3. k \in DOMAIN link /\ link[k].here /\ Quiet(link[k])
      BY <2>1, <2>2 DEF TransportInv, PoolQuiet
    <2>4. link' = link
      BY <1>1 DEF getPooledConn
    <2>5. /\ \A i \in DOMAIN pool' : i \in DOMAIN pool /\ pool'[i] # k
          /\ \A i \in DOMAIN pool : i \in DOMAIN pool' \/ pool[i] = k
      BY <2>1, <2>2 DEF TransportInv, OneUser
    <2>6. \A d \in Callers : caller[d].conn # k
      <3>1. k \in Pooled /\ k # 0
        <4>1. k # 0
          BY <1>0, <2>3, Numbers
        <4>2. Len(pool) \in DOMAIN pool
          BY <2>2
        <4> QED
          BY <2>1, <4>1, <4>2, Users
      <3>2. k \notin Held
        BY <3>1 DEF TransportInv, OneUser
      <3> QED
        BY <3>1, <3>2, Users
    <2>7. PICK x \in CallerType : /\ x.pc = "send" /\ x.conn = k
                                  /\ caller' = [caller EXCEPT ![c] = x]
      <3> DEFINE y == [pc |-> "send", made |-> caller[c].made + 1, conn |-> k]
      <3>1. y \in CallerType /\ y.pc = "send" /\ y.conn = k
        BY <1>0, <2>2 DEF CallerType
      <3>2. caller' = [caller EXCEPT ![c] = y]
        BY <1>1, <2>1 DEF getPooledConn
      <3> QED
        BY <3>1, <3>2, Zenon
    <2>8. Links'
      BY <1>0, <2>4 DEF Links
    <2> QED
      BY <1>0, <2>2, <2>3, <2>4, <2>5, <2>6, <2>7, <2>8, Takes, Zenon
  <1>2. CASE Dial(c)
    <2>1. PICK k : k = Len(link) + 1
      OBVIOUS
    <2>2. PICK S : link \in Seq(S) /\ \A l \in S : IsLink(l)
      BY <1>0 DEF Links
    <2>3. /\ link' \in Seq(S \cup {NewLink}) /\ DOMAIN link' = 1..k /\ k \in Nat \ {0}
          /\ DOMAIN link = 1..(k - 1) /\ Len(link') = k /\ link'[k] = NewLink
          /\ \A j \in DOMAIN link : link'[j] = link[j]
      BY <1>2, <2>1, <2>2 DEF Dial
    <2>4. IsLink(NewLink) /\ NewLink.here /\ Quiet(NewLink)
      BY Zenon DEF IsLink, NewLink, Quiet, Leftover
    <2>5. Links'
      <3>1. \A l \in S \cup {NewLink} : IsLink(l)
        BY <2>2, <2>4
      <3> QED
        BY <2>3, <3>1 DEF Links
    <2>6. pool' = pool /\ DOMAIN pool = {}
      BY <1>0, <1>2 DEF Dial
    <2>7. \A d \in Callers : caller[d].conn # k
      <3>1. k \notin DOMAIN link /\ k # 0
        BY <2>3
      <3> QED
        BY <3>1 DEF TransportInv, Using
    <2>8. PICK x \in CallerType : /\ x.pc = "send" /\ x.conn = k
                                  /\ caller' = [caller EXCEPT ![c] = x]
      <3> DEFINE y == [pc |-> "send", made |-> caller[c].made + 1, conn |-> k]
      <3>1. y \in CallerType /\ y.pc = "send" /\ y.conn = k
        BY <1>0, <2>3 DEF CallerType
      <3>2. caller' = [caller EXCEPT ![c] = y]
        BY <1>2, <2>3 DEF Dial
      <3> QED
        BY <3>1, <3>2, Zenon
    <2>9. /\ k \in DOMAIN link' /\ \A j \in DOMAIN link : j \in DOMAIN link'
          /\ \A j \in DOMAIN link' : j = k \/ j \in DOMAIN link
      BY <2>3
    <2> QED
      BY <1>0, <2>3, <2>4, <2>5, <2>6, <2>7, <2>8, <2>9, Takes, Zenon
  <1>3. CASE DialFails(c)
    <2>1. /\ caller' \in [Callers -> CallerType]
          /\ \A d \in Callers : caller'[d].pc = caller[d].pc /\ caller'[d].conn = caller[d].conn
          /\ \A d \in Callers \ {c} : caller'[d] = caller[d]
      BY <1>0, <1>3 DEF DialFails, TransportInv, TransportTypes, CallerType
    <2>2. UNCHANGED <<pool, link>>
      BY <1>3 DEF DialFails
    <2>3. TransportTypes'
      BY <1>0, <2>1, <2>2 DEF TransportTypes, CallerType, Links
    <2>4. ASSUME NEW d \in Callers PROVE Using(d)'
      BY <1>0, <2>1, <2>2, Zenon DEF TransportInv, Using, At, Conn, Request
    <2>5. Pooled' = Pooled /\ Held' = Held
      BY <2>1, <2>2 DEF Pooled, Held
    <2>6. PoolQuiet'
      BY <2>2, Zenon DEF TransportInv, PoolQuiet
    <2>7. OneUser'
      BY <2>1, <2>2, <2>5, Zenon DEF TransportInv, OneUser
    <2>8. NoLeak'
      BY <2>2, <2>5, Zenon DEF TransportInv, NoLeak
    <2> QED
      BY <1>0, <2>3, <2>4, <2>6, <2>7, <2>8 DEF TransportInv, OwnReply
  <1> QED
    BY <1>1, <1>2, <1>3 DEF getConn

-----------------------------------------------------------------------------

\* The invariant is inductive: one lemma per kind of step of the callers
\* (genericRPC) and of the handlers (handleCommand).
THEOREM TransportInductive == TransportSpec => []TransportInv
  <1>1. TransportInit => TransportInv
    <2> SUFFICES ASSUME TransportInit PROVE TransportInv
      OBVIOUS
    <2>1. link = <<>> /\ pool = <<>> /\ DOMAIN link = {} /\ DOMAIN pool = {} /\ ~mixed
      BY DEF TransportInit
    <2>2. Links
      <3>1. link \in Seq({})
        BY <2>1
      <3> QED
        BY <3>1 DEF Links
    <2>3. TransportTypes
      BY <2>1, <2>2 DEF TransportTypes, TransportInit
    <2>4. \A c \in Callers : Using(c) /\ caller[c].conn = 0
      BY DEF TransportInit, Using, At
    <2> QED
      BY <2>1, <2>3, <2>4
      DEF TransportInv, PoolQuiet, OneUser, NoLeak, OwnReply, Pooled, Held, Range
  <1>2. TransportInv /\ [TransportNext]_transportVars => TransportInv'
    <2> SUFFICES ASSUME TransportInv, [TransportNext]_transportVars PROVE TransportInv'
      OBVIOUS
    <2>1. CASE UNCHANGED transportVars \/ Close
      <3>1. UNCHANGED <<caller, pool, link, mixed>>
        BY <2>1 DEF transportVars, Close
      <3>2. TransportTypes'
        BY <3>1, Zenon DEF TransportInv, TransportTypes, Links
      <3>3. ASSUME NEW c \in Callers PROVE Using(c)'
        BY <3>1, Zenon DEF TransportInv, Using, At, Conn, Request
      <3>4. PoolQuiet' /\ OneUser' /\ NoLeak' /\ OwnReply'
        BY <3>1, Zenon DEF TransportInv, PoolQuiet, OneUser, NoLeak, OwnReply, Pooled, Held
      <3> QED
        BY <3>2, <3>3, <3>4, Zenon DEF TransportInv
    <2>2. ASSUME NEW c \in Callers, getConn(c) \/ Call(c) PROVE TransportInv'
      BY <2>2, GetStep, SendStep, ReceiveStep, LeaveStep DEF Call
    <2> QED
      BY <2>1, <2>2, ServeStep DEF TransportNext
  <1> QED
    BY <1>1, <1>2, PTL DEF TransportSpec

\* A caller gets the reply to its own request (genericRPC), whatever became of
\* earlier requests, for any number of callers and any size of the pool.
THEOREM ReplyCorrect == TransportSpec => []OwnReply
  BY TransportInductive, PTL DEF TransportInv

\* A connection is in the pool once, or held by one caller.
THEOREM OneUserCorrect == TransportSpec => []OneUser
  BY TransportInductive, PTL DEF TransportInv

\* Every connection is pooled, in use or closed.
THEOREM NoLeakCorrect == TransportSpec => []NoLeak
  BY TransportInductive, PTL DEF TransportInv
=============================================================================
