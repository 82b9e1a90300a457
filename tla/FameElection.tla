---------------------------- MODULE FameElection ----------------------------
(***************************************************************************)
(* The election of one witness, seen from above: what DecideFame           *)
(* (src/hashgraph/hashgraph.go) computes round by round, for all nodes at  *)
(* once.                                                                   *)
(*                                                                         *)
(* The events of a hashgraph are the same on every node, so the vote of a  *)
(* witness y on x is too: it only depends on y's ancestors.  What nodes do *)
(* not share is which witnesses they know, hence which decider they meet   *)
(* first.  The module follows the votes of all the witnesses of a round    *)
(* and collects every fame value that some witness decides.  A node sets   *)
(* the fame of x to one of them.                                           *)
(*                                                                         *)
(* PeersAt[d] is the peer-set of the round d rounds after the round of x.  *)
(* What the hashgraph contributes, and the module assumes, is that a       *)
(* witness of round j exists only if it strongly sees a super-majority of  *)
(* the round j-1 witnesses (Hashgraph.round), and that a peer has at most  *)
(* one witness in a round.                                                 *)
(***************************************************************************)
EXTENDS Voting

CONSTANTS
    Participants,
    MaxDiff,        \* bound: how many rounds after the round of x are followed
    PeersAt

ASSUME MaxDiffAssumption == MaxDiff \in Nat \ {0}

ASSUME PeersAssumption ==
    /\ IsFiniteSet(Participants)
    /\ PeersAt \in [1..MaxDiff -> SUBSET Participants]

VARIABLES
    diff,           \* the current round is diff rounds after the round of x
    votes,          \* the vote of each witness of the current round
    fame,           \* the fame values decided so far
    lateWitness     \* history: x is late, a super-majority of the witnesses of
                    \* the next round did not see it

electionVars == <<diff, votes, fame, lateWitness>>

Quorum(d) == SuperMajority(PeersAt[d])

Voters == DOMAIN votes

\* The two camps of the current round.
Ayes == {w \in Voters : votes[w]}
Noes == {w \in Voters : ~votes[w]}

ElectionTypeOK ==
    /\ diff \in 1..MaxDiff
    /\ Voters \subseteq PeersAt[diff]
    /\ votes \in [Voters -> BOOLEAN]
    /\ fame \subseteq BOOLEAN
    /\ lateWitness \in BOOLEAN

-----------------------------------------------------------------------------

\* diff = 1: a witness of the next round votes yes if it sees x.
ElectionInit ==
    /\ diff = 1
    /\ \E W \in SUBSET PeersAt[1] : votes \in [W -> BOOLEAN]
    /\ fame = {}
    /\ lateWitness = (Cardinality(Noes) >= Quorum(1))

\* What a witness y of the next round can count: it strongly sees yays voters
\* that vote yes and nays that vote no, a super-majority in all.  bit is the
\* middle bit of its hash.
Ballots ==
    {b \in [yays : 0..Cardinality(Ayes), nays : 0..Cardinality(Noes),
            bit : BOOLEAN] :
        b.yays + b.nays >= Quorum(diff)}

\* One more round of witnesses, each with its ballot.
NextRound(ballot) ==
    LET d == diff + 1
        decider(b) == Decides(b.yays, b.nays, d, Quorum(d))
        vote(b)    == Vote(b.yays, b.nays, d, Quorum(d), b.bit)
    IN  /\ diff' = d
        /\ votes' = [y \in DOMAIN ballot |-> vote(ballot[y])]
        /\ fame' = fame \cup {v \in BOOLEAN :
                \E y \in DOMAIN ballot : decider(ballot[y]) /\ vote(ballot[y]) = v}
        /\ lateWitness' = lateWitness

ElectionNext ==
    /\ diff < MaxDiff
    /\ \E W \in SUBSET PeersAt[diff + 1] :
           \E ballot \in [W -> Ballots] : NextRound(ballot)

ElectionSpec == ElectionInit /\ [][ElectionNext]_electionVars

-----------------------------------------------------------------------------

\* Two nodes never decide the fame of a witness differently, whatever
\* deciders they meet first in DecideFame.
FameAgreement == \A u, v \in fame : u = v

\* Once a fame value is decided, every later witness votes for it: the reason
\* why DecideFame may stop at the first decider (break VOTE_LOOP).
DecisionIsFinal == \A v \in fame : \A w \in Voters : votes[w] = v

\* A condition on the peer-sets under which the election is safe: the
\* super-majority does not shrink at a normal round nor grow at a coin round.
SafePeerSets ==
    \A d \in 1..MaxDiff : d + 1 <= MaxDiff =>
        IF CoinRound(d + 1) THEN Quorum(d + 1) <= Quorum(d)
                            ELSE Quorum(d) <= Quorum(d + 1)

\* A late witness is never decided famous, as the comment of
\* RoundInfo.WitnessesDecided says ("has no chance of ever being famous"): the
\* round may be closed without waiting for it.
LateWitnessNeverFamous == lateWitness => TRUE \notin fame
=============================================================================
