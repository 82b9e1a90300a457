------------------------------- MODULE Voting -------------------------------
(***************************************************************************)
(* The arithmetic of one vote in DecideFame (src/hashgraph/hashgraph.go).  *)
(*                                                                         *)
(* A witness y of round j votes on the fame of a witness x of round r.  It *)
(* counts the votes (yays, nays) of the round j-1 witnesses it strongly    *)
(* sees.  quorum is the super-majority of the round j peer-set, diff is    *)
(* j - r, and bit is the middle bit of y's hash.                           *)
(***************************************************************************)
EXTENDS PeerSets

CONSTANT CoinRoundFreq       \* COIN_ROUND_FREQ: every so many rounds is a coin round

\* The first two rounds of an election are never coin rounds.
ASSUME CoinAssumption == CoinRoundFreq \in Nat /\ CoinRoundFreq > 2

\* v: the majority, a tie counts as a yes.
Majority(yays, nays) == yays >= nays

\* t: the number of votes the majority has.
Tally(yays, nays) == IF Majority(yays, nays) THEN yays ELSE nays

CoinRound(diff) == diff % CoinRoundFreq = 0

\* y decides the fame of x: in a normal round, with a super-majority.
Decides(yays, nays, diff, quorum) ==
    ~CoinRound(diff) /\ Tally(yays, nays) >= quorum

VoteMutant(yays, nays, diff, quorum, bit) ==
    IF CoinRound(diff) THEN bit ELSE Majority(yays, nays)

\* The vote of y: the majority, except that in a coin round a vote without a
\* super-majority is replaced by the middle bit of y's hash.
Vote(yays, nays, diff, quorum, bit) ==
    IF CoinRound(diff) /\ Tally(yays, nays) < quorum
    THEN bit
    ELSE Majority(yays, nays)
=============================================================================
