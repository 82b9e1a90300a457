---------------------------- MODULE MCHashgraph ----------------------------
(***************************************************************************)
(* Instances of Hashgraph for TLC.                                         *)
(*                                                                         *)
(* A graph is written as the sequence of its events in an order in which   *)
(* they could be created.  << p, k >> is the next event of p, and the k-th *)
(* event of the sequence is its other-parent (0 for none).                 *)
(***************************************************************************)
EXTENDS HashgraphProperties

CONSTANTS a, b, c, d

MCParticipants == {a, b, c, d}
MCNodes == {a, b}

NameIn(script, k) ==
    <<script[k][1], Cardinality({i \in 1..(k - 1) : script[i][1] = script[k][1]})>>

\* The graph of a script.  txs, itxs and sigs say what the events carry: the
\* positions with transactions, and the internal transactions and block
\* signatures by position.
MakeDag(script, txs, itxs, sigs) ==
    LET names == [k \in DOMAIN script |-> NameIn(script, k)]
        at(x) == CHOOSE k \in DOMAIN script : names[k] = x
        op(k) == script[k][2]
    IN  [x \in Range(names) |->
            [op   |-> IF op(at(x)) = 0 THEN <<x[1], -1>> ELSE names[op(at(x))],
             txs  |-> at(x) \in txs,
             itxs |-> IF at(x) \in DOMAIN itxs THEN itxs[at(x)] ELSE <<>>,
             sigs |-> IF at(x) \in DOMAIN sigs THEN sigs[at(x)] ELSE {},
             ts   |-> (5 * at(x)) % 17,
             rank |-> (37 * at(x)) % 101,
             bit  |-> at(x) % 2 = 0]]

Nothing == [k \in {} |-> {}]

\* The witness of a comes when round 0 is decided.
LateWitness ==
    <<<<d, 0>>, <<b, 0>>, <<c, 1>>, <<c, 2>>, <<d, 4>>, <<b, 5>>, <<c, 6>>,
      <<d, 7>>, <<b, 8>>, <<c, 9>>, <<d, 9>>, <<a, 0>>>>

\* The witness of a is known, and decided not famous.
NotFamous ==
    <<<<b, 0>>, <<c, 1>>, <<d, 2>>, <<b, 3>>, <<d, 4>>, <<c, 4>>, <<d, 6>>,
      <<b, 7>>, <<d, 8>>, <<a, 0>>, <<c, 9>>>>

\* Two blocks, signed by a, b and d; an election of round 1 takes three rounds.
TwoBlocks ==
    <<<<c, 0>>, <<a, 1>>, <<c, 2>>, <<a, 3>>, <<b, 4>>, <<d, 0>>, <<c, 5>>,
      <<d, 7>>, <<a, 7>>, <<c, 8>>, <<a, 10>>, <<c, 11>>, <<a, 12>>, <<d, 12>>,
      <<b, 12>>, <<a, 15>>, <<c, 15>>, <<a, 17>>, <<d, 18>>, <<c, 19>>, <<d, 20>>,
      <<a, 21>>, <<b, 21>>, <<a, 23>>, <<d, 24>>, <<a, 25>>, <<b, 26>>, <<d, 27>>>>

\* Round 1 is decided before round 0.
OutOfOrder ==
    <<<<a, 0>>, <<c, 0>>, <<d, 2>>, <<c, 1>>, <<b, 0>>, <<a, 3>>, <<c, 6>>,
      <<a, 7>>, <<c, 5>>, <<d, 8>>, <<a, 10>>, <<d, 9>>, <<a, 9>>, <<c, 13>>,
      <<b, 14>>, <<a, 12>>, <<a, 14>>, <<c, 15>>, <<c, 17>>, <<a, 19>>, <<d, 20>>,
      <<c, 21>>, <<b, 22>>>>

\* Of four peers, c and d leave: their first events ask for it, and the peer-set
\* is {a, b} from round 7.  The witness <<d, 5>> of round 5 is seen by half of
\* the witnesses of round 6.
TwoLeave ==
    <<<<a, 0>>, <<b, 1>>, <<c, 2>>, <<d, 3>>, <<a, 4>>, <<b, 5>>, <<c, 6>>,
      <<d, 7>>, <<a, 8>>, <<b, 9>>, <<c, 10>>, <<d, 11>>, <<a, 12>>, <<b, 13>>,
      <<c, 14>>, <<d, 15>>, <<a, 16>>, <<b, 17>>, <<c, 18>>, <<d, 19>>,
      <<b, 20>>, <<c, 21>>, <<a, 22>>, <<d, 22>>, <<c, 23>>, <<b, 25>>,
      <<c, 26>>, <<b, 27>>, <<a, 24>>, <<d, 28>>, <<a, 30>>, <<c, 31>>,
      <<a, 32>>, <<b, 32>>>>

\* Everyone passes on the last event.  Before d has left, c asks to leave and d
\* to join again: the peers are a, b and c from round 7, a and b in round 9, and
\* a, b and d from round 10.
LeaveAndRejoin ==
    [k \in 1..40 |-> <<(<<a, b, c, d>>)[((k - 1) % 4) + 1], k - 1>>]
        \o <<<<a, 40>>, <<b, 41>>, <<a, 42>>, <<d, 43>>>>

\* stronglySee misses a path that goes through an event below a witness.
ShortDescendants ==
    <<<<a, 0>>, <<b, 1>>, <<d, 0>>, <<a, 2>>, <<d, 2>>, <<c, 5>>, <<a, 6>>, <<c, 7>>,
      <<b, 8>>>>

\* Some witnesses of round 3 decide three of the witnesses of round 1 and leave
\* the fourth undecided, others decide the four of them.
SplitVotes ==
    <<<<a, 0>>, <<b, 1>>, <<c, 2>>, <<d, 3>>, <<a, 4>>, <<b, 5>>, <<c, 6>>,
      <<b, 7>>, <<c, 8>>, <<d, 5>>, <<b, 9>>, <<a, 11>>, <<d, 9>>, <<b, 13>>,
      <<c, 14>>, <<d, 15>>, <<c, 16>>, <<b, 17>>, <<d, 12>>, <<c, 19>>>>

\* An election that takes three rounds and ends with a no.
SlowNotFamous ==
    <<<<a, 0>>, <<d, 0>>, <<b, 2>>, <<c, 3>>, <<b, 1>>, <<d, 5>>, <<c, 5>>, <<c, 6>>,
      <<a, 5>>, <<a, 6>>, <<b, 6>>, <<a, 8>>, <<b, 10>>, <<c, 13>>, <<a, 13>>,
      <<b, 15>>, <<c, 16>>, <<d, 17>>, <<b, 18>>, <<c, 19>>, <<a, 20>>>>

Join(p) == <<[type |-> "PEER_ADD", peer |-> p]>>
Leave(p) == <<[type |-> "PEER_REMOVE", peer |-> p]>>

LateDags == {MakeDag(LateWitness, {1, 4, 5, 6}, Nothing, Nothing),
              MakeDag(NotFamous, {1, 4, 5, 6}, Nothing, Nothing)}

SplitDags == {MakeDag(SplitVotes, 1..20, Nothing, Nothing),
             MakeDag(SlowNotFamous, 1..21, Nothing, Nothing)}

BlockDags == {MakeDag(TwoBlocks, 1..25, Nothing,
                  [k \in {26, 27, 28} |->
                     {[validator |-> TwoBlocks[k][1], index |-> i, round |-> i + 1] : i \in 0..1}])}

OrderDags == {MakeDag(OutOfOrder, 1..23, Nothing, Nothing)}

MemberDags == {MakeDag(LeaveAndRejoin, {8, 20},
                   4 :> Leave(d) @@ 7 :> Leave(b) @@ 9 :> Leave(c) @@ 13 :> Join(d), Nothing)}

DescendantDags == {MakeDag(ShortDescendants, {}, Nothing, Nothing)}

\* The graphs that one node or the other may build.
MCDags == LateDags \cup SplitDags \cup BlockDags \cup OrderDags
              \cup MemberDags \cup DescendantDags

\* The application does not let b leave.
RefusedLeave == Range(Leave(b))

\* The application of b fails on the second block.
SecondBlockFails == {<<b, 1>>}

LeaveDags == {MakeDag(TwoLeave, {}, 3 :> Leave(c) @@ 4 :> Leave(d), Nothing)}
=============================================================================
