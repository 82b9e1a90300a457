--------------------------- MODULE MCFastForward ---------------------------
(***************************************************************************)
(* Instances of FastForward for TLC: d joins a, b and c.                   *)
(***************************************************************************)
EXTENDS FastForward, MCHashgraph

FFNodes == {a, d}
Founders == {a, b, c}
Joiner == {d}

\* c falls behind twice, and rounds take from four to ten events.
Lagging ==
    <<<<b, 0>>, <<a, 0>>, <<c, 2>>, <<a, 3>>, <<b, 4>>, <<a, 5>>, <<b, 6>>, <<a, 7>>,
      <<b, 8>>, <<a, 9>>, <<c, 10>>, <<a, 11>>, <<c, 12>>, <<b, 13>>, <<a, 14>>,
      <<c, 15>>, <<b, 16>>, <<a, 17>>, <<b, 16>>, <<a, 19>>, <<b, 20>>, <<c, 21>>,
      <<b, 22>>, <<a, 23>>, <<b, 24>>, <<c, 25>>, <<a, 26>>, <<b, 22>>, <<a, 28>>,
      <<b, 29>>, <<a, 30>>, <<b, 31>>, <<c, 28>>, <<b, 33>>, <<a, 34>>, <<c, 35>>,
      <<a, 36>>, <<c, 37>>, <<b, 38>>, <<c, 37>>, <<b, 40>>, <<c, 41>>, <<b, 42>>,
      <<a, 43>>>>

\* The first event of each peer that follows the commit of block 0, of block 1.
LaggingSigs ==
    [k \in {23, 24, 26} |-> {[validator |-> Lagging[k][1], index |-> 0, round |-> 1]}]
      @@ [k \in {29, 30, 33} |-> {[validator |-> Lagging[k][1], index |-> 1, round |-> 2]}]

LaggingDags == {MakeDag(Lagging, 1..44, 2 :> Join(d), LaggingSigs)}
=============================================================================
