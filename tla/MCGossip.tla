------------------------------ MODULE MCGossip ------------------------------
(***************************************************************************)
(* The networks that TLC explores.                                         *)
(***************************************************************************)
EXTENDS Gossip

CONSTANTS n1, n2, n3, t1

\* One exchange at a time, as many as it takes; events are sent one by one.
Endless == [nodes |-> {n1, n2}, txs |-> {t1}, routines |-> 1, syncLimit |-> 1,
            maxIndex |-> 1, maxFaults |-> 0, maxStored |-> 100]

\* A third node, whose events come through the others.
Three == [nodes |-> {n1, n2, n3}, txs |-> {}, routines |-> 1, syncLimit |-> 2,
          maxIndex |-> 1, maxFaults |-> 0, maxStored |-> 5]

\* Two exchanges at a time, and consensus methods that may fail.
Faulty == [nodes |-> {n1, n2}, txs |-> {t1}, routines |-> 2, syncLimit |-> 1,
           maxIndex |-> 0, maxFaults |-> 1, maxStored |-> 3]

MCConfs == {Endless, Three, Faulty}
=============================================================================
