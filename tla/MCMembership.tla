---------------------------- MODULE MCMembership ----------------------------
(***************************************************************************)
(* The configurations of Membership that TLC explores.                     *)
(***************************************************************************)
EXTENDS Membership

\* A join that may be refused, asked for again or followed by a leave.
JoinAndLeave == [refusals |-> TRUE, fastSync |-> FALSE, leaves |-> TRUE,
                 maxRequests |-> 2, maxDelay |-> 1, maxRound |-> 17, maxLag |-> 2]

\* A peer that leaves and joins again.
Rejoin == [refusals |-> FALSE, fastSync |-> FALSE, leaves |-> TRUE,
           maxRequests |-> 3, maxDelay |-> 0, maxRound |-> 18, maxLag |-> 1]

\* A joiner that fast-forwards.
CatchUp == [refusals |-> TRUE, fastSync |-> TRUE, leaves |-> FALSE,
            maxRequests |-> 2, maxDelay |-> 1, maxRound |-> 17, maxLag |-> 2]

MCConfs == {JoinAndLeave, Rejoin, CatchUp}
=============================================================================
