--------------------------- MODULE MCFameElection ---------------------------
(***************************************************************************)
(* Instances of FameElection for TLC.                                      *)
(***************************************************************************)
EXTENDS FameElection

CONSTANTS p1, p2, p3, p4, p5

MCParticipants == {p1, p2, p3, p4, p5}

\* A peer joins at a normal round.
GrowingPeersAt == [d \in 1..MaxDiff |-> IF d < 3 THEN {p1, p2, p3, p4} ELSE MCParticipants]

\* One of five peers leaves, at a normal round.
LeavingPeersAt == [d \in 1..MaxDiff |-> IF d < 2 THEN MCParticipants ELSE {p1, p2, p3, p4}]
=============================================================================
