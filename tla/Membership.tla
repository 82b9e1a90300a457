----------------------------- MODULE Membership -----------------------------
(***************************************************************************)
(* Dynamic membership (src/node/core.go, node.go, node_rpc.go, promise.go):*)
(* join and leave requests, the promises that wait for them, the rounds at *)
(* which they take effect, and fast-forwarding over them.                  *)
(*                                                                         *)
(* Consensus is what module Hashgraph shows it to be: one sequence of      *)
(* rounds, which every node processes in order. A round carries the        *)
(* receipts of the internal transactions received in it; one that is       *)
(* submitted is received in some later round, at the pace of the nodes     *)
(* that have work to do.                                                   *)
(***************************************************************************)
EXTENDS Integers, Sequences, FiniteSets, SequencesExt, FiniteSetsExt

CONSTANTS Genesis,      \* the genesis peers
          Joiners,      \* the nodes that join, and may leave
          Confs         \* the configurations considered

Nodes == Genesis \cup Joiners

\* A node that joins is no genesis peer.
ASSUME MembershipAssumption == Genesis \cap Joiners = {}

VARIABLES conf,         \* one of them; it never changes
          chain,        \* the receipts of each round, from round 0
          pending,      \* internal transactions on their way to a round
          node,         \* each node's core
          request,      \* each joiner's join request
          leaving,      \* where each node is in leave
          requests      \* requests so far

vars == <<conf, chain, pending, node, request, leaving, requests>>

Refusals == conf.refusals       \* whether the application may refuse a request
FastSync == conf.fastSync       \* conf.EnableFastSync
Leaves == conf.leaves           \* whether joiners leave
MaxRequests == conf.maxRequests \* bound: join and leave requests
MaxDelay == conf.maxDelay       \* bound: the round by which what was submitted is received
MaxRound == conf.maxRound       \* bound: rounds; a request comes early enough to take effect
MaxLag == conf.maxLag           \* bound: how far behind the last round a genesis node may be

None == -1

\* Internal transactions; a retry has the hash of the one before it, and the
\* number of the request tells two submissions apart.
AddPeer(j) == [type |-> "PEER_ADD", peer |-> j]
RemovePeer(j) == [type |-> "PEER_REMOVE", peer |-> j]

\* newCore: a node starts from the genesis peers; joiners do not babble.
NewCore(state) ==
    [state |-> state, last |-> None, peers |-> Genesis, validators |-> Genesis,
     sets |-> {[round |-> 0, peers |-> Genesis]}, targetRound |-> None,
     removedRound |-> None, acceptedRound |-> None, promises |-> {}]

NoRequest == [to |-> "nobody", answer |-> "none", round |-> None]

Init ==
    /\ conf \in Confs
    /\ chain = <<>>
    /\ pending = {}
    /\ node = [n \in Nodes |-> NewCore(IF n \in Genesis THEN "Babbling" ELSE "Joining")]
    /\ request = [j \in Joiners |-> NoRequest]
    /\ leaving = [n \in Nodes |-> "no"]
    /\ requests = 0

\* GetPeerSet: the latest set recorded for a round up to r.
PeerSet(c, r) ==
    LET at == Max({0} \cup {s.round : s \in {t \in c.sets : t.round <= r}})
    IN  (CHOOSE s \in c.sets : s.round = at).peers

-----------------------------------------------------------------------------
(***************************************************************************)
(* Consensus.                                                              *)
(***************************************************************************)

Round == Len(chain)

\* busy, for want of application transactions: a validator has submitted
\* something, or has not reached its target round.
busy == pending # {} \/ \E n \in Nodes : node[n].state = "Babbling"
                                         /\ node[n].last < node[n].targetRound

Orders(S) == {o \in [1..Cardinality(S) -> S] : IsInjective(o)}

\* The next round is decided: what is received in it, in which order, and what
\* the application accepts.
DecideRound ==
    /\ busy
    /\ Round < MaxRound
    /\ \A n \in Genesis : Round - node[n].last <= MaxLag
    /\ \E S \in SUBSET pending :
          /\ Round >= MaxDelay => S = pending
          /\ \E o \in Orders(S), ok \in [S -> IF Refusals THEN BOOLEAN ELSE {TRUE}] :
                chain' = Append(chain, [i \in DOMAIN o |-> [tx |-> o[i].tx, accepted |-> ok[o[i]]]])
          /\ pending' = pending \ S
    /\ UNCHANGED <<conf, node, request, leaving, requests>>

-----------------------------------------------------------------------------
(***************************************************************************)
(* processAcceptedInternalTransactions.                                    *)
(***************************************************************************)

effectiveRound(r) == r + 6

\* WithNewPeer, WithRemovedPeer, or neither.
WithChange(peers, x) ==
    CASE ~x.accepted                            -> peers
      [] x.accepted /\ x.tx.type = "PEER_ADD"    -> peers \cup {x.tx.peer}
      [] x.accepted /\ x.tx.type = "PEER_REMOVE" -> peers \ {x.tx.peer}

\* Receipt after receipt.
WithChanges(peers, receipts) ==
    LET after[i \in 0..Len(receipts)] ==
            IF i = 0 THEN peers ELSE WithChange(after[i - 1], receipts[i])
    IN  after[Len(receipts)]

targetRoundMutant(c, r) == c.targetRound

targetRound(c, r) == Max({c.targetRound, effectiveRound(r)})

changedMutant(n, receipts) == \E x \in ToSet(receipts) : x.accepted /\ x.tx # RemovePeer(n)

\* Whether the receipts change the validators.
changed(n, receipts) == \E x \in ToSet(receipts) : x.accepted

\* The node's core after the receipts of round r. SetPeerSet refuses a round
\* that it has.
processAccepted(n, c, r, receipts) ==
    LET validators == WithChanges(c.validators, receipts)
        d == [c EXCEPT !.removedRound = IF [tx |-> RemovePeer(n), accepted |-> TRUE] \in ToSet(receipts)
                                        THEN effectiveRound(r) ELSE @]
    IN  IF ~changed(n, receipts) \/ \E s \in c.sets : s.round = effectiveRound(r) THEN d
        ELSE [d EXCEPT !.sets = @ \cup {[round |-> effectiveRound(r), peers |-> validators]},
                       !.validators = validators,
                       !.peers = WithChanges(@, receipts),
                       !.targetRound = targetRound(c, r)]

\* Whether the promise that waits for tx is told that it was accepted: the first
\* receipt counts.
Verdict(tx, receipts) == SelectSeq(receipts, LAMBDA x : x.tx = tx)[1].accepted

Received(tx, receipts) == \E x \in ToSet(receipts) : x.tx = tx

\* The promises kept: the request of a joiner that waits at n is answered.
Answer(n, r, receipts) ==
    request' = [j \in Joiners |->
        IF /\ request[j].to = n /\ request[j].answer = "none"
           /\ AddPeer(j) \in node[n].promises /\ Received(AddPeer(j), receipts)
        THEN IF Verdict(AddPeer(j), receipts)
             THEN [request[j] EXCEPT !.answer = "accepted", !.round = effectiveRound(r)]
             ELSE [request[j] EXCEPT !.answer = "refused"]
        ELSE request[j]]

KeptPromises(n, receipts) == node[n].promises \ {x.tx : x \in ToSet(receipts)}

\* leave: its promise is kept.
LeaveAnswered(n, receipts) ==
    leaving' = IF leaving[n] = "waiting" /\ Received(RemovePeer(n), receipts)
               THEN [leaving EXCEPT ![n] = "reaching"] ELSE leaving

\* Node n processes its next round: commit, then LastConsensusRound.
ProcessRound(n) ==
    /\ node[n].state = "Babbling"
    /\ node[n].last + 1 < Round
    /\ LET r == node[n].last + 1
           receipts == chain[r + 1]
           c == processAccepted(n, node[n], r, receipts)
       IN  /\ node' = [node EXCEPT ![n] = [c EXCEPT !.last = r,
                                                    !.promises = KeptPromises(n, receipts)]]
           /\ Answer(n, r, receipts)
           /\ LeaveAnswered(n, receipts)
    /\ UNCHANGED <<conf, chain, pending, requests>>

-----------------------------------------------------------------------------
(***************************************************************************)
(* Joining.                                                                *)
(***************************************************************************)

Submission(tx) == [tx |-> tx, number |-> requests]

\* The bounds allow for another request.
MayRequest == requests < MaxRequests /\ Round + 8 <= MaxRound

\* processJoinRequest at node n, for a peer that is already present.
AlreadyPresent(j, n) ==
    /\ j \in node[n].peers
    /\ request' = [request EXCEPT ![j] = [to |-> n, answer |-> "accepted",
                                          round |-> Max({0, node[n].last})]]
    /\ UNCHANGED <<node, pending>>

\* processJoinRequest: the transaction is submitted, and a promise left.
Dispatch(j, n) ==
    /\ j \notin node[n].peers
    /\ pending' = pending \cup {Submission(AddPeer(j))}
    /\ node' = [node EXCEPT ![n].promises = @ \cup {AddPeer(j)}]
    /\ request' = [request EXCEPT ![j] = [to |-> n, answer |-> "none", round |-> None]]

\* join: a request to some node that is babbling.
Join(j) ==
    /\ node[j].state = "Joining"
    /\ request[j] = NoRequest
    /\ MayRequest
    /\ requests' = requests + 1
    /\ \E n \in Genesis :
          /\ node[n].state = "Babbling"
          /\ AlreadyPresent(j, n) \/ Dispatch(j, n)
    /\ UNCHANGED <<conf, chain, leaving>>

\* The request, or its promise, times out; join will be tried again. The
\* promise and the transaction stay.
JoinTimeout(j) ==
    /\ node[j].state = "Joining"
    /\ request[j].to \in Genesis /\ request[j].answer = "none"
    /\ request' = [request EXCEPT ![j] = NoRequest]
    /\ UNCHANGED <<conf, chain, pending, node, leaving, requests>>

\* join: the response.
Joined(j) ==
    /\ node[j].state = "Joining"
    /\ request[j].answer # "none"
    /\ node' = [node EXCEPT ![j] =
          IF request[j].answer = "accepted"
          THEN [@ EXCEPT !.acceptedRound = request[j].round,
                         !.removedRound = None,
                         !.state = IF FastSync THEN "CatchingUp" ELSE "Babbling"]
          ELSE [@ EXCEPT !.state = "Shutdown"]]
    /\ request' = [request EXCEPT ![j] = NoRequest]
    /\ UNCHANGED <<conf, chain, pending, leaving, requests>>

\* fastForward from node m, whose anchor block is that of round r: the core is
\* that of the frame, which was made before m processed the block; then the
\* receipts of the block are processed.
FastForward(n) ==
    /\ node[n].state = "CatchingUp"
    /\ \E m \in Genesis :
         \E r \in 0..node[m].last :
            LET sets == {s \in node[m].sets : s.round < effectiveRound(r)}
                peers == PeerSet([sets |-> sets], r)
                c == [node[n] EXCEPT !.sets = sets, !.peers = peers, !.validators = peers,
                                     !.last = r]
            IN  node' = [node EXCEPT ![n] =
                    [processAccepted(n, c, r, chain[r + 1]) EXCEPT !.state = "Babbling"]]
    /\ UNCHANGED <<conf, chain, pending, request, leaving, requests>>

-----------------------------------------------------------------------------
(***************************************************************************)
(* Leaving and suspending.                                                 *)
(***************************************************************************)

\* leave: a validator that is not alone submits its removal. It does not hold
\* the core lock, so addSelfEvent may overwrite the pool with what it read of
\* it before: the transaction may be lost.
Leave(n) ==
    /\ Leaves /\ n \in Joiners
    /\ node[n].state = "Babbling" /\ leaving[n] = "no"
    /\ n \in node[n].validators /\ Cardinality(node[n].validators) > 1
    /\ MayRequest
    /\ requests' = requests + 1
    /\ leaving' = [leaving EXCEPT ![n] = "waiting"]
    /\ node' = [node EXCEPT ![n].promises = @ \cup {RemovePeer(n)}]
    /\ pending' \in {pending, pending \cup {Submission(RemovePeer(n))}}
    /\ UNCHANGED <<conf, chain, request>>

\* leave: the node has reached the round of its removal; Shutdown.
LeftMutant(n) ==
    /\ leaving[n] = "reaching"
    /\ leaving' = [leaving EXCEPT ![n] = "left"]
    /\ node' = [node EXCEPT ![n].state = "Shutdown"]
    /\ UNCHANGED <<conf, chain, pending, request, requests>>

Left(n) ==
    /\ leaving[n] = "reaching"
    /\ node[n].last >= node[n].removedRound
    /\ leaving' = [leaving EXCEPT ![n] = "left"]
    /\ node' = [node EXCEPT ![n].state = "Shutdown"]
    /\ UNCHANGED <<conf, chain, pending, request, requests>>

\* leave times out; Shutdown.
LeaveTimeout(n) ==
    /\ leaving[n] \in {"waiting", "reaching"}
    /\ leaving' = [leaving EXCEPT ![n] = "gone"]
    /\ node' = [node EXCEPT ![n].state = "Shutdown"]
    /\ UNCHANGED <<conf, chain, pending, request, requests>>

\* checkSuspend: the validator has been evicted.
CheckSuspend(n) ==
    /\ node[n].state = "Babbling" /\ leaving[n] = "no"
    /\ node[n].removedRound > 0
    /\ node[n].removedRound > node[n].acceptedRound
    /\ node[n].last >= node[n].removedRound
    /\ node' = [node EXCEPT ![n].state = "Suspended"]
    /\ UNCHANGED <<conf, chain, pending, request, leaving, requests>>

\* A joiner that has gone is started again, and joins again.
Restart(n) ==
    /\ n \in Joiners /\ leaving[n] \in {"left", "gone"}
    /\ MayRequest
    /\ leaving' = [leaving EXCEPT ![n] = "no"]
    /\ node' = [node EXCEPT ![n] = NewCore("Joining")]
    /\ request' = [request EXCEPT ![n] = NoRequest]
    /\ UNCHANGED <<conf, chain, pending, requests>>

-----------------------------------------------------------------------------

Next ==
    \/ DecideRound
    \/ \E n \in Nodes :
          \/ ProcessRound(n) \/ Leave(n) \/ Left(n) \/ LeaveTimeout(n)
          \/ CheckSuspend(n) \/ Restart(n) \/ FastForward(n)
    \/ \E j \in Joiners : Join(j) \/ JoinTimeout(j) \/ Joined(j)

\* Nodes with work to do gossip until it is done, and nodes process what is
\* decided; a node that was answered goes on.
Fairness ==
    /\ WF_vars(DecideRound)
    /\ \A n \in Nodes : WF_vars(ProcessRound(n)) /\ WF_vars(FastForward(n))
    /\ \A j \in Joiners : WF_vars(Joined(j))

Spec == Init /\ [][Next]_vars /\ Fairness

-----------------------------------------------------------------------------
(***************************************************************************)
(* Properties.                                                             *)
(***************************************************************************)

\* Two nodes that have recorded peer-sets up to some round agree on the
\* peer-set of that round: whatever retries, refusals and removals they
\* processed, they count the same votes (processAcceptedInternalTransactions;
\* comment of core.validators: "the latest validator-set used in the hashgraph
\* consensus methods").
PeerSetsAgree ==
    \A m, n \in Nodes : \A r \in 0..effectiveRound(Min({node[m].last, node[n].last})) :
        node[m].last >= 0 /\ node[n].last >= 0 => PeerSet(node[m], r) = PeerSet(node[n], r)

\* A node whose removal was accepted and which left in good order is out of the
\* peer-set of the round it left in (leave waits for removedRound), if its join
\* was asked for once.
LeftIsOut ==
    \A n \in Joiners :
        leaving[n] = "left" /\ requests <= 2 /\ node[n].removedRound > 0 =>
            n \notin PeerSet(node[n], node[n].last)

\* A joiner that was told that it is in gets to the round at which it is in,
\* for targetRound keeps everyone going although nothing else happens.
JoinerGetsIn ==
    \A j \in Joiners :
        (node[j].state = "Babbling" /\ node[j].acceptedRound >= 0)
            ~> (node[j].last >= node[j].acceptedRound \/ node[j].state # "Babbling")

\* Comment of core.acceptedRound: "the first round at which the node's last
\* join request (InternalTransaction) takes effect".
AcceptedRoundTakesEffect ==
    \A j \in Joiners :
        node[j].state = "Babbling" /\ node[j].last >= node[j].acceptedRound =>
            j \in PeerSet(node[j], node[j].acceptedRound)

\* Comment of Leave: the node waits "for its validator to be removed from the
\* validator-set via consensus", so it is not a validator afterwards.
LeftStaysOut ==
    \A j \in Joiners : leaving[j] = "left" =>
        \A n \in Genesis : node[n].last >= node[j].last => j \notin node[n].validators
=============================================================================
