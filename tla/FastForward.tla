---------------------------- MODULE FastForward ----------------------------
(***************************************************************************)
(* Fast-forward: a node in the CatchingUp state asks its peers for their   *)
(* anchor blocks, restores its application from the snapshot of the best,  *)
(* resets its hashgraph from the frame of that block (node.fastForward,    *)
(* core.fastForward, Hashgraph.Reset) and goes on with the events that     *)
(* gossip brings.  It composes with Hashgraph: the same consensus methods  *)
(* run on a hashgraph that was reset and on one that has the full history. *)
(***************************************************************************)
EXTENDS HashgraphProperties

CONSTANTS
    CatchingUp,     \* the nodes that start with fast-sync
    Faults          \* "check": the answer of a peer may fail the checks;
                    \* "lost": the answer of a peer may not arrive

\* The application fails on no block: Babble hands it every block.
ASSUME FastForwardAssumption ==
    /\ CatchingUp \subseteq Nodes
    /\ Faults \subseteq {"check", "lost"}
    /\ AppFailures = {}

VARIABLES
    phase,          \* state of a node
    app             \* the indexes of the blocks that its application holds

ffVars == <<dag, hg, phase, app>>

FFInit ==
    /\ Init
    /\ phase = [n \in Nodes |-> IF n \in CatchingUp THEN "CatchingUp" ELSE "Babbling"]
    /\ app = [n \in Nodes |-> <<>>]

-----------------------------------------------------------------------------
(***************************************************************************)
(* The peer that answers.                                                  *)
(***************************************************************************)

\* GetAnchorBlockWithFrame; the frame was made when the round was processed.
AnchorBlock(h) == h.blocks[h.anchor]
AnchorFrame(h) == h.frames[AnchorBlock(h).round]

\* getBestFastForwardResponse: the highest block among the answers, which must
\* be above 0.  An anchor only moves up, so that the peers are asked one after
\* the other makes no difference.
getBest(answers) ==
    {m \in answers : hg[m].anchor > 0 /\ \A k \in answers : hg[k].anchor <= hg[m].anchor}

\* The peers whose answers arrive.
Answers(n) ==
    IF "lost" \in Faults THEN SUBSET (Nodes \ {n}) ELSE {Nodes \ {n}}

-----------------------------------------------------------------------------
(***************************************************************************)
(* Reset.                                                                  *)
(***************************************************************************)

\* CheckBlock against the peers of the frame.
CheckBlock(block, peers) ==
    /\ block.peers = peers
    /\ Cardinality(block.sigs \cap peers) > TrustCount(peers)

\* InsertFrameEvent: round, timestamp and witness come with the event, which is
\* recorded as a consensus event and not as an undetermined one.
InsertFrameEvent(h, x, info) ==
    LET g == [h EXCEPT !.round[x] = info.round,
                       !.witness[x] = info.witness,
                       !.lamport[x] = info.lamport]
    IN  UpdateAncestorFirstDescendant(
            [g EXCEPT !.la[x] = LastAncestors(g, x),
                      !.fd[x][Creator(x)] = Index(x),
                      !.known = @ \cup {x},
                      !.lastConsensus[Creator(x)] = Index(x)],
            x)

\* Frame.SortedFrameEvents: the events of the frame and of its roots.
SortedFrameEvents(frame) ==
    SortEvents([lamport |-> [x \in DOMAIN frame.info |-> frame.info[x].lamport]],
               DOMAIN frame.info)

\* The loop over them.
InsertFrameEvents(h, info, events) ==
    LET after[i \in 0..Len(events)] ==
            IF i = 0 THEN h ELSE InsertFrameEvent(after[i - 1], events[i], info[events[i]])
    IN  after[Len(events)]

ResetMutant(h, block, frame) ==
    LET base == [NewHashgraph EXCEPT !.peerSets = frame.peerSets,
                                     !.frames = [r \in {frame.round} |-> frame],
                                     !.sigPool = h.sigPool]
        g == InsertFrameEvents(base, frame.info, SortedFrameEvents(frame))
    IN  [g EXCEPT !.blocks = [i \in {block.index} |-> block],
                  !.lastConsensusRound = block.round]

\* Hashgraph.Reset with Store.Reset.  PendingSignatures stay.
Reset(h, block, frame) ==
    LET base == [NewHashgraph EXCEPT !.peerSets = frame.peerSets,
                                     !.frames = [r \in {frame.round} |-> frame],
                                     !.sigPool = h.sigPool]
        g == InsertFrameEvents(base, frame.info, SortedFrameEvents(frame))
    IN  [g EXCEPT !.blocks = [i \in {block.index} |-> block],
                  !.lastConsensusRound = block.round,
                  !.lowerBound = block.round]

\* core.fastForward, then the receipts of the block: node.fastForward.
fastForward(h, block, frame) ==
    ProcessAccepted([Reset(h, block, frame) EXCEPT !.validators = frame.peers], block)

\* The application has the blocks up to i.
Snapshot(i) == [k \in 1..i + 1 |-> k - 1]

-----------------------------------------------------------------------------
(***************************************************************************)
(* Steps.                                                                  *)
(***************************************************************************)

FastForwardMutant(n) ==
    /\ phase[n] = "CatchingUp"
    /\ \E answers \in Answers(n) : \E m \in getBest(answers) :
          LET block == AnchorBlock(hg[m])
              frame == AnchorFrame(hg[m])
          IN  /\ CheckBlock(block, frame.peers)
              /\ hg' = [hg EXCEPT ![n] = fastForward(hg[n], block, frame)]
              /\ app' = app
    /\ phase' = [phase EXCEPT ![n] = "Babbling"]
    /\ UNCHANGED dag

\* proxy.Restore, core.fastForward, transition to Babbling.
FastForward(n) ==
    /\ phase[n] = "CatchingUp"
    /\ \E answers \in Answers(n) : \E m \in getBest(answers) :
          LET block == AnchorBlock(hg[m])
              frame == AnchorFrame(hg[m])
          IN  /\ CheckBlock(block, frame.peers)
              /\ hg' = [hg EXCEPT ![n] = fastForward(hg[n], block, frame)]
              /\ app' = [app EXCEPT ![n] = Snapshot(block.index)]
    /\ phase' = [phase EXCEPT ![n] = "Babbling"]
    /\ UNCHANGED dag

\* core.fastForward refuses the block or the frame: the application was restored
\* before it, and the node tries again.
CheckFails(n) ==
    /\ "check" \in Faults
    /\ phase[n] = "CatchingUp"
    /\ \E answers \in Answers(n) : \E m \in getBest(answers) :
          app' = [app EXCEPT ![n] = Snapshot(hg[m].anchor)]
    /\ UNCHANGED <<dag, hg, phase>>

\* No answer with a block above 0: the node babbles from where it is.
NoAnswer(n) ==
    /\ phase[n] = "CatchingUp"
    /\ \E answers \in Answers(n) : getBest(answers) = {}
    /\ phase' = [phase EXCEPT ![n] = "Babbling"]
    /\ UNCHANGED <<dag, hg, app>>

\* Sync: an event is inserted and consensus runs; the blocks it commits reach
\* the application in order.
Babble(n) ==
    /\ phase[n] = "Babbling"
    /\ \/ \E x \in Events : InsertEventAndRunConsensus(n, x)
       \/ ProcessSigPool(n)
    /\ app' = [app EXCEPT ![n] = @ \o Ascending(DOMAIN hg'[n].blocks \ DOMAIN hg[n].blocks)]
    /\ UNCHANGED phase

FFNext ==
    \E n \in Nodes : Babble(n) \/ FastForward(n) \/ CheckFails(n) \/ NoAnswer(n)

FFSpec == FFInit /\ [][FFNext]_ffVars

-----------------------------------------------------------------------------
(***************************************************************************)
(* Properties.  FramesAgree of HashgraphProperties compares a node that    *)
(* was reset with one that has the whole history.                          *)
(***************************************************************************)

\* The application of a node holds every block once, in order, and has got as
\* far as the hashgraph of the node.
AppFollowsBlocks ==
    \A n \in Nodes :
        /\ app[n] = Snapshot(Len(app[n]) - 1)
        /\ phase[n] = "Babbling" => Len(app[n]) - 1 = LastBlockIndex(hg[n])

\* A node that some peer could give an anchor block does not start from nothing.
CatchesUp ==
    \A n \in Nodes : phase[n] = "CatchingUp" =>
        ((\E m \in Nodes \ {n} : hg[m].anchor >= 0) => getBest(Nodes \ {n}) # {})
=============================================================================
