---------------------------- MODULE PeerSelector ----------------------------
(***************************************************************************)
(* The loop of babble.  At a tick of the control timer it asks the         *)
(* randomPeerSelector for the next peer, without a lock, launches a gossip *)
(* routine and resets the timer.  Gossip routines call updateLast when     *)
(* they end, and setPeers puts a new selector in place when the peers      *)
(* change.  The module composes with ControlTimer: no tick, no gossip.     *)
(***************************************************************************)
EXTENDS ControlTimer, Sequences, SequencesExt, FiniteSets

CONSTANTS
    Peers,      \* the other peers
    Routines,   \* gossip routines at the same time (WGLIMIT)
    Changes     \* bound on the number of calls of setPeers

None == "none"

VARIABLES
    selector,   \* [peers, last] of core.peerSelector
    scan,       \* the call of next: [pc, peers, others, old, last]
    routines,   \* the peers that gossip routines talk to
    picked,     \* the peer that next returned last
    changes,    \* number of calls of setPeers
    panicked    \* the process has died

selectorVars == <<selector, scan, routines, picked, changes, panicked>>
babbleVars == <<timerVars, selectorVars>>

\* newRandomPeerSelector.
newRandomPeerSelector(peers) == [peers |-> peers, last |-> None]

Resting == [pc |-> "rest", peers |-> <<>>, others |-> {}, old |-> FALSE, last |-> None]

BabbleInit ==
    /\ TimerInit
    /\ \E S \in SUBSET Peers :
           selector \in {newRandomPeerSelector(peers) : peers \in SetToSeqs(S)}
    /\ scan = Resting
    /\ routines = {}
    /\ picked = None
    /\ changes = 0
    /\ panicked = FALSE

-----------------------------------------------------------------------------
(***************************************************************************)
(* babble, between the tick and resetTimer.                                *)
(***************************************************************************)

\* A step of the timer goroutine, of resetTimer or of the end of babble.
TimerStep(A) == ~panicked /\ A /\ UNCHANGED selectorVars

\* babble receives a tick and calls next.
BabbleTick ==
    /\ ~panicked /\ TimerTick
    /\ scan' = [Resting EXCEPT !.pc = "next"]
    /\ UNCHANGED <<selector, routines, picked, changes, panicked>>

\* Nobody to talk to: next returns nil and the node talks to itself (monologue
\* takes coreLock).
Alone ==
    /\ ~panicked /\ scan.pc = "next" /\ selector.peers = <<>>
    /\ coreLock = NoOne
    /\ picked' = None
    /\ scan' = Resting
    /\ UNCHANGED <<timerVars, selector, routines, changes, panicked>>

\* GoFunc(gossip): nothing is launched above the limit.
Gossip(p) ==
    /\ picked' = p
    /\ routines' = IF Cardinality(routines) < Routines THEN routines \cup {p} ELSE routines
    /\ scan' = Resting

\* The only peer.
OnlyOne ==
    /\ ~panicked /\ scan.pc = "next" /\ Len(selector.peers) = 1
    /\ Gossip(selector.peers[1])
    /\ UNCHANGED <<timerVars, selector, changes, panicked>>

Start ==
    /\ ~panicked /\ scan.pc = "next" /\ Len(selector.peers) > 1
    /\ scan' = [pc |-> "loop", peers |-> selector.peers, others |-> {},
                old |-> FALSE, last |-> selector.last]
    /\ UNCHANGED <<timerVars, selector, routines, picked, changes, panicked>>

\* ps.last as the loop reads it.  A selector that setPeers replaced is no longer
\* updated.
ReadLast == IF scan.old THEN scan.last ELSE selector.last

\* One round of the loop: pid != ps.last.
Loop ==
    /\ ~panicked /\ scan.pc = "loop" /\ scan.peers # <<>>
    /\ LET pid == Head(scan.peers)
       IN  scan' = [scan EXCEPT !.peers = Tail(@),
                                !.others = IF pid = ReadLast THEN @ ELSE @ \cup {pid}]
    /\ UNCHANGED <<timerVars, selector, routines, picked, changes, panicked>>

\* otherPeers[rand.Intn(len(otherPeers))]; Intn panics on zero.
Pick ==
    /\ ~panicked /\ scan.pc = "loop" /\ scan.peers = <<>>
    /\ IF scan.others = {}
       THEN panicked' = TRUE /\ UNCHANGED <<scan, routines, picked>>
       ELSE (\E p \in scan.others : Gossip(p)) /\ UNCHANGED panicked
    /\ UNCHANGED <<timerVars, selector, changes>>

-----------------------------------------------------------------------------
(***************************************************************************)
(* The other goroutines.                                                   *)
(***************************************************************************)

updateLastMutant(p) ==
    /\ ~panicked /\ p \in routines /\ coreLock = NoOne
    /\ routines' = routines \ {p}
    /\ UNCHANGED <<timerVars, selector, scan, picked, changes, panicked>>

\* A gossip routine takes coreLock for the last time and ends: updateLast.
updateLast(p) ==
    /\ ~panicked /\ p \in routines /\ coreLock = NoOne
    /\ selector' = [selector EXCEPT !.last = p]
    /\ routines' = routines \ {p}
    /\ UNCHANGED <<timerVars, scan, picked, changes, panicked>>

\* setPeers, with coreLock: a peer was added or removed.
setPeers ==
    /\ ~panicked /\ changes < Changes /\ coreLock = NoOne
    /\ \E peers \in {SelectSeq(selector.peers, LAMBDA q : q # p) : p \in Range(selector.peers)}
                      \cup {Append(selector.peers, p) : p \in Peers \ Range(selector.peers)} :
          selector' = newRandomPeerSelector(peers)
    /\ scan' = IF scan.pc = "loop" /\ ~scan.old
               THEN [scan EXCEPT !.old = TRUE, !.last = selector.last] ELSE scan
    /\ changes' = changes + 1
    /\ UNCHANGED <<timerVars, routines, picked, panicked>>

\* p may go on with resetTimer: babble comes to it when next has returned.
Resets(p) == p # Babble \/ scan.pc = "rest"

BabbleNext ==
    \/ TimerStep(Fire) \/ TimerStep(Unset) \/ TimerStep(SetTimer) \/ TimerStep(Exit)
    \/ \E c \in Handlers : TimerStep(Call(c))
    \/ \E p \in TimerProcs : Resets(p) /\ TimerStep(ResetTimer(p))
    \/ BabbleTick \/ Alone \/ OnlyOne \/ Start \/ Loop \/ Pick
    \/ \E p \in Peers : updateLast(p)
    \/ setPeers

\* The fairness of ControlTimer; next returns; and gossip ends, for its RPCs have
\* deadlines and coreLock is handed over to who waits for it.
BabbleFairness ==
    /\ WF_babbleVars(TimerStep(Fire)) /\ WF_babbleVars(TimerStep(Unset))
    /\ WF_babbleVars(TimerStep(SetTimer)) /\ WF_babbleVars(BabbleTick)
    /\ \A p \in TimerProcs :
           /\ SF_babbleVars(Resets(p) /\ TimerStep(Lock(p)))
           /\ WF_babbleVars(TimerStep(ReadSet(p) \/ ReadUnset(p) \/ Reset(p)))
    /\ SF_babbleVars(Alone) /\ WF_babbleVars(OnlyOne \/ Start \/ Loop \/ Pick)
    /\ \A p \in Peers : SF_babbleVars(updateLast(p))

BabbleSpec == BabbleInit /\ [][BabbleNext]_babbleVars /\ BabbleFairness

-----------------------------------------------------------------------------

\* As long as traffic keeps the heartbeat going, each of two peers is gossiped
\* with again and again while it is a peer and babble runs: next avoids the
\* last, and every gossip, successful or not, makes its peer the last.
Visits ==
    \A c \in Handlers :
        []<>(pc[c] = "lock") /\ []<>(pc[c] = "idle") =>
            \A p \in Peers : []<>(\/ picked = p
                                  \/ p \notin Range(selector.peers)
                                  \/ pc[Babble] = "exited")

\* next returns a peer.
NextReturns == ~panicked
=============================================================================
