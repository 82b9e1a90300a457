----------------------------- MODULE NodeState -----------------------------
(***************************************************************************)
(* The life cycle of a node (src/node/node.go, src/node/state/state.go):   *)
(* the state machine of Run, the background goroutine, the goroutines that *)
(* GoFunc launches, and Suspend, Leave and Shutdown, which check the state *)
(* and then act on it.                                                     *)
(*                                                                         *)
(* What gossip, joining and catching up do to the hashgraph is left out:   *)
(* here they take a while, then succeed or fail.                           *)
(***************************************************************************)
EXTENDS Naturals, FiniteSets

CONSTANTS Starts,       \* the states that Init may put the node in
          FastSync,     \* conf.EnableFastSync
          Suspends,     \* whether checkSuspend may find a reason to suspend
          AppRoutines,  \* goroutines of the application that call Shutdown
          Routines,     \* bound of the model: goroutines of GoFunc at a time
          WgLimit       \* WGLIMIT

Main == "main"
Background == "background"
Procs == AppRoutines \cup {Main, Background}

ASSUME NodeAssumption ==
    /\ Starts \subseteq {"Babbling", "CatchingUp", "Joining"}
    /\ {Main, Background} \cap AppRoutines = {}
    /\ WgLimit \in Nat

VARIABLES state,        \* Manager.state
          main,         \* where Run is
          background,   \* where doBackgroundWork is
          sd,           \* where each goroutine is in Shutdown
          shutdownCh,   \* closed
          suspendCh,    \* closed
          routine,      \* each goroutine of GoFunc: free, launched or running
          late,         \* those launched after Shutdown stopped waiting
          closed,       \* the transport and the store are closed
          panicked,     \* a closed channel was closed
          exited        \* os.Exit

vars == <<state, main, background, sd, shutdownCh, suspendCh, routine, late, closed,
          panicked, exited>>

channels == <<shutdownCh, suspendCh>>
spawned == <<routine, late>>
ends == <<closed, panicked, exited>>

Live == ~panicked /\ ~exited

\* Manager.wg and Manager.wgCount: a goroutine leaves wgCount as soon as it
\* runs, and wg when it is done.
Wg == {r \in Routines : routine[r] # "free"}
WgCount == Cardinality({r \in Routines : routine[r] = "launched"})

Init ==
    /\ state \in Starts
    /\ main = "loop"
    /\ background = "select"
    /\ sd = [p \in Procs |-> "out"]
    /\ shutdownCh = FALSE /\ suspendCh = FALSE
    /\ routine = [r \in Routines |-> "free"]
    /\ late = {}
    /\ closed = FALSE /\ panicked = FALSE /\ exited = FALSE

-----------------------------------------------------------------------------
(***************************************************************************)
(* GoFunc.                                                                 *)
(***************************************************************************)

\* Some Shutdown has finished WaitRoutines.
Waited == \E p \in Procs : sd[p] \in {"waited", "done"}

\* GoFunc: at the limit the function is dropped.
GoFunc ==
    \/ /\ WgCount >= WgLimit
       /\ UNCHANGED spawned
    \/ /\ WgCount < WgLimit
       /\ \E r \in Routines :
             /\ routine[r] = "free"
             /\ routine' = [routine EXCEPT ![r] = "launched"]
             /\ late' = IF Waited THEN late \cup {r} ELSE late

\* The goroutine decrements wgCount and calls its function, which uses the
\* transport and the store.
RoutineStarts(r) ==
    /\ Live /\ routine[r] = "launched"
    /\ routine' = [routine EXCEPT ![r] = "running"]
    /\ UNCHANGED <<state, main, background, sd, channels, late, ends>>

RoutineEnds(r) ==
    /\ Live /\ routine[r] = "running"
    /\ routine' = [routine EXCEPT ![r] = "free"]
    /\ late' = late \ {r}
    /\ UNCHANGED <<state, main, background, sd, channels, ends>>

-----------------------------------------------------------------------------
(***************************************************************************)
(* Shutdown, by goroutine p.                                               *)
(***************************************************************************)

\* p calls Shutdown, which does nothing in state Shutdown.
BeginShutdown(p) ==
    sd' = [sd EXCEPT ![p] = IF state = "Shutdown" THEN "skipped" ELSE "checked"]

TransitionToShutdown(p) ==
    /\ Live /\ sd[p] = "checked"
    /\ state' = "Shutdown"
    /\ sd' = [sd EXCEPT ![p] = "set"]
    /\ UNCHANGED <<main, background, channels, spawned, ends>>

\* close(shutdownCh); WaitRoutines follows.
CloseShutdownCh(p) ==
    /\ Live /\ sd[p] = "set"
    /\ shutdownCh' = TRUE
    /\ panicked' = shutdownCh
    /\ sd' = [sd EXCEPT ![p] = "closed"]
    /\ UNCHANGED <<state, main, background, suspendCh, spawned, closed, exited>>

WaitRoutinesMutant(p) ==
    /\ Live /\ sd[p] = "closed"
    /\ sd' = [sd EXCEPT ![p] = "waited"]
    /\ UNCHANGED <<state, main, background, channels, spawned, ends>>

\* WaitRoutines returns.
WaitRoutines(p) ==
    /\ Live /\ sd[p] = "closed"
    /\ Wg = {}
    /\ sd' = [sd EXCEPT ![p] = "waited"]
    /\ UNCHANGED <<state, main, background, channels, spawned, ends>>

\* The transport and the store are closed.
CloseAll(p) ==
    /\ Live /\ sd[p] = "waited"
    /\ closed' = TRUE
    /\ sd' = [sd EXCEPT ![p] = "done"]
    /\ UNCHANGED <<state, main, background, channels, spawned, panicked, exited>>

\* The application calls Shutdown, once per goroutine.
CallShutdown(c) ==
    /\ Live /\ sd[c] = "out"
    /\ BeginShutdown(c)
    /\ UNCHANGED <<state, main, background, channels, spawned, ends>>

-----------------------------------------------------------------------------
(***************************************************************************)
(* doBackgroundWork.                                                       *)
(***************************************************************************)

\* case rpc := <-netCh.
ReceiveRPC ==
    /\ Live /\ background = "select"
    /\ GoFunc
    /\ UNCHANGED <<state, main, background, sd, channels, ends>>

\* case <-sigCh: Leave, which takes a while.
Signal ==
    /\ Live /\ background = "select"
    /\ background' = "leave"
    /\ UNCHANGED <<state, main, sd, channels, spawned, ends>>

\* core.leave returns; the deferred Shutdown follows.
LeaveReturns ==
    /\ Live /\ background = "leave"
    /\ background' = "shutdown"
    /\ BeginShutdown(Background)
    /\ UNCHANGED <<state, main, channels, spawned, ends>>

\* os.Exit(0).
OsExit ==
    /\ Live /\ background = "shutdown" /\ sd[Background] \in {"skipped", "done"}
    /\ exited' = TRUE
    /\ UNCHANGED <<state, main, background, sd, channels, spawned, closed, panicked>>

BackgroundReturns ==
    /\ Live /\ background = "select" /\ shutdownCh
    /\ background' = "returned"
    /\ UNCHANGED <<state, main, sd, channels, spawned, ends>>

-----------------------------------------------------------------------------
(***************************************************************************)
(* Run.                                                                    *)
(***************************************************************************)

\* The head of the loop.
Dispatch ==
    /\ Live /\ main = "loop"
    /\ main' = CASE state = "Babbling"   -> "babble"
                 [] state = "CatchingUp" -> "catchup"
                 [] state = "Joining"    -> "join"
                 [] state = "Suspended"  -> "sleep"
                 [] state = "Shutdown"   -> "returned"
    /\ UNCHANGED <<state, background, sd, channels, spawned, ends>>

Wake ==
    /\ Live /\ main = "sleep"
    /\ main' = "loop"
    /\ UNCHANGED <<state, background, sd, channels, spawned, ends>>

\* case <-tickCh: the next peer is chosen.
Tick ==
    /\ Live /\ main = "babble"
    /\ main' = "gossip"
    /\ UNCHANGED <<state, background, sd, channels, spawned, ends>>

\* GoFunc(gossip), resetTimer; checkSuspend follows.
LaunchGossip ==
    /\ Live /\ main = "gossip"
    /\ GoFunc
    /\ main' = "check"
    /\ UNCHANGED <<state, background, sd, channels, ends>>

\* monologue: with no peer to gossip with, Run itself writes an event to the
\* store.
Monologue ==
    /\ Live /\ main = "gossip"
    /\ main' = "check"
    /\ UNCHANGED <<state, background, sd, channels, spawned, ends>>

\* checkSuspend, and the check at the head of Suspend.
CheckSuspend ==
    /\ Live /\ main = "check"
    /\ main' \in IF Suspends /\ state \notin {"Suspended", "Shutdown"}
                 THEN {"babble", "suspend"} ELSE {"babble"}
    /\ UNCHANGED <<state, background, sd, channels, spawned, ends>>

\* Suspend: transition.
TransitionToSuspended ==
    /\ Live /\ main = "suspend"
    /\ state' = "Suspended"
    /\ main' = "suspended"
    /\ UNCHANGED <<background, sd, channels, spawned, ends>>

\* Suspend: close(suspendCh), then WaitRoutines.
CloseSuspendCh ==
    /\ Live /\ main = "suspended" /\ ~suspendCh
    /\ suspendCh' = TRUE
    /\ UNCHANGED <<state, main, background, sd, shutdownCh, spawned, ends>>

SuspendReturns ==
    /\ Live /\ main = "suspended" /\ suspendCh
    /\ Wg = {}
    /\ main' = "babble"
    /\ UNCHANGED <<state, background, sd, channels, spawned, ends>>

BabbleReturnsMutant ==
    /\ Live /\ main = "babble"
    /\ suspendCh
    /\ main' = "loop"
    /\ UNCHANGED <<state, background, sd, channels, spawned, ends>>

BabbleReturnsSuspendMutant ==
    /\ Live /\ main = "babble"
    /\ shutdownCh
    /\ main' = "loop"
    /\ UNCHANGED <<state, background, sd, channels, spawned, ends>>

\* case <-suspendCh, case <-shutdownCh.
BabbleReturns ==
    /\ Live /\ main = "babble"
    /\ suspendCh \/ shutdownCh
    /\ main' = "loop"
    /\ UNCHANGED <<state, background, sd, channels, spawned, ends>>

\* fastForward waits for the routines, then asks the peers for their anchors.
WaitToCatchUp ==
    /\ Live /\ main = "catchup"
    /\ Wg = {}
    /\ main' = "forward"
    /\ UNCHANGED <<state, background, sd, channels, spawned, ends>>

\* fastForward: nobody to fast-forward from, or success.
FastForward ==
    /\ Live /\ main = "forward"
    /\ state' = "Babbling"
    /\ main' = "loop"
    /\ UNCHANGED <<background, sd, channels, spawned, ends>>

\* Restoring the application or resetting the hashgraph fails.
FastForwardFails ==
    /\ Live /\ main = "forward"
    /\ main' = "loop"
    /\ UNCHANGED <<state, background, sd, channels, spawned, ends>>

\* join: accepted, setBabblingOrCatchingUpState.
JoinAccepted ==
    /\ Live /\ main = "join"
    /\ state' = IF FastSync THEN "CatchingUp" ELSE "Babbling"
    /\ main' = "loop"
    /\ UNCHANGED <<background, sd, channels, spawned, ends>>

\* join: an error or a timeout.
JoinFails ==
    /\ Live /\ main = "join"
    /\ main' = "loop"
    /\ UNCHANGED <<state, background, sd, channels, spawned, ends>>

\* join: refused, Shutdown.
JoinRefused ==
    /\ Live /\ main = "join"
    /\ main' = "refused"
    /\ BeginShutdown(Main)
    /\ UNCHANGED <<state, background, channels, spawned, ends>>

RefusedReturns ==
    /\ Live /\ main = "refused" /\ sd[Main] \in {"skipped", "done"}
    /\ main' = "loop"
    /\ UNCHANGED <<state, background, sd, channels, spawned, ends>>

-----------------------------------------------------------------------------

Run ==
    \/ Dispatch \/ Wake \/ Tick \/ LaunchGossip \/ Monologue \/ CheckSuspend
    \/ TransitionToSuspended \/ CloseSuspendCh \/ SuspendReturns \/ BabbleReturns
    \/ WaitToCatchUp \/ FastForward \/ FastForwardFails
    \/ JoinAccepted \/ JoinFails \/ JoinRefused \/ RefusedReturns

Shutdown(p) ==
    TransitionToShutdown(p) \/ CloseShutdownCh(p) \/ WaitRoutines(p) \/ CloseAll(p)

Work(r) == RoutineStarts(r) \/ RoutineEnds(r)

Next ==
    \/ Run
    \/ ReceiveRPC \/ Signal \/ LeaveReturns \/ OsExit \/ BackgroundReturns
    \/ \E c \in AppRoutines : CallShutdown(c)
    \/ \E p \in Procs : Shutdown(p)
    \/ \E r \in Routines : Work(r)

\* Goroutines that can run do; a select with a channel that stays closed takes
\* that case eventually; requests, routines and leave end, all having timeouts;
\* a WaitRoutines whose wait group is empty time and again returns. Strong
\* fairness of Run makes up for the bound on Routines, which may hold up GoFunc.
Fairness ==
    /\ SF_vars(Run) /\ SF_vars(BabbleReturns)
    /\ SF_vars(WaitToCatchUp) /\ SF_vars(SuspendReturns)
    /\ WF_vars(LeaveReturns \/ OsExit) /\ SF_vars(BackgroundReturns)
    /\ \A p \in Procs :
          /\ WF_vars(TransitionToShutdown(p) \/ CloseShutdownCh(p) \/ CloseAll(p))
          /\ SF_vars(WaitRoutines(p))
    /\ \A r \in Routines : WF_vars(Work(r))

Spec == Init /\ [][Next]_vars /\ Fairness

-----------------------------------------------------------------------------
(***************************************************************************)
(* Properties.                                                             *)
(***************************************************************************)

\* When the transport and the store are closed, no goroutine that Shutdown
\* waited for is at work (WaitRoutines).
Drained == closed => Wg \subseteq late

\* There are moments when no goroutine of GoFunc is left: under requests that
\* overlap for ever, WaitRoutines need not return.
TrafficPauses == []<>(Wg = {})

\* A node that stays in Shutdown leaves Run, wherever Run is: in a select, in
\* a request, waiting for routines, asleep.
RunReturns ==
    TrafficPauses /\ <>[](state = "Shutdown") => <>(main = "returned" \/ ~Live)

\* A node that stays suspended stops gossiping, and ends up in Run's sleep
\* (Suspend).
SuspendQuiets ==
    TrafficPauses /\ <>[](state = "Suspended") =>
        <>[](main \in {"sleep", "loop"}) \/ <>~Live

\* Comments of Shutdown and of the state: it "attempts to cleanly shutdown the
\* node", to "exit any non-shutdown state immediately", so Run returns.
ShutdownEndsRun ==
    TrafficPauses => \A p \in Procs : sd[p] = "set" ~> (main = "returned" \/ ~Live)

\* Comment of Shutdown: "cleanly".
NoPanic == ~panicked

\* Comment of Shutdown: "waiting for pending work to be finished": when the
\* store is closed, Run is not between a tick and the event it writes for it.
NoWorkAfterClose == closed => main # "gossip"

\* Comment of WGLIMIT: "the maximum number of goroutines that can be launched
\* through state.GoFunc".
AtMostLimit == Cardinality(Wg) <= WgLimit
=============================================================================
