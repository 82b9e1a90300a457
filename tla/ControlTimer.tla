---------------------------- MODULE ControlTimer ----------------------------
(***************************************************************************)
(* The heartbeat (src/node/control_timer.go) and the goroutines that reset *)
(* it (resetTimer and babble in src/node/node.go).                         *)
(*                                                                         *)
(* The timer goroutine ticks on an unbuffered channel, babble receives the *)
(* tick, and whoever calls resetTimer holds coreLock, reads isSet without  *)
(* synchronisation with the timer goroutine and, if the timer is not set,  *)
(* sends on an unbuffered channel.  Durations are left out, but are not    *)
(* zero (a zero heartbeat means a timer that never fires).  Nothing sends  *)
(* on stopCh and nothing calls shutdown.                                   *)
(***************************************************************************)
EXTENDS Naturals

CONSTANTS Handlers,     \* goroutines that handle RPCs and transactions
          Babble,       \* the goroutine of the state machine, in babble
          NoOne

ASSUME ProcsAssumption == Babble \notin Handlers /\ NoOne \notin Handlers \cup {Babble}

VARIABLES pc,           \* where each caller of resetTimer is
          timer,        \* where the timer goroutine is
          armed,        \* its timer channel will deliver
          isSet,        \* controlTimer.isSet
          coreLock      \* who holds it

timerVars == <<pc, timer, armed, isSet, coreLock>>

TimerProcs == Handlers \cup {Babble}

\* Where p is when it is not in resetTimer: an idle caller, or babble in its
\* select.
Home(p) == IF p = Babble THEN "wait" ELSE "idle"

\* run, up to the call of setTimer.
TimerInit ==
    /\ pc = [p \in TimerProcs |-> Home(p)]
    /\ timer = "set"
    /\ armed = FALSE
    /\ isSet = FALSE
    /\ coreLock = NoOne

-----------------------------------------------------------------------------
(***************************************************************************)
(* The timer goroutine.                                                    *)
(***************************************************************************)

\* case <-timer: the goroutine goes on to send a tick.
Fire ==
    /\ timer = "select" /\ armed
    /\ timer' = "tick"
    /\ armed' = FALSE
    /\ UNCHANGED <<pc, isSet, coreLock>>

\* c.isSet = false, some time after the tick was received.
Unset ==
    /\ timer = "unset"
    /\ isSet' = FALSE
    /\ timer' = "select"
    /\ UNCHANGED <<pc, armed, coreLock>>

SetTimerMutant ==
    /\ timer = "set"
    /\ isSet' = TRUE
    /\ armed' \in BOOLEAN
    /\ timer' = "select"
    /\ UNCHANGED <<pc, coreLock>>

\* setTimer, some time after the instruction was received.
SetTimer ==
    /\ timer = "set"
    /\ isSet' = TRUE
    /\ armed' = TRUE
    /\ timer' = "select"
    /\ UNCHANGED <<pc, coreLock>>

-----------------------------------------------------------------------------
(***************************************************************************)
(* babble and resetTimer.                                                  *)
(***************************************************************************)

\* babble receives the tick; having launched a gossip routine, it calls
\* resetTimer.
TimerTick ==
    /\ timer = "tick" /\ pc[Babble] = "wait"
    /\ timer' = "unset"
    /\ pc' = [pc EXCEPT ![Babble] = "lock"]
    /\ UNCHANGED <<armed, isSet, coreLock>>

\* babble returns: the node was suspended or shut down.
Exit ==
    /\ pc[Babble] = "wait"
    /\ pc' = [pc EXCEPT ![Babble] = "exited"]
    /\ UNCHANGED <<timer, armed, isSet, coreLock>>

\* doBackgroundWork has processed an RPC or a transaction: resetTimer.
Call(c) ==
    /\ pc[c] = "idle"
    /\ pc' = [pc EXCEPT ![c] = "lock"]
    /\ UNCHANGED <<timer, armed, isSet, coreLock>>

\* coreLock.Lock.
Lock(p) ==
    /\ pc[p] = "lock" /\ coreLock = NoOne
    /\ pc' = [pc EXCEPT ![p] = "read"]
    /\ coreLock' = p
    /\ UNCHANGED <<timer, armed, isSet>>

ReadSetMutant(p) ==
    /\ pc[p] = "read" /\ ~isSet
    /\ pc' = [pc EXCEPT ![p] = Home(p)]
    /\ coreLock' = NoOne
    /\ UNCHANGED <<timer, armed, isSet>>

\* if !isSet, when the timer is set: return.
ReadSet(p) ==
    /\ pc[p] = "read" /\ isSet
    /\ pc' = [pc EXCEPT ![p] = Home(p)]
    /\ coreLock' = NoOne
    /\ UNCHANGED <<timer, armed, isSet>>

\* if !isSet, when it is not: go on to send on resetCh.
ReadUnset(p) ==
    /\ pc[p] = "read" /\ ~isSet
    /\ pc' = [pc EXCEPT ![p] = "send"]
    /\ UNCHANGED <<timer, armed, isSet, coreLock>>

\* The timer goroutine, in its select, receives what p sends; p returns.
Reset(p) ==
    /\ pc[p] = "send" /\ timer = "select"
    /\ timer' = "set"
    /\ pc' = [pc EXCEPT ![p] = Home(p)]
    /\ coreLock' = NoOne
    /\ UNCHANGED <<armed, isSet>>

ResetTimer(p) == Lock(p) \/ ReadSet(p) \/ ReadUnset(p) \/ Reset(p)

TimerNext ==
    \/ Fire \/ Unset \/ SetTimer \/ TimerTick \/ Exit
    \/ \E c \in Handlers : Call(c)
    \/ \E p \in TimerProcs : ResetTimer(p)

\* A goroutine that can run eventually runs; a Go mutex is handed over to who
\* waits for it (starvation mode); a select with a ready case proceeds.
TimerFairness ==
    /\ WF_timerVars(Fire) /\ WF_timerVars(Unset) /\ WF_timerVars(SetTimer) /\ WF_timerVars(TimerTick)
    /\ \A p \in TimerProcs :
           SF_timerVars(Lock(p)) /\ WF_timerVars(ReadSet(p) \/ ReadUnset(p) \/ Reset(p))

TimerSpec == TimerInit /\ [][TimerNext]_timerVars /\ TimerFairness

-----------------------------------------------------------------------------
(***************************************************************************)
(* Properties.                                                             *)
(***************************************************************************)

TypeOK ==
    /\ pc \in [TimerProcs -> {"idle", "wait", "exited", "lock", "read", "send"}]
    /\ timer \in {"select", "tick", "unset", "set"}
    /\ armed \in BOOLEAN /\ isSet \in BOOLEAN
    /\ coreLock \in TimerProcs \cup {NoOne}

\* A timer that says it is set has a tick to come.  If it did not, resetTimer
\* would never set it again and the heartbeat would stop for good.
SetMeansTick == isSet => armed \/ timer # "select"

\* The goroutine that sends on resetCh is the only one, and holds coreLock.
OneSender == \A p \in TimerProcs : pc[p] \in {"read", "send"} <=> coreLock = p

\* A heartbeat that stopped is revived by traffic: if some goroutine calls
\* resetTimer and returns from it again and again, ticks are received again
\* and again, unless babble has returned.
RevivedByTraffic ==
    \A c \in Handlers :
        []<>(pc[c] = "lock") /\ []<>(pc[c] = "idle")
            => []<>(timer = "unset") \/ <>(pc[Babble] = "exited")

\* Comment of babble: it "periodically initiates gossip or monologue as
\* triggered by the controlTimer".
HeartbeatGoesOn == []<>(timer = "unset") \/ <>(pc[Babble] = "exited")

\* Comment of resetTimer: it "resets the control timer", so a call returns, at
\* least while babble is there to receive ticks.
ResetReturns ==
    \A c \in Handlers : pc[c] = "send" ~> (pc[c] = "idle" \/ pc[Babble] = "exited")
=============================================================================
