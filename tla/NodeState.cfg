CONSTANTS
    Starts = {"Babbling", "CatchingUp", "Joining"}
    FastSync = TRUE
    Suspends = TRUE
    AppRoutines = {c1}
    Routines = {r1, r2}
    WgLimit = 1
SPECIFICATION Spec
INVARIANT Drained
PROPERTIES RunReturns SuspendQuiets
CHECK_DEADLOCK FALSE
