------------------------------ MODULE MCStore ------------------------------
(* Instances of Store for TLC, checked in one run. *)
EXTENDS Store

CONSTANTS a, b, c

Two == {a, b}

Plain == [maintenance |-> FALSE, bootstrap |-> FALSE, store |-> TRUE, fastSync |-> FALSE]
Again == [Plain EXCEPT !.bootstrap = TRUE]
Options == [maintenance : BOOLEAN, bootstrap : BOOLEAN, store : BOOLEAN, fastSync : BOOLEAN]

Instance ==
    [creators |-> Two, cacheSize |-> 6, options |-> {Again}, losesWrites |-> FALSE,
     maxIndex |-> 2, maxCrashes |-> 0, maxResets |-> 0]

\* Evictions from the cache; windows that roll.
Evicting == [Instance EXCEPT !.cacheSize = 3, !.options = {Plain}]
Rolling == [Instance EXCEPT !.cacheSize = 2, !.options = {Plain}]

\* Crashes, between any two writes; crashes that lose writes.
Crashing == [Instance EXCEPT !.maxCrashes = 2]
Losing == [Instance EXCEPT !.losesWrites = TRUE, !.maxCrashes = 1]

\* Fast-forwards, on disk and in memory.
Forwarding ==
    [Instance EXCEPT !.options = {[Again EXCEPT !.fastSync = TRUE]}, !.maxIndex = 1,
                     !.maxCrashes = 2, !.maxResets = 2]
InMemory ==
    [Instance EXCEPT !.creators = {a, b, c}, !.maxIndex = 1, !.maxResets = 1,
                     !.options = {[Plain EXCEPT !.store = FALSE, !.fastSync = TRUE]}]

\* Runs with any options.
Reconfigured == [Instance EXCEPT !.options = Options, !.maxIndex = 1, !.maxCrashes = 2]

MCConfs == {Evicting, Rolling, Crashing, Losing, Forwarding, InMemory, Reconfigured}
=============================================================================
