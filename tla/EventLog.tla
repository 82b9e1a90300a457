------------------------------ MODULE EventLog ------------------------------
(***************************************************************************)
(* What a cache of a participant's events promises: a log of items with    *)
(* consecutive indexes, the beginning of which may be forgotten.           *)
(***************************************************************************)
EXTENDS Integers

CONSTANTS Index, Item

VARIABLES log,      \* what was written: a function from indexes to items
          low       \* the lowest index that can still be read

logVars == <<log, low>>

Written(i, x) == [k \in DOMAIN log \cup {i} |-> IF k = i THEN x ELSE log[k]]

Init ==
    /\ DOMAIN log = {}
    /\ low = 0

\* The first item, at any index.
Start(i, x) ==
    /\ DOMAIN log = {}
    /\ log' = Written(i, x)
    /\ low' = i

\* The item after the last one; a part of the beginning may be forgotten, never
\* the new item.
Extend(i, x) ==
    /\ i - 1 \in DOMAIN log
    /\ i \notin DOMAIN log
    /\ log' = Written(i, x)
    /\ low' \in low..i

\* Another item at an index that is still readable.
Overwrite(i, x) ==
    /\ i \in DOMAIN log
    /\ low <= i
    /\ log' = Written(i, x)
    /\ UNCHANGED low

Next == \E i \in Index, x \in Item : Start(i, x) \/ Extend(i, x) \/ Overwrite(i, x)

Spec == Init /\ [][Next]_logVars
=============================================================================
