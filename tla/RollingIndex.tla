---------------------------- MODULE RollingIndex ----------------------------
(***************************************************************************)
(* RollingIndex (src/common/rolling_index.go): a FIFO cache over items     *)
(* that carry consecutive indexes.  When it is full it drops its earlier   *)
(* half.  The stores keep one per participant (RollingIndexMap).           *)
(*                                                                         *)
(* items and lastIndex are the fields of the struct; written is a history  *)
(* variable, all that was ever set and not replaced.                       *)
(***************************************************************************)
EXTENDS Integers, Sequences

CONSTANTS Size,         \* capacity
          Item,         \* what is stored: hashes of events
          MaxIndex      \* bound of the model: the highest index ever set

ASSUME SizeAssumption == Size \in Nat
ASSUME MaxIndexAssumption == MaxIndex \in Nat

VARIABLES items, lastIndex, written

cacheVars == <<items, lastIndex, written>>

\* The index of items[1], "assuming there are no gaps between indexes".
OldestCachedIndex == lastIndex - Len(items) + 1

\* roll, when the cache is full: without its earlier half.
Roll == IF Len(items) >= Size THEN SubSeq(items, Size \div 2 + 1, Len(items)) ELSE items

-----------------------------------------------------------------------------
(***************************************************************************)
(* Get and GetItem: an answer is a value or an error of store_errors.go.   *)
(***************************************************************************)

TooLate == "TooLate"
KeyNotFound == "KeyNotFound"

GetMutant(skipIndex) ==
    CASE skipIndex > lastIndex -> [err |-> "nil", items |-> <<>>]
      [] skipIndex <= lastIndex /\ skipIndex + 1 < OldestCachedIndex ->
             [err |-> "nil", items |-> items]
      [] OTHER -> [err |-> "nil", items |-> SubSeq(items, skipIndex - OldestCachedIndex + 2, Len(items))]

\* Get: the items above skipIndex.
Get(skipIndex) ==
    CASE skipIndex > lastIndex -> [err |-> "nil", items |-> <<>>]
      [] skipIndex <= lastIndex /\ skipIndex + 1 < OldestCachedIndex ->
             [err |-> TooLate, items |-> <<>>]
      [] OTHER -> [err |-> "nil", items |-> SubSeq(items, skipIndex - OldestCachedIndex + 2, Len(items))]

\* GetItem: the item at index.
GetItem(index) ==
    CASE index < OldestCachedIndex -> [err |-> TooLate]
      [] index >= OldestCachedIndex + Len(items) -> [err |-> KeyNotFound]
      [] OTHER -> [err |-> "nil", item |-> items[index - OldestCachedIndex + 1]]

-----------------------------------------------------------------------------
(***************************************************************************)
(* Set.                                                                    *)
(***************************************************************************)

CacheInit ==
    /\ items = <<>>
    /\ lastIndex = -1
    /\ written = [i \in {} |-> {}]

\* A new item: the first one may have any index, for a store that was reset
\* starts from the events of a frame.
AppendItem(index, item) ==
    /\ lastIndex < 0 \/ index = lastIndex + 1
    /\ items' = Append(Roll, item)
    /\ lastIndex' = index
    /\ written' = [i \in DOMAIN written \cup {index} |->
                      IF i = index THEN item ELSE written[i]]

ReplaceEvictedMutant(index, item) ==
    /\ lastIndex >= 0 /\ index <= lastIndex
    /\ index \in DOMAIN written
    /\ items' = [items EXCEPT ![index - OldestCachedIndex + 1] = item]
    /\ written' = [written EXCEPT ![index] = item]
    /\ UNCHANGED lastIndex

\* An item in place of one that is cached.
Replace(index, item) ==
    /\ lastIndex >= 0 /\ index <= lastIndex
    /\ index >= OldestCachedIndex
    /\ items' = [items EXCEPT ![index - OldestCachedIndex + 1] = item]
    /\ written' = [written EXCEPT ![index] = item]
    /\ UNCHANGED lastIndex

\* SkippedIndex for an index that would leave a gap, TooLate for one that was
\* evicted.
Refuse(index) ==
    /\ lastIndex >= 0
    /\ index > lastIndex + 1 \/ index < OldestCachedIndex
    /\ UNCHANGED cacheVars

Set(index, item) == AppendItem(index, item) \/ Replace(index, item) \/ Refuse(index)

CacheNext == \E index \in 0..MaxIndex, item \in Item : Set(index, item)

CacheSpec == CacheInit /\ [][CacheNext]_cacheVars

-----------------------------------------------------------------------------
(***************************************************************************)
(* Properties.                                                             *)
(***************************************************************************)

CacheTypeOK ==
    /\ items \in Seq(Item)
    /\ lastIndex \in -1..MaxIndex
    /\ DOMAIN written \subseteq 0..MaxIndex
    /\ \A i \in DOMAIN written : written[i] \in Item

\* The cache is the end of what was written, without gaps: the assumption on
\* which Get, GetItem and Set compute positions.
WindowOfLog ==
    /\ items # <<>> <=> lastIndex >= 0
    /\ lastIndex >= 0 => OldestCachedIndex \in DOMAIN written
    /\ \A i \in DOMAIN written : i <= lastIndex
    /\ \A k \in 1..Len(items) :
           /\ OldestCachedIndex + k - 1 \in DOMAIN written
           /\ items[k] = written[OldestCachedIndex + k - 1]

\* s lists all that was written above index skip, in order.
Complete(s, skip) ==
    /\ \A i \in DOMAIN written : i > skip => i > lastIndex - Len(s)
    /\ \A k \in 1..Len(s) :
           /\ lastIndex - Len(s) + k > skip
           /\ s[k] = written[lastIndex - Len(s) + k]

\* GetItem answers what was written, and KeyNotFound only for what was not.
GetItemIsWritten(index) ==
    CASE GetItem(index).err = "nil" ->
             index \in DOMAIN written /\ GetItem(index).item = written[index]
      [] GetItem(index).err = KeyNotFound -> index \notin DOMAIN written
      [] OTHER -> TRUE

\* Get never returns a list that misses an item above skipIndex: it returns
\* all of them, in order, or TooLate.  A peer that is sent the difference
\* (eventDiff) can insert it without a hole.  GetItem agrees with it.
GetIsComplete ==
    /\ \A skip \in -1..MaxIndex : Get(skip).err = "nil" => Complete(Get(skip).items, skip)
    /\ \A index \in 0..MaxIndex : GetItemIsWritten(index)

\* Comment of NewRollingIndex: "contains up to size items".
UpToSize == Len(items) <= Size

\* An item that leaves the cache is not among the last Size / 2 written: a
\* reader that lags less than half the capacity is never told TooLate.
KeepsHalf ==
    \A i \in DOMAIN written : i > lastIndex - Size \div 2 => i >= OldestCachedIndex

-----------------------------------------------------------------------------
(***************************************************************************)
(* The log that the cache implements.                                      *)
(***************************************************************************)

Log ==
    INSTANCE EventLog WITH Index <- 0..MaxIndex, log <- written, low <- OldestCachedIndex

\* The cache implements a log that grows one index at a time, replaces only
\* what it still holds, and forgets only from its beginning.
ImplementsLog == Log!Spec
=============================================================================
