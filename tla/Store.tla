------------------------------- MODULE Store -------------------------------
(***************************************************************************)
(* The event store of one node and what the hashgraph writes to it: the    *)
(* caches of InmemStore (an LRU of events, a RollingIndex of hashes per    *)
(* participant), the Badger database behind them (BadgerStore), InsertEvent *)
(* with the coordinates that ancestry queries rest on, Reset from a frame, *)
(* and how Babble.Init opens, renames or replays the database when the     *)
(* program is started again, each time with options of its own.            *)
(*                                                                         *)
(* An event is its content: creator, index and parents; this stands for    *)
(* its hash.  Only round 0 is modelled, so the witnesses are the events of *)
(* index 0.  All of InsertEvent runs under coreLock; its steps are separate *)
(* here because each writes a database transaction, and a crash may fall   *)
(* between two of them.                                                    *)
(***************************************************************************)
EXTENDS Integers, Sequences, FiniteSets

CONSTANTS
    Self,      \* the creator that this node is
    Confs      \* the instances: caches, options, faults and bounds

ASSUME StoreAssumption ==
    \A k \in Confs :
        /\ Self \in k.creators
        /\ k.cacheSize \in Nat \ {0}
        /\ k.losesWrites \in BOOLEAN
        /\ k.maxIndex \in Nat /\ k.maxCrashes \in Nat /\ k.maxResets \in Nat
        /\ k.options \subseteq [maintenance : BOOLEAN, bootstrap : BOOLEAN, store : BOOLEAN,
                               fastSync : BOOLEAN]

VARIABLES
    world,     \* the events the other nodes have
    mem,       \* what is in memory: caches, topologicalIndex, UndeterminedEvents
    db,        \* the database, as its transactions left it
    disk,      \* the part of it that a crash leaves
    insert,    \* the event being inserted, or NoInsert
    queue,     \* events of a frame still to be inserted by Reset
    core,      \* core.head, and the phase of the node
    options,   \* the options of this run of the program
    backups,   \* the events of each database that was renamed
    forgot,    \* history: some run began without all that the one before it had
    crashes, resets,
    conf       \* one of Confs

run == <<options, backups, forgot, crashes, conf>>
vars == <<world, mem, db, disk, insert, queue, core, resets, run>>

Creators == conf.creators
CacheSize == conf.cacheSize        \* config CacheSize: of the LRU and of each RollingIndex
LosesWrites == conf.losesWrites    \* a crash may lose what Badger had not synced
MaxIndex == conf.maxIndex          \* bound: the highest index of an event
MaxCrashes == conf.maxCrashes      \* bound: how often the program is started again
MaxResets == conf.maxResets        \* bound: fast-forwards

\* validateConfig: maintenance-mode forces bootstrap, bootstrap forces store.
validateConfig(o) ==
    LET bootstraps == o.bootstrap \/ o.maintenance
    IN  [o EXCEPT !.bootstrap = bootstraps, !.store = @ \/ bootstraps]

Config == validateConfig(options)
Persistent == Config.store         \* BadgerStore, else InmemStore
FastSync == Config.fastSync

None == [index |-> -1]
NoInsert == [event |-> None]

EmptyMem ==
    [cache    |-> <<>>,
     window   |-> [c \in Creators |-> [items |-> <<>>, lastIndex |-> -1]],
     topo     |-> 0,
     inserted |-> <<>>]

EmptyDB == [event |-> <<>>, topo |-> <<>>, participant |-> <<>>]

With(f, k, v) == [x \in DOMAIN f \cup {k} |-> IF x = k THEN v ELSE f[x]]

\* Node.Init: Bootstrap first, if the option is set.
Booted(o) ==
    [phase |-> CASE validateConfig(o).bootstrap -> "Bootstrap"
                 [] ~validateConfig(o).bootstrap /\ o.fastSync -> "CatchingUp"
                 [] OTHER -> "Babbling",
     head |-> None]

Init ==
    /\ conf \in Confs
    /\ options \in conf.options
    /\ world = {}
    /\ mem = EmptyMem
    /\ db = EmptyDB /\ disk = EmptyDB /\ backups = {}
    /\ insert = NoInsert
    /\ queue = {}
    /\ core = Booted(options)
    /\ forgot = FALSE /\ crashes = 0 /\ resets = 0

-----------------------------------------------------------------------------
(***************************************************************************)
(* The caches.                                                             *)
(***************************************************************************)

\* LRU.Add: the set of possible results.  Which key is the oldest depends on
\* the reads of the consensus methods, which are not modelled: any key but the
\* one that is added may be evicted.
LruAdd(cache, e, entry) ==
    IF e \in DOMAIN cache \/ Cardinality(DOMAIN cache) < CacheSize
      THEN {With(cache, e, entry)}
      ELSE {[x \in (DOMAIN cache \ {old}) \cup {e} |-> IF x = e THEN entry ELSE cache[x]] :
               old \in DOMAIN cache}

Roll(items) ==
    IF Len(items) >= CacheSize THEN SubSeq(items, CacheSize \div 2 + 1, Len(items)) ELSE items

Oldest(w) == w.lastIndex - Len(w.items) + 1

WindowRefusesMutant(w, i) == w.lastIndex >= 0 /\ (i > w.lastIndex + 1 \/ i <= Oldest(w))

\* RollingIndexMap.Set: SkippedIndex or TooLate, an append, or a replacement.
WindowRefuses(w, i) == w.lastIndex >= 0 /\ (i > w.lastIndex + 1 \/ i < Oldest(w))

WindowSet(w, i, e) ==
    IF w.lastIndex < 0 \/ i = w.lastIndex + 1
      THEN [items |-> Append(Roll(w.items), e), lastIndex |-> i]
      ELSE [w EXCEPT !.items[i - Oldest(w) + 1] = e]

-----------------------------------------------------------------------------
(***************************************************************************)
(* The store.                                                              *)
(***************************************************************************)

\* GetEvent: from the cache, else from the database.
Has(e) == e \in DOMAIN mem.cache \/ (Persistent /\ e \in DOMAIN db.event)
GetEvent(e) == IF e \in DOMAIN mem.cache THEN mem.cache[e] ELSE db.event[e]

\* LastEventFrom: None stands for the Empty error.
LastEventFrom(c) ==
    LET w == mem.window[c] IN IF w.items = <<>> THEN None ELSE w.items[Len(w.items)]

\* InmemStore.ParticipantEvents refuses: events above skip have left the window.
TooLate(c, skip) == ~Persistent /\ skip + 1 < Oldest(mem.window[c])

ParticipantEventsMutant(c, skip) ==
    LET w == mem.window[c]
        Stored(i) == <<c, i>> \in DOMAIN db.participant
    IN  CASE skip > w.lastIndex -> <<>>
          [] skip <= w.lastIndex /\ skip + 1 >= Oldest(w) ->
                 SubSeq(w.items, skip - Oldest(w) + 2, Len(w.items))
          [] OTHER -> w.items

\* ParticipantEvents: the events of c above skip, from the RollingIndex, and
\* when it answers TooLate, from the database: one key after the other.
ParticipantEvents(c, skip) ==
    LET w == mem.window[c]
        Stored(i) == <<c, i>> \in DOMAIN db.participant
        Count == CHOOSE n \in 0..MaxIndex + 1 :
                    /\ \A i \in 1..n : Stored(skip + i)
                    /\ ~Stored(skip + n + 1)
    IN  CASE skip > w.lastIndex -> <<>>
          [] skip <= w.lastIndex /\ skip + 1 >= Oldest(w) ->
                 SubSeq(w.items, skip - Oldest(w) + 2, Len(w.items))
          [] OTHER -> IF Persistent THEN [i \in 1..Count |-> db.participant[<<c, skip + i>>]]
                                    ELSE <<>>

\* BadgerStore writes nothing in maintenance-mode, nor while Bootstrap runs, which
\* turns the mode on and, if it was off, off again.
Maintenance == Config.maintenance \/ core.phase = "Bootstrap"

\* dbSetEvents: the event, and when it is new its two index keys.
dbSetEvent(e, entry, topo) ==
    [event |-> With(db.event, e, entry),
     topo |-> IF e \in DOMAIN db.event THEN db.topo ELSE With(db.topo, topo, e),
     participant |-> IF e \in DOMAIN db.event THEN db.participant
                                               ELSE With(db.participant, <<e.creator, e.index>>, e)]

SetEventRefused(e) ==
    e \notin DOMAIN mem.cache /\ WindowRefuses(mem.window[e.creator], e.index)

\* SetEvent: the cache, then the database.  index is h.topologicalIndex after
\* it, topo the one that the event carries.
SetEvent(e, entry, topo, index) ==
    /\ ~SetEventRefused(e)
    /\ \E cache \in LruAdd(mem.cache, e, entry) :
          mem' = [mem EXCEPT !.cache = cache,
                             !.topo = index,
                             !.window[e.creator] =
                                 IF e \in DOMAIN mem.cache THEN @ ELSE WindowSet(@, e.index, e)]
    /\ db' = IF Persistent /\ ~Maintenance THEN dbSetEvent(e, entry, topo) ELSE db

-----------------------------------------------------------------------------
(***************************************************************************)
(* InsertEvent.                                                            *)
(***************************************************************************)

Idle == insert = NoInsert

Unset == [c \in Creators |-> None]

\* initEventCoordinates: the last ancestors of the parents the store still has.
initEventCoordinates(e) ==
    LET la(p) == IF p # None /\ Has(p) THEN GetEvent(p).la ELSE Unset
        Later(c) == IF la(e.self)[c].index < la(e.other)[c].index THEN la(e.other)[c]
                                                                  ELSE la(e.self)[c]
    IN  [la |-> [[c \in Creators |-> Later(c)] EXCEPT ![e.creator] = e],
         fd |-> [Unset EXCEPT ![e.creator] = e]]

\* SetEvent of a new event; updateAncestorFirstDescendant is to walk down from
\* its last ancestors.
Begin(e, topo, index) ==
    LET entry == initEventCoordinates(e)
    IN  /\ SetEvent(e, entry, topo, index)
        /\ insert' = [event |-> e, at |-> None,
                      todo |-> {entry.la[c] : c \in Creators} \ {e, None}]

\* checkSelfParent and checkOtherParent.
checkParents(e) ==
    /\ LastEventFrom(e.creator) = e.self
    /\ e.other = None \/ Has(e.other)

InsertEventMutant(e) ==
    /\ Idle
    /\ checkParents(e)
    /\ Begin(e, mem.topo, mem.topo)

InsertEvent(e) ==
    /\ Idle
    /\ checkParents(e)
    /\ Begin(e, mem.topo, mem.topo + 1)

\* updateAncestorFirstDescendant takes the next of the last ancestors, in the
\* order of a Go map.
NextAncestor ==
    /\ ~Idle /\ insert.at = None
    /\ \E x \in insert.todo : insert' = [insert EXCEPT !.todo = @ \ {x}, !.at = x]
    /\ UNCHANGED <<world, mem, db, disk, queue, core, resets, run>>

\* Its inner loop ends at an ancestor that the store does not have or that has
\* a first descendant by this creator.
Reached(x) == Has(x) => GetEvent(x).fd[insert.event.creator] # None

WalkEnds ==
    /\ ~Idle /\ insert.at # None
    /\ Reached(insert.at)
    /\ insert' = [insert EXCEPT !.at = None]
    /\ UNCHANGED <<world, mem, db, disk, queue, core, resets, run>>

WalkMutant ==
    LET x == insert.at
    IN  /\ ~Idle /\ x # None
        /\ ~Reached(x)
        /\ SetEvent(x, [GetEvent(x) EXCEPT !.fd[insert.event.creator] = insert.event], 0, mem.topo)
        /\ insert' = [insert EXCEPT !.at = None]
        /\ UNCHANGED <<world, disk, queue, core, resets, run>>

\* Otherwise the ancestor is updated, and the loop goes on to its self-parent
\* unless it is a witness, the first of its creator.
Walk ==
    LET x == insert.at
    IN  /\ ~Idle /\ x # None
        /\ ~Reached(x)
        /\ SetEvent(x, [GetEvent(x) EXCEPT !.fd[insert.event.creator] = insert.event], 0, mem.topo)
        /\ insert' = [insert EXCEPT !.at = x.self]
        /\ UNCHANGED <<world, disk, queue, core, resets, run>>

\* SetEvent returns TooLate, and InsertEvent returns it: what it did so far
\* stays.  Bootstrap and Reset return it too.
WalkRefused ==
    /\ ~Idle /\ insert.at # None
    /\ ~Reached(insert.at)
    /\ SetEventRefused(insert.at)
    /\ insert' = NoInsert
    /\ core' = [core EXCEPT !.phase = CASE @ = "Bootstrap" -> "Failed"
                                        [] @ = "Reset" -> "CatchingUp"
                                        [] OTHER -> @]
    /\ UNCHANGED <<world, mem, db, disk, queue, resets, run>>

\* The event joins UndeterminedEvents, or the consensus events when it comes
\* from a frame; insertEventAndRunConsensus of the core moves the head.
Inserted ==
    /\ ~Idle /\ insert.at = None /\ insert.todo = {}
    /\ mem' = [mem EXCEPT !.inserted = Append(@, insert.event)]
    /\ core' = [core EXCEPT !.head = IF core.phase = "Babbling" /\ insert.event.creator = Self
                                     THEN insert.event ELSE @]
    /\ insert' = NoInsert
    /\ UNCHANGED <<world, db, disk, queue, resets, run>>

-----------------------------------------------------------------------------
(***************************************************************************)
(* Where events come from.                                                 *)
(***************************************************************************)

\* The last events that the other nodes know, one per creator.
Tip(c) ==
    LET own == {e \in world : e.creator = c}
    IN  IF own = {} THEN None ELSE CHOOSE e \in own : \A x \in own : x.index <= e.index

Event(c, self, other) == [creator |-> c, index |-> self.index + 1, self |-> self, other |-> other]

\* Another node creates an event, on its last one and the last one of a peer.
PeerEvent(c) ==
    /\ Idle
    /\ Tip(c).index < MaxIndex
    /\ \E other \in {Tip(d) : d \in Creators \ {c}} :
          /\ Tip(c) # None => other # None
          /\ world' = world \cup {Event(c, Tip(c), other)}
    /\ UNCHANGED <<mem, db, disk, insert, queue, core, resets, run>>

\* sync: one event of another node's answer.
Receive ==
    /\ core.phase = "Babbling"
    /\ \E e \in world : InsertEvent(e)
    /\ UNCHANGED <<world, disk, queue, core, resets, run>>

\* addSelfEvent, on core.head and the head of another.
SelfEvent ==
    /\ core.phase = "Babbling"
    /\ core.head.index < MaxIndex
    /\ \E c \in Creators \ {Self} :
          /\ core.head # None => LastEventFrom(c) # None
          /\ InsertEvent(Event(Self, core.head, LastEventFrom(c)))
    /\ UNCHANGED <<world, disk, queue, core, resets, run>>

\* Another node is sent the events of this one (eventDiff), and inserts one that
\* it has the parents of.
Send ==
    /\ Idle
    /\ core.phase = "Babbling"
    /\ \E i \in 1..Len(mem.inserted) :
          /\ mem.inserted[i] \notin world
          /\ {mem.inserted[i].self, mem.inserted[i].other} \subseteq world \cup {None}
          /\ world' = world \cup {mem.inserted[i]}
    /\ UNCHANGED <<mem, db, disk, insert, queue, core, resets, run>>

-----------------------------------------------------------------------------
(***************************************************************************)
(* Restart.                                                                *)
(***************************************************************************)

\* Badger opens its log with SyncWrites(false): what is written reaches the
\* disk later.
Sync ==
    /\ LosesWrites /\ disk # db
    /\ disk' = db
    /\ UNCHANGED <<world, mem, db, insert, queue, core, resets, run>>

initStoreMutant(c, left) ==
    /\ db' = IF c.store /\ ~c.bootstrap THEN EmptyDB ELSE left
    /\ UNCHANGED backups

\* initStore: without bootstrap, a database is renamed and a new one made; the
\* in-memory store does not touch it.
initStore(c, left) ==
    IF c.store /\ ~c.bootstrap /\ left # EmptyDB
      THEN db' = EmptyDB /\ backups' = backups \cup {DOMAIN left.event}
      ELSE db' = left /\ UNCHANGED backups

CrashMutant ==
    /\ crashes < MaxCrashes
    /\ crashes' = crashes + 1
    /\ options' \in conf.options
    /\ db' = EmptyDB
    /\ disk' = EmptyDB
    /\ mem' = EmptyMem
    /\ insert' = NoInsert
    /\ queue' = {}
    /\ core' = Booted(options')
    /\ UNCHANGED <<world, resets, conf, forgot, backups>>

\* The process ends, anywhere, and is started with the same or other options.
Crash ==
    LET left == IF LosesWrites THEN disk ELSE db
    IN  /\ crashes < MaxCrashes
        /\ crashes' = crashes + 1
        /\ options' \in conf.options
        /\ initStore(validateConfig(options'), left)
        /\ disk' = IF LosesWrites THEN db' ELSE disk
        /\ mem' = EmptyMem
        /\ insert' = NoInsert
        /\ queue' = {}
        /\ core' = Booted(options')
        /\ forgot' = (forgot \/ ~Persistent \/ ~validateConfig(options').bootstrap \/ left # db)
        /\ UNCHANGED <<world, resets, conf>>

\* Bootstrap: the events of the database, by topological index.
Replay ==
    /\ core.phase = "Bootstrap"
    /\ Len(mem.inserted) \in DOMAIN db.topo
    /\ InsertEvent(db.topo[Len(mem.inserted)])
    /\ UNCHANGED <<world, disk, queue, core, resets, run>>

\* InsertEvent refuses an event: Bootstrap, Node.Init and Babble.Init return
\* the error.
ReplayFails ==
    /\ core.phase = "Bootstrap" /\ Idle
    /\ Len(mem.inserted) \in DOMAIN db.topo
    /\ ~checkParents(db.topo[Len(mem.inserted)])
    /\ core' = [core EXCEPT !.phase = "Failed"]
    /\ UNCHANGED <<world, mem, db, disk, insert, queue, resets, run>>

\* setBabblingOrCatchingUpState.
setBabbling ==
    IF FastSync THEN [core EXCEPT !.phase = "CatchingUp"]
                ELSE [phase |-> "Babbling", head |-> LastEventFrom(Self)]

\* The rest of Node.Init: Suspended in maintenance-mode, without a transport.
Bootstrapped ==
    /\ core.phase = "Bootstrap" /\ Idle
    /\ Len(mem.inserted) \notin DOMAIN db.topo
    /\ core' = IF Config.maintenance THEN [core EXCEPT !.phase = "Suspended"] ELSE setBabbling
    /\ UNCHANGED <<world, mem, db, disk, insert, queue, resets, run>>

-----------------------------------------------------------------------------
(***************************************************************************)
(* Catching up.                                                            *)
(***************************************************************************)

\* e and its ancestors: parents are added once for every event there may be.
Ancestors(e) ==
    LET Parents(S) == {x.self : x \in S} \cup {x.other : x \in S}
        past[n \in Nat] == IF n = 0 THEN {e}
                           ELSE LET S == past[n - 1] IN S \cup (Parents(S) \ {None})
    IN  past[Cardinality(Creators) * (MaxIndex + 1)]

\* The frames of other nodes (GetFrame), without their rounds: which event of
\* each creator is the last one below some event is all that the store sees.
Frames ==
    {LET past == world \cap Ancestors(e)
     IN  {x \in past : \A y \in past : y.creator = x.creator => y.index <= x.index} : e \in world}

\* core.fastForward and Hashgraph.Reset: the caches are cleared, the database
\* is not.
Reset ==
    /\ core.phase = "CatchingUp" /\ resets < MaxResets
    /\ queue' \in Frames
    /\ resets' = resets + 1
    /\ mem' = EmptyMem
    /\ core' = [core EXCEPT !.phase = "Reset"]
    /\ UNCHANGED <<world, db, disk, insert, run>>

\* InsertFrameEvent: no check of the parents, and the topologicalIndex that the
\* event was decoded with: 0.
InsertFrameEvent ==
    /\ core.phase = "Reset" /\ Idle
    /\ \E e \in queue :
          /\ Ancestors(e) \cap queue = {e}
          /\ queue' = queue \ {e}
          /\ Begin(e, 0, mem.topo)
    /\ UNCHANGED <<world, disk, core, resets, run>>

\* setHeadAndSeq, then Babbling.
Forwarded ==
    /\ core.phase = "Reset" /\ Idle /\ queue = {}
    /\ core' = [phase |-> "Babbling", head |-> LastEventFrom(Self)]
    /\ UNCHANGED <<world, mem, db, disk, insert, queue, resets, run>>

\* No peer has an anchor block: getBestFastForwardResponse returns nil.
NoAnchor ==
    /\ core.phase = "CatchingUp"
    /\ core' = [core EXCEPT !.phase = "Babbling"]
    /\ UNCHANGED <<world, mem, db, disk, insert, queue, resets, run>>

-----------------------------------------------------------------------------
Insertion == NextAncestor \/ WalkEnds \/ Walk \/ WalkRefused \/ Inserted

Gossip == (\E c \in Creators \ {Self} : PeerEvent(c)) \/ Receive \/ SelfEvent \/ Send

Restart == Sync \/ Crash \/ Replay \/ ReplayFails \/ Bootstrapped

CatchUp == Reset \/ InsertFrameEvent \/ Forwarded \/ NoAnchor

Next == Insertion \/ Gossip \/ Restart \/ CatchUp

Spec == Init /\ [][Next]_vars

-----------------------------------------------------------------------------
(***************************************************************************)
(* Properties.                                                             *)
(***************************************************************************)

Known == {mem.inserted[i] : i \in 1..Len(mem.inserted)}

\* Some event was pushed out of its creator's window, or came after a frame.
Rolled == \E c \in Creators : Oldest(mem.window[c]) > 0

\* The node has not both restarted and fast-forwarded.  Reset leaves the events
\* of earlier runs in the database, where GetEvent still finds them, and a later
\* Bootstrap finds frame events over the first of them.
Unmixed == crashes = 0 \/ resets = 0

\* The coordinates answer ancestry.  Some event of p is above y and below x
\* exactly when the last ancestor of x by p is not before the first descendant
\* of y by p: the count on which stronglySee decides.  It must survive
\* evictions from the cache, the database's copies, a crash in the middle of an
\* insertion and a replay that reads first descendants from before the crash.
\* (It does not survive evictions during such a replay, or without a database.)
CoordinatesExact ==
    Idle /\ ~Rolled /\ Unmixed /\ (crashes = 0 \/ Cardinality(Known) < CacheSize) =>
    \A x, y \in Known : \A p \in Creators :
        LET last == GetEvent(x).la[p]
            first == GetEvent(y).fd[p]
        IN  (\E z \in Known : z.creator = p /\ z \in Ancestors(x) /\ y \in Ancestors(z))
              <=> first # None /\ last.index >= first.index

\* The events that a peer is sent (eventDiff, ParticipantEvents) are all the
\* events of a creator above the index it knows, in order, whether they come
\* from the RollingIndex or from the database; only without a database may the
\* answer be TooLate.  (A fast-forward leaves a gap.)
DiffComplete ==
    Idle /\ core.phase = "Babbling" /\ resets = 0 =>
    \A c \in Creators : \A skip \in {i \in -1..MaxIndex : ~TooLate(c, i)} :
        LET answer == ParticipantEvents(c, skip)
            last == mem.window[c].lastIndex
        IN  /\ Len(answer) = IF last > skip THEN last - skip ELSE 0
            /\ \A i \in 1..Len(answer) : answer[i].creator = c /\ answer[i].index = skip + i

\* Every event that the store counts as known went through InsertEvent to its
\* end, so consensus will see it, as long as no window has rolled.
StoredIsInserted ==
    Idle /\ ~Rolled /\ Unmixed =>
    \A c \in Creators : LastEventFrom(c) # None => LastEventFrom(c) \in Known

\* A node that restarts never creates a second event on the same self-parent,
\* if each run loads what the one before it had: an event is in the database
\* before it can be sent.  (A fast-forward after the restart drops the events
\* that the frame does not have.)
NoFork ==
    ~forgot /\ Unmixed =>
    \A e \in world \cup Known, x \in world \cup Known :
        e.creator = x.creator /\ e.index = x.index => e = x

\* What the documentation says of the bootstrap option: the node loads the
\* database and proceeds, whatever it did before.
BootstrapAlwaysSucceeds == core.phase # "Failed"

\* What the documentation says of the bootstrap option for the head: a babbling
\* node extends its own last event.
HeadIsLast ==
    Idle /\ core.phase = "Babbling" => core.head = LastEventFrom(Self)

\* Without a fast-forward, Bootstrap fails only when a window rolls (SetEvent of
\* an ancestor that was pushed out returns TooLate), and loses nothing that was
\* written before the crash: when it is done every event of the database is back.
\* (Reset starts the topological indexes again at 0, over the keys of earlier
\* events, and Bootstrap may then fail.)
BootstrapComplete ==
    resets = 0 =>
    /\ core.phase = "Failed" => Rolled
    /\ core.phase \in {"Babbling", "CatchingUp", "Suspended"} /\ Persistent /\ Idle /\ ~Rolled
           => Known = DOMAIN db.event

\* No sequence of runs, with whatever options, loses what an earlier one wrote:
\* initStore renames a database that it does not load.  A run that was asked for
\* maintenance leaves the databases as they are: the options that
\* maintenance-mode needs are forced before the store is opened.
HistoryKept ==
    [][~LosesWrites =>
          /\ \A e \in DOMAIN db.event \cup UNION backups :
                 e \in DOMAIN db'.event \cup UNION backups'
          /\ options'.maintenance => UNCHANGED <<db, backups>>]_vars
=============================================================================
