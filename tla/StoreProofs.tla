---------------------------- MODULE StoreProofs ----------------------------
(***************************************************************************)
(* Theorems about Store, for every set of creators, cache size, bound and  *)
(* sequence of options.                                                    *)
(*                                                                         *)
(* The argument turns on Base: the events that this run of the program has *)
(* taken in.  With the in-memory store they are those that went through    *)
(* InsertEvent; with a database, the events that it holds, and while it is *)
(* replayed, those replayed so far, a prefix by topological index.  The    *)
(* invariant says that the caches, the windows and the coordinates hold    *)
(* events of Base only, that the windows are their ends, and that the      *)
(* database is a log in which parents come first.                          *)
(***************************************************************************)
EXTENDS Store, TLAPS

IsEvent(e) ==
    /\ e.creator \in Creators /\ e.index \in 0..MaxIndex
    /\ \/ e.self = None /\ e.index = 0
       \/ e.self # None /\ e.self.creator = e.creator /\ e.self.index = e.index - 1

NoTwo(S) == \A e, x \in S : e.creator = x.creator /\ e.index = x.index => e = x

Written == DOMAIN db.event

Replayed == {db.topo[k] : k \in 0 .. mem.topo - 1}

Underway == {insert.event} \ {None}

Base ==
    IF ~Persistent THEN Known \cup Underway
    ELSE IF resets = 0 THEN Replayed ELSE Written

\* The last ancestors in an entry are of S.
LaIn(entry, S) ==
    "la" \in DOMAIN entry /\ \A c \in Creators : entry.la[c] = None \/ entry.la[c] \in S

FromWorld(S) == \A e \in S : e.creator # Self => e \in world

-----------------------------------------------------------------------------
(***************************************************************************)
(* The inductive invariant.                                                *)
(***************************************************************************)

IsMem(m) ==
    /\ m = [cache |-> m.cache, window |-> m.window, topo |-> m.topo, inserted |-> m.inserted]
    /\ DOMAIN m.window = Creators
    /\ m.window = [c \in Creators |-> m.window[c]]

IsInsert(i) == i = [event |-> i.event, at |-> i.at, todo |-> i.todo]

IsCore(c) == c = [phase |-> c.phase, head |-> c.head]

TypeInv ==
    /\ conf \in Confs /\ options \in conf.options
    /\ crashes \in Nat /\ resets \in Nat /\ forgot \in BOOLEAN
    /\ IsMem(mem) /\ IsCore(core)
    /\ Idle \/ IsInsert(insert)
    /\ Config.maintenance => core.phase \in {"Bootstrap", "Suspended", "Failed"}

\* The other nodes do not fork.
WorldInv ==
    /\ \A e \in world : IsEvent(e)
    /\ NoTwo({e \in world : e.creator # Self})
    /\ \A c \in Creators : (\E e \in world : e.creator = c) =>
          \E e \in world : e.creator = c /\ \A x \in world : x.creator = c => x.index <= e.index

Earlier(d, k) == {d.topo[j] : j \in 0 .. k - 1}

\* A database that was never fast-forwarded: a log of events by topological
\* index, parents first.
LogInv(d) ==
    /\ \E n \in Nat : DOMAIN d.topo = 0 .. n - 1
    /\ DOMAIN d.event = {d.topo[k] : k \in DOMAIN d.topo}
    /\ \A j, k \in DOMAIN d.topo : d.topo[j] = d.topo[k] => j = k
    /\ \A k \in DOMAIN d.topo :
          /\ IsEvent(d.topo[k])
          /\ {d.topo[k].self, d.topo[k].other} \subseteq Earlier(d, k) \cup {None}
    /\ DOMAIN d.participant = {<<e.creator, e.index>> : e \in DOMAIN d.event}
    /\ \A e \in DOMAIN d.event : d.participant[<<e.creator, e.index>>] = e
    /\ FromWorld(DOMAIN d.event)

\* Its entries lead to events before them.
LaInv(d) == \A k \in DOMAIN d.topo : LaIn(d.event[d.topo[k]], Earlier(d, k + 1))

WindowOK(w, c, B) ==
    /\ w = [items |-> w.items, lastIndex |-> w.lastIndex]
    /\ w.items \in Seq(B) /\ w.lastIndex \in Int
    /\ w.items = <<>> <=> w.lastIndex = -1
    /\ w.lastIndex >= -1 /\ Oldest(w) >= 0
    /\ \A j \in 1..Len(w.items) : w.items[j].creator = c /\ w.items[j].index = Oldest(w) + j - 1

WindowsOK(B) == \A c \in Creators : WindowOK(mem.window[c], c, B)

EventsOK(B) ==
    /\ \A e \in B : IsEvent(e) /\ e.index <= mem.window[e.creator].lastIndex
    /\ NoTwo(B)
    /\ FromWorld(B)

EntriesOK(B) ==
    /\ DOMAIN mem.cache \subseteq B
    /\ \A e \in DOMAIN mem.cache : LaIn(mem.cache[e], B)
    /\ Persistent => B \subseteq Written /\ \A e \in B : LaIn(db.event[e], B)

InsertOK(B) ==
    ~Idle => /\ insert.event \in B
             /\ insert.todo \subseteq B
             /\ insert.at # None /\ Has(insert.at) => insert.at \in B

ListOK(B) ==
    /\ mem.inserted \in Seq(B)
    /\ ~Rolled => B = Known \cup Underway

PhaseOK(B) ==
    /\ Persistent /\ core.phase \notin {"Bootstrap", "Failed"} => B = Written
    /\ core.phase = "Failed" => Rolled
    /\ core.phase \in {"Failed", "CatchingUp"} => Idle
    /\ core.phase = "Bootstrap" => Persistent

\* The node's own events that others have are in its store.
OwnOK(B) ==
    ~forgot => \A e \in world : e.creator = Self => e \in (IF Persistent THEN Written ELSE B)

MemInv(B) ==
    /\ WindowsOK(B) /\ EventsOK(B) /\ EntriesOK(B) /\ InsertOK(B)
    /\ ListOK(B) /\ PhaseOK(B) /\ OwnOK(B)

\* Without a fast-forward.
ReplayInv(B) ==
    /\ LogInv(db) /\ LogInv(disk) /\ LaInv(db) /\ LaInv(disk)
    /\ Persistent => \A k \in DOMAIN db.topo : db.topo[k] \in DOMAIN mem.cache =>
                        LaIn(mem.cache[db.topo[k]], Earlier(db, k + 1))
    /\ mem.topo \in Nat
    /\ Persistent => 0 .. mem.topo - 1 \subseteq DOMAIN db.topo
    /\ \A c \in Creators : \A i \in 0..mem.window[c].lastIndex :
          \E e \in B : e.creator = c /\ e.index = i
    /\ core.phase = "Bootstrap" => IF Idle THEN Len(mem.inserted) = mem.topo
                                           ELSE Len(mem.inserted) + 1 = mem.topo
    /\ core.phase # "Reset"

\* Without a restart.
FirstRunInv ==
    /\ core.phase \in {"Bootstrap", "CatchingUp", "Suspended", "Failed"} =>
          resets = 0 /\ mem = EmptyMem /\ db = EmptyDB /\ Idle
    /\ core.phase \in {"Bootstrap", "CatchingUp", "Reset"} => \A e \in world : e.creator # Self

\* While Reset inserts the events of a frame: one of each creator.
ResetInv(B) ==
    core.phase = "Reset" =>
        /\ \A e \in B : mem.window[e.creator].items = <<e>>
        /\ queue \subseteq world
        /\ \A e \in queue : \A x \in queue \cup B : e.creator = x.creator => e = x /\ e \notin B

Sound ==
    /\ TypeInv /\ WorldInv /\ MemInv(Base)
    /\ resets = 0 => ReplayInv(Base)
    /\ crashes = 0 => FirstRunInv
    /\ resets # 0 => crashes = 0 /\ ResetInv(Base)

\* Of a node that both restarted and fast-forwarded nothing is said.
Inv ==
    /\ conf \in Confs /\ options \in conf.options /\ crashes \in Nat /\ resets \in Nat
    /\ Unmixed => Sound

-----------------------------------------------------------------------------
(***************************************************************************)
(* The databases.                                                          *)
(***************************************************************************)

\* SetEvent writes nothing in maintenance-mode, and removes no event.
LEMMA SetEventKeeps ==
    ASSUME NEW e, NEW entry, NEW topo, NEW index, SetEvent(e, entry, topo, index)
    PROVE  /\ \A x \in DOMAIN db.event : x \in DOMAIN db'.event
           /\ Config.maintenance => db' = db
  <1>1. CASE Persistent /\ ~Maintenance
    <2>1. db' = dbSetEvent(e, entry, topo)
      BY <1>1 DEF SetEvent
    <2>2. DOMAIN db'.event = DOMAIN db.event \cup {e}
      BY <2>1 DEF dbSetEvent, With
    <2> QED
      BY <2>2, <1>1 DEF Maintenance
  <1>2. CASE ~(Persistent /\ ~Maintenance)
    BY <1>2 DEF SetEvent
  <1> QED
    BY <1>1, <1>2

\* What the options of a run say.
LEMMA ConfigFacts ==
    ASSUME conf \in Confs, NEW o \in conf.options
    PROVE  /\ validateConfig(o).maintenance = o.maintenance
           /\ validateConfig(o).fastSync = o.fastSync
           /\ o.maintenance => validateConfig(o).bootstrap
           /\ validateConfig(o).bootstrap => validateConfig(o).store
           /\ validateConfig(o).bootstrap \in BOOLEAN /\ validateConfig(o).store \in BOOLEAN
           /\ o.fastSync \in BOOLEAN /\ o.maintenance \in BOOLEAN
  <1>1. o \in [maintenance : BOOLEAN, bootstrap : BOOLEAN, store : BOOLEAN, fastSync : BOOLEAN]
    BY StoreAssumption
  <1> QED
    BY <1>1 DEF validateConfig

\* A run never loses what an earlier one wrote, and one in maintenance-mode
\* leaves the databases as they are (HistoryKept).
THEOREM HistoryIsKept == Spec => HistoryKept
  <1> DEFINE P == conf \in Confs /\ options \in conf.options
             A == ~LosesWrites =>
                     /\ \A e \in DOMAIN db.event \cup UNION backups :
                            e \in DOMAIN db'.event \cup UNION backups'
                     /\ options'.maintenance => UNCHANGED <<db, backups>>
  <1>1. Init => P
    BY DEF Init
  <1>2. P /\ [Next]_vars => P'
    <2> SUFFICES ASSUME P, [Next]_vars PROVE P'
      OBVIOUS
    <2>1. CASE UNCHANGED run
      BY <2>1 DEF run
    <2>2. CASE Crash
      BY <2>2 DEF Crash
    <2> QED
      BY <2>1, <2>2, Zenon
      DEF Next, vars, Insertion, Gossip, Restart, CatchUp, NextAncestor, WalkEnds, Walk,
          WalkRefused, Inserted, PeerEvent, Receive, SelfEvent, Send, Sync, Replay, ReplayFails,
          Bootstrapped, Reset, InsertFrameEvent, Forwarded, NoAnchor
  <1>3. P /\ [Next]_vars => [A]_vars
    <2> SUFFICES ASSUME P, [Next]_vars PROVE A
      OBVIOUS
    <2>1. CASE UNCHANGED <<db, backups>>
      BY <2>1
    <2>2. ASSUME NEW e, NEW entry, NEW topo, NEW index, SetEvent(e, entry, topo, index),
                 UNCHANGED run
          PROVE  A
      <3>1. Config.maintenance = options'.maintenance /\ backups' = backups
        BY <2>2, ConfigFacts DEF run, Config
      <3>2. /\ \A x \in DOMAIN db.event : x \in DOMAIN db'.event
            /\ Config.maintenance => db' = db
        BY <2>2, SetEventKeeps
      <3> QED
        BY <3>1, <3>2
    <2>3. ASSUME NEW e, NEW topo, NEW index, Begin(e, topo, index), UNCHANGED run
          PROVE  A
      BY <2>2, <2>3 DEF Begin
    <2>4. CASE Walk
      BY <2>2, <2>4 DEF Walk
    <2>5. CASE Receive \/ SelfEvent \/ Replay
      BY <2>3, <2>5 DEF Receive, SelfEvent, Replay, InsertEvent
    <2>6. CASE InsertFrameEvent
      BY <2>3, <2>6 DEF InsertFrameEvent
    <2>7. CASE Crash
      <3> SUFFICES ASSUME ~LosesWrites PROVE A
        OBVIOUS
      <3>1. initStore(validateConfig(options'), db) /\ options' \in conf.options
        BY <2>7 DEF Crash
      <3>2. options'.maintenance => validateConfig(options').bootstrap
        BY <3>1, ConfigFacts
      <3> QED
        BY <3>1, <3>2 DEF initStore
    <2>8. CASE UNCHANGED vars
      BY <2>1, <2>8 DEF vars, run
    <2>9. CASE \/ NextAncestor \/ WalkEnds \/ WalkRefused \/ Inserted \/ Send \/ Sync \/ ReplayFails
               \/ Bootstrapped \/ Reset \/ Forwarded \/ NoAnchor
               \/ \E c \in Creators \ {Self} : PeerEvent(c)
      BY <2>1, <2>9, Zenon
      DEF run, NextAncestor, WalkEnds, WalkRefused, Inserted, PeerEvent, Send, Sync, ReplayFails,
          Bootstrapped, Reset, Forwarded, NoAnchor
    <2> QED
      BY <2>4, <2>5, <2>6, <2>7, <2>8, <2>9 DEF Next, Insertion, Gossip, Restart, CatchUp
  <1> QED
    BY <1>1, <1>2, <1>3, PTL DEF Spec, HistoryKept

-----------------------------------------------------------------------------
(***************************************************************************)
(* The caches.                                                             *)
(***************************************************************************)

\* What Roll leaves of a window is an end of it.
LEMMA RollIsEnd ==
    ASSUME NEW B, NEW s \in Seq(B), CacheSize \in Nat \ {0}
    PROVE  /\ Roll(s) \in Seq(B)
           /\ Len(Roll(s)) <= Len(s)
           /\ \A j \in 1..Len(Roll(s)) : Roll(s)[j] = s[Len(s) - Len(Roll(s)) + j]
  <1>1. CASE Len(s) >= CacheSize
    <2>1. PICK h \in Nat : h = CacheSize \div 2 /\ h <= Len(s)
      BY <1>1
    <2>2. Roll(s) = SubSeq(s, h + 1, Len(s))
      BY <1>1, <2>1 DEF Roll
    <2>3. h <= Len(s)
      BY <2>1
    <2>4. /\ SubSeq(s, h + 1, Len(s)) \in Seq(B)
          /\ Len(SubSeq(s, h + 1, Len(s))) = Len(s) - h
          /\ \A j \in 1..Len(s) - h : SubSeq(s, h + 1, Len(s))[j] = s[h + j]
      BY <2>3
    <2> DEFINE r == Roll(s)
    <2> HIDE DEF r
    <2>5. /\ r \in Seq(B) /\ Len(r) = Len(s) - h
          /\ \A j \in 1..Len(r) : r[j] = s[h + j]
      BY <2>2, <2>4 DEF r
    <2>6. Len(s) - Len(r) = h
      BY <2>3, <2>5
    <2> QED
      BY <2>3, <2>5, <2>6 DEF r
  <1>2. CASE ~(Len(s) >= CacheSize)
    BY <1>2 DEF Roll
  <1> QED
    BY <1>1, <1>2

\* An empty window rolls to itself.
LEMMA RollEmpty == ASSUME CacheSize \in Nat \ {0} PROVE Roll(<<>>) = <<>>
  BY DEF Roll

\* A window begins at an index.
LEMMA WindowInt ==
    ASSUME NEW B, NEW c, NEW w, WindowOK(w, c, B)
    PROVE  Oldest(w) \in Int
  <1>1. Len(w.items) \in Nat /\ w.lastIndex \in Int
    BY DEF WindowOK
  <1> QED
    BY <1>1 DEF Oldest

\* An event that is appended to the window of its creator.
LEMMA WindowAppend ==
    ASSUME NEW B, NEW c, NEW w, WindowOK(w, c, B), CacheSize \in Nat \ {0},
           NEW C, B \subseteq C, NEW e \in C, e.creator = c, e.index \in Nat,
           w.lastIndex = -1 \/ e.index = w.lastIndex + 1
    PROVE  /\ WindowOK(WindowSet(w, e.index, e), c, C)
           /\ WindowSet(w, e.index, e).lastIndex = e.index
           /\ w.lastIndex = -1 => WindowSet(w, e.index, e).items = <<e>>
           /\ Oldest(WindowSet(w, e.index, e)) >= Oldest(w)
  <1> DEFINE v == WindowSet(w, e.index, e)
             r == Roll(w.items)
  <1>1. /\ w.items \in Seq(B) /\ w.lastIndex \in Int /\ w.lastIndex >= -1
        /\ w.items = <<>> <=> w.lastIndex = -1
        /\ Oldest(w) >= 0 /\ Oldest(w) = w.lastIndex - Len(w.items) + 1 /\ Len(w.items) \in Nat
        /\ Oldest(w) \in Int
    BY DEF WindowOK, Oldest
  <1>2. v = [items |-> Append(r, e), lastIndex |-> e.index]
    <2>1. w.lastIndex < 0 \/ e.index = w.lastIndex + 1
      BY <1>1
    <2> QED
      BY <2>1 DEF WindowSet
  <1>3. /\ r \in Seq(B) /\ Len(r) <= Len(w.items) /\ Len(r) \in Nat
        /\ \A j \in 1..Len(r) : r[j] = w.items[Len(w.items) - Len(r) + j]
    <2>1. w.items \in Seq(B)
      BY <1>1
    <2>2. /\ r \in Seq(B) /\ Len(r) <= Len(w.items)
          /\ \A j \in 1..Len(r) : r[j] = w.items[Len(w.items) - Len(r) + j]
      BY <2>1, RollIsEnd
    <2> HIDE DEF r
    <2> QED
      BY <2>2
  <1>4. w.lastIndex = -1 => r = <<>>
    BY <1>1, RollEmpty
  <1> HIDE DEF v, r
  <1>5. /\ v.items = Append(r, e) /\ v.lastIndex = e.index
        /\ v = [items |-> v.items, lastIndex |-> v.lastIndex]
    BY <1>2
  <1>6. /\ v.items \in Seq(C) /\ Len(v.items) = Len(r) + 1 /\ v.items[Len(r) + 1] = e
        /\ \A j \in 1..Len(r) : v.items[j] = r[j]
    <2>1. r \in Seq(C)
      BY <1>3
    <2> QED
      BY <2>1, <1>5
  <1>7. Oldest(v) = e.index - Len(r) /\ Oldest(v) \in Int
    <2>1. Oldest(v) = v.lastIndex - Len(v.items) + 1
      BY DEF Oldest
    <2> QED
      BY <2>1, <1>5, <1>6, <1>3
  <1>8. Oldest(v) >= Oldest(w)
    <2>1. CASE w.lastIndex = -1
      BY <2>1, <1>1, <1>4, <1>7
    <2>2. CASE e.index = w.lastIndex + 1
      BY <2>2, <1>1, <1>3, <1>7
    <2> QED
      BY <2>1, <2>2
  <1>9. ASSUME NEW j \in 1..Len(v.items)
        PROVE  v.items[j].creator = c /\ v.items[j].index = Oldest(v) + j - 1
    <2>1. CASE j = Len(r) + 1
      BY <2>1, <1>6, <1>7, <1>3
    <2>2. CASE j \in 1..Len(r)
      <3>1. w.lastIndex # -1 /\ e.index = w.lastIndex + 1
        BY <2>2, <1>4
      <3>2. PICK i \in 1..Len(w.items) : i = Len(w.items) - Len(r) + j
        BY <2>2, <1>1, <1>3
      <3>3. v.items[j] = w.items[i]
        BY <2>2, <3>2, <1>3, <1>6
      <3>4. Oldest(v) + j - 1 = Oldest(w) + i - 1
        <4>a. PICK l \in Int : l = w.lastIndex
          BY <1>1
        <4>b. PICK m \in Int : m = Len(r)
          BY <1>3
        <4>c. PICK n \in Int : n = Len(w.items)
          BY <1>1
        <4>d. PICK o \in Int : o = Oldest(w)
          BY <1>1
        <4>e. PICK p \in Int : p = Oldest(v)
          BY <1>7
        <4>1. /\ l = w.lastIndex /\ m = Len(r) /\ n = Len(w.items)
              /\ o = Oldest(w) /\ p = Oldest(v)
          BY <4>a, <4>b, <4>c, <4>d, <4>e, Zenon
        <4>2. o = l - n + 1
          BY <4>1, <1>1
        <4>3. e.index = l + 1
          BY <4>1, <3>1
        <4>4. p = l + 1 - m
          BY <4>1, <4>3, <1>7
        <4>5. i = n - m + j
          BY <4>1, <3>2
        <4>6. p + j - 1 = o + i - 1
          BY <4>2, <4>4, <4>5
        <4> QED
          BY <4>1, <4>6
      <3>5. w.items[i].creator = c /\ w.items[i].index = Oldest(w) + i - 1
        BY DEF WindowOK
      <3> QED
        BY <3>3, <3>4, <3>5
    <2> QED
      BY <2>1, <2>2, <1>3, <1>6
  <1>10. v.items # <<>> /\ v.lastIndex # -1 /\ v.lastIndex \in Int /\ v.lastIndex >= -1
    BY <1>5, <1>6, <1>3
  <1>11. WindowOK(v, c, C)
    <2>1. Oldest(v) >= 0
      BY <1>1, <1>7, <1>8
    <2> QED
      BY <2>1, <1>5, <1>6, <1>9, <1>10, Zenon DEF WindowOK
  <1>12. w.lastIndex = -1 => v.items = <<e>>
    BY <1>4, <1>5
  <1> QED
    BY <1>5, <1>8, <1>11, <1>12 DEF v

\* An event that the window has, or would have, is set over itself.
LEMMA WindowSame ==
    ASSUME NEW B, NoTwo(B), NEW c, NEW w, WindowOK(w, c, B),
           NEW e \in B, e.creator = c, e.index \in Nat, e.index <= w.lastIndex,
           ~WindowRefuses(w, e.index)
    PROVE  WindowSet(w, e.index, e) = w
  <1>1. /\ w.items \in Seq(B) /\ w.lastIndex \in Int /\ Len(w.items) \in Nat
        /\ Oldest(w) = w.lastIndex - Len(w.items) + 1 /\ Oldest(w) \in Int
        /\ \A j \in 1..Len(w.items) : w.items[j].creator = c /\ w.items[j].index = Oldest(w) + j - 1
    BY DEF WindowOK, Oldest
  <1>2. e.index >= Oldest(w) /\ w.lastIndex >= 0 /\ e.index # w.lastIndex + 1
    BY <1>1 DEF WindowRefuses
  <1>3. PICK j \in 1..Len(w.items) : j = e.index - Oldest(w) + 1
    BY <1>1, <1>2
  <1>4. w.items[j] \in B /\ w.items[j].creator = c /\ w.items[j].index = e.index
    <2>1. Oldest(w) + j - 1 = e.index
      BY <1>1, <1>3
    <2> QED
      BY <2>1, <1>1
  <1>5. w.items[j] = e
    BY <1>4 DEF NoTwo
  <1>6. WindowSet(w, e.index, e) = [w EXCEPT !.items[j] = e]
    <2>1. ~(w.lastIndex < 0 \/ e.index = w.lastIndex + 1)
      BY <1>1, <1>2
    <2> QED
      BY <2>1, <1>3 DEF WindowSet
  <1>7. [w.items EXCEPT ![j] = e] = w.items
    <2>1. w.items \in [1..Len(w.items) -> B]
      BY <1>1
    <2> QED
      BY <2>1, <1>5
  <1>8. w = [items |-> w.items, lastIndex |-> w.lastIndex]
    BY DEF WindowOK
  <1> QED
    BY <1>6, <1>7, <1>8

\* The last event of a window.
LEMMA LastOfWindow ==
    ASSUME NEW B, WindowsOK(B), NEW c \in Creators
    PROVE  /\ mem.window[c].lastIndex = -1 => LastEventFrom(c) = None
           /\ mem.window[c].lastIndex # -1 =>
                 /\ LastEventFrom(c) \in B /\ LastEventFrom(c).creator = c
                 /\ LastEventFrom(c).index = mem.window[c].lastIndex
                 /\ mem.window[c].lastIndex \in Nat
  <1> DEFINE w == mem.window[c]
             n == Len(w.items)
  <1>1. WindowOK(w, c, B)
    BY DEF WindowsOK
  <1> HIDE DEF w
  <1>2. CASE w.lastIndex = -1
    <2>1. w.items = <<>>
      BY <1>1, <1>2 DEF WindowOK
    <2> QED
      BY <1>2, <2>1 DEF LastEventFrom, w
  <1>3. CASE w.lastIndex # -1
    <2>1. /\ w.items # <<>> /\ w.items \in Seq(B) /\ n \in Nat /\ n # 0
          /\ w.lastIndex \in Int /\ w.lastIndex >= -1
      BY <1>1, <1>3 DEF WindowOK
    <2>2. LastEventFrom(c) = w.items[n]
      BY <2>1 DEF LastEventFrom, w
    <2>3. w.items[n] \in B /\ w.items[n].creator = c /\ w.items[n].index = Oldest(w) + n - 1
      BY <2>1, <1>1 DEF WindowOK
    <2>4. Oldest(w) + n - 1 = w.lastIndex
      BY <2>1 DEF Oldest
    <2> QED
      BY <1>3, <2>1, <2>2, <2>3, <2>4 DEF w
  <1> QED
    BY <1>2, <1>3 DEF w

\* What LRU.Add leaves in the cache.
LEMMA LruAddKeeps ==
    ASSUME NEW old, NEW e, NEW entry, NEW cache \in LruAdd(old, e, entry)
    PROVE  /\ DOMAIN cache \subseteq DOMAIN old \cup {e}
           /\ e \in DOMAIN cache /\ cache[e] = entry
           /\ \A x \in DOMAIN cache : x # e => x \in DOMAIN old /\ cache[x] = old[x]
  <1>1. CASE cache = With(old, e, entry)
    BY <1>1 DEF With
  <1>2. ASSUME NEW k \in DOMAIN old,
               cache = [x \in (DOMAIN old \ {k}) \cup {e} |-> IF x = e THEN entry ELSE old[x]]
        PROVE  /\ DOMAIN cache \subseteq DOMAIN old \cup {e}
               /\ e \in DOMAIN cache /\ cache[e] = entry
               /\ \A x \in DOMAIN cache : x # e => x \in DOMAIN old /\ cache[x] = old[x]
    BY <1>2
  <1> QED
    BY <1>1, <1>2, Zenon DEF LruAdd

-----------------------------------------------------------------------------
(***************************************************************************)
(* SetEvent.                                                               *)
(***************************************************************************)

\* What a step that does not restart the program leaves alone.
LEMMA SameRun ==
    ASSUME UNCHANGED run
    PROVE  /\ Creators' = Creators /\ CacheSize' = CacheSize /\ MaxIndex' = MaxIndex
           /\ Config' = Config /\ Persistent' = Persistent /\ LosesWrites' = LosesWrites
           /\ conf' = conf /\ options' = options /\ crashes' = crashes /\ forgot' = forgot
           /\ \A e : IsEvent(e) => IsEvent(e)'
           /\ \A entry, S : LaIn(entry, S) => LaIn(entry, S)'
  <1>1. conf' = conf /\ options' = options /\ crashes' = crashes /\ forgot' = forgot
    BY DEF run
  <1>2. /\ Creators' = Creators /\ CacheSize' = CacheSize /\ MaxIndex' = MaxIndex
        /\ Config' = Config /\ LosesWrites' = LosesWrites
    BY <1>1 DEF Creators, CacheSize, MaxIndex, Config, LosesWrites
  <1>3. Persistent' = Persistent
    BY <1>2 DEF Persistent
  <1>4. \A e : IsEvent(e) => IsEvent(e)'
    BY <1>2 DEF IsEvent
  <1>5. \A entry, S : LaIn(entry, S) => LaIn(entry, S)'
    BY <1>2 DEF LaIn
  <1> QED
    BY <1>1, <1>2, <1>3, <1>4, <1>5

\* The types that the assumption on the instances gives.
LEMMA ConfTypes ==
    ASSUME TypeInv
    PROVE  /\ Self \in Creators /\ CacheSize \in Nat \ {0} /\ MaxIndex \in Nat
           /\ LosesWrites \in BOOLEAN /\ Persistent \in BOOLEAN
  BY StoreAssumption, ConfigFacts
  DEF TypeInv, Creators, CacheSize, MaxIndex, LosesWrites, Persistent, Config

\* The fields of mem that SetEvent changes.
LEMMA SetEventFields ==
    ASSUME TypeInv, NEW e, e.creator \in Creators,
           NEW entry, NEW topo, NEW index, SetEvent(e, entry, topo, index)
    PROVE  /\ IsMem(mem') /\ mem'.topo = index /\ mem'.inserted = mem.inserted
           /\ \A c \in Creators : c # e.creator => mem'.window[c] = mem.window[c]
           /\ e \in DOMAIN mem.cache => mem'.window[e.creator] = mem.window[e.creator]
           /\ e \notin DOMAIN mem.cache =>
                 /\ ~WindowRefuses(mem.window[e.creator], e.index)
                 /\ mem'.window[e.creator] = WindowSet(mem.window[e.creator], e.index, e)
           /\ e \in DOMAIN mem'.cache /\ mem'.cache[e] = entry
           /\ \A x \in DOMAIN mem'.cache : x # e => x \in DOMAIN mem.cache /\ mem'.cache[x] = mem.cache[x]
  <1> DEFINE pushed == [mem.window EXCEPT ![e.creator] =
                           IF e \in DOMAIN mem.cache THEN @ ELSE WindowSet(@, e.index, e)]
  <1>1. PICK cache \in LruAdd(mem.cache, e, entry) :
            mem' = [mem EXCEPT !.cache = cache, !.topo = index,
                               !.window[e.creator] =
                                   IF e \in DOMAIN mem.cache THEN @ ELSE WindowSet(@, e.index, e)]
    BY Zenon DEF SetEvent
  <1>2. /\ mem = [cache |-> mem.cache, window |-> mem.window, topo |-> mem.topo,
                  inserted |-> mem.inserted]
        /\ DOMAIN mem.window = Creators
    BY DEF TypeInv, IsMem
  <1>3. /\ DOMAIN pushed = Creators
        /\ pushed = [c \in Creators |-> pushed[c]]
        /\ \A c \in Creators : c # e.creator => pushed[c] = mem.window[c]
        /\ e \in DOMAIN mem.cache => pushed[e.creator] = mem.window[e.creator]
        /\ e \notin DOMAIN mem.cache =>
              pushed[e.creator] = WindowSet(mem.window[e.creator], e.index, e)
    BY <1>2
  <1>4. mem' = [cache |-> cache, window |-> pushed, topo |-> index, inserted |-> mem.inserted]
    BY <1>1, <1>2, Zenon
  <1> HIDE DEF pushed
  <1>5. /\ mem'.cache = cache /\ mem'.window = pushed /\ mem'.topo = index
        /\ mem'.inserted = mem.inserted
        /\ mem' = [cache |-> mem'.cache, window |-> mem'.window, topo |-> mem'.topo,
                   inserted |-> mem'.inserted]
    BY <1>4
  <1>8. IsMem(mem')
    BY <1>3, <1>5, Zenon DEF IsMem
  <1>6. /\ e \in DOMAIN cache /\ cache[e] = entry
        /\ \A x \in DOMAIN cache : x # e => x \in DOMAIN mem.cache /\ cache[x] = mem.cache[x]
    BY LruAddKeeps
  <1>7. e \notin DOMAIN mem.cache => ~WindowRefuses(mem.window[e.creator], e.index)
    BY DEF SetEvent, SetEventRefused
  <1> QED
    BY <1>3, <1>5, <1>6, <1>7, <1>8, Zenon

\* What SetEvent writes to the database.
LEMMA SetEventWrites ==
    ASSUME NEW e, NEW entry, NEW topo, NEW index, SetEvent(e, entry, topo, index)
    PROVE  /\ ~Persistent \/ Maintenance => db' = db
           /\ Persistent /\ ~Maintenance =>
                 /\ DOMAIN db'.event = Written \cup {e} /\ db'.event[e] = entry
                 /\ \A x \in Written : x # e => db'.event[x] = db.event[x]
                 /\ e \in Written => db'.topo = db.topo /\ db'.participant = db.participant
                 /\ e \notin Written =>
                       /\ db'.topo = With(db.topo, topo, e)
                       /\ db'.participant = With(db.participant, <<e.creator, e.index>>, e)
  BY DEF SetEvent, dbSetEvent, Written, With

\* The last ancestors of a new event are those of its parents, and itself.
LEMMA CoordinatesIn ==
    ASSUME NEW e, e.creator \in Creators, NEW S, e \in S,
           e.self # None /\ Has(e.self) => LaIn(GetEvent(e.self), S),
           e.other # None /\ Has(e.other) => LaIn(GetEvent(e.other), S)
    PROVE  LaIn(initEventCoordinates(e), S)
  <1> DEFINE la(p) == IF p # None /\ Has(p) THEN GetEvent(p).la ELSE Unset
             Later(c) == IF la(e.self)[c].index < la(e.other)[c].index THEN la(e.other)[c]
                                                                       ELSE la(e.self)[c]
             all == [[c \in Creators |-> Later(c)] EXCEPT ![e.creator] = e]
  <1>1. \A c \in Creators : la(e.self)[c] = None \/ la(e.self)[c] \in S
    BY DEF LaIn, Unset
  <1>2. \A c \in Creators : la(e.other)[c] = None \/ la(e.other)[c] \in S
    BY DEF LaIn, Unset
  <1>3. \A c \in Creators : Later(c) = None \/ Later(c) \in S
    BY <1>1, <1>2
  <1>4. initEventCoordinates(e) = [la |-> all, fd |-> [Unset EXCEPT ![e.creator] = e]]
    BY DEF initEventCoordinates
  <1>5. \A c \in Creators : all[c] = None \/ all[c] \in S
    <2> HIDE DEF Later
    <2> QED
      BY <1>3
  <1> HIDE DEF all
  <1>6. "la" \in DOMAIN initEventCoordinates(e) /\ initEventCoordinates(e).la = all
    BY <1>4
  <1> QED
    BY <1>5, <1>6 DEF LaIn

-----------------------------------------------------------------------------
(***************************************************************************)
(* The steps of the invariant's parts.                                     *)
(***************************************************************************)

\* e can be appended to the window of its creator.
Follows(e) ==
    mem.window[e.creator].lastIndex = -1 \/ e.index = mem.window[e.creator].lastIndex + 1

\* Such an event is not yet among those of B.
LEMMA FollowsIsNew ==
    ASSUME TypeInv, NEW B, WindowsOK(B), EventsOK(B), NEW e, IsEvent(e), Follows(e)
    PROVE  e \notin B /\ NoTwo(B \cup {e})
  <1>1. \A x \in B : x.creator = e.creator => x.index # e.index
    <2> SUFFICES ASSUME NEW x \in B, x.creator = e.creator, x.index = e.index PROVE FALSE
      OBVIOUS
    <2>1. IsEvent(x) /\ x.index <= mem.window[e.creator].lastIndex
      BY DEF EventsOK
    <2>2. e.index \in Nat
      BY ConfTypes DEF IsEvent
    <2>3. mem.window[e.creator].lastIndex \in Int
      BY Zenon DEF WindowsOK, WindowOK, IsEvent
    <2> QED
      BY <2>1, <2>2, <2>3 DEF Follows
  <1>2. NoTwo(B)
    BY DEF EventsOK
  <1> QED
    BY <1>1, <1>2 DEF NoTwo

\* SetEvent of a new event, to the windows.
LEMMA SetNew ==
    ASSUME TypeInv, UNCHANGED <<world, run>>, NEW B, WindowsOK(B), EventsOK(B), EntriesOK(B),
           NEW e, IsEvent(e), Follows(e), e.creator # Self => e \in world,
           NEW entry, NEW topo, NEW index, SetEvent(e, entry, topo, index)
    PROVE  /\ WindowsOK(B \cup {e})' /\ EventsOK(B \cup {e})'
           /\ Rolled => Rolled'
           /\ mem'.window[e.creator].lastIndex = e.index
           /\ mem.window[e.creator].lastIndex = -1 => mem'.window[e.creator].items = <<e>>
  <1> DEFINE w == mem.window[e.creator]
             C == B \cup {e}
  <1>1. e.creator \in Creators /\ e.index \in Nat /\ e.index \in Int
    BY ConfTypes DEF IsEvent
  <1>2. e \notin B /\ NoTwo(C)
    BY FollowsIsNew
  <1>3. e \notin DOMAIN mem.cache
    BY <1>2 DEF EntriesOK
  <1>4. /\ mem'.window[e.creator] = WindowSet(w, e.index, e)
        /\ \A c \in Creators : c # e.creator => mem'.window[c] = mem.window[c]
    BY <1>1, <1>3, SetEventFields
  <1>5. \A c \in Creators : WindowOK(mem.window[c], c, B)
    BY DEF WindowsOK
  <1>6. /\ WindowOK(WindowSet(w, e.index, e), e.creator, C)
        /\ WindowSet(w, e.index, e).lastIndex = e.index
        /\ w.lastIndex = -1 => WindowSet(w, e.index, e).items = <<e>>
        /\ Oldest(WindowSet(w, e.index, e)) >= Oldest(w)
    <2>1. WindowOK(w, e.creator, B) /\ (w.lastIndex = -1 \/ e.index = w.lastIndex + 1)
      BY <1>1, <1>5 DEF Follows
    <2>2. B \subseteq C /\ e \in C
      OBVIOUS
    <2>3. CacheSize \in Nat \ {0}
      BY ConfTypes
    <2> HIDE DEF w, C
    <2> QED
      BY <2>1, <2>2, <2>3, <1>1, WindowAppend
  <1>7. Creators' = Creators /\ \A x : IsEvent(x) => IsEvent(x)'
    BY SameRun
  <1>8. ASSUME NEW c \in Creators, c # e.creator PROVE WindowOK(mem.window[c], c, C)
    <2>1. WindowOK(mem.window[c], c, B) /\ B \subseteq C
      BY <1>5
    <2>2. mem.window[c].items \in Seq(B) => mem.window[c].items \in Seq(C)
      BY <2>1
    <2> QED
      BY <2>1, <2>2 DEF WindowOK
  <1>9. WindowsOK(C)'
    <2>1. \A c \in Creators : WindowOK(mem'.window[c], c, C)
      BY <1>4, <1>6, <1>8
    <2> QED
      BY <2>1, <1>7 DEF WindowsOK
  <1>10. EventsOK(C)'
    <2>1. \A x \in C : IsEvent(x)'
      BY <1>7 DEF EventsOK
    <2>2. ASSUME NEW x \in C PROVE x.index <= mem'.window[x.creator].lastIndex
      <3>1. CASE x = e
        BY <3>1, <1>1, <1>4, <1>6
      <3>2. CASE x # e /\ x.creator # e.creator
        <4>1. x \in B /\ x.creator \in Creators
          BY <3>2 DEF EventsOK, IsEvent
        <4> QED
          BY <4>1, <3>2, <1>4 DEF EventsOK
      <3>3. CASE x # e /\ x.creator = e.creator
        <4>1. IsEvent(x) /\ x.index <= w.lastIndex
          BY <3>3 DEF EventsOK
        <4>2. x.index \in Nat
          BY <4>1, ConfTypes DEF IsEvent
        <4>3. w.lastIndex \in Int
          BY <1>1, <1>5, Zenon DEF WindowOK
        <4>4. w.lastIndex = -1 \/ e.index = w.lastIndex + 1
          BY DEF Follows
        <4>5. x.index <= e.index
          BY <4>1, <4>2, <4>3, <4>4, <1>1
        <4> QED
          BY <4>5, <3>3, <1>4, <1>6
      <3> QED
        BY <3>1, <3>2, <3>3
    <2>3. FromWorld(C)'
      BY DEF EventsOK, FromWorld
    <2> QED
      BY <2>1, <2>2, <2>3, <1>2 DEF EventsOK
  <1>11. Rolled => Rolled'
    <2> SUFFICES ASSUME NEW c \in Creators, Oldest(mem.window[c]) > 0
                 PROVE  Oldest(mem'.window[c]) > 0
      BY <1>7 DEF Rolled
    <2>1. CASE c # e.creator
      BY <2>1, <1>4
    <2>2. CASE c = e.creator
      <3>1. Oldest(w) \in Int /\ Oldest(w) > 0
        BY <2>2, <1>5, WindowInt
      <3>2. Oldest(WindowSet(w, e.index, e)) \in Int
        BY <1>6, WindowInt
      <3> QED
        BY <3>1, <3>2, <2>2, <1>4, <1>6
    <2> QED
      BY <2>1, <2>2
  <1> QED
    BY <1>4, <1>6, <1>9, <1>10, <1>11

\* SetEvent of an event that was there leaves the windows as they are.
LEMMA SetAgain ==
    ASSUME TypeInv, NEW B, WindowsOK(B), EventsOK(B), NEW e \in B,
           NEW entry, NEW topo, NEW index, SetEvent(e, entry, topo, index)
    PROVE  mem'.window = mem.window
  <1>1. /\ IsEvent(e) /\ e.creator \in Creators /\ e.index \in Nat
        /\ e.index <= mem.window[e.creator].lastIndex /\ NoTwo(B)
    BY ConfTypes DEF EventsOK, IsEvent
  <1>2. WindowOK(mem.window[e.creator], e.creator, B)
    BY <1>1 DEF WindowsOK
  <1>3. mem'.window[e.creator] = mem.window[e.creator]
    <2>1. CASE e \in DOMAIN mem.cache
      BY <2>1, <1>1, SetEventFields
    <2>2. CASE e \notin DOMAIN mem.cache
      <3>1. /\ ~WindowRefuses(mem.window[e.creator], e.index)
            /\ mem'.window[e.creator] = WindowSet(mem.window[e.creator], e.index, e)
        BY <2>2, <1>1, SetEventFields
      <3>2. WindowSet(mem.window[e.creator], e.index, e) = mem.window[e.creator]
        BY <3>1, <1>1, <1>2, WindowSame
      <3> QED
        BY <3>1, <3>2
    <2> QED
      BY <2>1, <2>2
  <1>4. \A c \in Creators : mem'.window[c] = mem.window[c]
    BY <1>1, <1>3, SetEventFields
  <1>5. IsMem(mem) /\ IsMem(mem')
    BY <1>1, SetEventFields DEF TypeInv
  <1> QED
    BY <1>4, <1>5 DEF IsMem

\* The entries that SetEvent leaves in the cache and in the database.
LEMMA SetEntries ==
    ASSUME TypeInv, UNCHANGED run, NEW B, EntriesOK(B), NEW e, e.creator \in Creators,
           NEW entry, LaIn(entry, B \cup {e}),
           Persistent /\ Maintenance => e \in Written /\ LaIn(db.event[e], B \cup {e}),
           NEW topo, NEW index, SetEvent(e, entry, topo, index)
    PROVE  EntriesOK(B \cup {e})'
  <1> DEFINE C == B \cup {e}
  <1>0. \A x, S : LaIn(x, S) => LaIn(x, S)'
    BY SameRun
  <1>1. \A x : LaIn(x, B) => LaIn(x, C)
    BY DEF LaIn
  <1>2. /\ e \in DOMAIN mem'.cache /\ mem'.cache[e] = entry
        /\ \A x \in DOMAIN mem'.cache : x # e => x \in DOMAIN mem.cache /\ mem'.cache[x] = mem.cache[x]
    BY SetEventFields
  <1>3. DOMAIN mem'.cache \subseteq C /\ \A x \in DOMAIN mem'.cache : LaIn(mem'.cache[x], C)
    BY <1>1, <1>2 DEF EntriesOK
  <1>4. ASSUME Persistent
        PROVE  C \subseteq DOMAIN db'.event /\ \A x \in C : LaIn(db'.event[x], C)
    <2>1. B \subseteq Written /\ \A x \in B : LaIn(db.event[x], C)
      BY <1>1, <1>4 DEF EntriesOK
    <2>2. CASE Maintenance
      <3>1. db' = db
        BY <2>2, SetEventWrites
      <3> QED
        BY <3>1, <2>1, <2>2, <1>4 DEF Written
    <2>3. CASE ~Maintenance
      <3>1. /\ DOMAIN db'.event = Written \cup {e} /\ db'.event[e] = entry
            /\ \A x \in Written : x # e => db'.event[x] = db.event[x]
        BY <2>3, <1>4, SetEventWrites, Zenon
      <3> QED
        BY <3>1, <2>1
    <2> QED
      BY <2>2, <2>3
  <1>5. Persistent' = Persistent
    BY SameRun
  <1> QED
    BY <1>0, <1>3, <1>4, <1>5 DEF EntriesOK, Written

\* The entry of an event that the store has.
LEMMA EntryIn ==
    ASSUME NEW B, EntriesOK(B), NEW x \in B, Has(x)
    PROVE  LaIn(GetEvent(x), B)
  BY DEF EntriesOK, Has, GetEvent

\* InsertEvent up to the SetEvent of the new event.
LEMMA BeginStep ==
    ASSUME TypeInv, NEW B, MemInv(B), Idle, core.phase \in {"Babbling", "Bootstrap", "Reset"},
           UNCHANGED <<world, core, resets, run>>,
           NEW e, IsEvent(e), Follows(e), e.creator # Self => e \in world,
           e.self # None /\ Has(e.self) => e.self \in B,
           e.other # None /\ Has(e.other) => e.other \in B,
           Persistent /\ Maintenance => e \in Written /\ LaIn(db.event[e], B \cup {e}),
           NEW topo, NEW index, Begin(e, topo, index)
    PROVE  /\ TypeInv' /\ MemInv(B \cup {e})'
           /\ insert'.event = e /\ ~Idle'
           /\ SetEvent(e, initEventCoordinates(e), topo, index)
  <1> DEFINE entry == initEventCoordinates(e)
             C == B \cup {e}
             rest == {entry.la[c] : c \in Creators} \ {e, None}
  <1>1. SetEvent(e, entry, topo, index) /\ insert' = [event |-> e, at |-> None, todo |-> rest]
    BY DEF Begin
  <1>2. /\ WindowsOK(B) /\ EventsOK(B) /\ EntriesOK(B) /\ ListOK(B) /\ PhaseOK(B) /\ OwnOK(B)
    BY DEF MemInv
  <1>3. e.creator \in Creators /\ e # None
    <2>1. e.index # -1
      BY ConfTypes DEF IsEvent
    <2> QED
      BY <2>1 DEF IsEvent, None
  <1>4. LaIn(entry, C)
    <2>1. \A x : LaIn(x, B) => LaIn(x, C)
      BY DEF LaIn
    <2>2. e.self # None /\ Has(e.self) => LaIn(GetEvent(e.self), C)
      BY <2>1, <1>2, EntryIn
    <2>3. e.other # None /\ Has(e.other) => LaIn(GetEvent(e.other), C)
      BY <2>1, <1>2, EntryIn
    <2>4. e \in C
      OBVIOUS
    <2> HIDE DEF C
    <2> QED
      BY <2>2, <2>3, <2>4, <1>3, CoordinatesIn
  <1>5. rest \subseteq C
    BY <1>4 DEF LaIn
  <1> HIDE DEF entry, rest
  <1>6. /\ WindowsOK(C)' /\ EventsOK(C)' /\ (Rolled => Rolled')
    <2>1. UNCHANGED <<world, run>>
      OBVIOUS
    <2> HIDE DEF C
    <2> QED
      BY <2>1, <1>1, <1>2, SetNew DEF C
  <1>7. EntriesOK(C)'
    BY <1>1, <1>2, <1>3, <1>4, SetEntries
  <1>8. mem'.inserted = mem.inserted /\ IsMem(mem')
    BY <1>1, <1>3, SetEventFields
  <1>9. insert'.event = e /\ insert'.at = None /\ insert'.todo = rest /\ IsInsert(insert')
    BY <1>1 DEF IsInsert
  <1>10. ~Idle'
    BY <1>3, <1>9 DEF Idle, NoInsert
  <1>11. InsertOK(C)'
    BY <1>5, <1>9 DEF InsertOK
  <1>12. Persistent' = Persistent /\ Creators' = Creators /\ Config' = Config
    BY SameRun
  <1>13. ListOK(C)'
    <2>1. mem'.inserted \in Seq(C)
      BY <1>2, <1>8 DEF ListOK
    <2>2. Known' = Known
      BY <1>8 DEF Known
    <2>3. Underway = {} /\ Underway' = {e}
      BY <1>3, <1>9 DEF Underway, Idle, NoInsert
    <2>4. ~Rolled' => C = Known' \cup Underway'
      BY <2>2, <2>3, <1>2, <1>6 DEF ListOK
    <2> QED
      BY <2>1, <2>4 DEF ListOK
  <1>14. Persistent => Written \subseteq Written' /\ (B = Written => C = Written')
    <2>1. CASE Maintenance
      BY <2>1, <1>1, SetEventWrites DEF Written
    <2>2. CASE ~Maintenance
      BY <2>2, <1>1, SetEventWrites, Zenon DEF Written
    <2> QED
      BY <2>1, <2>2
  <1>15. PhaseOK(C)'
    BY <1>2, <1>12, <1>14 DEF PhaseOK
  <1>16. OwnOK(C)'
    <2>1. forgot' = forgot
      BY SameRun
    <2> QED
      BY <2>1, <1>2, <1>12, <1>14 DEF OwnOK
  <1>17. TypeInv'
    <2>1. conf' = conf /\ options' = options /\ crashes' = crashes /\ forgot' = forgot
      BY SameRun
    <2>2. resets' \in Nat
      BY DEF TypeInv
    <2>3. IsMem(mem)' /\ IsCore(core)' /\ IsInsert(insert)'
      BY <1>8, <1>9, <1>12 DEF TypeInv, IsMem, IsCore, IsInsert
    <2> QED
      BY <2>1, <2>2, <2>3, <1>12, Zenon DEF TypeInv
  <1> QED
    BY <1>1, <1>6, <1>7, <1>9, <1>10, <1>11, <1>13, <1>15, <1>16, <1>17 DEF MemInv, entry

\* The fields that a step of the walk down to the first descendants leaves.
LEMMA WalkFields ==
    ASSUME TypeInv, NEW B, MemInv(B), Walk, insert.at \in B
    PROVE  /\ mem'.window = mem.window /\ mem'.topo = mem.topo /\ mem'.inserted = mem.inserted
           /\ db'.topo = db.topo /\ db'.participant = db.participant /\ Written' = Written
           /\ insert'.event = insert.event /\ insert'.at = insert.at.self
           /\ insert'.todo = insert.todo /\ ~Idle'
           /\ IsMem(mem') /\ IsInsert(insert')
  <1> DEFINE x == insert.at
             entry == [GetEvent(x) EXCEPT !.fd[insert.event.creator] = insert.event]
  <1>1. SetEvent(x, entry, 0, mem.topo) /\ ~Idle /\ insert' = [insert EXCEPT !.at = x.self]
    BY DEF Walk
  <1> HIDE DEF entry
  <1>2. WindowsOK(B) /\ EventsOK(B) /\ EntriesOK(B) /\ InsertOK(B)
    BY DEF MemInv
  <1>3. x.creator \in Creators
    BY <1>2 DEF EventsOK, IsEvent
  <1>4. mem'.window = mem.window
    BY <1>1, <1>2, SetAgain
  <1>5. mem'.topo = mem.topo /\ mem'.inserted = mem.inserted /\ IsMem(mem')
    BY <1>1, <1>3, SetEventFields
  <1>6. db'.topo = db.topo /\ db'.participant = db.participant /\ Written' = Written
    <2>1. CASE ~Persistent \/ Maintenance
      <3>1. db' = db
        BY <2>1, <1>1, SetEventWrites, Zenon
      <3> QED
        BY <3>1 DEF Written
    <2>2. CASE Persistent /\ ~Maintenance
      <3>1. x \in Written
        BY <2>2, <1>2 DEF EntriesOK
      <3>2. /\ DOMAIN db'.event = Written \cup {x}
            /\ db'.topo = db.topo /\ db'.participant = db.participant
        BY <2>2, <3>1, <1>1, SetEventWrites, Zenon
      <3> QED
        BY <3>1, <3>2 DEF Written
    <2> QED
      BY <2>1, <2>2
  <1>7. insert = [event |-> insert.event, at |-> insert.at, todo |-> insert.todo]
    BY <1>1 DEF TypeInv, IsInsert
  <1>8. /\ insert'.event = insert.event /\ insert'.at = x.self /\ insert'.todo = insert.todo
        /\ IsInsert(insert')
    BY <1>1, <1>7 DEF IsInsert
  <1>9. ~Idle'
    <2>1. insert.event # None
      <3>1. insert.event \in B
        BY <1>1, <1>2 DEF InsertOK
      <3>2. insert.event.index # -1
        BY <3>1, <1>2, ConfTypes DEF EventsOK, IsEvent
      <3> QED
        BY <3>2 DEF None
    <2> QED
      BY <2>1, <1>8 DEF Idle, NoInsert
  <1> QED
    BY <1>4, <1>5, <1>6, <1>8, <1>9

\* The walk changes the first descendants of an entry, not its last ancestors.
LEMMA FdKeepsLa ==
    ASSUME NEW entry, NEW S, LaIn(entry, S), NEW c, NEW e
    PROVE  LaIn([entry EXCEPT !.fd[c] = e], S)
  <1> DEFINE new == [entry EXCEPT !.fd[c] = e]
  <1>1. "la" \in DOMAIN new /\ new.la = entry.la
    BY DEF LaIn
  <1> HIDE DEF new
  <1>2. LaIn(new, S)
    BY <1>1 DEF LaIn
  <1> QED
    BY <1>2 DEF new

\* A step of the walk.
LEMMA WalkStep ==
    ASSUME TypeInv, NEW B, MemInv(B), Walk, insert.at \in B,
           insert.at.self # None /\ Has(insert.at.self) => insert.at.self \in B
    PROVE  TypeInv' /\ MemInv(B)'
  <1>0. PICK x : x = insert.at
    OBVIOUS
  <1> DEFINE entry == [GetEvent(x) EXCEPT !.fd[insert.event.creator] = insert.event]
  <1>1. /\ SetEvent(x, entry, 0, mem.topo) /\ ~Idle /\ Has(x)
        /\ UNCHANGED <<world, disk, queue, core, resets, run>>
    BY <1>0 DEF Walk, Reached
  <1>2. /\ WindowsOK(B) /\ EventsOK(B) /\ EntriesOK(B) /\ InsertOK(B) /\ ListOK(B) /\ PhaseOK(B)
        /\ OwnOK(B)
    BY DEF MemInv
  <1>3. /\ mem'.window = mem.window /\ mem'.topo = mem.topo /\ mem'.inserted = mem.inserted
        /\ Written' = Written
        /\ insert'.event = insert.event /\ insert'.at = x.self
        /\ insert'.todo = insert.todo /\ ~Idle' /\ IsMem(mem') /\ IsInsert(insert')
    BY <1>0, WalkFields
  <1>4. /\ conf' = conf /\ options' = options /\ crashes' = crashes /\ forgot' = forgot
        /\ Persistent' = Persistent /\ Creators' = Creators /\ Config' = Config
        /\ \A e : IsEvent(e) => IsEvent(e)'
    BY <1>1, SameRun
  <1>5. LaIn(entry, B)
    BY <1>0, <1>1, <1>2, EntryIn, FdKeepsLa, Zenon
  <1> HIDE DEF entry
  <1>6. EntriesOK(B)'
    <2> DEFINE C == B \cup {x}
    <2>1. C = B
      BY <1>0
    <2>2. x.creator \in Creators
      BY <1>0, <1>2 DEF EventsOK, IsEvent
    <2>3. Persistent /\ Maintenance => x \in Written /\ LaIn(db.event[x], B)
      BY <1>0, <1>2 DEF EntriesOK
    <2>4. LaIn(entry, C) /\ (Persistent /\ Maintenance => x \in Written /\ LaIn(db.event[x], C))
      BY <2>1, <2>3, <1>5
    <2>5. EntriesOK(C)'
      BY <2>2, <2>4, <1>1, <1>2, SetEntries
    <2> QED
      BY <2>1, <2>5
  <1>7. WindowsOK(B)' /\ EventsOK(B)'
    BY <1>1, <1>2, <1>3, <1>4 DEF WindowsOK, EventsOK, FromWorld
  <1>8. InsertOK(B)'
    <2>1. \A p : Has(p)' => Has(p) \/ p = x
      <3>1. x.creator \in Creators
        BY <1>0, <1>2 DEF EventsOK, IsEvent
      <3>2. \A p \in DOMAIN mem'.cache : p # x => p \in DOMAIN mem.cache
        BY <3>1, <1>1, SetEventFields
      <3> QED
        BY <3>2, <1>3, <1>4 DEF Has, Written
    <2>2. insert'.at # None /\ Has(insert.at)' => insert'.at \in B
      <3>1. PICK p : p = insert'.at
        OBVIOUS
      <3>2. Has(insert.at)' => Has(p)'
        BY <3>1 DEF Has
      <3> QED
        BY <3>1, <3>2, <2>1, <1>0, <1>3
    <2> QED
      BY <2>2, <1>1, <1>2, <1>3 DEF InsertOK
  <1>9. Rolled' <=> Rolled
    BY <1>3, <1>4 DEF Rolled
  <1>10. ListOK(B)'
    <2>1. Known' = Known /\ Underway' = Underway
      BY <1>3 DEF Known, Underway
    <2> QED
      BY <2>1, <1>2, <1>3, <1>9 DEF ListOK
  <1>11. PhaseOK(B)' /\ OwnOK(B)'
    BY <1>1, <1>2, <1>3, <1>4, <1>9 DEF PhaseOK, OwnOK
  <1>12. TypeInv'
    <2>1. IsMem(mem)' /\ IsCore(core)' /\ IsInsert(insert)'
      BY <1>1, <1>3, <1>4 DEF TypeInv, IsMem, IsCore, IsInsert
    <2> QED
      BY <2>1, <1>1, <1>4, Zenon DEF TypeInv
  <1> QED
    BY <1>6, <1>7, <1>8, <1>10, <1>11, <1>12 DEF MemInv

\* What a step that leaves the caches and the database alone preserves.
LEMMA SameStore ==
    ASSUME UNCHANGED <<db, run>>, mem'.window = mem.window, mem'.cache = mem.cache,
           world \subseteq world', NEW B
    PROVE  /\ WindowsOK(B) => WindowsOK(B)'
           /\ EventsOK(B) => EventsOK(B)'
           /\ EntriesOK(B) => EntriesOK(B)'
           /\ Rolled' <=> Rolled
           /\ Written' = Written
           /\ \A x : Has(x)' <=> Has(x)
  <1>1. /\ Persistent' = Persistent /\ Creators' = Creators
        /\ \A e : IsEvent(e) => IsEvent(e)'
        /\ \A entry, S : LaIn(entry, S) => LaIn(entry, S)'
    BY SameRun
  <1>2. WindowsOK(B) => WindowsOK(B)'
    BY <1>1 DEF WindowsOK
  <1>3. EventsOK(B) => EventsOK(B)'
    BY <1>1 DEF EventsOK, FromWorld
  <1>4. EntriesOK(B) => EntriesOK(B)'
    BY <1>1 DEF EntriesOK, Written
  <1> QED
    BY <1>1, <1>2, <1>3, <1>4 DEF Rolled, Written, Has

\* A log stays one when the other nodes gain events.
LEMMA SameLog ==
    ASSUME UNCHANGED run, world \subseteq world', NEW d
    PROVE  /\ LogInv(d) => LogInv(d)'
           /\ LaInv(d) => LaInv(d)'
  <1>1. /\ \A e : IsEvent(e) => IsEvent(e)'
        /\ \A entry, S : LaIn(entry, S) => LaIn(entry, S)'
    BY SameRun
  <1>2. FromWorld(DOMAIN d.event) => FromWorld(DOMAIN d.event)'
    BY DEF FromWorld
  <1>3. LaInv(d) => LaInv(d)'
    BY <1>1 DEF LaInv
  <1>4. LogInv(d) => LogInv(d)'
    <2> HIDE DEF FromWorld
    <2> QED
      BY <1>1, <1>2 DEF LogInv
  <1> QED
    BY <1>3, <1>4

\* A database, or the disk, that becomes a log.
LEMMA PrimedLog ==
    ASSUME NEW d
    PROVE  /\ db' = d /\ LogInv(d)' => LogInv(db)'
           /\ db' = d /\ LaInv(d)' => LaInv(db)'
           /\ disk' = d /\ LogInv(d)' => LogInv(disk)'
           /\ disk' = d /\ LaInv(d)' => LaInv(disk)'
  <1>1. db' = d /\ LogInv(d)' => LogInv(db)'
    <2> SUFFICES ASSUME db' = d, LogInv(d)' PROVE LogInv(db)'
      OBVIOUS
    <2>1. \A k \in DOMAIN d.topo : IsEvent(db.topo[k])'
      BY DEF LogInv, IsEvent
    <2>2. FromWorld(DOMAIN db.event)'
      BY DEF LogInv, FromWorld
    <2>3. \A k \in DOMAIN d.topo :
              {d.topo[k].self, d.topo[k].other} \subseteq Earlier(db, k)' \cup {None}
      <3>1. \A k \in DOMAIN d.topo :
                {d.topo[k].self, d.topo[k].other} \subseteq Earlier(d, k) \cup {None}
        BY DEF LogInv
      <3>2. \A k : Earlier(db, k)' = Earlier(d, k)
        BY DEF Earlier
      <3> QED
        BY <3>1, <3>2
    <2> QED
      BY <2>1, <2>2, <2>3 DEF LogInv
  <1>2. disk' = d /\ LogInv(d)' => LogInv(disk)'
    <2> SUFFICES ASSUME disk' = d, LogInv(d)' PROVE LogInv(disk)'
      OBVIOUS
    <2>1. \A k \in DOMAIN d.topo : IsEvent(disk.topo[k])'
      BY DEF LogInv, IsEvent
    <2>2. FromWorld(DOMAIN disk.event)'
      BY DEF LogInv, FromWorld
    <2>3. \A k \in DOMAIN d.topo :
              {d.topo[k].self, d.topo[k].other} \subseteq Earlier(disk, k)' \cup {None}
      <3>1. \A k \in DOMAIN d.topo :
                {d.topo[k].self, d.topo[k].other} \subseteq Earlier(d, k) \cup {None}
        BY DEF LogInv
      <3>2. \A k : Earlier(disk, k)' = Earlier(d, k)
        BY DEF Earlier
      <3> QED
        BY <3>1, <3>2
    <2> QED
      BY <2>1, <2>2, <2>3 DEF LogInv
  <1>3. db' = d /\ LaInv(d)' => LaInv(db)'
    BY DEF LaInv, LaIn, Earlier
  <1>4. disk' = d /\ LaInv(d)' => LaInv(disk)'
    BY DEF LaInv, LaIn, Earlier
  <1> QED
    BY <1>1, <1>2, <1>3, <1>4

-----------------------------------------------------------------------------
(***************************************************************************)
(* The steps of an insertion.                                              *)
(***************************************************************************)

\* The cases of Base.
LEMMA BaseIs ==
    /\ ~Persistent => Base = Known \cup Underway
    /\ Persistent /\ resets = 0 => Base = Replayed
    /\ Persistent /\ resets # 0 => Base = Written
  BY DEF Base

\* An event of Base is not None.
LEMMA BaseNotNone ==
    ASSUME Sound, NEW e \in Base
    PROVE  e # None /\ IsEvent(e) /\ e.creator \in Creators /\ e.index \in Nat
  <1>1. IsEvent(e) /\ MaxIndex \in Nat
    BY ConfTypes DEF Sound, MemInv, EventsOK
  <1>2. e.index \in Nat
    BY <1>1 DEF IsEvent
  <1>3. e # None
    BY <1>2 DEF None
  <1> QED
    BY <1>1, <1>2, <1>3 DEF IsEvent

\* An insertion is of some event.
LEMMA IdleIs == ASSUME Sound PROVE Idle <=> insert.event = None
  <1>1. ~Idle => insert.event # None
    BY BaseNotNone DEF Sound, MemInv, InsertOK
  <1>2. Idle => insert.event = None
    BY DEF Idle, NoInsert
  <1> QED
    BY <1>1, <1>2

\* The parents that the store has of an event of Base are in Base.
LEMMA ParentIn ==
    ASSUME Sound, core.phase # "Failed", NEW x \in Base, NEW p \in {x.self, x.other},
           p # None, Has(p)
    PROVE  p \in Base
  <1>1. /\ EntriesOK(Base) /\ PhaseOK(Base) /\ TypeInv
    BY DEF Sound, MemInv
  <1>2. CASE p \in DOMAIN mem.cache
    BY <1>1, <1>2 DEF EntriesOK
  <1>3. CASE Persistent /\ p \in Written /\ core.phase # "Bootstrap"
    BY <1>1, <1>3 DEF PhaseOK
  <1>4. CASE Persistent /\ core.phase = "Bootstrap"
    <2>1. resets = 0
      BY <1>4 DEF Sound, FirstRunInv
    <2>2. Base = Replayed /\ LogInv(db) /\ 0 .. mem.topo - 1 \subseteq DOMAIN db.topo
          /\ mem.topo \in Nat
      BY <2>1, <1>4, BaseIs DEF Sound, ReplayInv
    <2>3. PICK k \in 0 .. mem.topo - 1 : x = db.topo[k]
      BY <2>2 DEF Replayed
    <2>4. p \in Earlier(db, k)
      BY <2>2, <2>3 DEF LogInv
    <2>5. PICK j \in 0 .. k - 1 : p = db.topo[j]
      BY <2>4 DEF Earlier
    <2>6. j \in 0 .. mem.topo - 1
      BY <2>2
    <2> QED
      BY <2>2, <2>5, <2>6 DEF Replayed
  <1> QED
    BY <1>2, <1>3, <1>4 DEF Has, Written

\* The ancestor that a walk updates is in Base.
LEMMA WalkInBase ==
    ASSUME Sound, ~Idle, insert.at # None, ~Reached(insert.at)
    PROVE  /\ insert.at \in Base /\ Has(insert.at)
           /\ insert.at.self # None /\ Has(insert.at.self) => insert.at.self \in Base
  <1>1. Has(insert.at)
    BY DEF Reached
  <1>2. insert.at \in Base
    BY <1>1 DEF Sound, MemInv, InsertOK
  <1>3. core.phase # "Failed"
    BY DEF Sound, MemInv, PhaseOK
  <1> QED
    BY <1>1, <1>2, <1>3, ParentIn

\* The logs while an ancestor gets its first descendant.
LEMMA WalkReplay ==
    ASSUME Sound, Walk, resets = 0, NEW B, B = Base
    PROVE  ReplayInv(B)'
  <1>0. PICK x : x = insert.at
    OBVIOUS
  <1> DEFINE entry == [GetEvent(x) EXCEPT !.fd[insert.event.creator] = insert.event]
  <1>1. /\ SetEvent(x, entry, 0, mem.topo) /\ ~Idle /\ x # None /\ ~Reached(x)
        /\ UNCHANGED <<world, disk, queue, core, resets, run>>
    BY <1>0 DEF Walk
  <1>2. x \in B /\ Has(x) /\ TypeInv /\ MemInv(B) /\ ReplayInv(B)
    BY <1>0, <1>1, WalkInBase DEF Sound
  <1>3. /\ mem'.window = mem.window /\ mem'.topo = mem.topo /\ mem'.inserted = mem.inserted
        /\ db'.topo = db.topo /\ db'.participant = db.participant /\ Written' = Written /\ ~Idle'
    BY <1>0, <1>2, WalkFields
  <1>4. /\ Persistent' = Persistent /\ Creators' = Creators
        /\ \A e : IsEvent(e) => IsEvent(e)'
        /\ \A v, S : LaIn(v, S) => LaIn(v, S)'
    BY <1>1, SameRun
  <1>5. LogInv(db)'
    <2>1. LogInv(db) /\ DOMAIN db'.event = DOMAIN db.event /\ UNCHANGED world
      BY <1>1, <1>2, <1>3 DEF ReplayInv, Written
    <2> QED
      BY <2>1, <1>3, <1>4 DEF LogInv, FromWorld, Earlier
  <1>6. LogInv(disk)' /\ LaInv(disk)'
    <2>1. LogInv(disk) /\ LaInv(disk)
      BY <1>2 DEF ReplayInv
    <2>2. PICK d : d = disk
      OBVIOUS
    <2>3. LogInv(d)' /\ LaInv(d)'
      BY <2>1, <2>2, <1>1, SameLog
    <2> QED
      BY <2>2, <2>3, <1>1
  <1>7. x.creator \in Creators
    BY <1>2 DEF MemInv, EventsOK, IsEvent
  <1>8. /\ x \in DOMAIN mem'.cache /\ mem'.cache[x] = entry
        /\ \A e \in DOMAIN mem'.cache : e # x => e \in DOMAIN mem.cache /\ mem'.cache[e] = mem.cache[e]
    <2> HIDE DEF entry
    <2> QED
      BY <1>1, <1>2, <1>7, SetEventFields
  <1>9. ASSUME Persistent, NEW k \in DOMAIN db.topo, db.topo[k] = x
        PROVE  LaIn(entry, Earlier(db, k + 1))
    <2>1. LaIn(GetEvent(x), Earlier(db, k + 1))
      BY <1>2, <1>9 DEF GetEvent, ReplayInv, LaInv
    <2> QED
      BY <2>1, FdKeepsLa
  <1> HIDE DEF entry
  <1>10. \A k : Earlier(db, k)' = Earlier(db, k)
    BY <1>3 DEF Earlier
  <1>11. ASSUME Persistent, NEW k \in DOMAIN db.topo, db.topo[k] \in DOMAIN mem'.cache
         PROVE  LaIn(mem'.cache[db.topo[k]], Earlier(db, k + 1))
    <2>1. CASE db.topo[k] = x
      BY <2>1, <1>8, <1>9, <1>11
    <2>2. CASE db.topo[k] # x
      BY <2>2, <1>2, <1>8, <1>11 DEF ReplayInv
    <2> QED
      BY <2>1, <2>2
  <1>12. LaInv(db)'
    <2> SUFFICES ASSUME NEW k \in DOMAIN db.topo
                 PROVE  LaIn(db'.event[db.topo[k]], Earlier(db, k + 1))
      BY <1>3, <1>4, <1>10 DEF LaInv
    <2>1. LaIn(db.event[db.topo[k]], Earlier(db, k + 1)) /\ db.topo[k] \in Written
      BY <1>2 DEF ReplayInv, LaInv, LogInv, Written
    <2>2. CASE ~Persistent \/ Maintenance
      BY <2>1, <2>2, <1>1, SetEventWrites, Zenon
    <2>3. CASE Persistent /\ ~Maintenance
      <3>1. db'.event[x] = entry /\ \A e \in Written : e # x => db'.event[e] = db.event[e]
        BY <2>3, <1>1, SetEventWrites, Zenon
      <3> QED
        BY <3>1, <2>1, <2>3, <1>9
    <2> QED
      BY <2>2, <2>3
  <1>13. \A k \in DOMAIN db'.topo : Persistent' /\ db'.topo[k] \in DOMAIN mem'.cache =>
             LaIn(mem.cache[db.topo[k]], Earlier(db, k + 1))'
    BY <1>3, <1>4, <1>10, <1>11
  <1> QED
    BY <1>1, <1>2, <1>3, <1>4, <1>5, <1>6, <1>12, <1>13 DEF ReplayInv

\* The invariant after a step, from its parts over what Base then is.
LEMMA SoundAfter ==
    ASSUME NEW B, Base' = B, TypeInv', WorldInv', MemInv(B)',
           resets' = 0 => ReplayInv(B)',
           crashes' = 0 => FirstRunInv',
           resets' # 0 => crashes' = 0 /\ ResetInv(B)'
    PROVE  Sound'
  <1>1. WindowsOK(Base)' /\ EventsOK(Base)' /\ EntriesOK(Base)'
    BY DEF MemInv, WindowsOK, EventsOK, EntriesOK, FromWorld, LaIn
  <1>2. InsertOK(Base)' /\ ListOK(Base)' /\ PhaseOK(Base)' /\ OwnOK(Base)'
    BY DEF MemInv, InsertOK, ListOK, PhaseOK, OwnOK
  <1>3. ReplayInv(B)' => ReplayInv(Base)'
    BY DEF ReplayInv
  <1>4. ResetInv(B)' => ResetInv(Base)'
    BY DEF ResetInv
  <1> QED
    BY <1>1, <1>2, <1>3, <1>4 DEF Sound, MemInv

\* Base after a step within a run.
LEMMA SameBase ==
    ASSUME UNCHANGED <<resets, run>>, db'.topo = db.topo, Written' = Written,
           mem'.topo = mem.topo, ~Persistent => (Known \cup Underway)' = Known \cup Underway
    PROVE  Base' = Base
  <1>1. Persistent' = Persistent
    BY SameRun
  <1>2. Replayed' = Replayed
    BY DEF Replayed
  <1> QED
    BY <1>1, <1>2 DEF Base

\* An ancestor gets its first descendant.
LEMMA WalkSound == ASSUME Sound, Walk PROVE Sound'
  <1>1. /\ ~Idle /\ insert.at # None /\ ~Reached(insert.at)
        /\ UNCHANGED <<world, disk, queue, core, resets, run>>
    BY DEF Walk
  <1>2. PICK B : B = Base
    OBVIOUS
  <1>3. insert.at \in B /\ (insert.at.self # None /\ Has(insert.at.self) => insert.at.self \in B)
    BY <1>1, <1>2, WalkInBase
  <1>4. TypeInv /\ MemInv(B) /\ WorldInv
    BY <1>2 DEF Sound
  <1>5. /\ mem'.window = mem.window /\ mem'.topo = mem.topo /\ mem'.inserted = mem.inserted
        /\ db'.topo = db.topo /\ Written' = Written /\ insert'.event = insert.event
    BY <1>3, <1>4, WalkFields
  <1>6. TypeInv' /\ MemInv(B)'
    BY <1>3, <1>4, WalkStep
  <1>7. Base' = B
    <2>1. Known' = Known /\ Underway' = Underway
      BY <1>5 DEF Known, Underway
    <2> QED
      BY <2>1, <1>1, <1>2, <1>5, SameBase
  <1>8. resets' = 0 => ReplayInv(B)'
    BY <1>1, <1>2, WalkReplay
  <1>9. crashes' = crashes /\ Creators' = Creators /\ \A e : IsEvent(e) => IsEvent(e)'
    BY <1>1, SameRun
  <1>10. WorldInv'
    BY <1>1, <1>4, <1>9 DEF WorldInv
  <1>11. crashes' = 0 => FirstRunInv'
    BY <1>1, <1>9 DEF Sound, FirstRunInv
  <1>12. resets' # 0 => crashes' = 0 /\ ResetInv(B)'
    BY <1>1, <1>2, <1>5, <1>9 DEF Sound, ResetInv
  <1> QED
    BY <1>6, <1>7, <1>8, <1>10, <1>11, <1>12, SoundAfter

\* The steps that change neither caches, database nor Base.
LEMMA QuietSound ==
    ASSUME Sound, UNCHANGED <<db, disk, queue, resets, run>>, world \subseteq world',
           mem'.window = mem.window, mem'.cache = mem.cache, mem'.topo = mem.topo,
           NEW B, B = Base, Base' = B, TypeInv', WorldInv', InsertOK(B)', ListOK(B)', PhaseOK(B)',
           OwnOK(B)', crashes = 0 => FirstRunInv',
           resets = 0 /\ core'.phase = "Bootstrap" =>
               IF Idle' THEN Len(mem'.inserted) = mem.topo ELSE Len(mem'.inserted) + 1 = mem.topo,
           core'.phase = "Reset" => core.phase = "Reset"
    PROVE  Sound'
  <1>1. MemInv(B)'
    BY SameStore DEF Sound, MemInv
  <1>2. /\ Persistent' = Persistent /\ Creators' = Creators /\ crashes' = crashes
        /\ \A v, S : LaIn(v, S) => LaIn(v, S)'
    BY SameRun
  <1>3. resets' = 0 => ReplayInv(B)'
    <2> SUFFICES ASSUME resets = 0 PROVE ReplayInv(B)'
      OBVIOUS
    <2>1. ReplayInv(B)
      BY DEF Sound
    <2>2. LogInv(db)' /\ LaInv(db)'
      <3>1. PICK d : d = db
        OBVIOUS
      <3>2. LogInv(d)' /\ LaInv(d)'
        BY <2>1, <3>1, SameLog DEF ReplayInv
      <3> QED
        BY <3>1, <3>2
    <2>3. LogInv(disk)' /\ LaInv(disk)'
      <3>1. PICK d : d = disk
        OBVIOUS
      <3>2. LogInv(d)' /\ LaInv(d)'
        BY <2>1, <3>1, SameLog DEF ReplayInv
      <3> QED
        BY <3>1, <3>2
    <2>4. \A k \in DOMAIN db.topo : Persistent /\ db.topo[k] \in DOMAIN mem.cache =>
              LaIn(mem.cache[db.topo[k]], Earlier(db, k + 1))'
      <3>1. \A k \in DOMAIN db.topo : Persistent /\ db.topo[k] \in DOMAIN mem.cache =>
                LaIn(mem.cache[db.topo[k]], Earlier(db, k + 1))
        BY <2>1 DEF ReplayInv
      <3>2. \A k : Earlier(db, k)' = Earlier(db, k)
        BY DEF Earlier
      <3> QED
        BY <3>1, <3>2, <1>2
    <2> QED
      BY <2>1, <2>2, <2>3, <2>4, <1>2 DEF ReplayInv
  <1>4. resets' # 0 => crashes' = 0 /\ ResetInv(B)'
    BY <1>2 DEF Sound, ResetInv
  <1> QED
    BY <1>1, <1>2, <1>3, <1>4, SoundAfter

\* The types after a step within a run.
LEMMA TypesAfter ==
    ASSUME TypeInv, UNCHANGED <<resets, run>>, IsMem(mem'), IsCore(core'),
           Idle' \/ IsInsert(insert'),
           Config.maintenance => core'.phase \in {"Bootstrap", "Suspended", "Failed"}
    PROVE  TypeInv'
  <1>1. /\ conf' = conf /\ options' = options /\ crashes' = crashes /\ forgot' = forgot
        /\ Creators' = Creators /\ Config' = Config
    BY SameRun
  <1>2. IsMem(mem)'
    BY <1>1 DEF IsMem
  <1>3. IsCore(core)' /\ (Idle' \/ IsInsert(insert)')
    BY DEF IsCore, IsInsert
  <1> QED
    BY <1>1, <1>2, <1>3, Zenon DEF TypeInv

\* The other nodes keep their events.
LEMMA WorldSame == ASSUME WorldInv, UNCHANGED <<world, run>> PROVE WorldInv'
  <1>1. Creators' = Creators /\ \A e : IsEvent(e) => IsEvent(e)'
    BY SameRun
  <1> QED
    BY <1>1 DEF WorldInv

\* NextAncestor and WalkEnds.
LEMMA StepDown ==
    ASSUME Sound, ~Idle, UNCHANGED <<world, mem, db, disk, queue, core, resets, run>>,
           insert'.event = insert.event, insert'.todo \subseteq insert.todo, IsInsert(insert'),
           insert'.at = None \/ insert'.at \in insert.todo
    PROVE  Sound'
  <1>1. PICK B : B = Base
    OBVIOUS
  <1>2. TypeInv /\ WorldInv /\ MemInv(B)
    BY <1>1 DEF Sound
  <1>3. Base' = B
    <2>1. Known' = Known /\ Underway' = Underway /\ Written' = Written
      BY DEF Known, Underway, Written
    <2> QED
      BY <2>1, <1>1, SameBase
  <1>4. ~Idle'
    BY IdleIs DEF Idle, NoInsert
  <1>5. TypeInv'
    BY <1>2, TypesAfter DEF TypeInv, IsMem
  <1>6. WorldInv'
    BY <1>2, WorldSame
  <1>7. /\ Rolled' <=> Rolled
        /\ Written' = Written
        /\ Persistent' = Persistent /\ forgot' = forgot
    BY SameStore, SameRun
  <1>8. InsertOK(B)'
    BY <1>2 DEF MemInv, InsertOK
  <1>9. ListOK(B)'
    <2>1. Known' = Known /\ Underway' = Underway
      BY DEF Known, Underway
    <2> QED
      BY <2>1, <1>2, <1>7 DEF MemInv, ListOK
  <1>10. PhaseOK(B)' /\ OwnOK(B)'
    BY <1>2, <1>4, <1>7 DEF MemInv, PhaseOK, OwnOK
  <1>11. crashes = 0 => FirstRunInv'
    BY DEF Sound, FirstRunInv
  <1>12. resets = 0 /\ core.phase = "Bootstrap" => Len(mem.inserted) + 1 = mem.topo
    BY DEF Sound, ReplayInv
  <1> QED
    BY <1>1, <1>3, <1>4, <1>5, <1>6, <1>8, <1>9, <1>10, <1>11, <1>12, QuietSound

\* The walk takes the next last ancestor.
LEMMA NextAncestorSound == ASSUME Sound, NextAncestor PROVE Sound'
  <1>1. PICK x \in insert.todo : insert' = [insert EXCEPT !.todo = @ \ {x}, !.at = x]
    BY Zenon DEF NextAncestor
  <1>2. ~Idle /\ UNCHANGED <<world, mem, db, disk, queue, core, resets, run>>
    BY DEF NextAncestor
  <1>3. insert = [event |-> insert.event, at |-> insert.at, todo |-> insert.todo]
    BY <1>2 DEF Sound, TypeInv, IsInsert
  <1>4. insert' = [event |-> insert.event, at |-> x, todo |-> insert.todo \ {x}]
    BY <1>1, <1>3, Zenon
  <1>5. /\ insert'.event = insert.event /\ insert'.todo = insert.todo \ {x} /\ IsInsert(insert')
        /\ insert'.at = x
    BY <1>4 DEF IsInsert
  <1> QED
    BY <1>2, <1>5, StepDown

\* The walk down from an ancestor ends.
LEMMA WalkEndsSound == ASSUME Sound, WalkEnds PROVE Sound'
  <1>1. insert' = [insert EXCEPT !.at = None]
    BY DEF WalkEnds
  <1>2. ~Idle /\ UNCHANGED <<world, mem, db, disk, queue, core, resets, run>>
    BY DEF WalkEnds
  <1>3. insert = [event |-> insert.event, at |-> insert.at, todo |-> insert.todo]
    BY <1>2 DEF Sound, TypeInv, IsInsert
  <1>4. insert' = [event |-> insert.event, at |-> None, todo |-> insert.todo]
    BY <1>1, <1>3
  <1>5. /\ insert'.event = insert.event /\ insert'.todo = insert.todo /\ IsInsert(insert')
        /\ insert'.at = None
    BY <1>4 DEF IsInsert
  <1> QED
    BY <1>2, <1>5, StepDown

\* Only a window that has rolled refuses an ancestor, and only a store with a
\* database meets one.
LEMMA RefusedIsRolled ==
    ASSUME Sound, NEW x \in Base, Has(x), SetEventRefused(x)
    PROVE  Rolled /\ Persistent /\ core.phase # "Reset"
  <1> DEFINE w == mem.window[x.creator]
  <1>1. x \notin DOMAIN mem.cache /\ w.lastIndex >= 0 /\ (x.index > w.lastIndex + 1 \/ x.index < Oldest(w))
    BY DEF SetEventRefused, WindowRefuses
  <1>2. x.creator \in Creators /\ x.index \in Nat
    BY BaseNotNone
  <1>3. WindowOK(w, x.creator, Base) /\ x.index <= w.lastIndex
    BY <1>2 DEF Sound, MemInv, WindowsOK, EventsOK
  <1> HIDE DEF w
  <1>4. Oldest(w) \in Int /\ w.lastIndex \in Int
    BY <1>3, WindowInt, Zenon DEF WindowOK
  <1>5. x.index < Oldest(w)
    BY <1>1, <1>2, <1>3, <1>4
  <1>6. Oldest(w) > 0
    BY <1>2, <1>4, <1>5
  <1>7. Rolled
    BY <1>2, <1>6 DEF Rolled, w
  <1>8. Persistent
    BY <1>1 DEF Has
  <1>9. ASSUME core.phase = "Reset" PROVE FALSE
    <2>1. resets # 0
      BY <1>9 DEF Sound, ReplayInv
    <2>2. w.items = <<x>>
      BY <2>1, <1>9 DEF Sound, ResetInv, w
    <2>3. x.index = Oldest(w) + 1 - 1
      BY <2>2, <1>3 DEF WindowOK
    <2> QED
      BY <2>3, <1>2, <1>4, <1>5
  <1> QED
    BY <1>7, <1>8, <1>9

\* SetEvent of an ancestor returns TooLate.
LEMMA WalkRefusedSound == ASSUME Sound, WalkRefused PROVE Sound'
  <1>1. /\ ~Idle /\ insert.at # None /\ ~Reached(insert.at) /\ SetEventRefused(insert.at)
        /\ insert' = NoInsert
        /\ UNCHANGED <<world, mem, db, disk, queue, resets, run>>
    BY DEF WalkRefused
  <1>2. PICK B : B = Base
    OBVIOUS
  <1>3. TypeInv /\ WorldInv /\ MemInv(B)
    BY <1>2 DEF Sound
  <1>4. insert.at \in Base /\ Has(insert.at)
    BY <1>1, WalkInBase
  <1>5. Rolled /\ Persistent /\ core.phase # "Reset"
    BY <1>1, <1>4, RefusedIsRolled
  <1>6. core.phase # "Failed"
    BY <1>1, <1>3 DEF MemInv, PhaseOK
  <1>7. /\ core.phase = "Bootstrap" => core'.phase = "Failed"
        /\ core.phase # "Bootstrap" => core'.phase = core.phase
        /\ IsCore(core')
    <2>1. core = [phase |-> core.phase, head |-> core.head]
      BY <1>3 DEF TypeInv, IsCore
    <2> DEFINE next == CASE core.phase = "Bootstrap" -> "Failed"
                         [] core.phase = "Reset" -> "CatchingUp"
                         [] OTHER -> core.phase
    <2>2. core' = [core EXCEPT !.phase = next]
      BY DEF WalkRefused
    <2>3. /\ core.phase = "Bootstrap" => next = "Failed"
          /\ core.phase # "Bootstrap" => next = core.phase
      BY <1>5
    <2> HIDE DEF next
    <2>4. core' = [phase |-> next, head |-> core.head]
      BY <2>1, <2>2
    <2> QED
      BY <2>3, <2>4 DEF IsCore
  <1>8. Base' = B
    <2>1. Written' = Written
      BY <1>1 DEF Written
    <2> QED
      BY <2>1, <1>1, <1>2, <1>5, SameBase
  <1>9. Idle'
    BY <1>1 DEF Idle
  <1>10. TypeInv'
    BY <1>1, <1>3, <1>7, <1>9, TypesAfter DEF TypeInv, IsMem
  <1>11. WorldInv'
    BY <1>1, <1>3, WorldSame
  <1>12. Rolled' /\ Written' = Written /\ Persistent' = Persistent /\ forgot' = forgot
    BY <1>1, <1>5, SameStore, SameRun
  <1>13. InsertOK(B)' /\ ListOK(B)' /\ PhaseOK(B)' /\ OwnOK(B)'
    BY <1>1, <1>3, <1>5, <1>6, <1>7, <1>9, <1>12
    DEF MemInv, InsertOK, ListOK, PhaseOK, OwnOK
  <1>14. crashes = 0 => FirstRunInv'
    BY <1>1, <1>7 DEF Sound, FirstRunInv
  <1> QED
    BY <1>1, <1>2, <1>5, <1>7, <1>8, <1>10, <1>11, <1>13, <1>14, QuietSound

\* InsertEvent ends.
LEMMA InsertedSound == ASSUME Sound, Inserted PROVE Sound'
  <1>1. /\ ~Idle /\ insert.at = None /\ insert.todo = {} /\ insert' = NoInsert
        /\ UNCHANGED <<world, db, disk, queue, resets, run>>
    BY DEF Inserted
  <1>2. PICK B : B = Base
    OBVIOUS
  <1>3. TypeInv /\ WorldInv /\ MemInv(B)
    BY <1>2 DEF Sound
  <1>4. insert.event \in B /\ insert.event # None
    BY <1>1, <1>2, <1>3, BaseNotNone DEF MemInv, InsertOK
  <1>5. /\ mem'.window = mem.window /\ mem'.cache = mem.cache /\ mem'.topo = mem.topo
        /\ mem'.inserted = Append(mem.inserted, insert.event) /\ IsMem(mem')
    <2>1. /\ mem = [cache |-> mem.cache, window |-> mem.window, topo |-> mem.topo,
                    inserted |-> mem.inserted]
      BY <1>3 DEF TypeInv, IsMem
    <2>2. mem' = [cache |-> mem.cache, window |-> mem.window, topo |-> mem.topo,
                  inserted |-> Append(mem.inserted, insert.event)]
      BY <2>1, Zenon DEF Inserted
    <2>3. /\ mem'.window = mem.window /\ mem'.cache = mem.cache /\ mem'.topo = mem.topo
          /\ mem'.inserted = Append(mem.inserted, insert.event)
      BY <2>2
    <2>4. mem' = [cache |-> mem'.cache, window |-> mem'.window, topo |-> mem'.topo,
                  inserted |-> mem'.inserted]
      BY <2>2, <2>3
    <2>5. IsMem(mem')
      BY <2>3, <2>4, <1>3 DEF TypeInv, IsMem
    <2> QED
      BY <2>3, <2>5
  <1>6. core'.phase = core.phase /\ IsCore(core')
    <2>1. core = [phase |-> core.phase, head |-> core.head]
      BY <1>3 DEF TypeInv, IsCore
    <2>2. PICK h : core' = [core EXCEPT !.head = h]
      BY Zenon DEF Inserted
    <2> QED
      BY <2>1, <2>2 DEF IsCore
  <1>7. /\ mem.inserted \in Seq(B) /\ mem'.inserted \in Seq(B)
        /\ Len(mem'.inserted) = Len(mem.inserted) + 1
    BY <1>3, <1>4, <1>5 DEF MemInv, ListOK
  <1>8. (Known \cup Underway)' = Known \cup Underway
    <2>1. Known' = Known \cup {insert.event}
      <3>1. \A i \in 1..Len(mem.inserted) : mem'.inserted[i] = mem.inserted[i]
        BY <1>4, <1>5, <1>7
      <3>2. mem'.inserted[Len(mem.inserted) + 1] = insert.event
        BY <1>4, <1>5, <1>7
      <3>3. 1..Len(mem'.inserted) = 1..Len(mem.inserted) \cup {Len(mem.inserted) + 1}
        BY <1>7
      <3> QED
        BY <3>1, <3>2, <3>3 DEF Known
    <2>2. Underway = {insert.event} /\ Underway' = {}
      BY <1>1, <1>4 DEF Underway, NoInsert
    <2> QED
      BY <2>1, <2>2
  <1>9. Base' = B
    <2>1. Written' = Written
      BY <1>1 DEF Written
    <2> QED
      BY <2>1, <1>1, <1>2, <1>5, <1>8, SameBase
  <1>10. Idle'
    BY <1>1 DEF Idle
  <1>11. TypeInv'
    BY <1>1, <1>3, <1>5, <1>6, <1>10, TypesAfter DEF TypeInv
  <1>12. WorldInv'
    BY <1>1, <1>3, WorldSame
  <1>13. (Rolled' <=> Rolled) /\ Written' = Written /\ Persistent' = Persistent /\ forgot' = forgot
    <2>1. UNCHANGED <<db, run>> /\ world \subseteq world'
      BY <1>1
    <2> QED
      BY <2>1, <1>5, SameStore, SameRun
  <1>14. InsertOK(B)' /\ PhaseOK(B)' /\ OwnOK(B)'
    BY <1>1, <1>3, <1>6, <1>10, <1>13 DEF MemInv, InsertOK, PhaseOK, OwnOK
  <1>15. ListOK(B)'
    BY <1>3, <1>7, <1>8, <1>13 DEF MemInv, ListOK
  <1>16. crashes = 0 => FirstRunInv'
    BY <1>1, <1>6 DEF Sound, FirstRunInv
  <1>17. resets = 0 /\ core.phase = "Bootstrap" => Len(mem.inserted) + 1 = mem.topo
    BY <1>1 DEF Sound, ReplayInv
  <1>18. /\ UNCHANGED <<db, disk, queue, resets, run>> /\ world \subseteq world'
    BY <1>1
  <1> QED
    BY <1>2, <1>5, <1>6, <1>7, <1>9, <1>10, <1>11, <1>12, <1>14, <1>15, <1>16, <1>17, <1>18,
       QuietSound

-----------------------------------------------------------------------------
(***************************************************************************)
(* Other nodes.                                                            *)
(***************************************************************************)

\* A step that only gives the other nodes an event.
LEMMA WorldGrows ==
    ASSUME Sound, Idle, UNCHANGED <<mem, db, disk, insert, queue, core, resets, run>>,
           NEW e, world' = world \cup {e}, WorldInv', OwnOK(Base)',
           e.creator = Self => core.phase = "Babbling"
    PROVE  Sound'
  <1>1. PICK B : B = Base
    OBVIOUS
  <1>2. TypeInv /\ MemInv(B)
    BY <1>1 DEF Sound
  <1>3. Known' = Known /\ Underway' = Underway /\ Written' = Written
    BY DEF Known, Underway, Written
  <1>4. Base' = B
    BY <1>1, <1>3, SameBase
  <1>5. TypeInv'
    BY <1>2, TypesAfter DEF TypeInv, Idle
  <1>6. /\ Rolled' <=> Rolled
        /\ Persistent' = Persistent
        /\ \A x : Has(x)' <=> Has(x)
    BY SameStore, SameRun
  <1>7. InsertOK(B)' /\ ListOK(B)' /\ PhaseOK(B)'
    BY <1>2, <1>3, <1>6 DEF MemInv, InsertOK, ListOK, PhaseOK, Idle
  <1>8. crashes = 0 => FirstRunInv'
    BY DEF Sound, FirstRunInv, EmptyMem, EmptyDB, Creators, Idle, run
  <1>9. resets = 0 /\ core'.phase = "Bootstrap" => Len(mem'.inserted) = mem.topo /\ Idle'
    BY DEF Sound, ReplayInv, Idle
  <1>10. OwnOK(B)'
    BY <1>1, <1>4 DEF OwnOK
  <1> QED
    BY <1>1, <1>4, <1>5, <1>7, <1>8, <1>9, <1>10, QuietSound

\* The last event of a creator that the other nodes have.
LEMMA TipIsLast ==
    ASSUME WorldInv, NEW c \in Creators
    PROVE  \/ Tip(c) = None /\ \A x \in world : x.creator # c
           \/ /\ Tip(c) \in world /\ Tip(c).creator = c
              /\ \A x \in world : x.creator = c => x.index <= Tip(c).index
  <1> DEFINE own == {e \in world : e.creator = c}
  <1>1. CASE own = {}
    BY <1>1 DEF Tip
  <1>2. CASE own # {}
    <2>1. \E e \in own : \A x \in own : x.index <= e.index
      BY <1>2 DEF WorldInv
    <2>2. Tip(c) = CHOOSE e \in own : \A x \in own : x.index <= e.index
      BY <1>2 DEF Tip
    <2> HIDE DEF own
    <2>3. Tip(c) \in own /\ \A x \in own : x.index <= Tip(c).index
      BY <2>1, <2>2
    <2> QED
      BY <2>3 DEF own
  <1> QED
    BY <1>1, <1>2

\* An event on the last of its creator keeps the others from forking.
LEMMA WorldNext ==
    ASSUME TypeInv, WorldInv, UNCHANGED run, NEW e, IsEvent(e), world' = world \cup {e},
           e.creator # Self => \A x \in world : x.creator = e.creator => x.index < e.index
    PROVE  WorldInv'
  <1>1. Creators' = Creators /\ (\A x : IsEvent(x) => IsEvent(x)') /\ MaxIndex \in Nat
    BY SameRun, ConfTypes
  <1>2. \A x \in world' : IsEvent(x)'
    BY <1>1 DEF WorldInv
  <1>3. \A x \in world' : x.index \in Nat
    BY <1>1 DEF WorldInv, IsEvent
  <1>4. NoTwo({x \in world' : x.creator # Self})
    <2>1. NoTwo({x \in world : x.creator # Self})
      BY DEF WorldInv
    <2>2. e.creator # Self => \A x \in world : x.creator = e.creator => x.index # e.index
      BY <1>3
    <2> QED
      BY <2>1, <2>2 DEF NoTwo
  <1>5. ASSUME NEW c \in Creators, \E x \in world' : x.creator = c
        PROVE  \E t \in world' : t.creator = c /\ \A x \in world' : x.creator = c => x.index <= t.index
    <2>1. CASE \A x \in world : x.creator # c
      <3>1. e.creator = c /\ \A x \in world' : x.creator = c => x = e
        BY <2>1, <1>5
      <3>2. e.index <= e.index
        BY <1>3
      <3> QED
        BY <3>1, <3>2
    <2>2. CASE \E x \in world : x.creator = c
      <3>1. PICK t \in world : t.creator = c /\ \A x \in world : x.creator = c => x.index <= t.index
        BY <2>2 DEF WorldInv
      <3>2. t.index \in Nat /\ e.index \in Nat
        BY <1>3
      <3>3. CASE e.creator = c /\ e.index > t.index
        <4>1. ASSUME NEW x \in world', x.creator = c PROVE x.index <= e.index
          BY <4>1, <3>1, <3>2, <3>3, <1>3
        <4> QED
          BY <4>1, <3>3
      <3>4. CASE ~(e.creator = c /\ e.index > t.index)
        <4>1. ASSUME NEW x \in world', x.creator = c PROVE x.index <= t.index
          BY <4>1, <3>1, <3>2, <3>4, <1>3
        <4> QED
          BY <4>1, <3>1
      <3> QED
        BY <3>3, <3>4
    <2> QED
      BY <2>1, <2>2
  <1> QED
    BY <1>1, <1>2, <1>4, <1>5 DEF WorldInv

\* Another node creates an event.
LEMMA PeerEventSound ==
    ASSUME Sound, NEW c \in Creators \ {Self}, PeerEvent(c)
    PROVE  Sound'
  <1>1. Idle /\ Tip(c).index < MaxIndex /\ UNCHANGED <<mem, db, disk, insert, queue, core, resets, run>>
    BY DEF PeerEvent
  <1>2. PICK o : world' = world \cup {Event(c, Tip(c), o)}
    BY DEF PeerEvent
  <1>3. PICK t : t = Tip(c)
    OBVIOUS
  <1>4. PICK e : e = Event(c, t, o)
    OBVIOUS
  <1>5. TypeInv /\ WorldInv /\ MaxIndex \in Nat
    BY ConfTypes DEF Sound
  <1>6. e.creator = c /\ e.index = t.index + 1 /\ e.self = t
    BY <1>4 DEF Event
  <1>7. \/ t = None /\ \A x \in world : x.creator # c
        \/ /\ IsEvent(t) /\ t.creator = c
           /\ \A x \in world : x.creator = c => x.index <= t.index
    BY <1>3, <1>5, TipIsLast DEF WorldInv
  <1>8. t.index \in Int /\ t.index >= -1 /\ (t = None => t.index = -1) /\ t.index < MaxIndex
    <2>1. CASE t = None
      BY <2>1, <1>5 DEF None
    <2>2. CASE IsEvent(t)
      <3>1. t.index \in Nat
        BY <2>2, <1>5 DEF IsEvent
      <3>2. t # None
        BY <3>1 DEF None
      <3> QED
        BY <3>1, <3>2, <1>1, <1>3
    <2> QED
      BY <2>1, <2>2, <1>7
  <1>9. PICK i \in Nat : i = t.index + 1 /\ i <= MaxIndex
    BY <1>5, <1>8
  <1>10. e.index = i /\ (t = None => i = 0) /\ t.index = i - 1
    BY <1>6, <1>8, <1>9
  <1>11. IsEvent(e)
    BY <1>5, <1>6, <1>7, <1>9, <1>10 DEF IsEvent
  <1>12. ASSUME NEW x \in world, x.creator = c PROVE x.index < e.index
    <2>1. x.index \in Nat /\ x.index <= t.index
      BY <1>5, <1>7, <1>12 DEF WorldInv, IsEvent
    <2> QED
      BY <2>1, <1>8, <1>10
  <1>13. world' = world \cup {e}
    BY <1>2, <1>3, <1>4
  <1>14. WorldInv'
    BY <1>1, <1>5, <1>6, <1>11, <1>12, <1>13, WorldNext
  <1>15. OwnOK(Base)'
    <2>1. Base' = Base /\ Written' = Written /\ forgot' = forgot /\ Persistent' = Persistent
      BY <1>1, SameBase, SameRun DEF Known, Underway, Written
    <2> QED
      BY <2>1, <1>6, <1>13 DEF Sound, MemInv, OwnOK
  <1> QED
    BY <1>1, <1>6, <1>13, <1>14, <1>15, WorldGrows

\* Another node takes an event of this one.
LEMMA SendSound == ASSUME Sound, Send PROVE Sound'
  <1>1. /\ Idle /\ core.phase = "Babbling"
        /\ UNCHANGED <<mem, db, disk, insert, queue, core, resets, run>>
    BY DEF Send
  <1>2. PICK e : e \in Known /\ e \notin world /\ world' = world \cup {e}
    BY DEF Send, Known
  <1>3. TypeInv /\ WorldInv /\ MemInv(Base)
    BY DEF Sound
  <1>4. e \in Base
    BY <1>2, <1>3 DEF MemInv, ListOK, Known
  <1>5. IsEvent(e) /\ e.creator = Self
    BY <1>2, <1>3, <1>4 DEF MemInv, EventsOK, FromWorld
  <1>6. WorldInv'
    BY <1>1, <1>2, <1>3, <1>5, WorldNext
  <1>7. OwnOK(Base)'
    <2>1. Base' = Base /\ Written' = Written /\ forgot' = forgot /\ Persistent' = Persistent
      BY <1>1, SameBase, SameRun DEF Known, Underway, Written
    <2>2. Persistent => e \in Written
      BY <1>3, <1>4 DEF MemInv, EntriesOK
    <2> QED
      BY <2>1, <2>2, <1>2, <1>3, <1>4 DEF MemInv, OwnOK
  <1> QED
    BY <1>1, <1>2, <1>6, <1>7, WorldGrows

-----------------------------------------------------------------------------
(***************************************************************************)
(* The phases of the node.                                                 *)
(***************************************************************************)

\* A step that only changes the phase.
LEMMA NewPhase ==
    ASSUME Sound, Idle, UNCHANGED <<world, mem, db, disk, insert, queue, resets, run>>,
           IsCore(core'), core.phase # "Failed", core'.phase \notin {"Bootstrap", "Reset", "Failed"},
           Config.maintenance => core'.phase = "Suspended",
           Persistent => Base = Written,
           core'.phase = "CatchingUp" \/ core'.phase = "Suspended" => core.phase = "Bootstrap"
    PROVE  Sound'
  <1>1. PICK B : B = Base
    OBVIOUS
  <1>2. TypeInv /\ WorldInv /\ MemInv(B)
    BY <1>1 DEF Sound
  <1>3. Known' = Known /\ Underway' = Underway /\ Written' = Written
    BY DEF Known, Underway, Written
  <1>4. Base' = B
    BY <1>1, <1>3, SameBase
  <1>5. TypeInv'
    BY <1>2, TypesAfter DEF TypeInv, Idle
  <1>6. WorldInv'
    BY <1>2, WorldSame
  <1>7. (Rolled' <=> Rolled) /\ Persistent' = Persistent /\ forgot' = forgot
    BY SameStore, SameRun
  <1>8. InsertOK(B)' /\ ListOK(B)' /\ PhaseOK(B)' /\ OwnOK(B)'
    BY <1>1, <1>2, <1>3, <1>7 DEF MemInv, InsertOK, ListOK, PhaseOK, OwnOK, Idle
  <1>9. crashes = 0 => FirstRunInv'
    BY DEF Sound, FirstRunInv, EmptyMem, EmptyDB, Creators, Idle, run
  <1> QED
    BY <1>1, <1>4, <1>5, <1>6, <1>8, <1>9, QuietSound

\* A fast-forward ends.
LEMMA ForwardedSound == ASSUME Sound, Forwarded PROVE Sound'
  <1>1. /\ core.phase = "Reset" /\ Idle /\ UNCHANGED <<world, mem, db, disk, insert, queue, resets, run>>
        /\ core' = [phase |-> "Babbling", head |-> LastEventFrom(Self)]
    BY DEF Forwarded
  <1>2. core'.phase = "Babbling" /\ IsCore(core')
    BY <1>1 DEF IsCore
  <1>3. ~Config.maintenance
    BY <1>1 DEF Sound, TypeInv
  <1>4. Persistent => Base = Written
    BY <1>1 DEF Sound, MemInv, PhaseOK
  <1> QED
    BY <1>1, <1>2, <1>3, <1>4, NewPhase

\* No peer has an anchor block.
LEMMA NoAnchorSound == ASSUME Sound, NoAnchor PROVE Sound'
  <1>1. /\ core.phase = "CatchingUp" /\ Idle
        /\ UNCHANGED <<world, mem, db, disk, insert, queue, resets, run>>
    BY DEF NoAnchor, Sound, MemInv, PhaseOK
  <1>2. core'.phase = "Babbling" /\ IsCore(core')
    <2>1. core = [phase |-> core.phase, head |-> core.head]
      BY DEF Sound, TypeInv, IsCore
    <2> QED
      BY <2>1 DEF NoAnchor, IsCore
  <1>3. ~Config.maintenance
    BY <1>1 DEF Sound, TypeInv
  <1>4. Persistent => Base = Written
    BY <1>1 DEF Sound, MemInv, PhaseOK
  <1> QED
    BY <1>1, <1>2, <1>3, <1>4, NewPhase

\* Bootstrap ends.
LEMMA BootstrappedSound == ASSUME Sound, Bootstrapped PROVE Sound'
  <1>1. /\ core.phase = "Bootstrap" /\ Idle /\ Len(mem.inserted) \notin DOMAIN db.topo
        /\ UNCHANGED <<world, mem, db, disk, insert, queue, resets, run>>
    BY DEF Bootstrapped
  <1>2. resets = 0 /\ Persistent
    BY <1>1 DEF Sound, FirstRunInv, MemInv, PhaseOK
  <1>3. /\ Base = Replayed /\ LogInv(db) /\ mem.topo \in Nat /\ Len(mem.inserted) = mem.topo
        /\ 0 .. mem.topo - 1 \subseteq DOMAIN db.topo
    BY <1>1, <1>2, BaseIs DEF Sound, ReplayInv
  <1>4. Base = Written
    <2>1. PICK n \in Nat : DOMAIN db.topo = 0 .. n - 1
      BY <1>3 DEF LogInv
    <2>2. n = mem.topo
      <3>1. PICK m \in Nat : m = mem.topo
        BY <1>3
      <3>2. m \notin 0 .. n - 1 /\ 0 .. m - 1 \subseteq 0 .. n - 1
        BY <2>1, <3>1, <1>1, <1>3
      <3>3. m > n => m - 1 \in 0 .. m - 1
        OBVIOUS
      <3>4. m = n
        BY <3>2, <3>3
      <3> QED
        BY <3>1, <3>4
    <2>3. Written = {db.topo[k] : k \in DOMAIN db.topo}
      BY <1>3 DEF LogInv, Written
    <2> QED
      BY <2>1, <2>2, <2>3, <1>3 DEF Replayed
  <1>5. /\ IsCore(core')
        /\ Config.maintenance => core'.phase = "Suspended"
        /\ core'.phase \in {"Suspended", "CatchingUp", "Babbling"}
    <2>1. core = [phase |-> core.phase, head |-> core.head]
      BY DEF Sound, TypeInv, IsCore
    <2>2. CASE Config.maintenance
      BY <2>1, <2>2 DEF Bootstrapped, IsCore
    <2>3. CASE ~Config.maintenance
      BY <2>1, <2>3 DEF Bootstrapped, setBabbling, IsCore
    <2> QED
      BY <2>2, <2>3
  <1> QED
    BY <1>1, <1>4, <1>5, NewPhase

\* Bootstrap meets no event whose parents InsertEvent would not accept.
LEMMA ReplayAccepted ==
    ASSUME Sound, core.phase = "Bootstrap", Idle, Len(mem.inserted) \in DOMAIN db.topo
    PROVE  /\ checkParents(db.topo[Len(mem.inserted)])
           /\ Len(mem.inserted) = mem.topo
  <1>1. resets = 0 /\ Persistent
    BY DEF Sound, FirstRunInv, MemInv, PhaseOK
  <1>2. /\ Base = Replayed /\ LogInv(db) /\ mem.topo \in Nat /\ Len(mem.inserted) = mem.topo
        /\ 0 .. mem.topo - 1 \subseteq DOMAIN db.topo
        /\ \A c \in Creators : \A i \in 0..mem.window[c].lastIndex :
              \E e \in Base : e.creator = c /\ e.index = i
    BY <1>1, BaseIs DEF Sound, ReplayInv
  <1>3. PICK e : e = db.topo[mem.topo] /\ mem.topo \in DOMAIN db.topo
    BY <1>2
  <1>4. /\ IsEvent(e) /\ e \in Written
        /\ {e.self, e.other} \subseteq Base \cup {None}
    BY <1>2, <1>3 DEF LogInv, Written, Replayed, Earlier
  <1>5. e \notin Base
    <2> SUFFICES ASSUME NEW k \in 0 .. mem.topo - 1, e = db.topo[k] PROVE FALSE
      BY <1>2 DEF Replayed
    <2>1. \A i, j \in DOMAIN db.topo : db.topo[i] = db.topo[j] => i = j
      BY <1>2 DEF LogInv
    <2>2. k \in DOMAIN db.topo
      BY <1>2
    <2>3. k = mem.topo
      BY <2>1, <2>2, <1>3, Zenon
    <2>4. mem.topo \in Nat
      BY <1>2
    <2> QED
      BY <2>3, <2>4
  <1>6. \A x \in Base : x.creator = e.creator => x.index # e.index
    <2>1. Base \subseteq Written
      BY <1>1 DEF Sound, MemInv, EntriesOK
    <2>2. \A x \in Written : db.participant[<<x.creator, x.index>>] = x
      BY <1>2, Zenon DEF LogInv, Written
    <2> QED
      BY <2>1, <2>2, <1>4, <1>5, Zenon
  <1> DEFINE c == e.creator
             w == mem.window[c]
  <1>7. /\ c \in Creators /\ e.index \in Nat /\ WindowsOK(Base)
        /\ w.lastIndex \in Int /\ w.lastIndex >= -1
    <2>1. WindowsOK(Base) /\ MaxIndex \in Nat
      BY ConfTypes DEF Sound, MemInv
    <2>2. c \in Creators /\ e.index \in Nat
      BY <2>1, <1>4 DEF IsEvent
    <2>3. WindowOK(w, c, Base)
      BY <2>1, <2>2 DEF WindowsOK
    <2> QED
      BY <2>1, <2>2, <2>3 DEF WindowOK
  <1>8. w.lastIndex < e.index
    <2> SUFFICES ASSUME w.lastIndex >= e.index PROVE FALSE
      BY <1>7
    <2>1. e.index \in 0..w.lastIndex
      BY <1>7
    <2> QED
      BY <2>1, <1>2, <1>6, <1>7
  <1>9. LastEventFrom(c) = e.self
    <2>1. CASE e.self = None /\ e.index = 0
      <3>1. w.lastIndex = -1
        BY <2>1, <1>7, <1>8
      <3> QED
        BY <2>1, <3>1, <1>7, LastOfWindow
    <2>2. CASE e.self # None /\ e.self.creator = c /\ e.self.index = e.index - 1
      <3>1. e.self \in Base
        BY <2>2, <1>4
      <3>2. IsEvent(e.self) /\ e.self.index \in Nat /\ e.self.index <= w.lastIndex
        BY <3>1, <2>2, BaseNotNone DEF Sound, MemInv, EventsOK
      <3>3. w.lastIndex = e.self.index /\ w.lastIndex # -1
        BY <2>2, <3>2, <1>7, <1>8
      <3>4. LastEventFrom(c) \in Base /\ LastEventFrom(c).creator = c /\ LastEventFrom(c).index = w.lastIndex
        BY <3>3, <1>7, LastOfWindow
      <3>5. NoTwo(Base)
        BY DEF Sound, MemInv, EventsOK
      <3> QED
        BY <2>2, <3>1, <3>3, <3>4, <3>5 DEF NoTwo
    <2> QED
      BY <2>1, <2>2, <1>4 DEF IsEvent
  <1>10. e.other = None \/ Has(e.other)
    BY <1>1, <1>4 DEF Sound, MemInv, EntriesOK, Has, Written
  <1> QED
    BY <1>2, <1>3, <1>9, <1>10 DEF checkParents

\* InsertEvent does not refuse an event of the database.
LEMMA ReplayFailsSound == ASSUME Sound, ReplayFails PROVE Sound'
  BY ReplayAccepted DEF ReplayFails

\* What reaches the disk is a prefix of the log.
LEMMA SyncSound == ASSUME Sound, Sync PROVE Sound'
  <1>1. disk' = db /\ UNCHANGED <<world, mem, db, insert, queue, core, resets, run>>
    BY DEF Sync
  <1>2. PICK B : B = Base
    OBVIOUS
  <1>3. Base' = B
    BY <1>1, <1>2, SameBase DEF Known, Underway, Written
  <1>4. /\ Persistent' = Persistent /\ Creators' = Creators /\ crashes' = crashes
        /\ forgot' = forgot
        /\ \A v, S : LaIn(v, S) => LaIn(v, S)'
    BY <1>1, SameRun
  <1>5. TypeInv' /\ WorldInv'
    BY <1>1, TypesAfter, WorldSame DEF Sound, TypeInv, Idle
  <1>6. /\ (Rolled' <=> Rolled) /\ Written' = Written
        /\ \A x : Has(x)' <=> Has(x)
        /\ WindowsOK(B)' /\ EventsOK(B)' /\ EntriesOK(B)'
    BY <1>1, <1>2, SameStore DEF Sound, MemInv
  <1>7. MemInv(B)'
    <2>1. Known' = Known /\ Underway' = Underway
      BY <1>1 DEF Known, Underway
    <2> QED
      BY <2>1, <1>1, <1>2, <1>4, <1>6
      DEF Sound, MemInv, InsertOK, ListOK, PhaseOK, OwnOK, Idle
  <1>8. ASSUME resets' = 0 PROVE ReplayInv(B)'
    <2>1. ReplayInv(B)
      BY <1>1, <1>2, <1>8 DEF Sound
    <2>2. PICK d : d = db
      OBVIOUS
    <2>3. LogInv(d)' /\ LaInv(d)'
      BY <2>1, <2>2, <1>1, SameLog DEF ReplayInv
    <2>4. LogInv(db)' /\ LaInv(db)' /\ LogInv(disk)' /\ LaInv(disk)'
      <3>1. db' = d /\ disk' = d
        BY <2>2, <1>1
      <3> QED
        BY <2>3, <3>1, PrimedLog
    <2>5. \A k \in DOMAIN db.topo : Persistent /\ db.topo[k] \in DOMAIN mem.cache =>
              LaIn(mem.cache[db.topo[k]], Earlier(db, k + 1))'
      <3>1. \A k \in DOMAIN db.topo : Persistent /\ db.topo[k] \in DOMAIN mem.cache =>
                LaIn(mem.cache[db.topo[k]], Earlier(db, k + 1))
        BY <2>1 DEF ReplayInv
      <3>2. \A k : Earlier(db, k)' = Earlier(db, k)
        BY <1>1 DEF Earlier
      <3> QED
        BY <3>1, <3>2, <1>1, <1>4
    <2> QED
      BY <2>1, <2>4, <2>5, <1>1, <1>4 DEF ReplayInv, Idle
  <1>9. crashes' = 0 => FirstRunInv'
    BY <1>1, <1>4 DEF Sound, FirstRunInv, EmptyMem, EmptyDB, Creators, Idle
  <1>10. resets' # 0 => crashes' = 0 /\ ResetInv(B)'
    BY <1>1, <1>2, <1>4 DEF Sound, ResetInv
  <1> QED
    BY <1>3, <1>5, <1>7, <1>8, <1>9, <1>10, SoundAfter

-----------------------------------------------------------------------------
(***************************************************************************)
(* New events.                                                             *)
(***************************************************************************)

\* checkSelfParent lets an event follow the last one of its creator.
LEMMA AcceptedFollows ==
    ASSUME Sound, NEW e, IsEvent(e), checkParents(e)
    PROVE  /\ Follows(e)
           /\ e.self = None \/ e.self \in Base
           /\ e.index = mem.window[e.creator].lastIndex + 1
  <1> DEFINE w == mem.window[e.creator]
  <1>1. WindowsOK(Base) /\ MaxIndex \in Nat
    BY ConfTypes DEF Sound, MemInv
  <1>2. e.creator \in Creators /\ e.index \in Nat /\ LastEventFrom(e.creator) = e.self
    BY <1>1 DEF IsEvent, checkParents
  <1>3. CASE w.lastIndex = -1
    <2>1. e.self = None
      BY <1>1, <1>2, <1>3, LastOfWindow
    <2>2. e.index = 0
      <3>1. e.self.index = -1
        BY <2>1 DEF None
      <3> QED
        BY <2>1, <3>1 DEF IsEvent
    <2> QED
      BY <2>1, <2>2, <1>3 DEF Follows
  <1>4. CASE w.lastIndex # -1
    <2>1. e.self \in Base /\ e.self.index = w.lastIndex /\ w.lastIndex \in Nat
      BY <1>1, <1>2, <1>4, LastOfWindow
    <2>2. e.self # None
      BY <2>1, BaseNotNone
    <2>3. e.self.index = e.index - 1
      BY <2>2 DEF IsEvent
    <2>4. e.index = w.lastIndex + 1
      BY <2>1, <2>3, <1>2
    <2> QED
      BY <2>1, <2>4 DEF Follows
  <1> QED
    BY <1>3, <1>4

\* A database that gains an event at its end is still a log.
LEMMA LogAppend ==
    ASSUME UNCHANGED <<world, run>>, LogInv(db), NEW n \in Nat, DOMAIN db.topo = 0 .. n - 1,
           NEW e, IsEvent(e), e \notin Written, NoTwo(Written \cup {e}),
           e.creator # Self => e \in world,
           {e.self, e.other} \subseteq Written \cup {None},
           DOMAIN db'.event = Written \cup {e},
           db'.topo = With(db.topo, n, e),
           db'.participant = With(db.participant, <<e.creator, e.index>>, e)
    PROVE  /\ LogInv(db)' /\ DOMAIN db'.topo = 0 .. n
           /\ db'.topo[n] = e /\ \A k \in 0 .. n - 1 : db'.topo[k] = db.topo[k]
           /\ \A k \in 0 .. n : Earlier(db, k)' = Earlier(db, k)
           /\ Earlier(db, n) = Written /\ Earlier(db, n + 1)' = Written \cup {e}
  <1>1. 0 .. n = (0 .. n - 1) \cup {n} /\ n \notin 0 .. n - 1
    OBVIOUS
  <1>2. /\ DOMAIN db'.topo = 0 .. n /\ db'.topo[n] = e
        /\ \A k \in 0 .. n - 1 : db'.topo[k] = db.topo[k]
    BY <1>1 DEF With
  <1>3. ASSUME NEW k \in 0 .. n PROVE Earlier(db, k)' = Earlier(db, k)
    <2>1. 0 .. k - 1 \subseteq 0 .. n - 1
      OBVIOUS
    <2> QED
      BY <2>1, <1>2 DEF Earlier
  <1>4. Written = {db.topo[k] : k \in 0 .. n - 1}
    BY DEF LogInv, Written
  <1>5. Earlier(db, n) = Written
    BY <1>4 DEF Earlier
  <1>6. {db'.topo[k] : k \in 0 .. n} = Written \cup {e}
    BY <1>1, <1>2, <1>4
  <1>7. Earlier(db, n + 1)' = Written \cup {e}
    <2>1. 0 .. (n + 1) - 1 = 0 .. n
      OBVIOUS
    <2> QED
      BY <2>1, <1>6 DEF Earlier
  <1>8. \A x : IsEvent(x) => IsEvent(x)'
    BY SameRun
  <1>9. \A j, k \in 0 .. n : db'.topo[j] = db'.topo[k] => j = k
    <2>1. \A j, k \in 0 .. n - 1 : db.topo[j] = db.topo[k] => j = k
      BY DEF LogInv
    <2>2. \A k \in 0 .. n - 1 : db'.topo[k] # e
      BY <1>2, <1>4
    <2> QED
      BY <2>1, <2>2, <1>1, <1>2
  <1>10. ASSUME NEW k \in 0 .. n
         PROVE  /\ IsEvent(db.topo[k])'
                /\ {db'.topo[k].self, db'.topo[k].other} \subseteq Earlier(db, k)' \cup {None}
    <2>1. PICK x : x = db'.topo[k]
      OBVIOUS
    <2>2. IsEvent(x) /\ {x.self, x.other} \subseteq Earlier(db, k) \cup {None}
      <3>1. CASE k = n
        BY <3>1, <2>1, <1>2, <1>5
      <3>2. CASE k \in 0 .. n - 1
        BY <3>2, <2>1, <1>2 DEF LogInv
      <3> QED
        BY <3>1, <3>2, <1>1
    <2>3. IsEvent(x)'
      BY <2>2, <1>8
    <2>4. IsEvent(db.topo[k])'
      BY <2>1, <2>3 DEF IsEvent
    <2> QED
      BY <2>1, <2>2, <2>4, <1>3
  <1>11. DOMAIN db'.participant = {<<x.creator, x.index>> : x \in Written \cup {e}}
    BY DEF LogInv, With, Written
  <1>12. \A x \in Written \cup {e} : db'.participant[<<x.creator, x.index>>] = x
    <2>1. \A x \in Written : /\ <<x.creator, x.index>> \in DOMAIN db.participant
                             /\ db.participant[<<x.creator, x.index>>] = x
      BY Zenon DEF LogInv, Written
    <2>2. \A x \in Written : <<x.creator, x.index>> # <<e.creator, e.index>>
      BY DEF NoTwo
    <2> QED
      BY <2>1, <2>2, Zenon DEF With
  <1>13. FromWorld(DOMAIN db.event)'
    BY DEF LogInv, FromWorld, Written
  <1>14. LogInv(db)'
    <2>1. n + 1 \in Nat /\ 0 .. (n + 1) - 1 = 0 .. n
      OBVIOUS
    <2>2. \E m \in Nat : DOMAIN db'.topo = 0 .. m - 1
      BY <2>1, <1>2
    <2> QED
      BY <2>2, <1>2, <1>6, <1>9, <1>10, <1>11, <1>12, <1>13, Zenon DEF LogInv
  <1> QED
    BY <1>2, <1>3, <1>5, <1>7, <1>14

\* InsertEvent of an event from another node, of the node's own, or from the
\* database.
Accept(e) ==
    /\ Idle /\ IsEvent(e) /\ checkParents(e)
    /\ e.creator # Self => e \in world
    /\ Begin(e, mem.topo, mem.topo + 1)
    /\ core.phase \in {"Babbling", "Bootstrap"}
    /\ core.phase = "Bootstrap" => mem.topo \in DOMAIN db.topo /\ e = db.topo[mem.topo]
    /\ UNCHANGED <<world, disk, queue, core, resets, run>>

\* While the database is replayed the next event completes a longer prefix.
LEMMA NextReplayed ==
    ASSUME Sound, core.phase = "Bootstrap", mem.topo \in DOMAIN db.topo,
           NEW e, e = db.topo[mem.topo]
    PROVE  /\ resets = 0 /\ Persistent /\ Base = Replayed /\ mem.topo \in Nat
           /\ Base \cup {e} = Earlier(db, mem.topo + 1)
           /\ {e.self, e.other} \subseteq Base \cup {None}
           /\ e \in Written /\ LaIn(db.event[e], Base \cup {e})
  <1>1. resets = 0 /\ Persistent
    BY DEF Sound, FirstRunInv, MemInv, PhaseOK
  <1>2. Base = Replayed /\ LogInv(db) /\ LaInv(db) /\ mem.topo \in Nat
    BY <1>1, BaseIs DEF Sound, ReplayInv
  <1>3. Replayed = Earlier(db, mem.topo)
    BY DEF Replayed, Earlier
  <1>4. Base \cup {e} = Earlier(db, mem.topo + 1)
    <2>1. PICK m \in Nat : m = mem.topo
      BY <1>2
    <2>2. 0 .. (m + 1) - 1 = (0 .. m - 1) \cup {m}
      OBVIOUS
    <2>3. Earlier(db, m + 1) = Earlier(db, m) \cup {db.topo[m]}
      BY <2>2 DEF Earlier
    <2> QED
      BY <2>1, <2>3, <1>2, <1>3
  <1>5. {e.self, e.other} \subseteq Base \cup {None} /\ e \in Written
    BY <1>2, <1>3 DEF LogInv, Written
  <1>6. LaIn(db.event[e], Base \cup {e})
    BY <1>2, <1>4, Zenon DEF LaInv
  <1> QED
    BY <1>1, <1>2, <1>4, <1>5, <1>6

\* What InsertEvent does up to the write of the event.
LEMMA AcceptBegin ==
    ASSUME Sound, NEW e, Accept(e), NEW B, B = Base
    PROVE  /\ TypeInv' /\ MemInv(B \cup {e})'
           /\ insert'.event = e /\ ~Idle' /\ e \notin B /\ NoTwo(B \cup {e})
           /\ SetEvent(e, initEventCoordinates(e), mem.topo, mem.topo + 1)
           /\ {e.self, e.other} \subseteq B \cup {None}
           /\ core.phase = "Babbling" => ~Maintenance
  <1>1. TypeInv /\ MemInv(B)
    BY DEF Sound
  <1>2. Follows(e) /\ (e.self = None \/ e.self \in B) /\ IsEvent(e) /\ checkParents(e)
    BY AcceptedFollows DEF Accept
  <1>3. core.phase = "Babbling" => ~Maintenance
    BY <1>1 DEF TypeInv, Maintenance
  <1>4. ASSUME e.other # None, Has(e.other) PROVE e.other \in B
    <2>1. CASE core.phase = "Bootstrap"
      BY <2>1, <1>4, NextReplayed, Zenon DEF Accept
    <2>2. CASE core.phase = "Babbling"
      <3>1. DOMAIN mem.cache \subseteq B /\ (Persistent => B = Written)
        BY <2>2, <1>1 DEF MemInv, EntriesOK, PhaseOK
      <3> QED
        BY <3>1, <1>4 DEF Has, Written
    <2> QED
      BY <2>1, <2>2 DEF Accept
  <1>5. Persistent /\ Maintenance => e \in Written /\ LaIn(db.event[e], B \cup {e})
    BY <1>3, NextReplayed DEF Accept
  <1>6. e \notin B /\ NoTwo(B \cup {e})
    BY <1>1, <1>2, FollowsIsNew DEF MemInv
  <1>7. PICK t : t = mem.topo
    OBVIOUS
  <1>8. PICK i : i = mem.topo + 1
    OBVIOUS
  <1>9. /\ Idle /\ core.phase \in {"Babbling", "Bootstrap", "Reset"}
        /\ UNCHANGED <<world, core, resets, run>> /\ (e.creator # Self => e \in world)
        /\ Begin(e, t, i)
    BY <1>7, <1>8 DEF Accept
  <1>10. /\ TypeInv' /\ MemInv(B \cup {e})'
         /\ insert'.event = e /\ ~Idle'
         /\ SetEvent(e, initEventCoordinates(e), t, i)
    BY <1>1, <1>2, <1>4, <1>5, <1>9, BeginStep
  <1>11. e.other = None \/ Has(e.other)
    BY <1>2 DEF checkParents
  <1> QED
    BY <1>2, <1>3, <1>4, <1>6, <1>7, <1>8, <1>10, <1>11

\* A babbling node with a database that was never fast-forwarded has replayed
\* all of it.
LEMMA BabblingLog ==
    ASSUME Sound, core.phase = "Babbling", Persistent, resets = 0
    PROVE  /\ LogInv(db) /\ LaInv(db) /\ mem.topo \in Nat /\ DOMAIN db.topo = 0 .. mem.topo - 1
           /\ Base = Written /\ Base = Replayed
  <1>1. /\ LogInv(db) /\ LaInv(db) /\ mem.topo \in Nat /\ 0 .. mem.topo - 1 \subseteq DOMAIN db.topo
        /\ Base = Written /\ Base = Replayed
    BY BaseIs DEF Sound, ReplayInv, MemInv, PhaseOK
  <1>2. PICK m \in Nat : m = mem.topo
    BY <1>1
  <1>3. PICK n \in Nat : DOMAIN db.topo = 0 .. n - 1
    BY <1>1 DEF LogInv
  <1>4. ASSUME m < n PROVE FALSE
    <2>1. m \in DOMAIN db.topo
      BY <1>3, <1>4
    <2>2. db.topo[m] \in Replayed
      BY <2>1, <1>1 DEF LogInv, Written
    <2>3. PICK k \in 0 .. m - 1 : db.topo[m] = db.topo[k]
      BY <2>2, <1>2 DEF Replayed
    <2>4. k \in DOMAIN db.topo
      BY <1>1, <1>2
    <2>5. \A i, j \in DOMAIN db.topo : db.topo[i] = db.topo[j] => i = j
      BY <1>1 DEF LogInv
    <2>6. m = k
      BY <2>1, <2>3, <2>4, <2>5, Zenon
    <2> QED
      BY <2>6
  <1>5. ASSUME m > n PROVE FALSE
    <2>1. m - 1 \in 0 .. m - 1
      BY <1>5
    <2>2. m - 1 \in 0 .. n - 1
      BY <2>1, <1>1, <1>2, <1>3
    <2> QED
      BY <2>2, <1>5
  <1>6. m = n
    BY <1>4, <1>5
  <1> QED
    BY <1>1, <1>2, <1>3, <1>6

\* The event that is accepted joins Base.
LEMMA AcceptBase ==
    ASSUME Sound, NEW e, Accept(e), NEW B, B = Base
    PROVE  Base' = B \cup {e}
  <1>1. /\ SetEvent(e, initEventCoordinates(e), mem.topo, mem.topo + 1)
        /\ insert'.event = e /\ e \notin B /\ NoTwo(B \cup {e}) /\ TypeInv
        /\ {e.self, e.other} \subseteq B \cup {None}
        /\ (core.phase = "Babbling" => ~Maintenance)
    BY AcceptBegin DEF Sound
  <1>2. UNCHANGED <<world, resets, run>> /\ IsEvent(e) /\ Idle
    BY DEF Accept
  <1>3. e.creator \in Creators /\ e # None
    <2>1. e.index # -1
      BY <1>2, ConfTypes DEF IsEvent
    <2> QED
      BY <1>2, <2>1 DEF IsEvent, None
  <1>4. mem'.inserted = mem.inserted /\ mem'.topo = mem.topo + 1
    BY <1>1, <1>3, SetEventFields
  <1>5. Persistent' = Persistent
    BY <1>2, SameRun
  <1>6. CASE ~Persistent
    <2>1. Known' = Known /\ Underway = {} /\ Underway' = {e}
      BY <1>1, <1>2, <1>3, <1>4 DEF Known, Underway, Idle, NoInsert
    <2> QED
      BY <2>1, <1>5, <1>6 DEF Base
  <1>7. CASE Persistent /\ core.phase = "Bootstrap"
    <2>1. resets = 0 /\ B \cup {e} = Earlier(db, mem.topo + 1)
      BY <1>7, NextReplayed, Zenon DEF Accept
    <2>2. db' = db
      BY <1>1, <1>7, SetEventWrites DEF Maintenance
    <2>3. Replayed' = Earlier(db, mem.topo + 1)
      BY <2>2, <1>4 DEF Replayed, Earlier
    <2> QED
      BY <2>1, <2>3, <1>2, <1>5, <1>7 DEF Base
  <1>8. CASE Persistent /\ core.phase = "Babbling"
    <2>1. B = Written
      BY <1>8 DEF Sound, MemInv, PhaseOK
    <2>2. /\ DOMAIN db'.event = Written \cup {e}
          /\ db'.topo = With(db.topo, mem.topo, e)
          /\ db'.participant = With(db.participant, <<e.creator, e.index>>, e)
      BY <2>1, <1>1, <1>8, SetEventWrites
    <2>3. CASE resets # 0
      BY <2>1, <2>2, <2>3, <1>2, <1>5, <1>8 DEF Base, Written
    <2>4. CASE resets = 0
      <3>1. PICK n \in Nat : n = mem.topo
        BY <2>4, <1>8, BabblingLog
      <3>2. LogInv(db) /\ DOMAIN db.topo = 0 .. n - 1
        BY <3>1, <2>4, <1>8, BabblingLog
      <3>3. {e.self, e.other} \subseteq Written \cup {None} /\ e \notin Written /\ NoTwo(Written \cup {e})
        BY <2>1, <1>1
      <3>4. (e.creator # Self => e \in world) /\ db'.topo = With(db.topo, n, e)
        BY <3>1, <2>2 DEF Accept
      <3>5. Earlier(db, n + 1)' = Written \cup {e}
        BY <3>2, <3>3, <3>4, <2>2, <1>2, LogAppend, Zenon
      <3>6. Replayed' = Earlier(db, n + 1)'
        BY <3>1, <1>4 DEF Replayed, Earlier
      <3> QED
        BY <3>5, <3>6, <2>1, <2>4, <1>2, <1>5, <1>8 DEF Base
    <2> QED
      BY <2>3, <2>4
  <1> QED
    BY <1>6, <1>7, <1>8 DEF Accept

\* The logs after an event is accepted.
LEMMA AcceptLog ==
    ASSUME Sound, NEW e, Accept(e), NEW B, B = Base, resets = 0
    PROVE  /\ LogInv(db)' /\ LaInv(db)'
           /\ Persistent =>
                 /\ 0 .. mem.topo \subseteq DOMAIN db'.topo
                 /\ \A k \in DOMAIN db'.topo : db'.topo[k] \in DOMAIN mem'.cache =>
                        LaIn(mem'.cache[db'.topo[k]], Earlier(db, k + 1)')
  <1> DEFINE C == B \cup {e}
  <1>1. /\ SetEvent(e, initEventCoordinates(e), mem.topo, mem.topo + 1)
        /\ e \notin B /\ NoTwo(C) /\ TypeInv /\ ReplayInv(B) /\ MemInv(C)'
        /\ {e.self, e.other} \subseteq B \cup {None}
        /\ (core.phase = "Babbling" => ~Maintenance)
    BY AcceptBegin DEF Sound
  <1>2. UNCHANGED <<world, resets, run>> /\ IsEvent(e) /\ e.creator \in Creators
    BY DEF Accept, IsEvent
  <1>3. /\ e \in DOMAIN mem'.cache
        /\ \A x \in DOMAIN mem'.cache : x # e => x \in DOMAIN mem.cache /\ mem'.cache[x] = mem.cache[x]
    BY <1>1, <1>2, SetEventFields
  <1>4. Persistent' = Persistent /\ Creators' = Creators /\ \A v, S : LaIn(v, S) => LaIn(v, S)'
    BY <1>2, SameRun
  <1>5. LaIn(mem'.cache[e], C)
    BY <1>1, <1>3, <1>4 DEF MemInv, EntriesOK, LaIn
  <1>6. Persistent => LaIn(db'.event[e], C)
    BY <1>1, <1>4 DEF MemInv, EntriesOK, LaIn
  <1>7. ASSUME db' = db PROVE LogInv(db)' /\ LaInv(db)'
    <2>1. PICK d : d = db
      OBVIOUS
    <2>2. LogInv(d)' /\ LaInv(d)'
      BY <2>1, <1>1, <1>2, SameLog DEF ReplayInv
    <2> QED
      BY <2>1, <2>2, <1>7, PrimedLog
  <1>8. CASE ~Persistent
    BY <1>1, <1>7, <1>8, SetEventWrites, Zenon
  <1>9. CASE Persistent /\ core.phase = "Bootstrap"
    <2>1. /\ mem.topo \in DOMAIN db.topo /\ e = db.topo[mem.topo]
          /\ C = Earlier(db, mem.topo + 1) /\ mem.topo \in Nat
      BY <1>9, NextReplayed, Zenon DEF Accept
    <2>2. db' = db
      BY <1>1, <1>9, SetEventWrites DEF Maintenance
    <2>3. 0 .. mem.topo \subseteq DOMAIN db.topo
      <3>1. PICK n \in Nat : DOMAIN db.topo = 0 .. n - 1
        BY <1>1 DEF ReplayInv, LogInv
      <3>2. PICK m \in Nat : m = mem.topo /\ m \in 0 .. n - 1
        BY <2>1, <3>1
      <3> QED
        BY <3>1, <3>2
    <2>4. ASSUME NEW k \in DOMAIN db.topo, db.topo[k] \in DOMAIN mem'.cache
          PROVE  LaIn(mem'.cache[db.topo[k]], Earlier(db, k + 1))
      <3>1. CASE db.topo[k] = e
        <4>1. k = mem.topo
          <5>1. \A i, j \in DOMAIN db.topo : db.topo[i] = db.topo[j] => i = j
            BY <1>1 DEF ReplayInv, LogInv
          <5>2. k \in DOMAIN db.topo /\ mem.topo \in DOMAIN db.topo /\ db.topo[k] = db.topo[mem.topo]
            BY <3>1, <2>1, <2>4
          <5> QED
            BY <5>1, <5>2, Zenon
        <4> QED
          BY <4>1, <3>1, <2>1, <1>5, Zenon
      <3>2. CASE db.topo[k] # e
        BY <3>2, <2>4, <1>1, <1>3, <1>9 DEF ReplayInv
      <3> QED
        BY <3>1, <3>2
    <2>5. \A k : Earlier(db, k)' = Earlier(db, k)
      BY <2>2 DEF Earlier
    <2> QED
      BY <2>2, <2>3, <2>4, <2>5, <1>7
  <1>10. CASE Persistent /\ core.phase = "Babbling"
    <2>1. PICK n \in Nat : n = mem.topo
      BY <1>10, BabblingLog
    <2>2. LogInv(db) /\ LaInv(db) /\ DOMAIN db.topo = 0 .. n - 1 /\ B = Written
      BY <2>1, <1>10, BabblingLog
    <2>3. /\ DOMAIN db'.event = Written \cup {e}
          /\ db'.topo = With(db.topo, n, e)
          /\ db'.participant = With(db.participant, <<e.creator, e.index>>, e)
          /\ \A x \in Written : x # e => db'.event[x] = db.event[x]
      BY <2>1, <2>2, <1>1, <1>10, SetEventWrites
    <2>4. {e.self, e.other} \subseteq Written \cup {None} /\ (e.creator # Self => e \in world)
      BY <2>2, <1>1 DEF Accept
    <2>5. /\ LogInv(db)' /\ DOMAIN db'.topo = 0 .. n
          /\ db'.topo[n] = e /\ \A k \in 0 .. n - 1 : db'.topo[k] = db.topo[k]
          /\ \A k \in 0 .. n : Earlier(db, k)' = Earlier(db, k)
          /\ Earlier(db, n + 1)' = C
      BY <2>2, <2>3, <2>4, <1>1, <1>2, LogAppend
    <2>6. ASSUME NEW k \in 0 .. n
          PROVE  /\ LaIn(db'.event[db'.topo[k]], Earlier(db, k + 1)')
                 /\ db'.topo[k] \in DOMAIN mem'.cache =>
                       LaIn(mem'.cache[db'.topo[k]], Earlier(db, k + 1)')
      <3>1. CASE k = n
        BY <3>1, <2>5, <1>5, <1>6, <1>10, Zenon
      <3>2. CASE k # n
        <4>1. k \in 0 .. n - 1 /\ k + 1 \in 0 .. n
          BY <3>2
        <4>2. PICK x : x = db.topo[k]
          OBVIOUS
        <4>3. db'.topo[k] = x /\ Earlier(db, k + 1)' = Earlier(db, k + 1)
          BY <4>1, <4>2, <2>5
        <4>4. x \in Written /\ x # e
          BY <4>1, <4>2, <2>2, <1>1 DEF LogInv, Written
        <4>5. LaIn(db.event[x], Earlier(db, k + 1))
          BY <4>1, <4>2, <2>2 DEF LaInv
        <4>6. x \in DOMAIN mem.cache => LaIn(mem.cache[x], Earlier(db, k + 1))
          BY <4>1, <4>2, <2>2, <1>1, <1>10 DEF ReplayInv
        <4> QED
          BY <4>3, <4>4, <4>5, <4>6, <2>3, <1>3
      <3> QED
        BY <3>1, <3>2
    <2>7. LaInv(db)'
      BY <2>5, <2>6, <1>4 DEF LaInv, LaIn
    <2> QED
      BY <2>1, <2>5, <2>6, <2>7
  <1> QED
    BY <1>8, <1>9, <1>10 DEF Accept

\* An event that is accepted keeps the events of its creator without a gap.
LEMMA AcceptReplay ==
    ASSUME Sound, NEW e, Accept(e), NEW B, B = Base, resets = 0
    PROVE  ReplayInv(B \cup {e})'
  <1>1. /\ SetEvent(e, initEventCoordinates(e), mem.topo, mem.topo + 1)
        /\ TypeInv /\ ReplayInv(B) /\ MemInv(B) /\ ~Idle'
    BY AcceptBegin, Zenon DEF Sound
  <1>2. UNCHANGED <<world, disk, core, resets, run>> /\ IsEvent(e) /\ e.creator \in Creators /\ Idle
    BY DEF Accept, IsEvent
  <1>3. /\ mem'.inserted = mem.inserted /\ mem'.topo = mem.topo + 1
        /\ \A c \in Creators : c # e.creator => mem'.window[c] = mem.window[c]
    <2>1. PICK v, t : SetEvent(e, v, mem.topo, t) /\ t = mem.topo + 1
      BY <1>1, Zenon
    <2>2. TypeInv /\ e.creator \in Creators
      BY <1>1, <1>2, Zenon
    <2>3. /\ mem'.inserted = mem.inserted /\ mem'.topo = t
          /\ \A c \in Creators : c # e.creator => mem'.window[c] = mem.window[c]
      BY <2>1, <2>2, SetEventFields
    <2> QED
      BY <2>1, <2>3, Zenon
  <1>4. Follows(e) /\ e.index = mem.window[e.creator].lastIndex + 1
    BY AcceptedFollows DEF Accept
  <1>5. mem'.window[e.creator].lastIndex = e.index
    BY <1>1, <1>2, <1>4, SetNew, Zenon DEF MemInv, Accept
  <1>6. Persistent' = Persistent /\ Creators' = Creators
    BY <1>2, SameRun
  <1>7. /\ LogInv(db)' /\ LaInv(db)'
        /\ Persistent =>
              /\ 0 .. mem.topo \subseteq DOMAIN db'.topo
              /\ \A k \in DOMAIN db'.topo : db'.topo[k] \in DOMAIN mem'.cache =>
                     LaIn(mem'.cache[db'.topo[k]], Earlier(db, k + 1)')
    BY AcceptLog
  <1>8. LogInv(disk)' /\ LaInv(disk)'
    <2>1. PICK d : d = disk
      OBVIOUS
    <2>2. LogInv(d)' /\ LaInv(d)'
      BY <2>1, <1>1, <1>2, SameLog DEF ReplayInv
    <2> QED
      BY <2>1, <2>2, <1>2, PrimedLog
  <1>9. mem'.topo \in Nat /\ (Persistent => 0 .. mem'.topo - 1 \subseteq DOMAIN db'.topo)
    <2>1. PICK m \in Nat : m = mem.topo
      BY <1>1 DEF ReplayInv
    <2>2. mem'.topo = m + 1 /\ 0 .. (m + 1) - 1 = 0 .. m
      BY <2>1, <1>3
    <2> QED
      BY <2>1, <2>2, <1>7
  <1>old. \A c \in Creators : \A i \in 0 .. mem.window[c].lastIndex :
             \E x \in B : x.creator = c /\ x.index = i
    BY <1>1, Zenon DEF ReplayInv
  <1>10. ASSUME NEW c \in Creators, NEW i \in 0 .. mem'.window[c].lastIndex
         PROVE  \E x \in B \cup {e} : x.creator = c /\ x.index = i
    <2>1. CASE c # e.creator
      <3>1. mem'.window[c] = mem.window[c]
        BY <2>1, <1>3, Zenon
      <3>2. i \in 0 .. mem.window[c].lastIndex
        BY <3>1, Zenon
      <3>3. PICK x \in B : x.creator = c /\ x.index = i
        BY <3>2, <1>old, Zenon
      <3> QED
        BY <3>3, Zenon
    <2>2. CASE c = e.creator
      <3>1. PICK l \in Int : l = mem.window[c].lastIndex
        BY <1>1, Zenon DEF MemInv, WindowsOK, WindowOK
      <3>2. e.index = l + 1 /\ i \in 0 .. l + 1
        BY <2>2, <3>1, <1>4, <1>5
      <3>3. CASE i = l + 1
        <4>1. e.creator = c /\ e.index = i
          BY <3>2, <3>3, <2>2
        <4> QED
          BY <4>1, Zenon
      <3>4. CASE i \in 0 .. l
        <4>1. i \in 0 .. mem.window[c].lastIndex
          BY <3>1, <3>4, Zenon
        <4>2. PICK x \in B : x.creator = c /\ x.index = i
          BY <4>1, <1>old, Zenon
        <4> QED
          BY <4>2, Zenon
      <3> QED
        BY <3>2, <3>3, <3>4
    <2> QED
      BY <2>1, <2>2
  <1>11. core.phase = "Bootstrap" => Len(mem.inserted) + 1 = mem.topo + 1
    BY <1>1, <1>2 DEF ReplayInv
  <1>12. core.phase # "Reset"
    BY <1>1 DEF ReplayInv
  <1>13. \A k \in DOMAIN db'.topo : Persistent' /\ db'.topo[k] \in DOMAIN mem'.cache =>
             LaIn(mem.cache[db.topo[k]], Earlier(db, k + 1))'
    BY <1>6, <1>7 DEF LaIn
  <1>14. core'.phase = "Bootstrap" => Len(mem'.inserted) + 1 = mem'.topo
    BY <1>2, <1>3, <1>11
  <1>15. \A c \in Creators' : \A i \in 0 .. mem'.window[c].lastIndex :
             \E x \in B \cup {e} : x.creator = c /\ x.index = i
    BY <1>6, <1>10
  <1>16. Persistent' => 0 .. mem'.topo - 1 \subseteq DOMAIN db'.topo
    BY <1>6, <1>9
  <1>17. core'.phase # "Reset"
    BY <1>2, <1>12
  <1> QED
    BY <1>1, <1>7, <1>8, <1>9, <1>13, <1>14, <1>15, <1>16, <1>17 DEF ReplayInv

\* InsertEvent, up to the write of the event.
LEMMA AcceptSound == ASSUME Sound, NEW e, Accept(e) PROVE Sound'
  <1>1. PICK B : B = Base
    OBVIOUS
  <1>2. TypeInv' /\ MemInv(B \cup {e})'
    BY <1>1, AcceptBegin
  <1>3. Base' = B \cup {e}
    BY <1>1, AcceptBase
  <1>4. /\ UNCHANGED <<world, core, resets, run>> /\ core.phase \in {"Babbling", "Bootstrap"}
        /\ core.phase = "Bootstrap" => mem.topo \in DOMAIN db.topo
    BY DEF Accept
  <1>5. WorldInv'
    BY <1>4, WorldSame DEF Sound
  <1>6. resets' = 0 => ReplayInv(B \cup {e})'
    BY <1>1, <1>4, AcceptReplay
  <1>7. crashes' = crashes
    BY <1>4 DEF run
  <1>8. crashes' = 0 => FirstRunInv'
    <2> SUFFICES ASSUME crashes = 0 PROVE FirstRunInv'
      BY <1>7
    <2>1. FirstRunInv
      BY DEF Sound
    <2>2. core.phase # "Bootstrap"
      BY <2>1, <1>4 DEF FirstRunInv, EmptyDB
    <2> QED
      BY <2>2, <1>4 DEF FirstRunInv
  <1>9. resets' # 0 => crashes' = 0 /\ ResetInv(B \cup {e})'
    BY <1>4, <1>7 DEF Sound, ResetInv
  <1> QED
    BY <1>2, <1>3, <1>5, <1>6, <1>8, <1>9, SoundAfter

\* An event of another node.
LEMMA ReceiveSound == ASSUME Sound, Receive PROVE Sound'
  <1>1. PICK e \in world : InsertEvent(e)
    BY DEF Receive
  <1>2. IsEvent(e)
    BY DEF Sound, WorldInv
  <1>3. Accept(e)
    BY <1>1, <1>2 DEF Receive, InsertEvent, Accept
  <1> QED
    BY <1>3, AcceptSound

\* An event of the node's own.
LEMMA SelfEventSound == ASSUME Sound, SelfEvent PROVE Sound'
  <1>1. PICK c : InsertEvent(Event(Self, core.head, LastEventFrom(c)))
    BY DEF SelfEvent
  <1>2. PICK e : e = Event(Self, core.head, LastEventFrom(c))
    OBVIOUS
  <1>3. e.creator = Self /\ e.self = core.head /\ e.index = core.head.index + 1
    BY <1>2 DEF Event
  <1>4. InsertEvent(e) /\ checkParents(e) /\ core.head.index < MaxIndex /\ core.phase = "Babbling"
    BY <1>1, <1>2 DEF InsertEvent, SelfEvent
  <1>5. Self \in Creators /\ MaxIndex \in Nat
    BY ConfTypes DEF Sound
  <1>6. core.head = None \/ (core.head \in Base /\ core.head.creator = Self)
    <2>1. LastEventFrom(Self) = core.head /\ WindowsOK(Base)
      BY <1>3, <1>4 DEF checkParents, Sound, MemInv
    <2> QED
      BY <2>1, <1>5, LastOfWindow
  <1>7. IsEvent(e)
    <2>1. CASE core.head = None
      BY <2>1, <1>3, <1>5 DEF IsEvent, None
    <2>2. CASE core.head \in Base /\ core.head.creator = Self
      <3>1. core.head # None /\ core.head.index \in Nat
        BY <2>2, BaseNotNone
      <3>2. PICK h \in Nat : h = core.head.index /\ h < MaxIndex
        BY <3>1, <1>4
      <3>3. e.index = h + 1 /\ h + 1 \in 0 .. MaxIndex /\ h = (h + 1) - 1
        BY <3>2, <1>3, <1>5
      <3> QED
        BY <3>1, <3>2, <3>3, <2>2, <1>3, <1>5 DEF IsEvent
    <2> QED
      BY <2>1, <2>2, <1>6
  <1>8. Accept(e)
    BY <1>3, <1>4, <1>7 DEF SelfEvent, InsertEvent, Accept
  <1> QED
    BY <1>8, AcceptSound

\* An event of the database.
LEMMA ReplaySound == ASSUME Sound, Replay PROVE Sound'
  <1>1. core.phase = "Bootstrap" /\ Len(mem.inserted) \in DOMAIN db.topo
    BY DEF Replay
  <1>2. PICK e : e = db.topo[Len(mem.inserted)]
    OBVIOUS
  <1>3. InsertEvent(e) /\ Idle /\ checkParents(e)
    BY <1>2 DEF Replay, InsertEvent
  <1>4. resets = 0 /\ ReplayInv(Base)
    BY <1>1 DEF Sound, FirstRunInv, MemInv, PhaseOK
  <1>5. Len(mem.inserted) = mem.topo /\ LogInv(db)
    BY <1>1, <1>3, <1>4 DEF ReplayInv
  <1>6. IsEvent(e) /\ e \in Written /\ (e.creator # Self => e \in world)
    BY <1>1, <1>2, <1>5 DEF LogInv, Written, FromWorld
  <1>7. Accept(e)
    BY <1>1, <1>2, <1>3, <1>5, <1>6 DEF Replay, InsertEvent, Accept
  <1> QED
    BY <1>7, AcceptSound

-----------------------------------------------------------------------------
(***************************************************************************)
(* Runs and fast-forwards.                                                 *)
(***************************************************************************)

\* The events of a frame.
LEMMA InsertFrameEventSound == ASSUME Sound, InsertFrameEvent PROVE Sound'
  <1>1. /\ core.phase = "Reset" /\ Idle /\ UNCHANGED <<world, core, resets, run>>
        /\ UNCHANGED disk
    BY DEF InsertFrameEvent
  <1>2. PICK e \in queue : queue' = queue \ {e} /\ Begin(e, 0, mem.topo)
    BY DEF InsertFrameEvent
  <1>3. PICK B : B = Base
    OBVIOUS
  <1>4. /\ resets # 0 /\ crashes = 0 /\ FirstRunInv /\ ResetInv(B)
        /\ TypeInv /\ WorldInv /\ MemInv(B)
    BY <1>1, <1>3 DEF Sound, ReplayInv
  <1>5. /\ \A x \in B : mem.window[x.creator].items = <<x>>
        /\ queue \subseteq world
        /\ \A y \in queue : \A x \in queue \cup B : y.creator = x.creator => y = x /\ y \notin B
    BY <1>1, <1>4 DEF ResetInv
  <1>6. IsEvent(e) /\ e \in world /\ e.creator \in Creators
    BY <1>2, <1>4, <1>5 DEF WorldInv, IsEvent
  <1>7. mem.window[e.creator].lastIndex = -1
    <2> SUFFICES ASSUME mem.window[e.creator].lastIndex # -1 PROVE FALSE
      OBVIOUS
    <2>1. PICK x \in B : x.creator = e.creator
      BY <1>4, <1>6, LastOfWindow DEF MemInv
    <2> QED
      BY <2>1, <1>2, <1>5
  <1>8. Follows(e)
    BY <1>7 DEF Follows
  <1>9. ASSUME NEW x, Has(x) PROVE x \in B
    <2>1. DOMAIN mem.cache \subseteq B /\ (Persistent => B = Written)
      BY <1>1, <1>4 DEF MemInv, EntriesOK, PhaseOK
    <2> QED
      BY <2>1, <1>9 DEF Has, Written
  <1>10. ~Maintenance
    BY <1>1, <1>4 DEF TypeInv, Maintenance
  <1>11. PICK t : t = mem.topo
    OBVIOUS
  <1>12. Begin(e, 0, t)
    BY <1>2, <1>11
  <1>13. /\ TypeInv' /\ MemInv(B \cup {e})'
         /\ insert'.event = e /\ ~Idle'
         /\ SetEvent(e, initEventCoordinates(e), 0, t)
    BY <1>1, <1>4, <1>6, <1>8, <1>9, <1>10, <1>12, BeginStep
  <1>14. /\ mem'.inserted = mem.inserted
         /\ \A c \in Creators : c # e.creator => mem'.window[c] = mem.window[c]
    BY <1>4, <1>6, <1>13, SetEventFields
  <1>15. mem'.window[e.creator].items = <<e>>
    BY <1>1, <1>4, <1>6, <1>7, <1>8, <1>13, SetNew DEF MemInv
  <1>16. Base' = B \cup {e}
    <2>1. Persistent' = Persistent
      BY <1>1, SameRun
    <2>2. CASE ~Persistent
      <3>1. e # None
        <4>1. e.index # -1
          BY <1>4, <1>6, ConfTypes DEF IsEvent
        <4> QED
          BY <4>1 DEF None
      <3>2. Known' = Known /\ Underway = {} /\ Underway' = {e}
        BY <3>1, <1>1, <1>13, <1>14 DEF Known, Underway, Idle, NoInsert
      <3> QED
        BY <3>2, <2>1, <2>2, <1>3 DEF Base
    <2>3. CASE Persistent
      <3>1. Written' = Written \cup {e}
        BY <2>3, <1>10, <1>13, SetEventWrites, Zenon DEF Written
      <3> QED
        BY <3>1, <2>1, <2>3, <1>1, <1>3, <1>4 DEF Base
    <2> QED
      BY <2>2, <2>3
  <1>17. WorldInv'
    BY <1>1, <1>4, WorldSame
  <1>18. crashes' = crashes
    BY <1>1 DEF run
  <1>19. FirstRunInv'
    BY <1>1, <1>4 DEF FirstRunInv
  <1>20. ResetInv(B \cup {e})'
    <2>1. \A x \in B \cup {e} : mem'.window[x.creator].items = <<x>>
      <3>1. \A x \in B : x.creator \in Creators /\ x.creator # e.creator
        BY <1>2, <1>4, <1>5 DEF MemInv, EventsOK, IsEvent
      <3> QED
        BY <3>1, <1>5, <1>14, <1>15
    <2>2. queue' \subseteq world'
      BY <1>1, <1>2, <1>5
    <2>3. \A y \in queue' : \A x \in queue' \cup (B \cup {e}) :
              y.creator = x.creator => y = x /\ y \notin B \cup {e}
      BY <1>2, <1>5
    <2> QED
      BY <2>1, <2>2, <2>3 DEF ResetInv
  <1> QED
    BY <1>1, <1>4, <1>13, <1>16, <1>17, <1>18, <1>19, <1>20, SoundAfter

\* A run, or a fast-forward, that begins.
Fresh ==
    /\ TypeInv /\ WorldInv /\ mem = EmptyMem /\ Idle /\ PhaseOK({}) /\ OwnOK({})
    /\ resets = 0 => /\ LogInv(db) /\ LogInv(disk) /\ LaInv(db) /\ LaInv(disk)
                     /\ core.phase # "Reset"
    /\ crashes = 0 => FirstRunInv
    /\ resets # 0 => /\ crashes = 0 /\ Written = {} /\ queue \subseteq world
                     /\ \A e, x \in queue : e.creator = x.creator => e = x

\* It has taken in nothing, and the invariant holds of it.
LEMMA FreshIsSound == Fresh => Sound
  <1> SUFFICES ASSUME Fresh PROVE Sound
    OBVIOUS
  <1>1. /\ TypeInv /\ WorldInv /\ mem = EmptyMem /\ Idle /\ PhaseOK({}) /\ OwnOK({})
        /\ crashes = 0 => FirstRunInv
    BY DEF Fresh
  <1>2. /\ mem.cache = <<>> /\ mem.topo = 0 /\ mem.inserted = <<>>
        /\ \A c \in Creators : mem.window[c] = [items |-> <<>>, lastIndex |-> -1]
    BY <1>1 DEF EmptyMem
  <1>3. Known = {} /\ Underway = {} /\ Replayed = {}
    <2>1. Known = {}
      BY <1>2 DEF Known
    <2>2. Underway = {}
      BY <1>1 DEF Underway, Idle, NoInsert
    <2>3. 0 .. mem.topo - 1 = {}
      BY <1>2
    <2> QED
      BY <2>1, <2>2, <2>3 DEF Replayed
  <1>4. Base = {}
    BY <1>3 DEF Fresh, Base
  <1>5. WindowsOK({})
    <2> SUFFICES ASSUME NEW c \in Creators PROVE WindowOK(mem.window[c], c, {})
      BY DEF WindowsOK
    <2>1. PICK w : w = mem.window[c] /\ w = [items |-> <<>>, lastIndex |-> -1]
      BY <1>2
    <2>2. w.items = <<>> /\ w.lastIndex = -1 /\ Len(w.items) = 0 /\ w.items \in Seq({})
      BY <2>1
    <2>3. Oldest(w) = 0
      <3>1. PICK l, n : l = w.lastIndex /\ n = Len(w.items)
        BY Zenon
      <3>2. l = -1 /\ n = 0
        BY <3>1, <2>2, Zenon
      <3>3. Oldest(w) = l - n + 1
        BY <3>1, Zenon DEF Oldest
      <3> QED
        BY <3>2, <3>3
    <2>4. w = [items |-> w.items, lastIndex |-> w.lastIndex]
      BY <2>1, <2>2
    <2>5. 1 .. Len(w.items) = {}
      BY <2>2
    <2>6. Oldest(w) >= 0 /\ w.lastIndex >= -1 /\ w.lastIndex \in Int
      BY <2>2, <2>3
    <2>7. WindowOK(w, c, {})
      <3> HIDE DEF Oldest
      <3> QED
        BY <2>2, <2>4, <2>5, <2>6, Zenon DEF WindowOK
    <2> QED
      BY <2>1, <2>7
  <1>6. EventsOK({}) /\ EntriesOK({}) /\ InsertOK({}) /\ ListOK({})
    <2>1. DOMAIN mem.cache = {} /\ mem.inserted \in Seq({})
      BY <1>2
    <2>2. EventsOK({}) /\ EntriesOK({})
      BY <2>1 DEF EventsOK, EntriesOK, NoTwo, FromWorld
    <2>3. InsertOK({}) /\ ListOK({})
      BY <2>1, <1>1, <1>3 DEF InsertOK, ListOK
    <2> QED
      BY <2>2, <2>3
  <1>7. MemInv({})
    BY <1>1, <1>5, <1>6 DEF MemInv
  <1>8. ASSUME resets = 0 PROVE ReplayInv({})
    <2>1. DOMAIN mem.cache = {} /\ Len(mem.inserted) = mem.topo /\ 0 .. mem.topo - 1 = {} /\ mem.topo \in Nat
      BY <1>2
    <2>2. \A c \in Creators : 0 .. mem.window[c].lastIndex = {}
      BY <1>2
    <2> QED
      BY <2>1, <2>2, <1>1, <1>8 DEF Fresh, ReplayInv
  <1>9. resets # 0 => crashes = 0 /\ ResetInv({})
    BY DEF Fresh, ResetInv
  <1> QED
    BY <1>1, <1>4, <1>7, <1>8, <1>9 DEF Sound

\* A database with nothing in it is a log.
LEMMA EmptyLog == ASSUME NEW d, d = EmptyDB PROVE LogInv(d) /\ LaInv(d)
  <1>1. DOMAIN d.topo = {} /\ DOMAIN d.event = {} /\ DOMAIN d.participant = {}
    BY DEF EmptyDB
  <1>2. 0 .. 0 - 1 = {}
    OBVIOUS
  <1>3. \E n \in Nat : DOMAIN d.topo = 0 .. n - 1
    BY <1>1, <1>2
  <1> QED
    BY <1>1, <1>3 DEF LogInv, LaInv, FromWorld

\* A log stays one when the program is started again.
LEMMA LogOfRun ==
    ASSUME conf' = conf, world' = world, NEW d
    PROVE  /\ Creators' = Creators
           /\ WorldInv => WorldInv'
           /\ LogInv(d) => LogInv(d)'
           /\ LaInv(d) => LaInv(d)'
  <1>1. Creators' = Creators /\ \A e : IsEvent(e) => IsEvent(e)'
    BY DEF Creators, IsEvent, MaxIndex
  <1>2. \A entry, S : LaIn(entry, S) => LaIn(entry, S)'
    BY <1>1 DEF LaIn
  <1>3. FromWorld(DOMAIN d.event) => FromWorld(DOMAIN d.event)'
    BY DEF FromWorld
  <1>4. LogInv(d) => LogInv(d)'
    BY <1>1, <1>3 DEF LogInv
  <1>5. LaInv(d) => LaInv(d)'
    BY <1>2 DEF LaInv
  <1>6. WorldInv => WorldInv'
    BY <1>1 DEF WorldInv
  <1> QED
    BY <1>1, <1>4, <1>5, <1>6

\* The memory of a run that begins, and how it begins.
LEMMA BootedTypes ==
    ASSUME conf \in Confs, NEW o \in conf.options
    PROVE  /\ IsCore(Booted(o))
           /\ Booted(o).phase \in {"Bootstrap", "CatchingUp", "Babbling"}
           /\ Booted(o).phase = "Bootstrap" <=> validateConfig(o).bootstrap
           /\ o.maintenance => Booted(o).phase = "Bootstrap"
           /\ validateConfig(o).maintenance = o.maintenance
           /\ Booted(o).phase = "Bootstrap" => validateConfig(o).store
  <1>1. /\ validateConfig(o).maintenance = o.maintenance
        /\ o.maintenance => validateConfig(o).bootstrap
        /\ validateConfig(o).bootstrap => validateConfig(o).store
        /\ validateConfig(o).bootstrap \in BOOLEAN /\ o.fastSync \in BOOLEAN
    BY ConfigFacts
  <1>2. PICK b \in BOOLEAN : b = validateConfig(o).bootstrap
    BY <1>1
  <1>3. /\ Booted(o).phase \in {"Bootstrap", "CatchingUp", "Babbling"}
        /\ Booted(o).phase = "Bootstrap" <=> b
    BY <1>1, <1>2 DEF Booted
  <1>4. IsCore(Booted(o))
    BY DEF IsCore, Booted
  <1> QED
    BY <1>1, <1>2, <1>3, <1>4

\* The first run begins.
LEMMA InitSound == ASSUME Init PROVE Sound
  <1>1. /\ conf \in Confs /\ options \in conf.options /\ world = {} /\ mem = EmptyMem
        /\ db = EmptyDB /\ disk = EmptyDB /\ Idle /\ queue = {} /\ core = Booted(options)
        /\ forgot = FALSE /\ crashes = 0 /\ resets = 0
    BY DEF Init, Idle
  <1>2. /\ IsCore(core) /\ core.phase \in {"Bootstrap", "CatchingUp", "Babbling"}
        /\ core.phase = "Bootstrap" => Persistent
        /\ Config.maintenance => core.phase = "Bootstrap"
    BY <1>1, BootedTypes DEF Config, Persistent
  <1>3. IsMem(mem)
    BY <1>1 DEF IsMem, EmptyMem
  <1>4. TypeInv
    BY <1>1, <1>2, <1>3, Zenon DEF TypeInv
  <1>5. WorldInv
    BY <1>1 DEF WorldInv, NoTwo
  <1>6. PhaseOK({}) /\ OwnOK({})
    BY <1>1, <1>2 DEF PhaseOK, OwnOK, Written, EmptyDB
  <1>7. LogInv(db) /\ LogInv(disk) /\ LaInv(db) /\ LaInv(disk)
    BY <1>1, EmptyLog
  <1>8. FirstRunInv
    BY <1>1, <1>2 DEF FirstRunInv
  <1>9. Fresh
    BY <1>1, <1>2, <1>4, <1>5, <1>6, <1>7, <1>8 DEF Fresh
  <1> QED
    BY <1>9, FreshIsSound

\* The program ends and is started again.
LEMMA CrashSound == ASSUME Sound, Crash, resets = 0 PROVE Sound'
  <1>1. PICK left : left = IF LosesWrites THEN disk ELSE db
    OBVIOUS
  <1>2. PICK o \in conf.options : o = options'
    BY DEF Crash
  <1>3. /\ crashes' = crashes + 1 /\ initStore(validateConfig(o), left)
        /\ disk' = (IF LosesWrites THEN db' ELSE disk)
        /\ mem' = EmptyMem /\ insert' = NoInsert /\ core' = Booted(o)
        /\ forgot' = (forgot \/ ~Persistent \/ ~validateConfig(o).bootstrap \/ left # db)
        /\ UNCHANGED <<world, resets, conf>>
    BY <1>1, <1>2 DEF Crash
  <1>4. /\ TypeInv /\ WorldInv /\ conf \in Confs /\ crashes \in Nat /\ forgot \in BOOLEAN
        /\ LogInv(db) /\ LaInv(db) /\ LogInv(disk) /\ LaInv(disk) /\ OwnOK(Base)
    BY DEF Sound, TypeInv, ReplayInv, MemInv
  <1>5. Creators' = Creators /\ WorldInv'
    BY <1>3, <1>4, LogOfRun
  <1>6. Config' = validateConfig(o) /\ Persistent' = validateConfig(o).store
    BY <1>2 DEF Config, Persistent
  <1>7. /\ IsCore(core') /\ core'.phase \in {"Bootstrap", "CatchingUp", "Babbling"}
        /\ core'.phase = "Bootstrap" <=> validateConfig(o).bootstrap
        /\ core'.phase = "Bootstrap" => Persistent'
        /\ Config'.maintenance => core'.phase = "Bootstrap"
    <2>1. /\ IsCore(Booted(o))
          /\ Booted(o).phase \in {"Bootstrap", "CatchingUp", "Babbling"}
          /\ Booted(o).phase = "Bootstrap" <=> validateConfig(o).bootstrap
          /\ o.maintenance => Booted(o).phase = "Bootstrap"
          /\ validateConfig(o).maintenance = o.maintenance
          /\ Booted(o).phase = "Bootstrap" => validateConfig(o).store
      BY <1>4, BootedTypes
    <2> QED
      BY <2>1, <1>3, <1>6
  <1>8. TypeInv'
    <2>1. IsMem(mem)'
      BY <1>3, <1>5 DEF IsMem, EmptyMem
    <2>2. IsCore(core)' /\ Idle'
      BY <1>3, <1>7 DEF IsCore, Idle
    <2>3. crashes' \in Nat /\ resets' \in Nat /\ forgot' \in BOOLEAN
      BY <1>3, <1>4
    <2> QED
      BY <2>1, <2>2, <2>3, <1>2, <1>3, <1>4, <1>7 DEF TypeInv
  <1>9. LogInv(left) /\ LaInv(left) /\ (db' = left \/ db' = EmptyDB)
    BY <1>1, <1>3, <1>4 DEF initStore
  <1>10. LogInv(db)' /\ LaInv(db)'
    <2>1. PICK d : d = db'
      OBVIOUS
    <2>2. LogInv(d) /\ LaInv(d)
      BY <2>1, <1>9, EmptyLog
    <2>3. LogInv(d)' /\ LaInv(d)'
      BY <2>2, <1>3, LogOfRun
    <2> QED
      BY <2>1, <2>3, PrimedLog
  <1>11. LogInv(disk)' /\ LaInv(disk)'
    <2>1. PICK d : d = disk'
      OBVIOUS
    <2>2. LogInv(d) /\ LaInv(d)
      BY <2>1, <1>3, <1>4, <1>9, EmptyLog
    <2>3. LogInv(d)' /\ LaInv(d)'
      BY <2>2, <1>3, LogOfRun
    <2> QED
      BY <2>1, <2>3, PrimedLog
  <1>12. PhaseOK({})'
    <2>1. ASSUME Persistent', core'.phase # "Bootstrap" PROVE {} = Written'
      <3>1. db' = EmptyDB
        BY <2>1, <1>3, <1>6, <1>7, Zenon DEF initStore
      <3> QED
        BY <3>1 DEF Written, EmptyDB
    <2>2. Idle'
      BY <1>3 DEF Idle
    <2> QED
      BY <2>1, <2>2, <1>7 DEF PhaseOK
  <1>13. OwnOK({})'
    <2> SUFFICES ASSUME ~forgot', NEW e \in world, e.creator = Self PROVE Persistent' /\ e \in Written'
      BY <1>3 DEF OwnOK
    <2>1. ~forgot /\ Persistent /\ validateConfig(o).bootstrap /\ left = db
      BY <1>3, <1>4, Zenon
    <2>2. Persistent' /\ db' = db
      BY <2>1, <1>3, <1>7 DEF initStore
    <2>3. e \in Written
      BY <2>1, <1>4 DEF OwnOK
    <2> QED
      BY <2>2, <2>3 DEF Written
  <1>14. crashes' # 0 /\ resets' = 0 /\ core'.phase # "Reset" /\ Idle' /\ mem' = EmptyMem'
    <2>1. crashes' # 0
      BY <1>3, <1>4
    <2>2. EmptyMem' = EmptyMem
      BY <1>5 DEF EmptyMem
    <2> QED
      BY <2>1, <2>2, <1>3, <1>7 DEF Idle
  <1>15. Fresh'
    BY <1>5, <1>8, <1>10, <1>11, <1>12, <1>13, <1>14 DEF Fresh
  <1>16. Fresh' => Sound'
    BY FreshIsSound, PTL
  <1> QED
    BY <1>15, <1>16

\* A fast-forward of a node that has not restarted begins with nothing.
LEMMA ResetSound == ASSUME Sound, Reset, crashes = 0 PROVE Sound'
  <1>1. /\ core.phase = "CatchingUp" /\ queue' \in Frames /\ resets' = resets + 1 /\ mem' = EmptyMem
        /\ core' = [core EXCEPT !.phase = "Reset"] /\ UNCHANGED <<world, db, disk, insert, run>>
    BY DEF Reset
  <1>2. /\ TypeInv /\ WorldInv /\ FirstRunInv
    BY DEF Sound
  <1>3. /\ resets = 0 /\ db = EmptyDB /\ Idle /\ \A e \in world : e.creator # Self
    BY <1>1, <1>2 DEF FirstRunInv
  <1>4. IsCore(core') /\ core'.phase = "Reset"
    <2>1. core = [phase |-> core.phase, head |-> core.head]
      BY <1>2 DEF TypeInv, IsCore
    <2> QED
      BY <2>1, <1>1 DEF IsCore
  <1>5. Creators' = Creators /\ Config' = Config /\ crashes' = 0 /\ resets' # 0
    BY <1>1, <1>3, SameRun
  <1>6. TypeInv'
    <2>1. IsMem(mem)'
      BY <1>1, <1>5 DEF IsMem, EmptyMem
    <2>2. IsCore(core)'
      BY <1>4 DEF IsCore
    <2>3. Idle'
      BY <1>1, <1>3 DEF Idle
    <2>4. ~Config'.maintenance
      BY <1>1, <1>2, <1>5 DEF TypeInv
    <2>5. /\ conf' = conf /\ options' = options /\ crashes' = crashes /\ forgot' = forgot
          /\ resets' \in Nat
      BY <1>1, <1>2, <1>3, SameRun
    <2> QED
      BY <2>1, <2>2, <2>3, <2>4, <2>5, <1>2 DEF TypeInv
  <1>7. WorldInv'
    BY <1>1, <1>2, WorldSame
  <1>8. Written' = {} /\ Idle' /\ mem' = EmptyMem'
    BY <1>1, <1>3, <1>5 DEF Written, EmptyDB, Idle, EmptyMem
  <1>9. PhaseOK({})' /\ OwnOK({})'
    BY <1>1, <1>3, <1>4, <1>8 DEF PhaseOK, OwnOK
  <1>10. FirstRunInv'
    BY <1>1, <1>3, <1>4 DEF FirstRunInv
  <1>11. queue' \subseteq world' /\ \A e, x \in queue' : e.creator = x.creator => e = x
    <2>1. PICK past \in SUBSET world :
              queue' = {x \in past : \A y \in past : y.creator = x.creator => y.index <= x.index}
      BY <1>1, Zenon DEF Frames
    <2>2. ASSUME NEW e \in queue', NEW x \in queue', e.creator = x.creator PROVE e = x
      <3>1. e \in world /\ x \in world /\ e.index <= x.index /\ x.index <= e.index
        BY <2>1, <2>2
      <3>2. e.index \in Int /\ x.index \in Int
        BY <3>1, <1>2, ConfTypes DEF WorldInv, IsEvent
      <3>3. e.index = x.index
        BY <3>1, <3>2
      <3> QED
        BY <3>1, <3>3, <2>2, <1>2, <1>3 DEF WorldInv, NoTwo
    <2> QED
      BY <2>1, <2>2, <1>1
  <1>12. Fresh'
    BY <1>5, <1>6, <1>7, <1>8, <1>9, <1>10, <1>11 DEF Fresh
  <1>13. Fresh' => Sound'
    BY FreshIsSound, PTL
  <1> QED
    BY <1>12, <1>13

\* A step within a run that leaves the counters alone.
LEMMA StepSound ==
    ASSUME Sound, Next, ~Crash, ~Reset
    PROVE  Sound'
  <1>1. ASSUME NEW c \in Creators \ {Self}, PeerEvent(c) PROVE Sound'
    BY <1>1, PeerEventSound
  <1> QED
    BY <1>1, NextAncestorSound, WalkEndsSound, WalkSound, WalkRefusedSound, InsertedSound,
       ReceiveSound, SelfEventSound, SendSound, SyncSound, ReplaySound, ReplayFailsSound,
       BootstrappedSound, InsertFrameEventSound, ForwardedSound, NoAnchorSound
    DEF Next, Insertion, Gossip, Restart, CatchUp

\* A step of nothing.
LEMMA StutterSound ==
    ASSUME Sound, UNCHANGED <<world, mem, db, disk, insert, queue, core, resets, run>>
    PROVE  Sound'
  <1>1. PICK B : B = Base
    OBVIOUS
  <1>2. TypeInv /\ WorldInv /\ MemInv(B)
    BY <1>1 DEF Sound
  <1>3. /\ Known' = Known /\ Underway' = Underway /\ Written' = Written
        /\ (Idle' <=> Idle) /\ (Rolled' <=> Rolled)
        /\ \A x : Has(x)' <=> Has(x)
    BY SameStore DEF Known, Underway, Written, Idle
  <1>4. Base' = B
    BY <1>1, <1>3, SameBase
  <1>5. TypeInv' /\ WorldInv'
    BY <1>2, <1>3, TypesAfter, WorldSame DEF TypeInv
  <1>6. InsertOK(B)' /\ ListOK(B)'
    BY <1>2, <1>3 DEF MemInv, InsertOK, ListOK
  <1>7. /\ Persistent' = Persistent /\ Creators' = Creators /\ forgot' = forgot
        /\ EmptyMem' = EmptyMem
    <2>1. Creators' = Creators
      BY SameRun
    <2> QED
      BY <2>1, SameRun DEF EmptyMem
  <1>8. PhaseOK(B)' /\ OwnOK(B)'
    BY <1>2, <1>3, <1>7 DEF MemInv, PhaseOK, OwnOK
  <1>9. crashes = 0 => FirstRunInv'
    BY <1>3, <1>7 DEF Sound, FirstRunInv
  <1>10. resets = 0 /\ core'.phase = "Bootstrap" =>
             IF Idle' THEN Len(mem'.inserted) = mem.topo ELSE Len(mem'.inserted) + 1 = mem.topo
    BY <1>3 DEF Sound, ReplayInv
  <1> QED
    BY <1>1, <1>4, <1>5, <1>6, <1>8, <1>9, <1>10, QuietSound

\* The invariant, for every step.
LEMMA InvStep == ASSUME Inv, [Next]_vars PROVE Inv'
  <1>1. CASE UNCHANGED vars
    <2>1. /\ UNCHANGED <<world, mem, db, disk, insert, queue, core, resets, run>>
          /\ conf' = conf /\ options' = options /\ crashes' = crashes /\ resets' = resets
      BY <1>1 DEF vars, run
    <2>2. Sound => Sound'
      BY <2>1, StutterSound
    <2> QED
      BY <2>1, <2>2 DEF Inv, Unmixed
  <1>2. CASE Crash
    <2>1. /\ conf \in Confs /\ crashes' = crashes + 1 /\ crashes \in Nat /\ options' \in conf.options
          /\ conf' = conf /\ resets' = resets /\ resets \in Nat
      BY <1>2 DEF Inv, Crash
    <2>2. ASSUME Unmixed' PROVE Sound'
      <3>1. resets = 0
        BY <2>1, <2>2 DEF Unmixed
      <3>2. Sound
        BY <3>1 DEF Inv, Unmixed
      <3> QED
        BY <3>1, <3>2, <1>2, CrashSound
    <2> QED
      BY <2>1, <2>2 DEF Inv
  <1>3. CASE Reset
    <2>1. /\ conf' = conf /\ options' = options /\ crashes' = crashes /\ resets' = resets + 1
          /\ resets \in Nat
      BY <1>3 DEF Inv, Reset, run
    <2>2. ASSUME Unmixed' PROVE Sound'
      <3>1. crashes = 0
        BY <2>1, <2>2 DEF Unmixed
      <3>2. Sound
        BY <3>1 DEF Inv, Unmixed
      <3> QED
        BY <3>1, <3>2, <1>3, ResetSound
    <2> QED
      BY <2>1, <2>2 DEF Inv
  <1>4. CASE Next /\ ~Crash /\ ~Reset
    <2>1. UNCHANGED <<resets, run>>
      BY <1>4, Zenon
      DEF Next, Insertion, Gossip, Restart, CatchUp, NextAncestor, WalkEnds, Walk,
          WalkRefused, Inserted, PeerEvent, Receive, SelfEvent, Send, Sync, Replay, ReplayFails,
          Bootstrapped, InsertFrameEvent, Forwarded, NoAnchor
    <2>2. conf' = conf /\ options' = options /\ crashes' = crashes /\ resets' = resets
      BY <2>1 DEF run
    <2>3. Unmixed' => Sound'
      BY <2>2, <1>4, StepSound DEF Inv, Unmixed
    <2> QED
      BY <2>2, <2>3 DEF Inv
  <1> QED
    BY <1>1, <1>2, <1>3, <1>4

\* Inv is an invariant of the store.
THEOREM Invariance == Spec => []Inv
  <1>1. Init => Inv
    <2> SUFFICES ASSUME Init PROVE Inv
      OBVIOUS
    <2>1. Sound
      BY InitSound
    <2> QED
      BY <2>1 DEF Inv, Sound, TypeInv
  <1>2. Inv /\ [Next]_vars => Inv'
    BY InvStep
  <1> QED
    BY <1>1, <1>2, PTL DEF Spec

-----------------------------------------------------------------------------
(***************************************************************************)
(* The properties.                                                         *)
(***************************************************************************)

\* Every event that the store counts as known went through InsertEvent to its
\* end, as long as no window has rolled (StoredIsInserted).
THEOREM StoredInserted == Spec => []StoredIsInserted
  <1>1. Inv => StoredIsInserted
    <2> SUFFICES ASSUME Inv, Idle, ~Rolled, Unmixed, NEW c \in Creators, LastEventFrom(c) # None
                 PROVE  LastEventFrom(c) \in Known
      BY DEF StoredIsInserted
    <2>1. Sound /\ WindowsOK(Base)
      BY DEF Inv, Sound, MemInv
    <2>2. LastEventFrom(c) \in Base
      BY <2>1, LastOfWindow
    <2>3. Base = Known \cup Underway
      BY <2>1 DEF Sound, MemInv, ListOK
    <2>4. Underway = {}
      BY DEF Underway, Idle, NoInsert
    <2> QED
      BY <2>2, <2>3, <2>4
  <1> QED
    BY <1>1, Invariance, PTL

\* Without a fast-forward Bootstrap fails only when a window has rolled, and
\* when it is done every event of the database is back (BootstrapComplete).
THEOREM BootstrapIsComplete == Spec => []BootstrapComplete
  <1>1. Inv => BootstrapComplete
    <2> SUFFICES ASSUME Inv, resets = 0
                 PROVE  /\ core.phase = "Failed" => Rolled
                        /\ core.phase \in {"Babbling", "CatchingUp", "Suspended"} /\ Persistent
                              /\ Idle /\ ~Rolled => Known = DOMAIN db.event
      BY DEF BootstrapComplete
    <2>1. Sound
      BY DEF Inv, Unmixed
    <2>2. core.phase = "Failed" => Rolled
      BY <2>1 DEF Sound, MemInv, PhaseOK
    <2>3. ASSUME core.phase \in {"Babbling", "CatchingUp", "Suspended"}, Persistent, Idle, ~Rolled
          PROVE  Known = DOMAIN db.event
      <3>1. Base = Written
        BY <2>1, <2>3 DEF Sound, MemInv, PhaseOK
      <3>2. Base = Known \cup Underway
        BY <2>1, <2>3 DEF Sound, MemInv, ListOK
      <3>3. Underway = {}
        BY <2>3 DEF Underway, Idle, NoInsert
      <3> QED
        BY <3>1, <3>2, <3>3 DEF Written
    <2> QED
      BY <2>2, <2>3
  <1> QED
    BY <1>1, Invariance, PTL

\* A database has no two events of a creator with the same index.
LEMMA WrittenNoTwo ==
    ASSUME Sound, Persistent
    PROVE  NoTwo(Written)
  <1>1. CASE resets = 0
    <2>1. LogInv(db)
      BY <1>1 DEF Sound, ReplayInv
    <2>2. \A e \in Written : db.participant[<<e.creator, e.index>>] = e
      BY <2>1, Zenon DEF LogInv, Written
    <2> QED
      BY <2>2, Zenon DEF NoTwo
  <1>2. CASE resets # 0
    <2>1. core.phase \notin {"Bootstrap", "Failed"}
      BY <1>2 DEF Sound, FirstRunInv
    <2>2. Base = Written /\ NoTwo(Base)
      BY <2>1 DEF Sound, MemInv, PhaseOK, EventsOK
    <2> QED
      BY <2>2
  <1> QED
    BY <1>1, <1>2

\* A node that restarts never creates a second event on the same self-parent,
\* if each run loads what the one before it had (NoFork).
THEOREM NoForks == Spec => []NoFork
  <1>1. Inv => NoFork
    <2> SUFFICES ASSUME Inv, ~forgot, Unmixed, NEW e \in world \cup Known, NEW x \in world \cup Known,
                        e.creator = x.creator, e.index = x.index
                 PROVE  e = x
      BY DEF NoFork
    <2>1. Sound /\ WorldInv /\ MemInv(Base)
      BY DEF Inv, Sound
    <2>2. Known \subseteq Base
      BY <2>1 DEF MemInv, ListOK, Known
    <2>3. CASE e.creator # Self
      <3>1. e \in world /\ x \in world
        BY <2>1, <2>2, <2>3 DEF MemInv, EventsOK, FromWorld
      <3> QED
        BY <3>1, <2>1, <2>3 DEF WorldInv, NoTwo
    <2>4. CASE e.creator = Self /\ Persistent
      <3>1. Base \subseteq Written
        BY <2>1, <2>4 DEF MemInv, EntriesOK
      <3>2. \A y \in world : y.creator = Self => y \in Written
        BY <2>1, <2>4 DEF MemInv, OwnOK
      <3>3. e \in Written /\ x \in Written
        BY <3>1, <3>2, <2>2, <2>4, Zenon
      <3> QED
        BY <3>3, <2>1, <2>4, WrittenNoTwo, Zenon DEF NoTwo
    <2>5. CASE e.creator = Self /\ ~Persistent
      <3>1. \A y \in world : y.creator = Self => y \in Base
        BY <2>1, <2>5 DEF MemInv, OwnOK
      <3>2. e \in Base /\ x \in Base
        BY <3>1, <2>2, <2>5, Zenon
      <3> QED
        BY <3>2, <2>1 DEF MemInv, EventsOK, NoTwo
    <2> QED
      BY <2>3, <2>4, <2>5
  <1> QED
    BY <1>1, Invariance, PTL

\* All the events of c from skip + 1 to last, in order.
IsDiff(answer, c, skip, last) ==
    /\ Len(answer) = last - skip
    /\ \A i \in 1..Len(answer) : answer[i].creator = c /\ answer[i].index = skip + i

\* What the window answers: its events above skip.
LEMMA WindowAnswer ==
    ASSUME NEW B, NEW c, NEW w, WindowOK(w, c, B), NEW skip \in Int,
           skip <= w.lastIndex, skip + 1 >= Oldest(w),
           NEW answer, answer = SubSeq(w.items, skip - Oldest(w) + 2, Len(w.items))
    PROVE  IsDiff(answer, c, skip, w.lastIndex)
  <1>1. PICK s \in Seq(B) : s = w.items
    BY DEF WindowOK
  <1>2. PICK l \in Int : l = w.lastIndex
    BY DEF WindowOK
  <1>3. PICK o \in Int : o = Oldest(w)
    BY WindowInt
  <1>4. PICK n \in Nat : n = Len(s)
    OBVIOUS
  <1>5. o = l - n + 1 /\ skip <= l /\ skip + 1 >= o
    BY <1>1, <1>2, <1>3, <1>4 DEF Oldest
  <1>6. PICK k \in 1 .. n + 1 : k = skip - o + 2
    <2>1. skip - o + 2 \in 1 .. n + 1
      BY <1>5
    <2> QED
      BY <2>1
  <1>7. answer = SubSeq(s, k, n)
    BY <1>1, <1>3, <1>4, <1>6
  <1>8. Len(answer) = n - k + 1 /\ \A i \in 1 .. n - k + 1 : answer[i] = s[k + i - 1]
    <2>1. k \in Int /\ n \in Int /\ k .. n \subseteq 1 .. Len(s)
      BY <1>4, <1>6
    <2>2. \A i \in k .. n : s[i] \in B
      BY <2>1
    <2>3. /\ Len(SubSeq(s, k, n)) = IF k <= n THEN n - k + 1 ELSE 0
          /\ \A i \in 1 .. n - k + 1 : SubSeq(s, k, n)[i] = s[k + i - 1]
      BY <2>1
    <2>4. n - k + 1 = IF k <= n THEN n - k + 1 ELSE 0
      BY <1>6
    <2> QED
      BY <2>3, <2>4, <1>7, Zenon
  <1>9. \A j \in 1 .. n : s[j].creator = c /\ s[j].index = o + j - 1
    BY <1>1, <1>3, <1>4 DEF WindowOK
  <1>10. n - k + 1 = l - skip
    BY <1>5, <1>6
  <1>11. ASSUME NEW i \in 1 .. n - k + 1
         PROVE  answer[i].creator = c /\ answer[i].index = skip + i
    <2>1. PICK j \in Int : j = k + i - 1
      OBVIOUS
    <2>2. j \in 1 .. n /\ o + j - 1 = skip + i
      BY <2>1, <1>6
    <2>3. answer[i] = s[j]
      BY <2>1, <1>8, Zenon
    <2> QED
      BY <2>2, <2>3, <1>9, Zenon
  <1> QED
    BY <1>2, <1>8, <1>10, <1>11, Zenon DEF IsDiff

\* The keys of a creator in the database are those up to the last event.
LEMMA KeysOf ==
    ASSUME Sound, core.phase = "Babbling", Persistent, resets = 0, NEW c \in Creators
    PROVE  /\ \A i \in Int : <<c, i>> \in DOMAIN db.participant <=> i \in 0 .. mem.window[c].lastIndex
           /\ \A i \in 0 .. mem.window[c].lastIndex :
                 /\ db.participant[<<c, i>>].creator = c /\ db.participant[<<c, i>>].index = i
           /\ mem.window[c].lastIndex \in Int /\ mem.window[c].lastIndex <= MaxIndex
           /\ MaxIndex \in Nat
  <1>1. Base = Written /\ LogInv(db)
    BY BabblingLog
  <1>2. PICK l \in Int : l = mem.window[c].lastIndex
    BY Zenon DEF Sound, MemInv, WindowsOK, WindowOK
  <1>3. MaxIndex \in Nat
    BY ConfTypes DEF Sound
  <1>4. \A i \in 0 .. l : \E e \in Written : e.creator = c /\ e.index = i
    BY <1>1, <1>2 DEF Sound, ReplayInv
  <1>5. \A e \in Written : /\ e.index \in 0 .. MaxIndex
                           /\ e.creator = c => e.index <= l
    BY <1>1, <1>2 DEF Sound, MemInv, EventsOK, IsEvent
  <1>6. /\ DOMAIN db.participant = {<<e.creator, e.index>> : e \in Written}
        /\ \A e \in Written : db.participant[<<e.creator, e.index>>] = e
    BY <1>1 DEF LogInv, Written
  <1>7. ASSUME NEW i \in Int, <<c, i>> \in DOMAIN db.participant PROVE i \in 0 .. l
    <2>1. PICK e \in Written : <<c, i>> = <<e.creator, e.index>>
      BY <1>6, <1>7
    <2>2. e.creator = c /\ e.index = i
      BY <2>1
    <2> QED
      BY <2>2, <1>3, <1>5
  <1>8. ASSUME NEW i \in 0 .. l
        PROVE  /\ <<c, i>> \in DOMAIN db.participant
               /\ db.participant[<<c, i>>].creator = c /\ db.participant[<<c, i>>].index = i
    <2>1. PICK e \in Written : e.creator = c /\ e.index = i
      BY <1>4
    <2>2. <<c, i>> = <<e.creator, e.index>>
      BY <2>1
    <2> QED
      BY <2>1, <2>2, <1>6, Zenon
  <1>9. l <= MaxIndex
    <2>1. CASE l \in 0 .. l
      <3>1. PICK e \in Written : e.creator = c /\ e.index = l
        BY <2>1, <1>4
      <3> QED
        BY <3>1, <1>3, <1>5
    <2>2. CASE l \notin 0 .. l
      BY <2>2, <1>3
    <2> QED
      BY <2>1, <2>2
  <1>10. \A i \in 0 .. l : i \in Int
    OBVIOUS
  <1> QED
    BY <1>2, <1>3, <1>7, <1>8, <1>9, <1>10

\* What the database answers: one key after the other, up to the last.
LEMMA DatabaseAnswer ==
    ASSUME Sound, core.phase = "Babbling", Persistent, resets = 0, NEW c \in Creators,
           NEW skip \in Int, skip >= -1, skip < mem.window[c].lastIndex,
           NEW answer, answer = ParticipantEvents(c, skip), skip + 1 < Oldest(mem.window[c])
    PROVE  IsDiff(answer, c, skip, mem.window[c].lastIndex)
  <1> DEFINE Stored(i) == <<c, i>> \in DOMAIN db.participant
             Counts(n) == /\ \A i \in 1..n : Stored(skip + i)
                          /\ ~Stored(skip + n + 1)
             Count == CHOOSE n \in 0..MaxIndex + 1 : Counts(n)
  <1>1. PICK l \in Int : l = mem.window[c].lastIndex
    BY KeysOf
  <1>2. PICK o \in Int : o = Oldest(mem.window[c])
    BY WindowInt DEF Sound, MemInv, WindowsOK
  <1>3. skip < l /\ skip + 1 < o
    BY <1>1, <1>2
  <1>4. answer = [i \in 1..Count |-> db.participant[<<c, skip + i>>]]
    <2>1. ~(skip > l) /\ ~(skip <= l /\ skip + 1 >= o)
      BY <1>3
    <2> QED
      BY <2>1, <1>1, <1>2, Zenon DEF ParticipantEvents
  <1>5. /\ \A i \in Int : Stored(i) <=> i \in 0 .. l
        /\ l <= MaxIndex /\ MaxIndex \in Nat
    BY <1>1, KeysOf
  <1> HIDE DEF Stored
  <1>6. l - skip \in 0..MaxIndex + 1 /\ Counts(l - skip)
    BY <1>3, <1>5
  <1>7. ASSUME NEW n \in 0..MaxIndex + 1, Counts(n) PROVE n = l - skip
    <2>1. n \in Nat
      BY <1>5
    <2>2. ~(skip + n + 1 \in 0 .. l)
      BY <2>1, <1>5, <1>7
    <2>3. n # 0 => skip + n \in 0 .. l
      BY <2>1, <1>5, <1>7
    <2> QED
      BY <2>1, <2>2, <2>3, <1>3
  <1> HIDE DEF Counts
  <1>8. Count = l - skip
    BY <1>6, <1>7
  <1> HIDE DEF Count
  <1>9. PICK n \in Nat : n = Count /\ n = l - skip
    BY <1>3, <1>8
  <1>10. Len(answer) = n /\ \A i \in 1 .. n : answer[i] = db.participant[<<c, skip + i>>]
    BY <1>4, <1>9
  <1>11. \A i \in 0 .. l : db.participant[<<c, i>>].creator = c /\ db.participant[<<c, i>>].index = i
    BY <1>1, KeysOf
  <1>12. \A i \in 1 .. n : skip + i \in 0 .. l
    BY <1>3, <1>9
  <1>13. ASSUME NEW i \in 1 .. n PROVE answer[i].creator = c /\ answer[i].index = skip + i
    <2>1. PICK k \in 0 .. l : k = skip + i
      BY <1>12
    <2>2. answer[i] = db.participant[<<c, k>>]
      BY <2>1, <1>10
    <2> QED
      BY <2>1, <2>2, <1>11
  <1> QED
    BY <1>1, <1>9, <1>10, <1>13 DEF IsDiff

\* The events that a peer is sent are all those of a creator above the index it
\* knows, in order, from the window or from the database (DiffComplete).
THEOREM DiffIsComplete == Spec => []DiffComplete
  <1>1. Inv => DiffComplete
    <2> SUFFICES ASSUME Inv, Idle, core.phase = "Babbling", resets = 0, NEW c \in Creators,
                        NEW skip \in -1..MaxIndex, ~TooLate(c, skip)
                 PROVE  /\ Len(ParticipantEvents(c, skip)) =
                               IF mem.window[c].lastIndex > skip
                                 THEN mem.window[c].lastIndex - skip ELSE 0
                        /\ \A i \in 1..Len(ParticipantEvents(c, skip)) :
                              /\ ParticipantEvents(c, skip)[i].creator = c
                              /\ ParticipantEvents(c, skip)[i].index = skip + i
      BY DEF DiffComplete
    <2>0. PICK answer : answer = ParticipantEvents(c, skip)
      OBVIOUS
    <2>1. Sound /\ WindowOK(mem.window[c], c, Base)
      BY DEF Inv, Unmixed, Sound, MemInv, WindowsOK
    <2>2. PICK l \in Int : l = mem.window[c].lastIndex
      BY <2>1 DEF WindowOK
    <2>3. PICK o \in Int : o = Oldest(mem.window[c])
      BY <2>1, WindowInt
    <2>4. skip \in Int /\ skip >= -1
      BY <2>1, ConfTypes DEF Sound
    <2>5. o <= l + 1
      <3>1. PICK n \in Nat : n = Len(mem.window[c].items)
        BY <2>1 DEF WindowOK
      <3>2. o = l - n + 1
        BY <3>1, <2>2, <2>3 DEF Oldest
      <3> QED
        BY <3>2
    <2>6. CASE skip > l
      <3>1. answer = <<>>
        BY <2>0, <2>2, <2>6 DEF ParticipantEvents
      <3>2. Len(answer) = 0 /\ 1 .. Len(answer) = {} /\ ~(l > skip)
        BY <3>1, <2>4, <2>6
      <3> QED
        BY <3>2, <2>0, <2>2
    <2>7. CASE skip <= l /\ skip + 1 >= o
      <3>1. ~(skip > l)
        BY <2>4, <2>7
      <3>2. PICK w : w = mem.window[c]
        OBVIOUS
      <3>3. answer = SubSeq(w.items, skip - Oldest(w) + 2, Len(w.items))
        BY <3>1, <3>2, <2>0, <2>2, <2>3, <2>7, Zenon DEF ParticipantEvents
      <3>4. IsDiff(answer, c, skip, w.lastIndex)
        <4>1. WindowOK(w, c, Base) /\ skip <= w.lastIndex /\ skip + 1 >= Oldest(w)
          BY <3>2, <2>1, <2>2, <2>3, <2>7
        <4> QED
          BY <4>1, <3>3, <2>4, WindowAnswer, Zenon
      <3>5. l - skip = IF l > skip THEN l - skip ELSE 0
        BY <2>4, <2>7
      <3> QED
        BY <3>2, <3>4, <3>5, <2>0, <2>2 DEF IsDiff
    <2>8. CASE skip < l /\ skip + 1 < o
      <3>1. Persistent
        BY <2>3, <2>8 DEF TooLate
      <3>2. IsDiff(answer, c, skip, mem.window[c].lastIndex)
        <4>1. skip < mem.window[c].lastIndex /\ skip + 1 < Oldest(mem.window[c])
          BY <2>2, <2>3, <2>8
        <4> QED
          BY <4>1, <3>1, <2>0, <2>1, <2>4, DatabaseAnswer
      <3>3. l - skip = IF l > skip THEN l - skip ELSE 0
        BY <2>4, <2>8
      <3> QED
        BY <3>2, <3>3, <2>0, <2>2 DEF IsDiff
    <2> QED
      BY <2>4, <2>5, <2>6, <2>7, <2>8
  <1> QED
    BY <1>1, Invariance, PTL
=============================================================================
