------------------------------- MODULE Gossip -------------------------------
(***************************************************************************)
(* The pull-push gossip of a node and what it does to the core             *)
(* (src/node/core.go, src/node/node.go, src/node/node_rpc.go): heads, the  *)
(* transaction pool, self-events, and the exchange of events between nodes *)
(* whose goroutines take the core lock for one step at a time.             *)
(*                                                                         *)
(* An event is its creator, its index, its other-parent and its            *)
(* transactions; its self-parent is the creator's event before it. The     *)
(* consensus methods that run after an insertion matter here only in that  *)
(* they may leave work to do, and in that they may fail.                   *)
(***************************************************************************)
EXTENDS Integers, Sequences, FiniteSets, SequencesExt, FiniteSetsExt

CONSTANT Confs          \* the networks considered

ASSUME ConfsAssumption == \A c \in Confs : IsFiniteSet(c.nodes) /\ c.syncLimit \in Nat

VARIABLES conf,         \* one of them; it never changes
          core,         \* each node's core
          routine,      \* each gossip goroutine
          submitted,    \* transactions given to a node so far
          faults,       \* failures of the consensus methods so far
          refused       \* a sync failed although consensus did not

vars == <<conf, core, routine, submitted, faults, refused>>

Nodes == conf.nodes
Txs == conf.txs                 \* transactions
Routines == 1..conf.routines    \* gossip goroutines at work at a time
SyncLimit == conf.syncLimit     \* conf.SyncLimit
MaxIndex == conf.maxIndex       \* bound: events with no transactions stop here
MaxFaults == conf.maxFaults     \* bound: how often the consensus methods may fail
MaxStored == conf.maxStored     \* bound: no pull when the stores hold that many

Absent == -2    \* no entry in heads
NoEvent == -1   \* a nil entry in heads, an index before the first event

Idle == [step |-> "idle"]

\* Head and Seq are one: the head is the event of index seq. heads[m] is the
\* index of an event of m.
NewCore ==
    [store |-> <<>>, seq |-> NoEvent, heads |-> [m \in Nodes |-> Absent],
     pool |-> <<>>]

Init ==
    /\ conf \in Confs
    /\ core = [n \in Nodes |-> NewCore]
    /\ routine = [g \in Routines |-> Idle]
    /\ submitted = {}
    /\ faults = 0
    /\ refused = FALSE

-----------------------------------------------------------------------------
(***************************************************************************)
(* The store: events in topological order.                                 *)
(***************************************************************************)

\* LastEventFrom, and knownEvents.
LastFrom(c, m) == Max({NoEvent} \cup {e.index : e \in {x \in ToSet(c.store) : x.creator = m}})
Known(c) == [m \in Nodes |-> LastFrom(c, m)]

\* The events of c that another does not know, in topological order.
eventDiff(c, known) ==
    LET unknown[k \in 0..Len(c.store)] ==
            IF k = 0 THEN <<>>
            ELSE IF c.store[k].index > known[c.store[k].creator]
            THEN Append(unknown[k - 1], c.store[k]) ELSE unknown[k - 1]
    IN  unknown[Len(c.store)]

\* At most SyncLimit of them are sent.
LimitMutant(events) ==
    SubSeq(events, Max({1, Len(events) - SyncLimit + 1}), Len(events))

Limit(events) == SubSeq(events, 1, Min({SyncLimit, Len(events)}))

\* ReadWireInfo and checkOtherParent: the parents are found by their indexes.
ParentsKnown(c, e) ==
    /\ e.index - 1 <= LastFrom(c, e.creator)
    /\ e.other.index <= LastFrom(c, e.other.creator)

checkSelfParentMutant(c, e) == e.index - 1 <= LastFrom(c, e.creator)

\* checkSelfParent: the self-parent is the last event known of its creator.
checkSelfParent(c, e) == e.index - 1 = LastFrom(c, e.creator)

\* insertEventAndRunConsensus. When the consensus methods fail, the event is in
\* the store and the head is not moved.
insertEvent(n, c, e, fails) ==
    CASE ~ParentsKnown(c, e) -> [status |-> "refused", core |-> c]
      [] ParentsKnown(c, e) /\ ~checkSelfParent(c, e) -> [status |-> "normal", core |-> c]
      [] OTHER ->
           [status |-> IF fails THEN "failed" ELSE "ok",
            core |-> [c EXCEPT !.store = Append(@, e),
                               !.seq = IF e.creator = n /\ ~fails THEN e.index ELSE @]]

-----------------------------------------------------------------------------
(***************************************************************************)
(* Self-events.                                                            *)
(***************************************************************************)

busyMutant(c, work) == work

\* work: loaded events are undetermined, block signatures are to be sent, or
\* the target round is ahead. Consensus decides that, so it may be so or not.
busy(c, work) == Len(c.pool) > 0 \/ work

\* addSelfEvent, with the other-parent of creator m and index i. Past the bound
\* it is too early to insert a self-event. The pool is emptied by what went
\* into the event, once that is inserted.
addSelfEventMutant(n, c, m, i, fails) ==
    LET e == [creator |-> n, index |-> c.seq + 1,
              other |-> [creator |-> m, index |-> i], txs |-> c.pool]
        r == insertEvent(n, c, e, fails)
    IN  IF c.seq >= MaxIndex /\ c.pool = <<>> THEN [status |-> "ok", core |-> c]
        ELSE [r EXCEPT !.core.pool = <<>>]

addSelfEvent(n, c, m, i, fails) ==
    LET e == [creator |-> n, index |-> c.seq + 1,
              other |-> [creator |-> m, index |-> i], txs |-> c.pool]
        r == insertEvent(n, c, e, fails)
    IN  IF c.seq >= MaxIndex /\ c.pool = <<>> THEN [status |-> "ok", core |-> c]
        ELSE [r EXCEPT !.core.pool = IF r.status = "ok" THEN <<>> ELSE @]

\* The nodes with an entry in heads; Go visits them in any order.
Entries(c) == {m \in Nodes : c.heads[m] # Absent}

\* recordHeads: a self-event for each entry, which is then deleted, up to the
\* first error. The consensus methods fail on event number f.
recordHead(n, c, m, fails) ==
    LET s == addSelfEvent(n, c, m, c.heads[m], fails)
    IN  IF s.status = "ok" THEN [s EXCEPT !.core.heads[m] = Absent] ELSE s

recordHeads(n, c, order, f) ==
    LET after[k \in 0..Len(order)] ==
            IF k = 0 THEN [status |-> "ok", core |-> c]
            ELSE IF after[k - 1].status # "ok" THEN after[k - 1]
            ELSE recordHead(n, after[k - 1].core, order[k], f = k)
    IN  after[Len(order)]

-----------------------------------------------------------------------------
(***************************************************************************)
(* sync.                                                                   *)
(***************************************************************************)

\* An event that is newer than its creator's head deletes that head.
dropHead(c, e) ==
    IF c.heads[e.creator] >= 0 /\ e.index > c.heads[e.creator]
    THEN [c EXCEPT !.heads[e.creator] = Absent] ELSE c

\* otherHead: the last event of the sender that was new.
otherHead(from, e, head) == IF e.creator = from THEN e.index ELSE head

\* An event is inserted; the normal error, that it is there already, is skipped.
insertOne(n, r, from, e, fails) ==
    LET s == insertEvent(n, r.core, e, fails)
    IN  CASE s.status = "ok" ->
               [status |-> "ok", core |-> dropHead(s.core, e),
                head |-> otherHead(from, e, r.head)]
          [] s.status = "normal" -> r
          [] OTHER -> [status |-> s.status, core |-> s.core, head |-> r.head]

\* The events are inserted one by one up to the first error.
insertAll(n, c, from, events, f) ==
    LET after[k \in 0..Len(events)] ==
            IF k = 0 THEN [status |-> "ok", core |-> c, head |-> NoEvent]
            ELSE IF after[k - 1].status # "ok" THEN after[k - 1]
            ELSE insertOne(n, after[k - 1], from, events[k], f = k)
    IN  after[Len(events)]

\* Do not overwrite a head by an older or an empty one.
setHead(c, from, head) ==
    IF c.heads[from] < 0 \/ head > c.heads[from]
    THEN [c EXCEPT !.heads[from] = head] ELSE c

\* sync: f and h say on which insertion the consensus methods fail (0: never).
sync(n, c, from, events, f, h, work, order) ==
    LET r == insertAll(n, c, from, events, f)
        d == setHead(r.core, from, r.head)
    IN  IF r.status # "ok" THEN [status |-> r.status, core |-> r.core]
        ELSE IF busy(d, work) \/ d.seq < 0 THEN recordHeads(n, d, order, h)
        ELSE [status |-> "ok", core |-> d]

Step(g, r) == routine' = [routine EXCEPT ![g] = r]

Orders(S) == {o \in [1..Cardinality(S) -> S] : IsInjective(o)}

\* node.sync: node n, under its core lock, takes in the events of a message.
\* The heads it may have to record are the ones it has and the sender's.
\* Goroutine g goes on to next unless there was an error.
nodeSync(g, n, from, events, next) ==
    \E f \in 0..(IF faults < MaxFaults THEN Len(events) ELSE 0),
       h \in 0..(IF faults < MaxFaults THEN Cardinality(Nodes) ELSE 0),
       work \in BOOLEAN,
       order \in Orders(Entries(core[n]) \cup {from}) \cup Orders(Entries(core[n])) :
        LET i == insertAll(n, core[n], from, events, f)
            r == sync(n, core[n], from, events, f, h, work, order)
        IN  /\ ToSet(order) = Entries(setHead(i.core, from, i.head))
            /\ r.status = "failed" <=> (f # 0 \/ h # 0)
            /\ core' = [core EXCEPT ![n] = r.core]
            /\ faults' = IF r.status = "failed" THEN faults + 1 ELSE faults
            /\ refused' = (refused \/ r.status = "refused")
            /\ Step(g, IF r.status \in {"ok", "normal"} THEN next ELSE Idle)

-----------------------------------------------------------------------------
(***************************************************************************)
(* The steps of a gossip goroutine g, and of the peer that answers it.     *)
(***************************************************************************)

\* addTransaction.
Submit(n, t) ==
    /\ t \notin submitted
    /\ submitted' = submitted \cup {t}
    /\ core' = [core EXCEPT ![n].pool = Append(@, t)]
    /\ UNCHANGED <<conf, routine, faults, refused>>

\* A goroutine is launched in any free slot: the first will do.
Free(g) == routine[g] = Idle /\ \A k \in Routines : k < g => routine[k] # Idle

\* pull: compute Known, send the request.
Pull(g, n, m) ==
    /\ Free(g)
    /\ n # m
    /\ MapThenSumSet(LAMBDA k : Len(core[k].store), Nodes) <= MaxStored
    /\ Step(g, [step |-> "requested", from |-> n, to |-> m, known |-> Known(core[n])])
    /\ UNCHANGED <<conf, core, submitted, faults, refused>>

\* processSyncRequest, first half: the diff.
AnswerDiff(g) ==
    /\ routine[g].step = "requested"
    /\ LET r == routine[g]
       IN  Step(g, [step |-> "answering", from |-> r.from, to |-> r.to,
                    events |-> Limit(eventDiff(core[r.to], r.known))])
    /\ UNCHANGED <<conf, core, submitted, faults, refused>>

\* processSyncRequest, second half: what the peer knows.
AnswerKnown(g) ==
    /\ routine[g].step = "answering"
    /\ LET r == routine[g]
       IN  Step(g, [step |-> "answered", from |-> r.from, to |-> r.to,
                    events |-> r.events, known |-> Known(core[r.to])])
    /\ UNCHANGED <<conf, core, submitted, faults, refused>>

\* pull: the response is inserted; push follows unless there was an error.
Receive(g) ==
    /\ routine[g].step = "answered"
    /\ LET r == routine[g]
           next == [step |-> "pulled", from |-> r.from, to |-> r.to, known |-> r.known]
       IN  nodeSync(g, r.from, r.to, r.events, next)
    /\ UNCHANGED <<conf, submitted>>

\* push: what the peer did not know when it answered, if anything.
Push(g) ==
    /\ routine[g].step = "pulled"
    /\ LET r == routine[g]
           diff == eventDiff(core[r.from], r.known)
       IN  Step(g, IF diff = <<>> THEN Idle
                   ELSE [step |-> "pushed", from |-> r.from, to |-> r.to,
                         events |-> Limit(diff)])
    /\ UNCHANGED <<conf, core, submitted, faults, refused>>

\* processEagerSyncRequest. The goroutine may have given up long before.
ReceivePush(g) ==
    /\ routine[g].step = "pushed"
    /\ LET r == routine[g]
       IN  nodeSync(g, r.to, r.from, r.events, Idle)
    /\ UNCHANGED <<conf, submitted>>

\* A connection fails, a request is lost or times out.
Fail(g) ==
    /\ routine[g] # Idle
    /\ Step(g, Idle)
    /\ UNCHANGED <<conf, core, submitted, faults, refused>>

Exchange(g) ==
    AnswerDiff(g) \/ AnswerKnown(g) \/ Receive(g) \/ Push(g) \/ ReceivePush(g) \/ Fail(g)

Next ==
    \/ \E n \in Nodes, t \in Txs : Submit(n, t)
    \/ \E g \in Routines : Exchange(g) \/ \E n, m \in Nodes : Pull(g, n, m)

\* A pull of n from m has just been completed.
Pulled(n, m) ==
    \E g \in Routines :
        routine[g].step = "pulled" /\ routine[g].from = n /\ routine[g].to = m

AllNodes == UNION {c.nodes : c \in Confs}
AllTxs == UNION {c.txs : c \in Confs}
AllRoutines == 1..Max({c.routines : c \in Confs})

\* The heartbeat goes on, the random choice of a peer reaches every peer, and
\* not every request fails: every node completes a pull from every other time
\* and again.  No exchange lasts for ever: requests have deadlines.
Fairness ==
    /\ \A g \in AllRoutines : []<>(g \in Routines => routine[g] = Idle)
    /\ \A n, m \in AllNodes : n # m => []<>({n, m} \subseteq Nodes => Pulled(n, m))

Spec == Init /\ [][Next]_vars /\ Fairness

-----------------------------------------------------------------------------
(***************************************************************************)
(* Properties.                                                             *)
(***************************************************************************)

\* Every event that is in some store.
Events == UNION {ToSet(core[n].store) : n \in Nodes}

\* The events of a message are always accepted: whatever other goroutines
\* inserted since the receiver said what it knows, and wherever SyncLimit cut
\* the list, each event finds its parents (sync, "unknownEvents are expected to
\* be in topological order").
SyncAccepted == ~refused

\* No creator has two events with one index, even if the insertion of a
\* self-event failed after it was stored, and a node that does not hold that
\* event as its head tries again (checkSelfParent, addSelfEvent).
NoFork ==
    \A d, e \in Events : d.creator = e.creator /\ d.index = e.index => d = e

\* A transaction given to a node is in the node's pool or in an event, and in
\* no two places of the hashgraph (addSelfEvent).
TxOnce ==
    \A t \in submitted :
        LET places == UNION {{<<e, k>> : k \in {j \in DOMAIN e.txs : e.txs[j] = t}} : e \in Events}
        IN  /\ Cardinality(places) <= 1
            /\ places = {} => \E n \in Nodes : t \in ToSet(core[n].pool)

\* A transaction given to a node reaches every node, however often requests
\* are lost and however small SyncLimit is, unless consensus fails.
TxSpreads ==
    \A t \in AllTxs, n \in AllNodes :
        t \in submitted ~>
            (n \notin Nodes \/ faults > 0 \/ \E e \in ToSet(core[n].store) : t \in ToSet(e.txs))
=============================================================================
