------------------------------ MODULE Transport ------------------------------
(***************************************************************************)
(* NetworkTransport: the goroutines of a node that call one target share a *)
(* pool of connections, and the transport of the target has a goroutine    *)
(* for each connection it accepted, which hands the requests to the node.  *)
(*                                                                         *)
(* A request is a byte for its type and a JSON value that ends in a        *)
(* newline.  The JSON decoder of the target stops at the end of the value; *)
(* it takes the newline with it if it has arrived.                         *)
(***************************************************************************)
EXTENDS Naturals, Sequences, SequencesExt

CONSTANTS
    Callers,    \* goroutines that make RPCs
    Calls,      \* number of RPCs of a caller
    MaxPool,    \* NetworkTransport.maxPool
    Splits,     \* the newline may arrive after the value
    Shutdowns   \* whether the transports may be closed

ASSUME TransportAssumption ==
    /\ Calls \in Nat /\ MaxPool \in Nat
    /\ Splits \in BOOLEAN /\ Shutdowns \in BOOLEAN

VARIABLES
    caller,     \* caller[c]: [pc, made, conn]
    pool,       \* connPool[target]
    link,       \* link[k]: the connection k, its two directions and its handler
    shutdown,   \* shutdown of the caller's transport, and of the target's
    mixed       \* some caller took a reply that was not its own

transportVars == <<caller, pool, link, shutdown, mixed>>

\* What caller c sends and should get an answer to.
Request(c) == <<c, caller[c].made>>
Newline == <<"newline">>
Type == <<"type">>

NewLink == [up |-> <<>>, down |-> <<>>, here |-> TRUE, there |-> TRUE,
            handler |-> "type", command |-> Newline]

TransportInit ==
    /\ caller = [c \in Callers |-> [pc |-> "idle", made |-> 0, conn |-> 0]]
    /\ pool = <<>>
    /\ link = <<>>
    /\ shutdown = [here |-> FALSE, there |-> FALSE]
    /\ mixed = FALSE

At(c, pc) == caller[c].pc = pc
Conn(c) == link[caller[c].conn]

\* netConn.Release.
Release(k) == link' = [link EXCEPT ![k] = [@ EXCEPT !.here = FALSE, !.down = <<>>]]
Return(c) == caller' = [caller EXCEPT ![c] = [@ EXCEPT !.pc = "idle", !.conn = 0]]

-----------------------------------------------------------------------------
(***************************************************************************)
(* genericRPC.                                                             *)
(***************************************************************************)

\* getPooledConn: the last one of the pool.
getPooledConn(c) ==
    /\ pool # <<>>
    /\ caller' = [caller EXCEPT ![c] = [pc |-> "send", made |-> @.made + 1, conn |-> pool[Len(pool)]]]
    /\ pool' = Front(pool)
    /\ UNCHANGED link

\* The pool is empty and a connection is made, which the target accepts: Listen.
Dial(c) ==
    /\ pool = <<>>
    /\ ~shutdown.there
    /\ link' = Append(link, NewLink)
    /\ caller' = [caller EXCEPT ![c] = [pc |-> "send", made |-> @.made + 1, conn |-> Len(link')]]
    /\ UNCHANGED pool

\* The dial fails, and so does the RPC.
DialFails(c) ==
    /\ pool = <<>>
    /\ caller' = [caller EXCEPT ![c].made = @ + 1]
    /\ UNCHANGED <<pool, link>>

getConn(c) ==
    /\ At(c, "idle") /\ caller[c].made < Calls
    /\ getPooledConn(c) \/ Dial(c) \/ DialFails(c)
    /\ UNCHANGED <<shutdown, mixed>>

\* sendRPC.  That the target closed its end shows later.
sendRPC(c) ==
    /\ At(c, "send")
    /\ link' = [link EXCEPT ![caller[c].conn].up =
                   IF Conn(c).there THEN @ \o <<Type, Request(c), Newline>> ELSE @]
    /\ caller' = [caller EXCEPT ![c].pc = "receive"]
    /\ UNCHANGED <<pool, shutdown, mixed>>

sendFails(c) ==
    /\ At(c, "send") /\ ~Conn(c).there
    /\ Release(caller[c].conn)
    /\ Return(c)
    /\ UNCHANGED <<pool, shutdown, mixed>>

\* decodeResponse: the error and the response.
decodeResponse(c) ==
    /\ At(c, "receive") /\ Conn(c).down # <<>>
    /\ mixed' = (mixed \/ Head(Conn(c).down) # Request(c))
    /\ link' = [link EXCEPT ![caller[c].conn].down = Tail(@)]
    /\ caller' = [caller EXCEPT ![c].pc = "return"]
    /\ UNCHANGED <<pool, shutdown>>

decodeFailsMutant(c) ==
    /\ At(c, "receive")
    /\ caller' = [caller EXCEPT ![c].pc = "return"]
    /\ UNCHANGED <<pool, link, shutdown, mixed>>

decodeFailsStuckMutant(c) ==
    /\ At(c, "receive")
    /\ ~Conn(c).there /\ Conn(c).down = <<>>
    /\ Release(caller[c].conn)
    /\ Return(c)
    /\ UNCHANGED <<pool, shutdown, mixed>>

\* The deadline passes or the target has closed the connection.
decodeFails(c) ==
    /\ At(c, "receive")
    /\ Release(caller[c].conn)
    /\ Return(c)
    /\ UNCHANGED <<pool, shutdown, mixed>>

\* returnConn.
returnConn(c) ==
    /\ At(c, "return")
    /\ IF ~shutdown.here /\ Len(pool) < MaxPool
       THEN pool' = Append(pool, caller[c].conn) /\ UNCHANGED link
       ELSE Release(caller[c].conn) /\ UNCHANGED pool
    /\ Return(c)
    /\ UNCHANGED <<shutdown, mixed>>

Call(c) ==
    sendRPC(c) \/ sendFails(c) \/ decodeResponse(c) \/ decodeFails(c) \/ returnConn(c)

-----------------------------------------------------------------------------
(***************************************************************************)
(* handleConn and handleCommand, for connection k.                         *)
(***************************************************************************)

Handles(k, pc) == link[k].there /\ link[k].handler = pc
Hangup(k) ==
    link' = [link EXCEPT ![k] = [up |-> <<>>, down |-> link[k].down, here |-> link[k].here,
                                 there |-> FALSE, handler |-> "type", command |-> Newline]]
Unread(k) == link[k].up

\* r.ReadByte.
ReadType(k) ==
    /\ Handles(k, "type") /\ Unread(k) # <<>>
    /\ IF Head(Unread(k)) = Type
       THEN link' = [link EXCEPT ![k].up = Tail(@), ![k].handler = "decode"]
       ELSE Hangup(k)
    /\ UNCHANGED <<caller, pool, shutdown, mixed>>

\* r.ReadByte returns EOF.
ReadEOF(k) ==
    /\ Handles(k, "type") /\ Unread(k) = <<>> /\ ~link[k].here
    /\ Hangup(k)
    /\ UNCHANGED <<caller, pool, shutdown, mixed>>

\* dec.Decode: the value, and the newline if it is there.
Decode(k) ==
    /\ Handles(k, "decode")
    /\ \E rest \in {Tail(Unread(k))} \cup {Tail(Tail(Unread(k)))} :
          /\ rest # <<>> => Splits
          /\ link' = [link EXCEPT ![k].command = Head(Unread(k)),
                                  ![k].up = rest, ![k].handler = "dispatch"]
    /\ UNCHANGED <<caller, pool, shutdown, mixed>>

\* The node takes the RPC from consumeCh, works on it, and answers; the answer
\* is written if the connection still stands.
Respond(k) ==
    /\ Handles(k, "dispatch")
    /\ link' = [link EXCEPT ![k].down = IF link[k].here THEN Append(@, link[k].command) ELSE @,
                            ![k].handler = "type"]
    /\ UNCHANGED <<caller, pool, shutdown, mixed>>

\* The write fails because the caller has released the connection.
RespondFails(k) ==
    /\ Handles(k, "dispatch") /\ ~link[k].here
    /\ Hangup(k)
    /\ UNCHANGED <<caller, pool, shutdown, mixed>>

\* ErrTransportShutdown.
HandlerStops(k) ==
    /\ Handles(k, "dispatch") /\ shutdown.there
    /\ Hangup(k)
    /\ UNCHANGED <<caller, pool, shutdown, mixed>>

Serve(k) ==
    ReadType(k) \/ ReadEOF(k) \/ Decode(k) \/ Respond(k) \/ RespondFails(k) \/ HandlerStops(k)

\* Close of either transport: shutdownCh is closed, and no more is accepted.
Close ==
    /\ Shutdowns
    /\ \E side \in {"here", "there"} :
          ~shutdown[side] /\ shutdown' = [shutdown EXCEPT ![side] = TRUE]
    /\ UNCHANGED <<caller, pool, link, mixed>>

-----------------------------------------------------------------------------

TransportNext ==
    \/ \E c \in Callers : getConn(c) \/ Call(c)
    \/ \E k \in DOMAIN link : Serve(k)
    \/ Close

\* The goroutines of the callers run, and deadlines pass.
TransportFairness == \A c \in Callers : WF_transportVars(Call(c))

TransportSpec == TransportInit /\ [][TransportNext]_transportVars /\ TransportFairness

-----------------------------------------------------------------------------

Pooled == Range(pool)
Held == {caller[c].conn : c \in {d \in Callers : caller[d].conn # 0}}

\* A caller gets the reply to its own request, whatever became of the earlier
\* requests on the connection: genericRPC pools no connection with a reply due.
OwnReply == ~mixed

\* A connection has one user: it is in the pool once, or held by one caller.
OneUser ==
    /\ Pooled \cap Held = {}
    /\ \A i, j \in DOMAIN pool : i # j => pool[i] # pool[j]
    /\ \A c, d \in Callers : c # d /\ caller[c].conn # 0 => caller[c].conn # caller[d].conn

\* A connection that is neither pooled nor in use has been closed.
NoLeak == \A k \in DOMAIN link : link[k].here => k \in Pooled \cup Held

\* An RPC returns, whatever the target does.
RPCReturns == \A c \in Callers : ~At(c, "idle") ~> At(c, "idle")

\* A connection that decodeResponse found reusable can take another request:
\* while the target runs, it does not hang up on it.
PooledIsUsable ==
    \A k \in Pooled : link[k].there \/ shutdown.there
=============================================================================
