------------------------------ MODULE AppProxy ------------------------------
(***************************************************************************)
(* SocketAppProxyClient, which commits blocks to an application in another *)
(* process, the RPC server of the application, and the dummy application   *)
(* behind it.                                                              *)
(*                                                                         *)
(* One client serves every goroutine of the node.  CommitBlock is called   *)
(* for one block after the other, under the core lock; GetSnapshot comes   *)
(* from the goroutines that answer fast-forward requests.  The field rpc   *)
(* of the client is not protected, so its reads and writes interleave.     *)
(***************************************************************************)
EXTENDS Naturals, Sequences, SequencesExt, FiniteSets

CONSTANTS
    Methods,    \* which of "commit" and "snapshot" call the application
    Retries,    \* SocketAppProxyClient.retries
    Blocks,     \* number of blocks to commit
    Snapshots   \* number of snapshots asked for

ASSUME AppProxyAssumption ==
    /\ Methods \subseteq {"commit", "snapshot"}
    /\ Retries \in Nat \ {0} /\ Blocks \in Nat /\ Snapshots \in Nat

VARIABLES
    rpc,        \* the connection of the client, or 0
    open,       \* the connections that are open
    dialled,    \* number of connections made
    caller,     \* where each caller is
    unhandled,  \* requests that the application has not handled
    replies,    \* replies that it sent
    app,        \* the blocks that the CommitHandler got, in order
    acked,      \* the blocks whose CommitBlock returned without an error
    nilPanic

proxyVars == <<rpc, open, dialled, caller, unhandled, replies, app, acked, nilPanic>>

\* arg is the block committed or asked for, made counts the calls.
Idle == [pc |-> "idle", try |-> 0, conn |-> 0, arg |-> 0, made |-> 0]

ProxyInit ==
    /\ rpc = 0 /\ open = {} /\ dialled = 0
    /\ caller = [c \in Methods |-> Idle]
    /\ unhandled = {} /\ replies = {}
    /\ app = <<>>
    /\ acked = {}
    /\ nilPanic = FALSE

At(c, place) == caller[c].pc = place /\ ~nilPanic
Goto(c, place) == caller' = [caller EXCEPT ![c].pc = place]
Panic == nilPanic' = TRUE /\ UNCHANGED <<rpc, open, dialled, caller, unhandled, replies, app, acked>>

\* The next round of the loop of call, or its end.
Again(c) ==
    caller' = [caller EXCEPT ![c].try = @ + 1,
                             ![c].pc = IF caller[c].try + 1 < Retries THEN "connect" ELSE "idle"]

-----------------------------------------------------------------------------
(***************************************************************************)
(* The callers.                                                            *)
(***************************************************************************)

\* call: the first round of its loop.
call(c, arg) ==
    caller' = [caller EXCEPT ![c] = [pc |-> "connect", try |-> 0, conn |-> caller[c].conn,
                                     arg |-> arg, made |-> caller[c].made + 1]]

\* CommitBlock of the next block; a block whose commit failed is not tried again.
CommitBlock ==
    /\ "commit" \in Methods /\ At("commit", "idle")
    /\ caller["commit"].made < Blocks
    /\ call("commit", caller["commit"].arg + 1)
    /\ UNCHANGED <<rpc, open, dialled, unhandled, replies, app, acked, nilPanic>>

\* GetSnapshot of an anchor block, which was committed.
GetSnapshot ==
    /\ "snapshot" \in Methods /\ At("snapshot", "idle")
    /\ caller["snapshot"].made < Snapshots
    /\ \E i \in acked : call("snapshot", i)
    /\ UNCHANGED <<rpc, open, dialled, unhandled, replies, app, acked, nilPanic>>

\* getConnection: p.rpc == nil.
getConnection(c) ==
    /\ At(c, "connect")
    /\ Goto(c, IF rpc = 0 THEN "dial" ELSE "go")
    /\ UNCHANGED <<rpc, open, dialled, unhandled, replies, app, acked, nilPanic>>

Dial(c) ==
    /\ At(c, "dial")
    /\ dialled' = dialled + 1
    /\ rpc' = dialled'
    /\ open' = open \cup {dialled'}
    /\ Goto(c, "go")
    /\ UNCHANGED <<unhandled, replies, app, acked, nilPanic>>

DialFails(c) ==
    /\ At(c, "dial")
    /\ Again(c)
    /\ UNCHANGED <<rpc, open, dialled, unhandled, replies, app, acked, nilPanic>>

\* p.rpc.Go.
Go(c) ==
    /\ At(c, "go")
    /\ IF rpc = 0
       THEN Panic
       ELSE /\ caller' = [caller EXCEPT ![c].pc = "wait", ![c].conn = rpc]
            /\ unhandled' = IF rpc \in open
                            THEN unhandled \cup {[from |-> c, call |-> caller[c].made,
                                                  try |-> caller[c].try, conn |-> rpc,
                                                  arg |-> caller[c].arg]}
                            ELSE unhandled
            /\ UNCHANGED <<rpc, open, dialled, replies, app, acked, nilPanic>>

\* The reply to the request that c waits for.
Answers(c, m) ==
    /\ m.from = c /\ m.conn = caller[c].conn /\ m.conn \in open
    /\ m.call = caller[c].made /\ m.try = caller[c].try

DoneMutant(c) ==
    /\ At(c, "wait")
    /\ \E m \in replies : m.from = c /\ m.ok
    /\ Goto(c, "idle")
    /\ acked' = IF c = "commit" THEN acked \cup {caller[c].arg} ELSE acked
    /\ UNCHANGED <<rpc, open, dialled, unhandled, replies, app, nilPanic>>

\* call.Done, without an error.
Done(c) ==
    /\ At(c, "wait")
    /\ \E m \in replies : Answers(c, m) /\ m.ok
    /\ Goto(c, "idle")
    /\ acked' = IF c = "commit" THEN acked \cup {caller[c].arg} ELSE acked
    /\ UNCHANGED <<rpc, open, dialled, unhandled, replies, app, nilPanic>>

\* call.Done, with an error of the handler or of the connection.
Fails(c) ==
    /\ At(c, "wait")
    /\ \/ caller[c].conn \notin open
       \/ \E m \in replies : Answers(c, m) /\ ~m.ok
    /\ Goto(c, "close")
    /\ UNCHANGED <<rpc, open, dialled, unhandled, replies, app, acked, nilPanic>>

TimeoutMutant(c) ==
    /\ At(c, "wait")
    /\ \E m \in replies : Answers(c, m)
    /\ Goto(c, "close")
    /\ UNCHANGED <<rpc, open, dialled, unhandled, replies, app, acked, nilPanic>>

\* time.After(p.timeout).
Timeout(c) ==
    /\ At(c, "wait")
    /\ Goto(c, "close")
    /\ UNCHANGED <<rpc, open, dialled, unhandled, replies, app, acked, nilPanic>>

\* p.rpc.Close().
Close(c) ==
    /\ At(c, "close")
    /\ IF rpc = 0
       THEN Panic
       ELSE /\ open' = open \ {rpc}
            /\ Goto(c, "reset")
            /\ UNCHANGED <<rpc, dialled, unhandled, replies, app, acked, nilPanic>>

\* p.rpc = nil, and the next attempt.
ResetClient(c) ==
    /\ At(c, "reset")
    /\ rpc' = 0
    /\ Again(c)
    /\ UNCHANGED <<open, dialled, unhandled, replies, app, acked, nilPanic>>

Client(c) ==
    \/ getConnection(c) \/ Dial(c) \/ DialFails(c) \/ Go(c)
    \/ Done(c) \/ Fails(c) \/ Timeout(c) \/ Close(c) \/ ResetClient(c)

-----------------------------------------------------------------------------
(***************************************************************************)
(* The application.  Its server runs every request in a goroutine of its   *)
(* own, which goes on when the connection is closed.                       *)
(***************************************************************************)

Respond(m, ok) ==
    replies' = replies \cup {[from |-> m.from, call |-> m.call, try |-> m.try,
                              conn |-> m.conn, ok |-> ok]}

\* CommitBlock of the server: CommitHandler.
CommitHandler(m) ==
    /\ m.from = "commit"
    /\ app' = Append(app, m.arg)
    /\ Respond(m, TRUE)

\* GetSnapshot of the server: SnapshotHandler fails on a block it has not seen.
SnapshotHandler(m) ==
    /\ m.from = "snapshot"
    /\ Respond(m, m.arg \in Range(app))
    /\ UNCHANGED app

Handle ==
    /\ \E m \in unhandled :
          /\ CommitHandler(m) \/ SnapshotHandler(m)
          /\ unhandled' = unhandled \ {m}
    /\ UNCHANGED <<rpc, open, dialled, caller, acked, nilPanic>>

\* A connection breaks, and with it the requests that were not read.
Break ==
    /\ \E k \in open : \E lost \in SUBSET {m \in unhandled : m.conn = k} :
          /\ open' = open \ {k}
          /\ unhandled' = unhandled \ lost
    /\ UNCHANGED <<rpc, dialled, caller, replies, app, acked, nilPanic>>

-----------------------------------------------------------------------------

ProxyNext ==
    \/ CommitBlock \/ GetSnapshot
    \/ \E c \in Methods : Client(c)
    \/ Handle \/ Break

\* A goroutine that can run does, and a timer fires.  Nothing is assumed of the
\* application and of the network.
ProxyFairness == \A c \in Methods : WF_proxyVars(Client(c))

ProxySpec == ProxyInit /\ [][ProxyNext]_proxyVars /\ ProxyFairness

-----------------------------------------------------------------------------

\* A block whose CommitBlock succeeded has reached the CommitHandler: no late
\* reply to an earlier attempt or block is taken for its own.
AckedIsApplied == acked \subseteq Range(app)

\* No other goroutine is in a call.
Alone(c) == \A d \in Methods \ {c} : caller[d].pc = "idle"

\* Every attempt of call has a timeout and attempts are counted, so a call ends even
\* if the application never answers: it returns, or a nil rpc makes the program
\* panic, which ends every call and is no return (NoNilPanic does not hold).  The
\* panic takes two callers: a call that starts with no other under way returns,
\* unless another starts before it does.
CallReturns ==
    \A c \in Methods :
        /\ caller[c].pc # "idle" ~> caller[c].pc = "idle" \/ nilPanic
        /\ caller[c].pc = "connect" /\ caller[c].try = 0 /\ Alone(c)
              ~> caller[c].pc = "idle" \/ ~Alone(c)

\* The application gets the blocks in order, and none of them twice.
BlocksInOrder == \A j, k \in DOMAIN app : j < k => app[j] < app[k]

\* A failed attempt resets the connection and is tried again: it does not meet
\* the nil that another caller left in rpc.
NoNilPanic == ~nilPanic
=============================================================================
