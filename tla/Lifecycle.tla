----------------------------- MODULE Lifecycle -----------------------------
(***************************************************************************)
(* The life of an edgedns process (cmd/edgedns): main, the run functions   *)
(* of its servers (internal/server), the DoT connections with their        *)
(* framing, queries of the other front ends, and the analytics queue as    *)
(* LogSink describes it.                                                   *)
(*                                                                         *)
(* A run function returns its error to errCh and is done; main cancels the *)
(* context at the first error or signal, waits for all of them and then    *)
(* for the queue's worker, which heard of the cancellation long before.    *)
(***************************************************************************)
EXTENDS LogSink, FiniteSets

CONSTANTS
    HttpServers,   \* the servers of net/http: DoH and the metrics
    Conns,         \* DoT connections
    Handlers,      \* goroutines that answer queries of the other front ends
    Sizes,         \* lengths of DNS messages
    ErrChSize,     \* capacity of errCh
    MaxQueries     \* bound: queries in all

ASSUME LifecycleAssumption ==
    /\ \A n \in Sizes : n \in Nat /\ n > 0 /\ n < 65536
    /\ ErrChSize \in Nat /\ MaxQueries \in Nat

VARIABLES
    mainPc,    \* main: select, wait (wg.Wait), aggwait (agg.Wait), exited
    signalled, \* sigCh holds a signal
    errCh,     \* errors in errCh
    std,       \* RunStd: select, shut (UDP is shut down), returned
    listener,  \* the UDP and the TCP server of RunStd
    http,      \* the HTTP servers and the functions that run them
    dot,       \* RunDoT
    conn,      \* DoT connections: where handleDoTConnection is
    client,    \* their other ends: away, there, gone
    wire,      \* length of the message a client has sent; 0: none
    aligned,   \* the next byte of the connection is the first of a length
    handler,   \* the other queries: none, answer, count
    queries,   \* queries received
    rows,      \* rows submitted
    large,     \* connections on which a message of 256 bytes or more was sent
    garbled    \* connections on which a query was handled that nobody sent

serverVars == <<std, listener, http, dot>>
dotVars == <<conn, client, wire, aligned, large, garbled>>
vars == <<mainPc, signalled, errCh, serverVars, dotVars, handler, queries, rows, sinkVars>>

Transports == {"udp", "tcp"}

LifeInit ==
    /\ SinkInit
    /\ mainPc = "select" /\ signalled = FALSE /\ errCh = 0
    /\ std = "select" /\ listener = [t \in Transports |-> "starting"]
    /\ http = [h \in HttpServers |-> "starting"] /\ dot = "starting"
    /\ conn = [c \in Conns |-> "none"] /\ client = [c \in Conns |-> "away"]
    /\ wire = [c \in Conns |-> 0] /\ aligned = [c \in Conns |-> TRUE]
    /\ handler = [h \in Handlers |-> "none"]
    /\ queries = 0 /\ rows = 0
    /\ large = {} /\ garbled = {}

-----------------------------------------------------------------------------
(* main. *)
(* Later signals stay in sigCh. *)
Signal ==
    /\ mainPc = "select" /\ ~signalled
    /\ signalled' = TRUE
    /\ UNCHANGED <<mainPc, errCh, serverVars, dotVars, handler, queries, rows, sinkVars>>

(* The select, and cancel. *)
MainSelect ==
    /\ mainPc = "select"
    /\ \/ signalled /\ errCh' = errCh
       \/ errCh > 0 /\ errCh' = errCh - 1
    /\ mainPc' = "wait"
    /\ SinkCancel
    /\ UNCHANGED <<signalled, serverVars, dotVars, handler, queries, rows>>

AllReturned == std = "returned" /\ dot = "returned" /\ \A h \in HttpServers : http[h] = "returned"

\* A mistake: main does not wait for the aggregator.
MainWaitsNoAggregator ==
    /\ mainPc = "wait" /\ AllReturned
    /\ mainPc' = "exited"
    /\ UNCHANGED <<signalled, errCh, serverVars, dotVars, handler, queries, rows, sinkVars>>

MainWaits ==
    /\ \/ mainPc = "wait" /\ AllReturned /\ mainPc' = "aggwait"
       \/ mainPc = "aggwait" /\ done /\ mainPc' = "exited"
    /\ UNCHANGED <<signalled, errCh, serverVars, dotVars, handler, queries, rows, sinkVars>>

(* errCh <- err: waits while errCh is full. *)
Report == errCh < ErrChSize /\ errCh' = errCh + 1

-----------------------------------------------------------------------------
(* RunStd: two servers, each in a goroutine of its own.  One that starts    *)
(* after the cancellation is called late.                                   *)
Serves(t) == listener[t] \in {"serving", "late"}

StdListens(t) ==
    /\ listener[t] = "starting"
    /\ listener' = [listener EXCEPT ![t] = IF ctxDone THEN "late" ELSE "serving"]
    /\ UNCHANGED <<mainPc, signalled, errCh, std, http, dot, dotVars, handler, queries, rows, sinkVars>>

StdListenFails(t) ==
    /\ listener[t] = "starting"
    /\ listener' = [listener EXCEPT ![t] = "failed"]
    /\ UNCHANGED <<mainPc, signalled, errCh, std, http, dot, dotVars, handler, queries, rows, sinkVars>>

(* ListenAndServe fails when it has served for a while. *)
StdServeFails(t) ==
    /\ Serves(t)
    /\ listener' = [listener EXCEPT ![t] = "failed"]
    /\ UNCHANGED <<mainPc, signalled, errCh, std, http, dot, dotVars, handler, queries, rows, sinkVars>>

(* ShutdownContext closes a server that has started, and has no effect on   *)
(* one that has not; with a cancelled context it does not wait for queries. *)
ShutdownContext(t) ==
    listener' = [listener EXCEPT ![t] = IF Serves(t) THEN "closed" ELSE @]

\* A mistake: one of the two servers is forgotten.
StdShutdownUdpOnly ==
    /\ \/ std = "select" /\ ctxDone /\ std' = "shut" /\ errCh' = errCh /\ ShutdownContext("udp")
       \/ std = "shut" /\ std' = "returned" /\ Report /\ UNCHANGED listener
    /\ UNCHANGED <<mainPc, signalled, http, dot, dotVars, handler, queries, rows, sinkVars>>

StdShutdown ==
    /\ \/ std = "select" /\ ctxDone /\ std' = "shut" /\ errCh' = errCh /\ ShutdownContext("udp")
       \/ std = "shut" /\ std' = "returned" /\ Report /\ ShutdownContext("tcp")
    /\ UNCHANGED <<mainPc, signalled, http, dot, dotVars, handler, queries, rows, sinkVars>>

(* One server failed: RunStd returns, and the other one is left alone. *)
StdFails ==
    /\ std = "select" /\ \E t \in Transports : listener[t] = "failed"
    /\ std' = "returned" /\ Report
    /\ UNCHANGED <<mainPc, signalled, listener, http, dot, dotVars, handler, queries, rows, sinkVars>>

-----------------------------------------------------------------------------
(* RunDoH and the metrics server. *)
HttpStep(h, state) ==
    /\ http' = [http EXCEPT ![h] = state]
    /\ UNCHANGED <<mainPc, signalled, std, listener, dot, dotVars, handler, queries, rows, sinkVars>>

HttpListens(h) ==
    /\ http[h] = "starting" /\ errCh' = errCh
    /\ \E state \in {"serving", "failed"} : HttpStep(h, state)

HttpServeFails(h) == http[h] = "serving" /\ errCh' = errCh /\ HttpStep(h, "failed")

(* Shutdown in its own goroutine; a server that starts later is refused. *)
HttpShutdown(h) ==
    /\ ctxDone /\ http[h] \in {"starting", "serving"} /\ errCh' = errCh
    /\ HttpStep(h, "closed")

(* ListenAndServe returns at once, whatever Shutdown still waits for;       *)
(* ErrServerClosed is no error.                                             *)
HttpReturns(h) ==
    /\ \/ http[h] = "closed" /\ errCh' = errCh
       \/ http[h] = "failed" /\ Report
    /\ HttpStep(h, "returned")

-----------------------------------------------------------------------------
(* RunDoT. *)
DotStep(state) ==
    /\ dot' = state
    /\ UNCHANGED <<mainPc, signalled, std, listener, http, dotVars, handler, queries, rows, sinkVars>>

DotListens == dot = "starting" /\ errCh' = errCh /\ DotStep("serving")

(* No certificate, or no listener. *)
DotListenFails == dot = "starting" /\ Report /\ DotStep("returned")

\* A mistake: the loop does not look at the context.
DotAcceptFailsContinues == dot = "serving" /\ ctxDone /\ errCh' = errCh /\ DotStep("serving")

(* Accept fails, at the latest when the listener is closed.  Before the     *)
(* cancellation the loop goes on, after it the connections are waited for.  *)
DotAcceptFails == dot = "serving" /\ ctxDone /\ errCh' = errCh /\ DotStep("drain")

\* A mistake: the connections are not waited for.
DotReturnsAtOnce == dot = "drain" /\ Report /\ DotStep("returned")

DotReturns ==
    /\ dot = "drain" /\ \A c \in Conns : conn[c] \in {"none", "closed"}
    /\ Report /\ DotStep("returned")

-----------------------------------------------------------------------------
(* DoT clients. *)
ClientConnects(c) ==
    /\ dot = "serving" /\ conn[c] = "none" /\ client[c] = "away"
    /\ conn' = [conn EXCEPT ![c] = "handshake"]
    /\ client' = [client EXCEPT ![c] = "there"]
    /\ UNCHANGED <<mainPc, signalled, errCh, serverVars, wire, aligned, large, garbled, handler, queries, rows, sinkVars>>

ClientLeaves(c) ==
    /\ client[c] = "there"
    /\ client' = [client EXCEPT ![c] = "gone"]
    /\ UNCHANGED <<mainPc, signalled, errCh, serverVars, conn, wire, aligned, large, garbled, handler, queries, rows, sinkVars>>

ClientSends(c, n) ==
    /\ client[c] = "there" /\ conn[c] = "read" /\ wire[c] = 0 /\ queries < MaxQueries
    /\ wire' = [wire EXCEPT ![c] = n]
    /\ queries' = queries + 1
    /\ large' = IF n >= 256 THEN large \cup {c} ELSE large
    /\ UNCHANGED <<mainPc, signalled, errCh, serverVars, conn, client, aligned, garbled, handler, rows, sinkVars>>

-----------------------------------------------------------------------------
(* handleDoTConnection.  Its steps wait for the client, without a deadline. *)
ConnStep(c, pc) ==
    /\ conn' = [conn EXCEPT ![c] = pc]
    /\ UNCHANGED <<mainPc, signalled, errCh, serverVars, client, handler, queries>>

Handshake(c) ==
    /\ conn[c] = "handshake" /\ client[c] = "there"
    /\ ConnStep(c, "read")
    /\ UNCHANGED <<wire, aligned, large, garbled, rows, sinkVars>>

(* The handshake fails, or the read finds the end of the connection. *)
ConnEnds(c) ==
    /\ \/ conn[c] = "handshake"
       \/ conn[c] = "read" /\ client[c] = "gone" /\ wire[c] = 0
    /\ ConnStep(c, "closed")
    /\ UNCHANGED <<wire, aligned, large, garbled, rows, sinkVars>>

\* A mistake: the two bytes change places.
msgLengthSwapped(n, k) == (IF k = 2 THEN n % 256 ELSE 0) * 256 + (n \div 256)

(* The length readMsgFromConn makes of the prefix of an n byte message when *)
(* Read returns its first k bytes: the buffer was zero.                     *)
msgLength(n, k) == (n \div 256) * 256 + (IF k = 2 THEN n % 256 ELSE 0)

Intact(c, k) == aligned[c] /\ k = 2 /\ msgLength(wire[c], k) = wire[c]

(* An intact message is handled.  Of any other, length bytes from somewhere *)
(* in the stream are unpacked: nothing, which is an error, or something     *)
(* that may look like a message.                                            *)
readMsgFromConn(c, k) ==
    /\ conn[c] = "read" /\ wire[c] # 0
    /\ wire' = [wire EXCEPT ![c] = 0]
    /\ \/ Intact(c, k) /\ ConnStep(c, "write") /\ UNCHANGED <<aligned, garbled>>
       \/ ~Intact(c, k) /\ ConnStep(c, "closed") /\ UNCHANGED <<aligned, garbled>>
       \/ /\ ~Intact(c, k) /\ (aligned[c] => msgLength(wire[c], k) # 0)
          /\ ConnStep(c, "write")
          /\ aligned' = [aligned EXCEPT ![c] = FALSE]
          /\ garbled' = garbled \cup {c}
    /\ UNCHANGED <<large, rows, sinkVars>>

(* ProcessQuery up to the answer, which is written or fails.  A refused or  *)
(* an empty query has no row.                                               *)
Answer(c) ==
    /\ conn[c] = "write"
    /\ \E pc \in {"log", "read"} : ConnStep(c, pc)
    /\ UNCHANGED <<wire, aligned, large, garbled, rows, sinkVars>>

(* submitLog and SubmitLog. *)
SubmitLog(c) ==
    /\ conn[c] = "log"
    /\ \/ SubmitQueued /\ ConnStep(c, "read")
       \/ SubmitDropped /\ ConnStep(c, "count")
    /\ rows' = rows + 1
    /\ UNCHANGED <<wire, aligned, large, garbled>>

CountDrop(c) ==
    /\ conn[c] = "count"
    /\ DropCounted /\ ConnStep(c, "read")
    /\ UNCHANGED <<wire, aligned, large, garbled, rows>>

-----------------------------------------------------------------------------
(* Queries of plain DNS and DoH: nobody waits for them. *)
HandlerStep(h, pc) ==
    /\ handler' = [handler EXCEPT ![h] = pc]
    /\ UNCHANGED <<mainPc, signalled, errCh, serverVars, dotVars>>

FrontEndOpen ==
    \/ \E t \in Transports : Serves(t)
    \/ \E h \in HttpServers \ {"metrics"} : http[h] = "serving"

QueryArrives(h) ==
    /\ FrontEndOpen /\ handler[h] = "none" /\ queries < MaxQueries
    /\ queries' = queries + 1
    /\ HandlerStep(h, "answer")
    /\ UNCHANGED <<rows, sinkVars>>

HandlerSubmits(h) ==
    /\ handler[h] = "answer"
    /\ \/ SubmitQueued /\ HandlerStep(h, "none")
       \/ SubmitDropped /\ HandlerStep(h, "count")
    /\ rows' = rows + 1 /\ queries' = queries

HandlerCounts(h) ==
    /\ handler[h] = "count"
    /\ DropCounted /\ HandlerStep(h, "none")
    /\ UNCHANGED <<queries, rows>>

(* The aggregator's worker. *)
Worker ==
    /\ TakeRow \/ FlushRows \/ WorkerEnds
    /\ UNCHANGED <<mainPc, signalled, errCh, serverVars, dotVars, handler, queries, rows>>

-----------------------------------------------------------------------------
Main == MainSelect \/ MainWaits

RunStd == StdShutdown \/ StdFails \/ \E t \in Transports : StdListens(t) \/ StdListenFails(t)

ServerFails == (\E t \in Transports : StdServeFails(t)) \/ \E h \in HttpServers : HttpServeFails(h)

RunHttp(h) == HttpListens(h) \/ HttpShutdown(h) \/ HttpReturns(h)

RunDoT == DotListens \/ DotListenFails \/ DotAcceptFails \/ DotReturns

handleDoTConnection(c) ==
    \/ Handshake(c) \/ ConnEnds(c) \/ (\E k \in 1..2 : readMsgFromConn(c, k))
    \/ Answer(c) \/ SubmitLog(c) \/ CountDrop(c)

HandleQuery(h) == HandlerSubmits(h) \/ HandlerCounts(h)

LifeNext ==
    /\ mainPc # "exited"
    /\ \/ Signal \/ Main \/ RunStd \/ RunDoT \/ Worker \/ ServerFails
       \/ \E h \in HttpServers : RunHttp(h)
       \/ \E c \in Conns : \/ ClientConnects(c) \/ ClientLeaves(c) \/ handleDoTConnection(c)
                           \/ \E n \in Sizes : ClientSends(c, n)
       \/ \E h \in Handlers : QueryArrives(h) \/ HandleQuery(h)

LifeSpec == LifeInit /\ [][LifeNext]_vars
=============================================================================
