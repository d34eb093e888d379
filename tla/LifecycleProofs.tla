-------------------------- MODULE LifecycleProofs --------------------------
(***************************************************************************)
(* The life of a process, for any number of servers, connections, queries  *)
(* and message lengths: RunDoT lets its connections finish, every row has  *)
(* a place when main ends, RunStd closes what it opened, and a short query *)
(* is never read as another one.                                           *)
(***************************************************************************)
EXTENDS LifecycleProps, FiniteSetTheorems, TLAPS

ConnStates == {"none", "handshake", "read", "write", "log", "count", "closed"}

-----------------------------------------------------------------------------
(* Connections exist only while RunDoT serves or waits for them, and main   *)
(* does not pass wg.Wait before RunDoT has returned.                        *)
DrainInv ==
    /\ conn \in [Conns -> ConnStates]
    /\ dot = "starting" => \A c \in Conns : conn[c] = "none"
    /\ dot = "returned" => \A c \in Conns : conn[c] \in {"none", "closed"}
    /\ mainPc \in {"aggwait", "exited"} => dot = "returned"

(* A step of a connection that is neither new nor closed. *)
LEMMA ConnStepKeepsDrain ==
    ASSUME DrainInv, NEW c \in Conns, NEW pc \in ConnStates,
           conn[c] \notin {"none", "closed"}, ConnStep(c, pc)
    PROVE  DrainInv'
BY DEF DrainInv, ConnStep, ConnStates, serverVars

LEMMA ConnKeepsDrain ==
    ASSUME DrainInv, NEW c \in Conns, handleDoTConnection(c)
    PROVE  DrainInv'
<1>1. CASE Handshake(c)
  BY <1>1, ConnStepKeepsDrain DEF Handshake, ConnStates
<1>2. CASE ConnEnds(c)
  BY <1>2, ConnStepKeepsDrain DEF ConnEnds, ConnStates
<1>3. CASE \E k \in 1..2 : readMsgFromConn(c, k)
  BY <1>3, ConnStepKeepsDrain DEF readMsgFromConn, ConnStates
<1>4. CASE Answer(c)
  BY <1>4, ConnStepKeepsDrain DEF Answer, ConnStates
<1>5. CASE SubmitLog(c)
  BY <1>5, ConnStepKeepsDrain DEF SubmitLog, ConnStates
<1>6. CASE CountDrop(c)
  BY <1>6, ConnStepKeepsDrain DEF CountDrop, ConnStates
<1> QED BY <1>1, <1>2, <1>3, <1>4, <1>5, <1>6 DEF handleDoTConnection

(* Steps that touch neither RunDoT nor its connections nor main. *)
LEMMA OthersKeepDrain ==
    ASSUME DrainInv, UNCHANGED <<mainPc, dot, conn>>
    PROVE  DrainInv'
BY DEF DrainInv

LEMMA NextKeepsDrain ==
    ASSUME DrainInv, [LifeNext]_vars
    PROVE  DrainInv'
<1>1. CASE Signal \/ RunStd \/ Worker \/ ServerFails
  BY <1>1, OthersKeepDrain
     DEF Signal, RunStd, StdShutdown, StdFails, StdListens, StdListenFails, Worker, ServerFails, StdServeFails, HttpServeFails, HttpStep,
         serverVars, dotVars
<1>2. CASE MainSelect
  BY <1>2 DEF MainSelect, DrainInv, serverVars, dotVars
<1>3. CASE MainWaits
  BY <1>3 DEF MainWaits, AllReturned, DrainInv, serverVars, dotVars
<1>4. CASE RunDoT
  BY <1>4 DEF RunDoT, DotListens, DotListenFails, DotAcceptFails, DotReturns, DotStep, DrainInv, dotVars
<1>5. CASE \E h \in HttpServers : RunHttp(h)
  BY <1>5, OthersKeepDrain DEF RunHttp, HttpListens, HttpShutdown, HttpReturns, HttpStep, dotVars
<1>6. ASSUME NEW c \in Conns, ClientConnects(c) PROVE DrainInv'
  BY <1>6 DEF ClientConnects, DrainInv, ConnStates, serverVars
<1>7. ASSUME NEW c \in Conns, handleDoTConnection(c) PROVE DrainInv'
  BY <1>7, ConnKeepsDrain
<1>8. ASSUME NEW c \in Conns, ClientLeaves(c) \/ \E n \in Sizes : ClientSends(c, n) PROVE DrainInv'
  BY <1>8, OthersKeepDrain DEF ClientLeaves, ClientSends, serverVars
<1>9. ASSUME NEW h \in Handlers, QueryArrives(h) \/ HandleQuery(h) PROVE DrainInv'
  BY <1>9, OthersKeepDrain
     DEF QueryArrives, HandleQuery, HandlerSubmits, HandlerCounts, HandlerStep, serverVars, dotVars
<1>10. CASE UNCHANGED vars
  BY <1>10, OthersKeepDrain DEF vars, serverVars, dotVars
<1> QED BY <1>1, <1>2, <1>3, <1>4, <1>5, <1>6, <1>7, <1>8, <1>9, <1>10 DEF LifeNext, Main

(* When the process has ended no DoT connection is in the middle of         *)
(* anything: RunDoT's wg.Wait and main's are passed in this order only.     *)
THEOREM DotFinishesQueriesHolds == LifeSpec => []DotFinishesQueries
<1>1. LifeInit => DrainInv
  BY DEF LifeInit, DrainInv, ConnStates
<1>2. DrainInv /\ [LifeNext]_vars => DrainInv'
  BY NextKeepsDrain
<1>3. DrainInv => DotFinishesQueries
  BY DEF DrainInv, DotFinishesQueries
<1> QED BY <1>1, <1>2, <1>3, PTL DEF LifeSpec

-----------------------------------------------------------------------------
(* A connection can be out of step, or be about to get there, only after a  *)
(* message of 256 bytes or more.                                            *)
FramingInv ==
    /\ wire \in [Conns -> Nat] /\ aligned \in [Conns -> BOOLEAN]
    /\ large \subseteq Conns
    /\ \A c \in Conns : wire[c] >= 256 => c \in large
    /\ \A c \in Conns : aligned[c] = FALSE => c \in large
    /\ garbled \subseteq large

(* Both bytes of the length give the length, the first alone gives zero for *)
(* a short message.                                                         *)
LEMMA LengthOfShort ==
    ASSUME NEW n \in Nat
    PROVE  msgLength(n, 2) = n /\ (n < 256 => msgLength(n, 1) = 0)
BY DEF msgLength

LEMMA ReadKeepsFraming ==
    ASSUME FramingInv, NEW c \in Conns, NEW k \in 1..2, readMsgFromConn(c, k)
    PROVE  FramingInv'
<1>1. wire' = [wire EXCEPT ![c] = 0] /\ large' = large
  BY DEF readMsgFromConn
<1>2. CASE UNCHANGED <<aligned, garbled>>
  BY <1>1, <1>2 DEF FramingInv
<1>3. CASE /\ ~Intact(c, k) /\ (aligned[c] => msgLength(wire[c], k) # 0)
           /\ aligned' = [aligned EXCEPT ![c] = FALSE]
           /\ garbled' = garbled \cup {c}
  <2>1. c \in large
    <3>1. CASE aligned[c] = FALSE
      BY <3>1 DEF FramingInv
    <3>2. CASE aligned[c] = TRUE
      <4>1. wire[c] \in Nat
        BY DEF FramingInv
      <4>2. k # 2
        BY <1>3, <3>2, <4>1, LengthOfShort DEF Intact
      <4>3. msgLength(wire[c], 1) # 0
        BY <1>3, <3>2, <4>2
      <4>4. wire[c] >= 256
        BY <4>1, <4>3, LengthOfShort
      <4> QED BY <4>4 DEF FramingInv
    <3> QED BY <3>1, <3>2 DEF FramingInv
  <2> QED BY <1>1, <1>3, <2>1 DEF FramingInv
<1> QED BY <1>2, <1>3 DEF readMsgFromConn

LEMMA OthersKeepFraming ==
    ASSUME FramingInv, UNCHANGED <<wire, aligned, large, garbled>>
    PROVE  FramingInv'
BY DEF FramingInv

LEMMA NextKeepsFraming ==
    ASSUME FramingInv, [LifeNext]_vars
    PROVE  FramingInv'
<1>1. CASE Signal \/ Main \/ RunStd \/ Worker \/ ServerFails
  BY <1>1, OthersKeepFraming
     DEF Signal, Main, MainSelect, MainWaits, RunStd, StdShutdown, StdFails, StdListens, StdListenFails, Worker,
         ServerFails, StdServeFails, HttpServeFails, HttpStep, dotVars
<1>2. CASE RunDoT
  BY <1>2, OthersKeepFraming DEF RunDoT, DotListens, DotListenFails, DotAcceptFails, DotReturns, DotStep, dotVars
<1>3. CASE \E h \in HttpServers : RunHttp(h)
  BY <1>3, OthersKeepFraming DEF RunHttp, HttpListens, HttpShutdown, HttpReturns, HttpStep, dotVars
<1>4. ASSUME NEW c \in Conns, ClientConnects(c) \/ ClientLeaves(c) PROVE FramingInv'
  BY <1>4, OthersKeepFraming DEF ClientConnects, ClientLeaves
<1>5. ASSUME NEW c \in Conns, NEW n \in Sizes, ClientSends(c, n) PROVE FramingInv'
  <2>1. n \in Nat
    BY LifecycleAssumption
  <2> QED BY <1>5, <2>1 DEF ClientSends, FramingInv
<1>6. ASSUME NEW c \in Conns, handleDoTConnection(c) PROVE FramingInv'
  BY <1>6, ReadKeepsFraming, OthersKeepFraming
     DEF handleDoTConnection, Handshake, ConnEnds, Answer, SubmitLog, CountDrop
<1>7. ASSUME NEW h \in Handlers, QueryArrives(h) \/ HandleQuery(h) PROVE FramingInv'
  BY <1>7, OthersKeepFraming DEF QueryArrives, HandleQuery, HandlerSubmits, HandlerCounts, HandlerStep, dotVars
<1>8. CASE UNCHANGED vars
  BY <1>8, OthersKeepFraming DEF vars, dotVars
<1> QED BY <1>1, <1>2, <1>3, <1>4, <1>5, <1>6, <1>7, <1>8 DEF LifeNext

(* readMsgFromConn reads the two bytes of a length with one Read.  On a     *)
(* connection whose messages are all shorter than 256 bytes it handles what *)
(* was sent or nothing, for any messages and any splitting of the reads.    *)
THEOREM QueriesAsSentHolds == LifeSpec => []QueriesAsSent
<1>1. LifeInit => FramingInv
  BY DEF LifeInit, FramingInv
<1>2. FramingInv /\ [LifeNext]_vars => FramingInv'
  BY NextKeepsFraming
<1>3. FramingInv => QueriesAsSent
  BY DEF FramingInv, QueriesAsSent
<1> QED BY <1>1, <1>2, <1>3, PTL DEF LifeSpec

-----------------------------------------------------------------------------
(* Where the rows are.  Each is in one place, the worker ends with nothing  *)
(* in its hands, and every drop that is not counted yet is some goroutine's *)
(* to count.                                                                *)
CountingHandlers == {h \in Handlers : handler[h] = "count"}
CountingConns == {c \in Conns : conn[c] = "count"}

SinkOK ==
    /\ queued \in Nat /\ held \in Nat /\ dropping \in Nat /\ dropped \in Nat /\ flushed \in Nat
    /\ rows \in Nat /\ done \in BOOLEAN /\ ctxDone \in BOOLEAN

RowInv ==
    /\ SinkOK
    /\ queued <= BufferSize
    /\ done => held = 0
    /\ mainPc = "exited" => done
    /\ rows = flushed + dropped + dropping + queued + held

DropInv ==
    /\ dropping \in Nat
    /\ handler \in [Handlers -> {"none", "answer", "count"}]
    /\ IsFiniteSet(CountingHandlers) /\ IsFiniteSet(CountingConns)
    /\ dropping = Cardinality(CountingHandlers) + Cardinality(CountingConns)

(* What a step of the process is to the queue. *)
LEMMA SinkSteps ==
    ASSUME [LifeNext]_vars
    PROVE  /\ \/ UNCHANGED <<sinkVars, rows>>
              \/ SinkCancel /\ rows' = rows
              \/ (SubmitQueued \/ SubmitDropped) /\ rows' = rows + 1
              \/ (DropCounted \/ TakeRow \/ FlushRows \/ WorkerEnds) /\ rows' = rows
           /\ mainPc' = "exited" => mainPc = "exited" \/ done
<1>1. CASE UNCHANGED vars BY <1>1 DEF vars
<1>2. CASE Signal \/ RunStd \/ ServerFails
  BY <1>2 DEF Signal, RunStd, StdShutdown, StdFails, StdListens, StdListenFails, ServerFails, StdServeFails, HttpServeFails, HttpStep
<1>3. CASE Main BY <1>3 DEF Main, MainSelect, MainWaits
<1>4. CASE RunDoT
  BY <1>4 DEF RunDoT, DotListens, DotListenFails, DotAcceptFails, DotReturns, DotStep
<1>5. CASE Worker BY <1>5 DEF Worker
<1>6. CASE \E h \in HttpServers : RunHttp(h)
  BY <1>6 DEF RunHttp, HttpListens, HttpShutdown, HttpReturns, HttpStep
<1>7. ASSUME NEW c \in Conns,
             ClientConnects(c) \/ ClientLeaves(c) \/ \E n \in Sizes : ClientSends(c, n)
      PROVE  UNCHANGED <<sinkVars, rows, mainPc>>
  BY <1>7 DEF ClientConnects, ClientLeaves, ClientSends
<1>8. ASSUME NEW c \in Conns, handleDoTConnection(c)
      PROVE  /\ mainPc' = mainPc
             /\ \/ UNCHANGED <<sinkVars, rows>>
                \/ (SubmitQueued \/ SubmitDropped) /\ rows' = rows + 1
                \/ DropCounted /\ rows' = rows
  BY <1>8 DEF handleDoTConnection, Handshake, ConnEnds, readMsgFromConn, Answer, SubmitLog, CountDrop, ConnStep
<1>9. ASSUME NEW h \in Handlers, QueryArrives(h) \/ HandleQuery(h)
      PROVE  /\ mainPc' = mainPc
             /\ \/ UNCHANGED <<sinkVars, rows>>
                \/ (SubmitQueued \/ SubmitDropped) /\ rows' = rows + 1
                \/ DropCounted /\ rows' = rows
  BY <1>9 DEF QueryArrives, HandleQuery, HandlerSubmits, HandlerCounts, HandlerStep
<1> QED BY <1>1, <1>2, <1>3, <1>4, <1>5, <1>6, <1>7, <1>8, <1>9 DEF LifeNext

LEMMA NextRows == RowInv /\ [LifeNext]_vars => RowInv'
<1> SUFFICES ASSUME RowInv, [LifeNext]_vars PROVE RowInv' OBVIOUS
<1> USE DEF RowInv, SinkOK
<1>1. mainPc' = "exited" => mainPc = "exited" \/ done BY SinkSteps
<1>2. CASE UNCHANGED <<sinkVars, rows>> BY <1>1, <1>2 DEF sinkVars
<1>3. CASE SinkCancel /\ rows' = rows BY <1>1, <1>3 DEF SinkCancel
<1>4. CASE SubmitQueued /\ rows' = rows + 1 BY <1>1, <1>4, CapacityAssumption DEF SubmitQueued
<1>5. CASE SubmitDropped /\ rows' = rows + 1 BY <1>1, <1>5 DEF SubmitDropped
<1>6. CASE DropCounted /\ rows' = rows BY <1>1, <1>6 DEF DropCounted
<1>7. CASE TakeRow /\ rows' = rows BY <1>1, <1>7, CapacityAssumption DEF TakeRow
<1>8. CASE FlushRows /\ rows' = rows
  <2>1. done' \in BOOLEAN BY <1>8 DEF FlushRows
  <2> QED BY <1>1, <1>8, <2>1 DEF FlushRows
<1>9. CASE WorkerEnds /\ rows' = rows BY <1>1, <1>9 DEF WorkerEnds
<1> QED BY <1>2, <1>3, <1>4, <1>5, <1>6, <1>7, <1>8, <1>9, SinkSteps

(* One goroutine more or less that counts. *)
LEMMA CountChange ==
    ASSUME NEW A, NEW B, NEW x, IsFiniteSet(A), B = A \cup {x} \/ B = A \ {x}
    PROVE  /\ IsFiniteSet(B) /\ Cardinality(A) \in Nat /\ Cardinality(B) \in Nat
           /\ (x \in A <=> x \in B) => Cardinality(B) = Cardinality(A)
           /\ x \notin A /\ x \in B => Cardinality(B) = Cardinality(A) + 1
           /\ x \in A /\ x \notin B => Cardinality(B) = Cardinality(A) - 1
<1>1. CASE B = A \cup {x}
  <2>1. /\ IsFiniteSet(A \cup {x})
        /\ Cardinality(A \cup {x}) = IF x \in A THEN Cardinality(A) ELSE Cardinality(A) + 1
    BY FS_AddElement
  <2> QED BY <1>1, <2>1, FS_CardinalityType
<1>2. CASE B = A \ {x}
  <2>1. /\ IsFiniteSet(A \ {x})
        /\ Cardinality(A \ {x}) = IF x \in A THEN Cardinality(A) - 1 ELSE Cardinality(A)
    BY FS_RemoveElement
  <2> QED BY <1>2, <2>1, FS_CardinalityType
<1> QED BY <1>1, <1>2

(* A connection that has to count a drop, or has done so. *)
LEMMA ConnCounts ==
    ASSUME DropInv, DrainInv, NEW c \in Conns, NEW pc \in ConnStates, ConnStep(c, pc),
           \/ (pc = "count" <=> conn[c] = "count") /\ dropping' = dropping
           \/ pc = "count" /\ conn[c] # "count" /\ dropping' = dropping + 1
           \/ pc # "count" /\ conn[c] = "count" /\ dropping > 0 /\ dropping' = dropping - 1
    PROVE  DropInv'
<1>1. PICK A, B : A = CountingConns /\ B = CountingConns' OBVIOUS
<1>2. conn \in [Conns -> ConnStates] /\ conn' = [conn EXCEPT ![c] = pc] BY DEF DrainInv, ConnStep
<1>3. CountingHandlers' = CountingHandlers /\ handler' \in [Handlers -> {"none", "answer", "count"}]
  BY DEF DropInv, ConnStep, CountingHandlers
<1>4. (c \in A <=> conn[c] = "count") /\ (c \in B <=> pc = "count")
  BY <1>1, <1>2 DEF CountingConns
<1>5. B = A \cup {c} \/ B = A \ {c} BY <1>1, <1>2 DEF CountingConns
<1>6. /\ IsFiniteSet(B) /\ Cardinality(A) \in Nat /\ Cardinality(B) \in Nat
      /\ (c \in A <=> c \in B) => Cardinality(B) = Cardinality(A)
      /\ c \notin A /\ c \in B => Cardinality(B) = Cardinality(A) + 1
      /\ c \in A /\ c \notin B => Cardinality(B) = Cardinality(A) - 1
  BY <1>1, <1>5, CountChange DEF DropInv
<1>7. PICK n \in Nat : n = Cardinality(CountingHandlers) BY FS_CardinalityType DEF DropInv
<1>8. dropping \in Nat /\ dropping = n + Cardinality(A) BY <1>1, <1>6, <1>7 DEF DropInv
<1>9. dropping' \in Nat /\ dropping' = n + Cardinality(B) BY <1>4, <1>6, <1>8
<1> QED BY <1>1, <1>3, <1>6, <1>7, <1>9 DEF DropInv

(* The same for another query. *)
LEMMA HandlerCount ==
    ASSUME DropInv, NEW h \in Handlers, NEW pc \in {"none", "answer", "count"}, HandlerStep(h, pc),
           \/ (pc = "count" <=> handler[h] = "count") /\ dropping' = dropping
           \/ pc = "count" /\ handler[h] # "count" /\ dropping' = dropping + 1
           \/ pc # "count" /\ handler[h] = "count" /\ dropping > 0 /\ dropping' = dropping - 1
    PROVE  DropInv'
<1>1. PICK A, B : A = CountingHandlers /\ B = CountingHandlers' OBVIOUS
<1>2. handler \in [Handlers -> {"none", "answer", "count"}] /\ handler' = [handler EXCEPT ![h] = pc] BY DEF DropInv, HandlerStep
<1>3. CountingConns' = CountingConns /\ handler' \in [Handlers -> {"none", "answer", "count"}]
  BY DEF DropInv, HandlerStep, dotVars, CountingConns
<1>4. (h \in A <=> handler[h] = "count") /\ (h \in B <=> pc = "count")
  BY <1>1, <1>2 DEF CountingHandlers
<1>5. B = A \cup {h} \/ B = A \ {h} BY <1>1, <1>2 DEF CountingHandlers
<1>6. /\ IsFiniteSet(B) /\ Cardinality(A) \in Nat /\ Cardinality(B) \in Nat
      /\ (h \in A <=> h \in B) => Cardinality(B) = Cardinality(A)
      /\ h \notin A /\ h \in B => Cardinality(B) = Cardinality(A) + 1
      /\ h \in A /\ h \notin B => Cardinality(B) = Cardinality(A) - 1
  BY <1>1, <1>5, CountChange DEF DropInv
<1>7. PICK n \in Nat : n = Cardinality(CountingConns) BY FS_CardinalityType DEF DropInv
<1>8. dropping \in Nat /\ dropping = n + Cardinality(A) BY <1>1, <1>6, <1>7 DEF DropInv
<1>9. dropping' \in Nat /\ dropping' = n + Cardinality(B) BY <1>4, <1>6, <1>8
<1> QED BY <1>1, <1>3, <1>6, <1>7, <1>9 DEF DropInv

LEMMA NextDrops == DropInv /\ DrainInv /\ [LifeNext]_vars => DropInv'
<1> SUFFICES ASSUME DropInv, DrainInv, [LifeNext]_vars PROVE DropInv' OBVIOUS
<1>1. ASSUME dropping' = dropping, handler' = handler, CountingConns' = CountingConns PROVE DropInv'
  BY <1>1 DEF DropInv, CountingHandlers
<1>2. ASSUME dropping' = dropping, handler' = handler, conn' = conn PROVE DropInv'
  BY <1>1, <1>2 DEF CountingConns
<1>3. CASE UNCHANGED vars BY <1>2, <1>3 DEF vars, sinkVars, dotVars
<1>4. CASE Signal \/ RunStd \/ ServerFails
  BY <1>2, <1>4 DEF Signal, RunStd, StdShutdown, StdFails, StdListens, StdListenFails, ServerFails, StdServeFails, HttpServeFails, HttpStep,
                    dotVars, sinkVars
<1>5. CASE Main BY <1>2, <1>5 DEF Main, MainSelect, MainWaits, SinkCancel, dotVars, sinkVars
<1>6. CASE RunDoT
  BY <1>2, <1>6 DEF RunDoT, DotListens, DotListenFails, DotAcceptFails, DotReturns, DotStep, dotVars, sinkVars
<1>7. CASE Worker BY <1>2, <1>7 DEF Worker, TakeRow, FlushRows, WorkerEnds, dotVars
<1>8. CASE \E h \in HttpServers : RunHttp(h)
  BY <1>2, <1>8 DEF RunHttp, HttpListens, HttpShutdown, HttpReturns, HttpStep, dotVars, sinkVars
<1>9. ASSUME NEW c \in Conns, ClientConnects(c) PROVE DropInv'
  <2>1. CountingConns' = CountingConns BY <1>9 DEF ClientConnects, CountingConns, DrainInv
  <2> QED BY <1>1, <1>9, <2>1 DEF ClientConnects, sinkVars
<1>10. ASSUME NEW c \in Conns, ClientLeaves(c) \/ \E n \in Sizes : ClientSends(c, n) PROVE DropInv'
  BY <1>2, <1>10 DEF ClientLeaves, ClientSends, sinkVars
<1>11. ASSUME NEW c \in Conns, handleDoTConnection(c) PROVE DropInv'
  <2>1. ASSUME NEW pc \in ConnStates, pc # "count", conn[c] # "count", ConnStep(c, pc), UNCHANGED sinkVars
        PROVE  DropInv'
    BY <1>11, <2>1, ConnCounts DEF sinkVars
  <2>2. CASE Handshake(c) BY <2>1, <2>2 DEF Handshake, ConnStates
  <2>3. CASE ConnEnds(c) BY <2>1, <2>3 DEF ConnEnds, ConnStates
  <2>4. CASE \E k \in 1..2 : readMsgFromConn(c, k) BY <2>1, <2>4 DEF readMsgFromConn, ConnStates
  <2>5. CASE Answer(c) BY <2>1, <2>5 DEF Answer, ConnStates
  <2>6. CASE SubmitLog(c)
    <3>1. conn[c] = "log" BY <2>6 DEF SubmitLog
    <3>2. CASE SubmitQueued /\ ConnStep(c, "read")
      BY <3>1, <3>2, ConnCounts DEF SubmitQueued, ConnStates
    <3>3. CASE SubmitDropped /\ ConnStep(c, "count")
      BY <3>1, <3>3, ConnCounts DEF SubmitDropped, ConnStates
    <3> QED BY <2>6, <3>2, <3>3 DEF SubmitLog
  <2>7. CASE CountDrop(c) BY <2>7, ConnCounts DEF CountDrop, DropCounted, ConnStates
  <2> QED BY <1>11, <2>2, <2>3, <2>4, <2>5, <2>6, <2>7 DEF handleDoTConnection
<1>12. ASSUME NEW h \in Handlers, QueryArrives(h) PROVE DropInv'
  BY <1>12, HandlerCount DEF QueryArrives, sinkVars
<1>13. ASSUME NEW h \in Handlers, HandlerSubmits(h) PROVE DropInv'
  <2>1. handler[h] = "answer" BY <1>13 DEF HandlerSubmits
  <2>2. CASE SubmitQueued /\ HandlerStep(h, "none") BY <2>1, <2>2, HandlerCount DEF SubmitQueued
  <2>3. CASE SubmitDropped /\ HandlerStep(h, "count") BY <2>1, <2>3, HandlerCount DEF SubmitDropped
  <2> QED BY <1>13, <2>2, <2>3 DEF HandlerSubmits
<1>14. ASSUME NEW h \in Handlers, HandlerCounts(h) PROVE DropInv'
  BY <1>14, HandlerCount DEF HandlerCounts, DropCounted
<1> QED BY <1>3, <1>4, <1>5, <1>6, <1>7, <1>8, <1>9, <1>10, <1>11, <1>12, <1>13, <1>14
        DEF LifeNext, HandleQuery

(* When main ends the worker has flushed what it held, and every row that   *)
(* was submitted is flushed, counted as dropped, about to be counted by a   *)
(* query nobody waits for, or still in the channel.                         *)
THEOREM RowsAtExitHolds == LifeSpec => []RowsAtExit
<1> DEFINE Inv == DrainInv /\ RowInv /\ DropInv
<1>1. LifeInit => Inv
  <2> SUFFICES ASSUME LifeInit PROVE Inv OBVIOUS
  <2>1. DrainInv BY DEF LifeInit, DrainInv, ConnStates
  <2>2. RowInv
    <3>1. /\ queued = 0 /\ held = 0 /\ dropping = 0 /\ dropped = 0 /\ flushed = 0 /\ rows = 0
          /\ mainPc = "select"
      BY DEF LifeInit, SinkInit
    <3>2. done \in BOOLEAN /\ ctxDone \in BOOLEAN BY DEF LifeInit, SinkInit
    <3> QED BY <3>1, <3>2, CapacityAssumption DEF RowInv, SinkOK
  <2>3. CountingHandlers = {} /\ CountingConns = {} BY DEF LifeInit, CountingHandlers, CountingConns
  <2>4. DropInv BY <2>3, FS_EmptySet DEF LifeInit, SinkInit, DropInv
  <2> QED BY <2>1, <2>2, <2>4
<1>2. Inv /\ [LifeNext]_vars => Inv' BY NextKeepsDrain, NextRows, NextDrops
<1>3. Inv => RowsAtExit
  <2> SUFFICES ASSUME Inv, mainPc = "exited"
               PROVE  /\ held = 0 /\ queued <= BufferSize
                      /\ dropping = Cardinality({h \in Handlers : handler[h] = "count"})
                      /\ rows = flushed + dropped + dropping + queued
    BY DEF RowsAtExit
  <2>1. held = 0 /\ queued <= BufferSize BY DEF RowInv
  <2>2. CountingConns = {} BY DEF DrainInv, CountingConns
  <2>3. Cardinality(CountingConns) = 0 BY <2>2, FS_EmptySet
  <2>4. PICK n \in Nat : n = Cardinality(CountingHandlers) BY FS_CardinalityType DEF DropInv
  <2>5. dropping = n BY <2>3, <2>4 DEF DropInv
  <2>6. rows = flushed + dropped + dropping + queued BY <2>1 DEF RowInv, SinkOK
  <2> QED BY <2>1, <2>4, <2>5, <2>6 DEF CountingHandlers
<1> QED BY <1>1, <1>2, <1>3, PTL DEF LifeSpec

-----------------------------------------------------------------------------
(* RunStd.  A server that starts after the cancellation is not "serving",   *)
(* so what ShutdownContext has passed stays closed; a failure stays.        *)
StdInv ==
    /\ listener \in [Transports -> {"starting", "serving", "late", "closed", "failed"}]
    /\ std \in {"select", "shut", "returned"}
    /\ std = "shut" => ctxDone /\ listener["udp"] # "serving"
    /\ std = "returned" => \/ \E t \in Transports : listener[t] = "failed"
                           \/ ctxDone /\ \A t \in Transports : listener[t] # "serving"
    /\ mainPc \in {"aggwait", "exited"} => std = "returned"

(* A step that is not RunStd's. *)
LEMMA OthersKeepStd ==
    ASSUME StdInv, UNCHANGED <<listener, std>>, ctxDone => ctxDone',
           mainPc' \in {"aggwait", "exited"} => mainPc \in {"aggwait", "exited"} \/ std = "returned"
    PROVE  StdInv'
  BY DEF StdInv

LEMMA RunStdKeeps == StdInv /\ RunStd => StdInv'
<1> SUFFICES ASSUME StdInv, RunStd PROVE StdInv' OBVIOUS
<1>1. /\ listener \in [Transports -> {"starting", "serving", "late", "closed", "failed"}]
      /\ "udp" \in Transports /\ "tcp" \in Transports
      /\ \A t \in Transports : t = "udp" \/ t = "tcp"
  BY DEF StdInv, Transports
<1>2. ctxDone' = ctxDone /\ mainPc' = mainPc
  BY DEF RunStd, StdShutdown, StdFails, StdListens, StdListenFails, sinkVars
<1>3. ASSUME NEW t \in Transports, StdListens(t) PROVE StdInv'
  <2>1. PICK new \in {"late", "serving"} :
            listener' = [listener EXCEPT ![t] = new] /\ (ctxDone => new = "late")
    BY <1>3 DEF StdListens
  <2> QED BY <1>1, <1>2, <1>3, <2>1 DEF StdListens, StdInv
<1>4. ASSUME NEW t \in Transports, StdListenFails(t) PROVE StdInv'
  BY <1>1, <1>2, <1>4 DEF StdListenFails, StdInv
<1>5. ASSUME NEW t \in Transports, ShutdownContext(t)
      PROVE  /\ listener' \in [Transports -> {"starting", "serving", "late", "closed", "failed"}]
             /\ listener'[t] # "serving"
             /\ \A x \in Transports : x # t => listener'[x] = listener[x]
             /\ \A x \in Transports : listener[x] = "failed" => listener'[x] = "failed"
  BY <1>1, <1>5 DEF ShutdownContext, Serves
<1>6. CASE StdShutdown
  <2>1. CASE std = "select" /\ ctxDone /\ std' = "shut" /\ ShutdownContext("udp")
    BY <1>1, <1>2, <1>5, <2>1 DEF StdInv
  <2>2. CASE std = "shut" /\ std' = "returned" /\ ShutdownContext("tcp")
    <3>1. ctxDone /\ listener["udp"] # "serving" BY <2>2 DEF StdInv
    <3>2. \A t \in Transports : listener'[t] # "serving" BY <1>1, <1>5, <2>2, <3>1
    <3> QED BY <1>1, <1>2, <1>5, <2>2, <3>1, <3>2 DEF StdInv
  <2> QED BY <1>6, <2>1, <2>2 DEF StdShutdown
<1>7. CASE StdFails BY <1>1, <1>2, <1>7 DEF StdFails, StdInv
<1> QED BY <1>3, <1>4, <1>6, <1>7 DEF RunStd

LEMMA NextKeepsStd == StdInv /\ [LifeNext]_vars => StdInv'
<1> SUFFICES ASSUME StdInv, [LifeNext]_vars PROVE StdInv' OBVIOUS
<1>1. ctxDone => ctxDone'
  BY SinkSteps DEF sinkVars, SinkCancel, SubmitQueued, SubmitDropped, DropCounted, TakeRow, FlushRows, WorkerEnds
<1>2. CASE RunStd BY <1>2, RunStdKeeps
<1>3. CASE Main
  BY <1>1, <1>3, OthersKeepStd DEF Main, MainSelect, MainWaits, AllReturned, serverVars
<1>4. ASSUME UNCHANGED <<listener, std, mainPc>> PROVE StdInv' BY <1>1, <1>4, OthersKeepStd
<1>5. CASE UNCHANGED vars BY <1>4, <1>5 DEF vars, serverVars
<1>6. CASE Signal \/ Worker BY <1>4, <1>6 DEF Signal, Worker, serverVars
<1>7. ASSUME NEW t \in Transports, StdServeFails(t) PROVE StdInv'
  <2>1. ctxDone' = ctxDone /\ mainPc' = mainPc /\ std' = std BY <1>7 DEF StdServeFails, sinkVars
  <2> QED BY <1>7, <2>1 DEF StdServeFails, StdInv, Transports
<1>8. ASSUME NEW h \in HttpServers, HttpServeFails(h) PROVE StdInv'
  BY <1>4, <1>8 DEF HttpServeFails, HttpStep
<1>9. CASE RunDoT
  BY <1>4, <1>9 DEF RunDoT, DotListens, DotListenFails, DotAcceptFails, DotReturns, DotStep
<1>10. CASE \E h \in HttpServers : RunHttp(h)
  BY <1>4, <1>10 DEF RunHttp, HttpListens, HttpShutdown, HttpReturns, HttpStep
<1>11. ASSUME NEW c \in Conns,
             \/ ClientConnects(c) \/ ClientLeaves(c) \/ handleDoTConnection(c)
             \/ \E n \in Sizes : ClientSends(c, n)
      PROVE  StdInv'
  BY <1>4, <1>11 DEF ClientConnects, ClientLeaves, ClientSends, handleDoTConnection, Handshake, ConnEnds,
                    readMsgFromConn, Answer, SubmitLog, CountDrop, ConnStep, serverVars
<1>12. ASSUME NEW h \in Handlers, QueryArrives(h) \/ HandleQuery(h) PROVE StdInv'
  BY <1>4, <1>12 DEF QueryArrives, HandleQuery, HandlerSubmits, HandlerCounts, HandlerStep, serverVars
<1> QED BY <1>2, <1>3, <1>5, <1>6, <1>7, <1>8, <1>9, <1>10, <1>11, <1>12 DEF LifeNext, ServerFails

(* Neither server of RunStd that served at the cancellation still does when *)
(* the process ends, unless the other one has failed.                       *)
THEOREM ServersClosedHolds == LifeSpec => []ServersClosed
<1>1. LifeInit => StdInv
  BY DEF LifeInit, StdInv, Transports
<1>2. StdInv => ServersClosed
  BY DEF StdInv, ServersClosed
<1> QED BY <1>1, <1>2, NextKeepsStd, PTL DEF LifeSpec
=============================================================================
