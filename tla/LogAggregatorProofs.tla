------------------------ MODULE LogAggregatorProofs ------------------------
(***************************************************************************)
(* Proofs about LogAggregator, for every capacity, threshold and number of *)
(* logs: type correctness, Conservation, StoredInOrder, WritesAccounted,   *)
(* StatsSound, BatchFlushedOnStop and the refinement of LogSink.          *)
(***************************************************************************)
EXTENDS LogAggregatorProps, TLAPS

(* Every element of s comes before every element of t. *)
Before(s, t) == \A i \in 1..Len(s), j \in 1..Len(t) : s[i] < t[j]

(* Where the worker is and what its local variables hold there. *)
Control ==
    /\ pc = "select" => Len(batch) < FlushThreshold
    /\ pc \in {"count", "prepare", "append", "done"} => batch = <<>>
    /\ pc \in {"select", "swap", "done"} => work = <<>>
    /\ pc # "append" => chBatch = <<>> /\ row = 0
    /\ pc = "append" => row >= 1 /\ row <= Len(work) + 1 /\ Len(chBatch) <= row - 1

(* Rows a write under way has still to store, report or count as lost. *)
Outstanding ==
    CASE pc = "prepare" -> Len(work)
      [] pc = "append" -> Len(chBatch) + Len(work) - (row - 1)
      [] OTHER -> 0

WriteBalance == chConn => flushed <= Len(stored) + lost + skipped + Outstanding

StatsBehind == stats.flushed <= flushed /\ stats.dropped <= dropped

(* The logs in ClickHouse, in the write under way, in the batch and in the  *)
(* channel are one increasing run of numbers.                               *)
Order ==
    /\ Increasing(stored) /\ Increasing(chBatch) /\ Increasing(work)
    /\ Increasing(batch) /\ Increasing(logCh)
    /\ Before(stored, chBatch) /\ Before(stored, work) /\ Before(stored, batch) /\ Before(stored, logCh)
    /\ \A i \in 1..Len(chBatch), k \in 1..Len(work) : k >= row => chBatch[i] < work[k]
    /\ Before(chBatch, batch) /\ Before(chBatch, logCh)
    /\ Before(work, batch) /\ Before(work, logCh)
    /\ Before(batch, logCh)
    /\ \A i \in 1..Len(logCh) : logCh[i] <= submitted
    /\ \A i \in 1..Len(batch) : batch[i] <= submitted
    /\ \A i \in 1..Len(work) : work[i] <= submitted
    /\ \A i \in 1..Len(chBatch) : chBatch[i] <= submitted
    /\ \A i \in 1..Len(stored) : stored[i] <= submitted

Bounded == TypeOK /\ Control

-----------------------------------------------------------------------------
(* Facts about increasing sequences of logs: appending a later log, dropping*)
(* the head, and concatenating.                                             *)

(* Appending a log that comes after every log of an increasing sequence     *)
(* keeps it increasing: SubmitLog and the receive case of the worker.       *)
LEMMA AppendIncreasing ==
    ASSUME NEW s \in Seq(Logs), NEW e \in Logs, Increasing(s),
           \A i \in 1..Len(s) : s[i] < e
    PROVE  Increasing(Append(s, e))
  BY DEF Increasing, Logs

(* Receiving from the channel leaves an increasing channel. *)
LEMMA TailIncreasing ==
    ASSUME NEW s \in Seq(Logs), s # <<>>, Increasing(s)
    PROVE  /\ Increasing(Tail(s))
           /\ \A i \in 1..Len(Tail(s)) : Head(s) < Tail(s)[i]
  BY DEF Increasing, Logs

(* Storing a batch after the batches before it. *)
LEMMA ConcatIncreasing ==
    ASSUME NEW s \in Seq(Logs), NEW t \in Seq(Logs), Increasing(s), Increasing(t), Before(s, t)
    PROVE  Increasing(s \o t)
  BY DEF Increasing, Before, Logs

(* Where an element of a concatenation comes from. *)
LEMMA ConcatElements ==
    ASSUME NEW s \in Seq(Logs), NEW t \in Seq(Logs), NEW i \in 1..Len(s \o t)
    PROVE  \/ i \in 1..Len(s) /\ (s \o t)[i] = s[i]
           \/ i - Len(s) \in 1..Len(t) /\ (s \o t)[i] = t[i - Len(s)]
  OBVIOUS

(* What comes after two sequences comes after their concatenation. *)
LEMMA ConcatBefore ==
    ASSUME NEW s \in Seq(Logs), NEW t \in Seq(Logs), NEW u \in Seq(Logs),
           Before(s, u), Before(t, u)
    PROVE  Before(s \o t, u)
  BY DEF Before, Logs

-----------------------------------------------------------------------------
(* The types, the worker's control and the balance hold at the start. *)
LEMMA InitBounded == Init => Bounded /\ Conservation
<1> SUFFICES ASSUME Init PROVE Bounded /\ Conservation OBVIOUS
<1>1. CountersOK BY SizesAssumption DEF Init, CountersOK
<1>2. QueuesOK BY SizesAssumption DEF Init, QueuesOK
<1>3. ControlOK BY DEF Init, ControlOK, Positions
<1>4. Control BY SizesAssumption DEF Init, Control
<1>5. Conservation BY DEF Init, Conservation, Uncounted
<1>6. QED BY <1>1, <1>2, <1>3, <1>4, <1>5 DEF Bounded, TypeOK

(* The counters keep their types under every step. *)
LEMMA NextCounters == Bounded /\ [Next]_vars => CountersOK'
<1> SUFFICES ASSUME Bounded, [Next]_vars PROVE CountersOK' OBVIOUS
<1> USE SizesAssumption DEF Bounded, TypeOK, Control, CountersOK, QueuesOK
<1>1. CASE SubmitAccept BY <1>1 DEF SubmitAccept, QueueFull, workerVars
<1>2. CASE SubmitFull BY <1>2 DEF SubmitFull, workerVars
<1>3. CASE CountDrop BY <1>3 DEF CountDrop, workerVars
<1>4. CASE Cancel BY <1>4 DEF Cancel, workerVars
<1>5. CASE SelectDone BY <1>5 DEF SelectDone
<1>6. CASE SelectLog BY <1>6 DEF SelectLog
<1>7. CASE SelectTick BY <1>7 DEF SelectTick
<1>8. CASE SwapBatch BY <1>8 DEF SwapBatch
<1>9. CASE CountFlushed BY <1>9 DEF CountFlushed, FlushReturns
<1>10. CASE PrepareBatch BY <1>10 DEF PrepareBatch
<1>11. CASE PrepareFails BY <1>11 DEF PrepareFails, FlushReturns
<1>12. CASE AppendRow BY <1>12 DEF AppendRow
<1>13. CASE SendOk BY <1>13 DEF SendOk, FlushReturns
<1>14. CASE SendFails BY <1>14 DEF SendFails, FlushReturns
<1>15. CASE StatsFlushed BY <1>15 DEF StatsFlushed, workerVars
<1>16. CASE StatsDropped BY <1>16 DEF StatsDropped, workerVars
<1>17. CASE UNCHANGED vars BY <1>17 DEF vars
<1>18. QED BY <1>1, <1>2, <1>3, <1>4, <1>5, <1>6, <1>7, <1>8, <1>9, <1>10, <1>11, <1>12,
              <1>13, <1>14, <1>15, <1>16, <1>17 DEF Next

(* The channel and the batch keep their bounds under every step. *)
LEMMA NextQueues == Bounded /\ [Next]_vars => QueuesOK'
<1> SUFFICES ASSUME Bounded, [Next]_vars PROVE QueuesOK' OBVIOUS
<1> USE SizesAssumption DEF Bounded, TypeOK, Control, CountersOK, QueuesOK, Logs
<1>1. CASE SubmitAccept BY <1>1 DEF SubmitAccept, QueueFull, workerVars
<1>2. CASE SubmitFull BY <1>2 DEF SubmitFull, workerVars
<1>3. CASE CountDrop BY <1>3 DEF CountDrop, workerVars
<1>4. CASE Cancel BY <1>4 DEF Cancel, workerVars
<1>5. CASE SelectDone BY <1>5 DEF SelectDone
<1>6. CASE SelectLog BY <1>6 DEF SelectLog
<1>7. CASE SelectTick BY <1>7 DEF SelectTick
<1>8. CASE SwapBatch BY <1>8 DEF SwapBatch
<1>9. CASE CountFlushed BY <1>9 DEF CountFlushed, FlushReturns
<1>10. CASE PrepareBatch BY <1>10 DEF PrepareBatch
<1>11. CASE PrepareFails BY <1>11 DEF PrepareFails, FlushReturns
<1>12. CASE AppendRow
  <2>1. work[row] \in 1..MaxLogs BY <1>12 DEF AppendRow
  <2>2. Append(chBatch, work[row]) \in Seq(1..MaxLogs) BY <2>1
  <2>3. chBatch' \in Seq(1..MaxLogs) BY <1>12, <2>2 DEF AppendRow
  <2>4. QED BY <1>12, <2>3 DEF AppendRow
<1>13. CASE SendOk BY <1>13 DEF SendOk, FlushReturns
<1>14. CASE SendFails
  <2>1. stored \o chBatch \in Seq(1..MaxLogs) OBVIOUS
  <2>2. stored' \in Seq(1..MaxLogs) BY <1>14, <2>1 DEF SendFails
  <2>3. QED BY <1>14, <2>2 DEF SendFails, FlushReturns
<1>15. CASE StatsFlushed BY <1>15 DEF StatsFlushed, workerVars
<1>16. CASE StatsDropped BY <1>16 DEF StatsDropped, workerVars
<1>17. CASE UNCHANGED vars BY <1>17 DEF vars
<1>18. QED BY <1>1, <1>2, <1>3, <1>4, <1>5, <1>6, <1>7, <1>8, <1>9, <1>10, <1>11, <1>12,
              <1>13, <1>14, <1>15, <1>16, <1>17 DEF Next

(* Flags and positions keep their types under every step. *)
LEMMA NextControlOK == Bounded /\ [Next]_vars => ControlOK'
<1> SUFFICES ASSUME Bounded, [Next]_vars PROVE ControlOK' OBVIOUS
<1> USE DEF Bounded, TypeOK, ControlOK, CountersOK, Positions
<1>1. CASE SubmitAccept BY <1>1 DEF SubmitAccept, QueueFull, workerVars
<1>2. CASE SubmitFull BY <1>2 DEF SubmitFull, workerVars
<1>3. CASE CountDrop BY <1>3 DEF CountDrop, workerVars
<1>4. CASE Cancel BY <1>4 DEF Cancel, workerVars
<1>5. CASE SelectDone BY <1>5 DEF SelectDone
<1>6. CASE SelectLog BY <1>6 DEF SelectLog
<1>7. CASE SelectTick BY <1>7 DEF SelectTick
<1>8. CASE SwapBatch BY <1>8 DEF SwapBatch
<1>9. CASE CountFlushed BY <1>9 DEF CountFlushed, FlushReturns
<1>10. CASE PrepareBatch BY <1>10 DEF PrepareBatch
<1>11. CASE PrepareFails BY <1>11 DEF PrepareFails, FlushReturns
<1>12. CASE AppendRow BY <1>12 DEF AppendRow
<1>13. CASE SendOk BY <1>13 DEF SendOk, FlushReturns
<1>14. CASE SendFails BY <1>14 DEF SendFails, FlushReturns
<1>15. CASE StatsFlushed BY <1>15 DEF StatsFlushed, workerVars
<1>16. CASE StatsDropped BY <1>16 DEF StatsDropped, workerVars
<1>17. CASE UNCHANGED vars BY <1>17 DEF vars
<1>18. QED BY <1>1, <1>2, <1>3, <1>4, <1>5, <1>6, <1>7, <1>8, <1>9, <1>10, <1>11, <1>12,
              <1>13, <1>14, <1>15, <1>16, <1>17 DEF Next

(* The worker's local variables match its position under every step. *)
LEMMA NextControl == Bounded /\ [Next]_vars => Control'
<1> SUFFICES ASSUME Bounded, [Next]_vars PROVE Control' OBVIOUS
<1> USE SizesAssumption DEF Bounded, TypeOK, Control, CountersOK, QueuesOK, ControlOK, Positions
<1>1. CASE SubmitAccept BY <1>1 DEF SubmitAccept, QueueFull, workerVars
<1>2. CASE SubmitFull BY <1>2 DEF SubmitFull, workerVars
<1>3. CASE CountDrop BY <1>3 DEF CountDrop, workerVars
<1>4. CASE Cancel BY <1>4 DEF Cancel, workerVars
<1>5. CASE SelectDone BY <1>5 DEF SelectDone
<1>6. CASE SelectLog BY <1>6 DEF SelectLog
<1>7. CASE SelectTick BY <1>7 DEF SelectTick
<1>8. CASE SwapBatch BY <1>8 DEF SwapBatch
<1>9. CASE CountFlushed BY <1>9 DEF CountFlushed, FlushReturns
<1>10. CASE PrepareBatch BY <1>10 DEF PrepareBatch
<1>11. CASE PrepareFails BY <1>11 DEF PrepareFails, FlushReturns
<1>12. CASE AppendRow BY <1>12 DEF AppendRow
<1>13. CASE SendOk BY <1>13 DEF SendOk, FlushReturns
<1>14. CASE SendFails BY <1>14 DEF SendFails, FlushReturns
<1>15. CASE StatsFlushed BY <1>15 DEF StatsFlushed, workerVars
<1>16. CASE StatsDropped BY <1>16 DEF StatsDropped, workerVars
<1>17. CASE UNCHANGED vars BY <1>17 DEF vars
<1>18. QED BY <1>1, <1>2, <1>3, <1>4, <1>5, <1>6, <1>7, <1>8, <1>9, <1>10, <1>11, <1>12,
              <1>13, <1>14, <1>15, <1>16, <1>17 DEF Next

(* No step of any goroutine loses or doubles a log. *)
LEMMA NextConservation == Bounded /\ Conservation /\ [Next]_vars => Conservation'
<1> SUFFICES ASSUME Bounded, Conservation, [Next]_vars PROVE Conservation' OBVIOUS
<1> USE DEF Bounded, TypeOK, Control, CountersOK, QueuesOK
<1>0. /\ submitted \in Int /\ dropping \in Int /\ dropped \in Int /\ flushed \in Int
      /\ Len(logCh) \in Int /\ Len(batch) \in Int /\ Len(work) \in Int /\ Uncounted \in Int
  BY DEF Uncounted
<1>1. CASE SubmitAccept
  <2>1. submitted' = submitted + 1 /\ UNCHANGED <<dropping, dropped, batch, flushed, pc, work>>
    BY <1>1 DEF SubmitAccept, workerVars
  <2>2. Len(logCh') = Len(logCh) + 1 BY <1>1 DEF SubmitAccept
  <2>3. Uncounted' = Uncounted BY <2>1 DEF Uncounted
  <2>4. QED BY <1>0, <2>1, <2>2, <2>3 DEF Conservation
<1>2. CASE SubmitFull
  <2>1. /\ submitted' = submitted + 1 /\ dropping' = dropping + 1
        /\ UNCHANGED <<dropped, logCh, batch, flushed, pc, work>>
    BY <1>2 DEF SubmitFull, workerVars
  <2>2. Uncounted' = Uncounted BY <2>1 DEF Uncounted
  <2>3. QED BY <1>0, <2>1, <2>2 DEF Conservation
<1>3. CASE CountDrop
  <2>1. /\ dropping' = dropping - 1 /\ dropped' = dropped + 1
        /\ UNCHANGED <<submitted, logCh, batch, flushed, pc, work>>
    BY <1>3 DEF CountDrop, workerVars
  <2>2. Uncounted' = Uncounted BY <2>1 DEF Uncounted
  <2>3. QED BY <1>0, <2>1, <2>2 DEF Conservation
<1>4. CASE Cancel \/ StatsFlushed \/ StatsDropped \/ UNCHANGED vars
  <2>1. UNCHANGED <<submitted, dropping, dropped, logCh, batch, flushed, pc, work>>
    BY <1>4 DEF Cancel, StatsFlushed, StatsDropped, vars, workerVars
  <2>2. QED BY <2>1 DEF Conservation, Uncounted
<1>5. CASE SelectDone \/ SelectTick
  BY <1>5 DEF SelectDone, SelectTick, Conservation, Uncounted
<1>6. CASE SelectLog
  BY <1>6 DEF SelectLog, Conservation, Uncounted
<1>7. CASE SwapBatch
  BY <1>7 DEF SwapBatch, Conservation, Uncounted
<1>8. CASE CountFlushed
  <2>1. /\ flushed' = flushed + Len(work)
        /\ UNCHANGED <<submitted, dropping, dropped, logCh, batch>>
    BY <1>8 DEF CountFlushed
  <2>2. Uncounted = Len(work) /\ Uncounted' = 0
    BY <1>8 DEF CountFlushed, FlushReturns, Uncounted
  <2>3. QED BY <1>0, <2>1, <2>2 DEF Conservation
<1>9. CASE PrepareBatch \/ PrepareFails \/ AppendRow \/ SendOk \/ SendFails
  <2>1. UNCHANGED <<submitted, dropping, dropped, logCh, batch, flushed>>
    BY <1>9 DEF PrepareBatch, PrepareFails, AppendRow, SendOk, SendFails
  <2>2. Uncounted = 0 /\ Uncounted' = 0
    BY <1>9 DEF PrepareBatch, PrepareFails, AppendRow, SendOk, SendFails, FlushReturns, Uncounted
  <2>3. QED BY <2>1, <2>2 DEF Conservation
<1>10. QED BY <1>1, <1>2, <1>3, <1>4, <1>5, <1>6, <1>7, <1>8, <1>9 DEF Next

(* What a reader of Stats has seen stays behind the counters, which never go back. *)
LEMMA NextStatsBehind == Bounded /\ StatsBehind /\ [Next]_vars => StatsBehind'
<1> SUFFICES ASSUME Bounded, StatsBehind, [Next]_vars PROVE StatsBehind' OBVIOUS
<1> USE DEF Bounded, TypeOK, CountersOK, QueuesOK, ControlOK, NoLoad
<1>1. flushed' >= flushed /\ dropped' >= dropped
  <2>1. CASE CountDrop BY <2>1 DEF CountDrop, workerVars
  <2>2. CASE CountFlushed BY <2>2 DEF CountFlushed
  <2>3. CASE ~(CountDrop \/ CountFlushed)
    <3>1. UNCHANGED <<flushed, dropped>>
      BY <2>3 DEF Next, vars, workerVars, SubmitAccept, SubmitFull, Cancel, SelectDone, SelectLog,
         SelectTick, SwapBatch, PrepareBatch, PrepareFails, AppendRow, SendOk, SendFails,
         StatsFlushed, StatsDropped
    <3>2. QED BY <3>1
  <2>4. QED BY <2>1, <2>2, <2>3
<1>2. CASE StatsFlushed BY <1>2 DEF StatsFlushed, StatsBehind, workerVars
<1>3. CASE StatsDropped
  <2>1. stats'.flushed = stats.flushed /\ stats'.dropped = dropped /\ UNCHANGED <<flushed, dropped>>
    BY <1>3 DEF StatsDropped, workerVars
  <2>2. QED BY <2>1 DEF StatsBehind
<1>4. CASE ~(StatsFlushed \/ StatsDropped)
  <2>1. stats' = stats
    BY <1>4 DEF Next, vars, workerVars, SubmitAccept, SubmitFull, CountDrop, Cancel, SelectDone,
       SelectLog, SelectTick, SwapBatch, CountFlushed, PrepareBatch, PrepareFails, AppendRow,
       SendOk, SendFails
  <2>2. flushed' \in Int /\ dropped' \in Int BY NextCounters DEF CountersOK
  <2>3. QED BY <1>1, <2>1, <2>2 DEF StatsBehind
<1>5. QED BY <1>2, <1>3, <1>4

(* With a connection, a flushed row is stored, counted as lost, reported as *)
(* skipped, or still in the hands of the write under way.                   *)
LEMMA NextWriteBalance == Bounded /\ WriteBalance /\ [Next]_vars => WriteBalance'
<1> SUFFICES ASSUME Bounded, WriteBalance, [Next]_vars, chConn'
             PROVE  (flushed <= Len(stored) + lost + skipped + Outstanding)'
  BY DEF WriteBalance
<1> USE DEF Bounded, TypeOK, Control, CountersOK, QueuesOK
<1>0. chConn
  BY DEF Next, vars, workerVars, SubmitAccept, SubmitFull, CountDrop, Cancel, SelectDone,
     SelectLog, SelectTick, SwapBatch, CountFlushed, PrepareBatch, PrepareFails, AppendRow,
     SendOk, SendFails, StatsFlushed, StatsDropped
<1>1. flushed <= Len(stored) + lost + skipped + Outstanding BY <1>0 DEF WriteBalance
<1>2. CASE SubmitAccept \/ SubmitFull \/ CountDrop \/ Cancel \/ StatsFlushed \/ StatsDropped
           \/ UNCHANGED vars
  <2>1. UNCHANGED <<flushed, stored, lost, skipped, pc, work, row, chBatch>>
    BY <1>2 DEF SubmitAccept, SubmitFull, CountDrop, Cancel, StatsFlushed, StatsDropped, vars, workerVars
  <2>2. QED BY <1>1, <2>1 DEF Outstanding
<1>3. CASE SelectDone \/ SelectLog \/ SelectTick \/ SwapBatch
  <2>1. UNCHANGED <<flushed, stored, lost, skipped>>
    BY <1>3 DEF SelectDone, SelectLog, SelectTick, SwapBatch
  <2>2. Outstanding = 0 /\ Outstanding' = 0
    BY <1>3 DEF SelectDone, SelectLog, SelectTick, SwapBatch, Outstanding
  <2>3. QED BY <1>1, <2>1, <2>2
<1>4. CASE CountFlushed
  <2>1. Outstanding = 0 /\ Outstanding' = Len(work) BY <1>0, <1>4 DEF CountFlushed, Outstanding
  <2>2. flushed' = flushed + Len(work) /\ UNCHANGED <<stored, lost, skipped>> BY <1>4 DEF CountFlushed
  <2>3. QED BY <1>1, <2>1, <2>2
<1>5. CASE PrepareBatch
  <2>1. Outstanding = Len(work) /\ Outstanding' = Len(work) BY <1>5 DEF PrepareBatch, Outstanding
  <2>2. UNCHANGED <<flushed, stored, lost, skipped>> BY <1>5 DEF PrepareBatch
  <2>3. QED BY <1>1, <2>1, <2>2
<1>6. CASE PrepareFails
  <2>1. Outstanding = Len(work) /\ Outstanding' = 0 BY <1>6 DEF PrepareFails, FlushReturns, Outstanding
  <2>2. lost' = lost + Len(work) /\ UNCHANGED <<flushed, stored, skipped>> BY <1>6 DEF PrepareFails
  <2>3. QED BY <1>1, <2>1, <2>2
<1>7. CASE AppendRow
  <2>1. /\ Outstanding = Len(chBatch) + Len(work) - (row - 1)
        /\ Outstanding' = Len(chBatch') + Len(work) - row
    BY <1>7 DEF AppendRow, Outstanding
  <2>2. \/ Len(chBatch') = Len(chBatch) + 1 /\ skipped' = skipped
        \/ Len(chBatch') = Len(chBatch) /\ skipped' = skipped + 1
    BY <1>7 DEF AppendRow
  <2>3. UNCHANGED <<flushed, stored, lost>> BY <1>7 DEF AppendRow
  <2>4. Len(chBatch) \in Int /\ Len(work) \in Int /\ Len(stored) \in Int OBVIOUS
  <2>5. CASE Len(chBatch') = Len(chBatch) + 1 /\ skipped' = skipped
    <3>1. Outstanding' = Outstanding BY <2>1, <2>4, <2>5
    <3>2. QED BY <1>1, <2>3, <2>5, <3>1
  <2>6. CASE Len(chBatch') = Len(chBatch) /\ skipped' = skipped + 1
    <3>1. Outstanding' = Outstanding - 1 /\ Outstanding \in Int BY <2>1, <2>4, <2>6
    <3>2. QED BY <1>1, <2>3, <2>4, <2>6, <3>1
  <2>7. QED BY <2>2, <2>5, <2>6
<1>8. CASE SendOk \/ SendFails
  <2>1. Outstanding = Len(chBatch) /\ Outstanding' = 0 /\ Len(chBatch) <= Len(work)
    <3>1. pc = "append" /\ row > Len(work) /\ pc' \in {"done", "select"}
      BY <1>8 DEF SendOk, SendFails, FlushReturns
    <3>2. Outstanding' = 0 BY <3>1 DEF Outstanding
    <3>3. row = Len(work) + 1 BY <3>1
    <3>4. QED BY <3>1, <3>2, <3>3 DEF Outstanding
  <2>2. UNCHANGED <<flushed, skipped>> BY <1>8 DEF SendOk, SendFails
  <2>3. Len(stored \o chBatch) = Len(stored) + Len(chBatch) OBVIOUS
  <2>4. \/ Len(stored') = Len(stored) + Len(chBatch) /\ lost' >= lost
        \/ Len(stored') = Len(stored) /\ lost' = lost + Len(work)
    <3>1. CASE SendOk BY <2>3, <3>1 DEF SendOk
    <3>2. CASE SendFails
      <4>1. lost' = lost + Len(work) /\ (stored' = stored \/ stored' = stored \o chBatch)
        BY <3>2 DEF SendFails
      <4>2. Len(work) \in Nat /\ lost \in Nat OBVIOUS
      <4>3. lost + Len(work) >= lost BY <4>2
      <4>4. CASE stored' = stored BY <4>1, <4>4
      <4>5. CASE stored' = stored \o chBatch BY <2>3, <4>1, <4>3, <4>5
      <4>6. QED BY <4>1, <4>4, <4>5
    <3>3. QED BY <1>8, <3>1, <3>2
  <2>5. lost' \in Nat /\ Len(stored') \in Nat BY NextCounters, NextQueues DEF CountersOK, QueuesOK
  <2>6. flushed \in Nat /\ lost \in Nat /\ skipped \in Nat /\ Len(stored) \in Nat
        /\ Len(chBatch) \in Nat /\ Len(work) \in Nat
    OBVIOUS
  <2> HIDE DEF Bounded, TypeOK, Control, CountersOK, QueuesOK
  <2>7. flushed <= Len(stored) + lost + skipped + Len(chBatch) BY <1>1, <2>1
  <2>8. flushed <= Len(stored') + lost' + skipped
    <3>1. CASE Len(stored') = Len(stored) + Len(chBatch) /\ lost' >= lost
      <4>1. Len(stored) + lost + Len(chBatch) <= Len(stored') + lost' BY <2>5, <2>6, <3>1
      <4>2. PICK n \in Nat : n = Len(stored') + lost' BY <2>5
      <4>3. PICK m \in Nat : m = Len(stored) + lost + Len(chBatch) BY <2>6
      <4>4. flushed <= m + skipped BY <2>6, <2>7, <4>3
      <4>5. m <= n BY <4>1, <4>2, <4>3
      <4>6. m + skipped <= n + skipped BY <2>6, <4>5
      <4>7. flushed <= n + skipped BY <2>6, <4>4, <4>6
      <4>8. QED BY <2>5, <2>6, <4>2, <4>7
    <3>2. CASE Len(stored') = Len(stored) /\ lost' = lost + Len(work) BY <2>1, <2>5, <2>6, <2>7, <3>2
    <3>3. QED BY <2>4, <3>1, <3>2
  <2>9. QED BY <2>1, <2>2, <2>5, <2>6, <2>8
<1>9. QED BY <1>2, <1>3, <1>4, <1>5, <1>6, <1>7, <1>8 DEF Next

(* Logs are numbers, wherever they are. *)
LEMMA LogsAreNumbers ==
    ASSUME QueuesOK
    PROVE  /\ \A i \in 1..Len(logCh) : logCh[i] \in Int
           /\ \A i \in 1..Len(batch) : batch[i] \in Int
           /\ \A i \in 1..Len(work) : work[i] \in Int
           /\ \A i \in 1..Len(chBatch) : chBatch[i] \in Int
           /\ \A i \in 1..Len(stored) : stored[i] \in Int
<1>1. \A s \in Seq(Logs) : \A i \in 1..Len(s) : s[i] \in Logs OBVIOUS
<1>2. \A e \in Logs : e \in Int BY SizesAssumption DEF Logs
<1>3. QED BY <1>1, <1>2 DEF QueuesOK

(* Logs that were submitted are still so after one more. *)
LEMMA BelowNext ==
    ASSUME Bounded, Order
    PROVE  /\ \A i \in 1..Len(batch) : batch[i] <= submitted + 1
           /\ \A i \in 1..Len(work) : work[i] <= submitted + 1
           /\ \A i \in 1..Len(chBatch) : chBatch[i] <= submitted + 1
           /\ \A i \in 1..Len(stored) : stored[i] <= submitted + 1
           /\ \A i \in 1..Len(logCh) : logCh[i] <= submitted + 1
<1>1. submitted \in Nat /\ QueuesOK BY DEF Bounded, TypeOK, CountersOK
<1>2. \A e \in Int : e <= submitted => e <= submitted + 1 BY <1>1
<1>3. \A i \in 1..Len(batch) : batch[i] <= submitted + 1
  <2>1. \A i \in 1..Len(batch) : batch[i] \in Int BY <1>1, LogsAreNumbers
  <2>2. \A i \in 1..Len(batch) : batch[i] <= submitted BY DEF Order
  <2> QED BY <1>2, <2>1, <2>2
<1>4. \A i \in 1..Len(work) : work[i] <= submitted + 1
  <2>1. \A i \in 1..Len(work) : work[i] \in Int BY <1>1, LogsAreNumbers
  <2>2. \A i \in 1..Len(work) : work[i] <= submitted BY DEF Order
  <2> QED BY <1>2, <2>1, <2>2
<1>5. \A i \in 1..Len(chBatch) : chBatch[i] <= submitted + 1
  <2>1. \A i \in 1..Len(chBatch) : chBatch[i] \in Int BY <1>1, LogsAreNumbers
  <2>2. \A i \in 1..Len(chBatch) : chBatch[i] <= submitted BY DEF Order
  <2> QED BY <1>2, <2>1, <2>2
<1>6. \A i \in 1..Len(stored) : stored[i] <= submitted + 1
  <2>1. \A i \in 1..Len(stored) : stored[i] \in Int BY <1>1, LogsAreNumbers
  <2>2. \A i \in 1..Len(stored) : stored[i] <= submitted BY DEF Order
  <2> QED BY <1>2, <2>1, <2>2
<1>7. \A i \in 1..Len(logCh) : logCh[i] <= submitted + 1
  <2>1. \A i \in 1..Len(logCh) : logCh[i] \in Int BY <1>1, LogsAreNumbers
  <2>2. \A i \in 1..Len(logCh) : logCh[i] <= submitted BY DEF Order
  <2> QED BY <1>2, <2>1, <2>2
<1> QED BY <1>3, <1>4, <1>5, <1>6, <1>7

(* Logs stay in the order of submission on their way to ClickHouse. *)
LEMMA NextOrder == Bounded /\ Order /\ [Next]_vars => Order'
<1> SUFFICES ASSUME Bounded, Order, [Next]_vars PROVE Order' OBVIOUS
<1> USE DEF Bounded, TypeOK, CountersOK, QueuesOK, Control
<1>1. CASE SubmitAccept
  <2>1. UNCHANGED <<stored, chBatch, work, batch, row>> /\ submitted' = submitted + 1
    BY <1>1 DEF SubmitAccept, workerVars
  <2>2. submitted + 1 \in Logs BY <1>1, SizesAssumption DEF SubmitAccept, Logs
  <2>3. Increasing(logCh')
    <3>1. \A i \in 1..Len(logCh) : logCh[i] < submitted + 1
      <4> SUFFICES ASSUME NEW i \in 1..Len(logCh) PROVE logCh[i] < submitted + 1 OBVIOUS
      <4>1. logCh[i] <= submitted BY DEF Order
      <4>2. logCh[i] \in Int BY LogsAreNumbers
      <4>3. QED BY <4>1, <4>2
    <3>2. Increasing(logCh) BY DEF Order
    <3>3. logCh' = Append(logCh, submitted + 1) BY <1>1 DEF SubmitAccept
    <3>4. QED BY <2>2, <3>1, <3>2, <3>3, AppendIncreasing
  <2>4. \A i \in 1..Len(logCh') : logCh'[i] = submitted + 1 \/ (i \in 1..Len(logCh) /\ logCh'[i] = logCh[i])
    BY <1>1 DEF SubmitAccept
  <2>5. \A i \in 1..Len(logCh') : logCh'[i] <= submitted'
    <3> SUFFICES ASSUME NEW i \in 1..Len(logCh') PROVE logCh'[i] <= submitted' OBVIOUS
    <3>1. CASE logCh'[i] = submitted + 1 BY <2>1, <3>1
    <3>2. CASE i \in 1..Len(logCh) /\ logCh'[i] = logCh[i]
      <4>1. logCh[i] <= submitted BY <3>2 DEF Order
      <4>2. logCh[i] \in Int BY <3>2, LogsAreNumbers
      <4>3. QED BY <2>1, <3>2, <4>1, <4>2
    <3>3. QED BY <2>4, <3>1, <3>2
  <2>6. Before(stored, logCh') /\ Before(chBatch, logCh') /\ Before(work, logCh') /\ Before(batch, logCh')
    <3>1. \A s \in Seq(Logs) :
             (\A i \in 1..Len(s) : s[i] \in Int /\ s[i] <= submitted) /\ Before(s, logCh)
             => Before(s, logCh')
      <4> SUFFICES ASSUME NEW s \in Seq(Logs), NEW i \in 1..Len(s), NEW j \in 1..Len(logCh'),
                          s[i] \in Int, s[i] <= submitted, Before(s, logCh)
                   PROVE  s[i] < logCh'[j]
        BY DEF Before
      <4>1. CASE logCh'[j] = submitted + 1 BY <4>1
      <4>2. CASE j \in 1..Len(logCh) /\ logCh'[j] = logCh[j] BY <4>2 DEF Before
      <4>3. QED BY <2>4, <4>1, <4>2
    <3>2. QED BY <3>1, LogsAreNumbers DEF Order
  <2>7. /\ \A i \in 1..Len(batch) : batch[i] <= submitted + 1
        /\ \A i \in 1..Len(work) : work[i] <= submitted + 1
        /\ \A i \in 1..Len(chBatch) : chBatch[i] <= submitted + 1
        /\ \A i \in 1..Len(stored) : stored[i] <= submitted + 1
    BY BelowNext
  <2>8. QED BY <2>1, <2>3, <2>5, <2>6, <2>7 DEF Order, Before
<1>2. CASE SelectLog
  <2>1. UNCHANGED <<stored, chBatch, work, row, submitted>> /\ work = <<>> /\ chBatch = <<>>
    BY <1>2 DEF SelectLog
  <2>2. /\ Head(logCh) \in Logs /\ Head(logCh) = logCh[1]
        /\ \A i \in 1..Len(Tail(logCh)) : i + 1 \in 1..Len(logCh) /\ Tail(logCh)[i] = logCh[i + 1]
    BY <1>2 DEF SelectLog
  <2>3. Increasing(logCh') /\ \A i \in 1..Len(logCh') : batch'[Len(batch) + 1] < logCh'[i]
    BY <1>2, TailIncreasing DEF SelectLog, Order
  <2>4. Increasing(batch')
    <3>1. 1 \in 1..Len(logCh) BY <1>2 DEF SelectLog
    <3>2. \A i \in 1..Len(batch) : batch[i] < Head(logCh) BY <2>2, <3>1 DEF Order, Before
    <3>3. Increasing(batch) /\ batch \in Seq(Logs) BY DEF Order
    <3>4. Increasing(Append(batch, Head(logCh))) BY <2>2, <3>2, <3>3, AppendIncreasing
    <3>5. QED BY <1>2, <3>4 DEF SelectLog
  <2>5. \A i \in 1..Len(batch') : batch'[i] = logCh[1] \/ (i \in 1..Len(batch) /\ batch'[i] = batch[i])
    BY <1>2 DEF SelectLog
  <2>6. Before(stored, batch') /\ Before(stored, logCh')
    BY <1>2, <2>2, <2>5 DEF SelectLog, Order, Before
  <2>7. Before(batch', logCh')
    BY <1>2, <2>2, <2>3, <2>5 DEF SelectLog, Order, Before
  <2>8. /\ \A i \in 1..Len(logCh') : logCh'[i] <= submitted
        /\ \A i \in 1..Len(batch') : batch'[i] <= submitted
    BY <1>2, <2>2, <2>5 DEF SelectLog, Order
  <2>9. QED BY <2>1, <2>3, <2>4, <2>6, <2>7, <2>8 DEF Order, Before
<1>3. CASE SwapBatch
  <2>1. work' = batch /\ batch' = <<>> /\ chBatch = <<>> /\ UNCHANGED <<stored, chBatch, logCh, submitted>>
    BY <1>3 DEF SwapBatch
  <2>2. QED BY <2>1 DEF Order, Before, Increasing
<1>4. CASE AppendRow
  <2>1. UNCHANGED <<stored, work, batch, logCh, submitted>> /\ batch = <<>> BY <1>4 DEF AppendRow
  <2>2. row \in 1..Len(work) /\ row' = row + 1 BY <1>4 DEF AppendRow
  <2>3. CASE chBatch' = chBatch BY <2>1, <2>2, <2>3 DEF Order
  <2>4. CASE chBatch' = Append(chBatch, work[row])
    <3>1. work[row] \in Logs BY <2>2
    <3>2. Increasing(chBatch')
      <4>1. \A i \in 1..Len(chBatch) : chBatch[i] < work[row] BY <2>2 DEF Order
      <4>2. Increasing(chBatch) /\ chBatch \in Seq(Logs) BY DEF Order
      <4>3. Increasing(Append(chBatch, work[row])) BY <3>1, <4>1, <4>2, AppendIncreasing
      <4>4. QED BY <2>4, <4>3
    <3>3. \A i \in 1..Len(chBatch') :
             chBatch'[i] = work[row] \/ (i \in 1..Len(chBatch) /\ chBatch'[i] = chBatch[i])
      BY <2>4, <3>1
    <3>4. \A i \in 1..Len(chBatch'), k \in 1..Len(work) : k >= row + 1 => chBatch'[i] < work[k]
      <4>1. \A k \in 1..Len(work) : k >= row + 1 => work[row] < work[k]
        BY <2>2 DEF Order, Increasing
      <4>2. \A i \in 1..Len(chBatch), k \in 1..Len(work) : k >= row + 1 => chBatch[i] < work[k]
        BY <2>2 DEF Order
      <4>3. QED BY <3>3, <4>1, <4>2
    <3>5. Before(stored, chBatch') /\ Before(chBatch', logCh) /\ Before(chBatch', batch)
      BY <2>1, <2>2, <3>3 DEF Order, Before
    <3>6. \A i \in 1..Len(chBatch') : chBatch'[i] <= submitted BY <2>2, <3>3 DEF Order
    <3>7. QED BY <2>1, <2>2, <3>2, <3>4, <3>5, <3>6 DEF Order, Before
  <2>5. QED BY <1>4, <2>3, <2>4 DEF AppendRow
<1>5. CASE SendOk \/ SendFails
  <2>1. /\ work' = <<>> /\ chBatch' = <<>> /\ UNCHANGED <<batch, logCh, submitted>>
        /\ batch = <<>>
    BY <1>5 DEF SendOk, SendFails, FlushReturns
  <2>2. CASE stored' = stored BY <2>1, <2>2 DEF Order, Before, Increasing
  <2>3. CASE stored' = stored \o chBatch
    <3>1. Increasing(stored') BY <2>3, ConcatIncreasing DEF Order
    <3>2. Before(stored', logCh) BY <2>3, ConcatBefore DEF Order
    <3>3. \A i \in 1..Len(stored') : \/ i \in 1..Len(stored) /\ stored'[i] = stored[i]
                                     \/ i - Len(stored) \in 1..Len(chBatch)
                                        /\ stored'[i] = chBatch[i - Len(stored)]
      <4>1. \A s, t \in Seq(Logs) : \A i \in 1..Len(s \o t) :
               \/ i \in 1..Len(s) /\ (s \o t)[i] = s[i]
               \/ i - Len(s) \in 1..Len(t) /\ (s \o t)[i] = t[i - Len(s)]
        BY ConcatElements
      <4>2. stored \in Seq(Logs) /\ chBatch \in Seq(Logs) OBVIOUS
      <4>3. QED BY <2>3, <4>1, <4>2
    <3>4. \A i \in 1..Len(stored') : stored'[i] <= submitted BY <3>3 DEF Order
    <3>5. QED BY <2>1, <3>1, <3>2, <3>4 DEF Order, Before, Increasing
  <2>4. QED BY <1>5, <2>2, <2>3 DEF SendOk, SendFails
<1>6. CASE CountFlushed \/ PrepareFails
  <2>1. /\ UNCHANGED <<stored, batch, logCh, submitted>> /\ chBatch' = <<>>
        /\ work' \in {work, <<>>}
    BY <1>6 DEF CountFlushed, PrepareFails, FlushReturns
  <2>2. chBatch = <<>> BY <1>6 DEF CountFlushed, PrepareFails
  <2>3. CASE work' = work BY <2>1, <2>2, <2>3 DEF Order, Before
  <2>4. CASE work' = <<>> BY <2>1, <2>2, <2>4 DEF Order, Before, Increasing
  <2>5. QED BY <2>1, <2>3, <2>4
<1>7. CASE PrepareBatch
  <2>1. UNCHANGED <<stored, chBatch, work, batch, logCh, submitted>> /\ chBatch = <<>>
    BY <1>7 DEF PrepareBatch
  <2>2. QED BY <2>1 DEF Order, Before
<1>8. CASE SubmitFull
  <2>1. UNCHANGED <<stored, chBatch, work, batch, logCh, row>> /\ submitted' = submitted + 1
    BY <1>8 DEF SubmitFull, workerVars
  <2>2. /\ \A i \in 1..Len(batch) : batch[i] <= submitted + 1
        /\ \A i \in 1..Len(work) : work[i] <= submitted + 1
        /\ \A i \in 1..Len(chBatch) : chBatch[i] <= submitted + 1
        /\ \A i \in 1..Len(stored) : stored[i] <= submitted + 1
        /\ \A i \in 1..Len(logCh) : logCh[i] <= submitted + 1
    BY BelowNext
  <2>3. QED BY <2>1, <2>2 DEF Order, Before
<1>9. CASE CountDrop \/ Cancel \/ SelectDone \/ SelectTick \/ StatsFlushed \/ StatsDropped
           \/ UNCHANGED vars
  <2>1. UNCHANGED <<stored, chBatch, work, batch, logCh, row, submitted>>
    BY <1>9 DEF CountDrop, Cancel, SelectDone, SelectTick, StatsFlushed, StatsDropped, vars, workerVars
  <2>2. QED BY <2>1 DEF Order, Before, Increasing
<1>10. QED BY <1>1, <1>2, <1>3, <1>4, <1>5, <1>6, <1>7, <1>8, <1>9 DEF Next

-----------------------------------------------------------------------------
(* Every variable keeps its type, the channel its capacity and the batch    *)
(* its threshold, whatever the callers, the context and ClickHouse do.      *)
THEOREM TypeCorrect == Spec => []TypeOK
<1>1. Init => Bounded BY InitBounded
<1>2. Bounded /\ [Next]_vars => Bounded'
  BY NextCounters, NextQueues, NextControlOK, NextControl DEF Bounded, TypeOK
<1>3. Bounded => TypeOK BY DEF Bounded
<1>4. QED BY <1>1, <1>2, <1>3, PTL DEF Spec

(* Bounded is an invariant of its own: the strengthening of TypeOK that the *)
(* theorems below use about the worker's position.                          *)
LEMMA AlwaysBounded == Spec => []Bounded
<1>1. Init => Bounded BY InitBounded
<1>2. Bounded /\ [Next]_vars => Bounded'
  BY NextCounters, NextQueues, NextControlOK, NextControl DEF Bounded, TypeOK
<1>3. QED BY <1>1, <1>2, PTL DEF Spec

(* SubmitLog, the worker and flush neither lose nor double a log: at every  *)
(* moment each submitted log is in exactly one place.                       *)
THEOREM ConservationHolds == Spec => []Conservation
<1>1. Init => Conservation BY InitBounded
<1>2. Bounded /\ Conservation /\ [Next]_vars => Conservation' BY NextConservation
<1>3. QED BY <1>1, <1>2, AlwaysBounded, PTL DEF Spec

(* ClickHouse receives each log at most once and in submission order. *)
THEOREM StoredInOrderHolds == Spec => []StoredInOrder
<1>1. Init => Order BY DEF Init, Order, Before, Increasing
<1>2. Bounded /\ Order /\ [Next]_vars => Order' BY NextOrder
<1>3. Order => StoredInOrder BY DEF Order, StoredInOrder
<1>4. QED BY <1>1, <1>2, <1>3, AlwaysBounded, PTL DEF Spec

(* flushBatch accounts for every row it was given. *)
THEOREM WritesAccountedHolds == Spec => []WritesAccounted
<1>1. Init => WriteBalance BY DEF Init, WriteBalance, Outstanding
<1>2. Bounded /\ WriteBalance /\ [Next]_vars => WriteBalance' BY NextWriteBalance
<1>3. Bounded /\ WriteBalance => WritesAccounted
  <2> SUFFICES ASSUME Bounded, WriteBalance, chConn
               PROVE  flushed <= Len(stored) + lost + skipped + Writing
    BY DEF WritesAccounted
  <2> USE DEF Bounded, TypeOK, CountersOK, QueuesOK, Control
  <2>1. Outstanding <= Writing /\ Outstanding \in Int /\ Writing \in Int
    BY DEF Outstanding, Writing
  <2>2. QED BY <2>1 DEF WriteBalance
<1>4. QED BY <1>1, <1>2, <1>3, AlwaysBounded, PTL DEF Spec

(* The sum Stats reports never exceeds what was submitted. *)
THEOREM StatsSoundHolds == Spec => []StatsSound
<1>1. Init => StatsBehind BY DEF Init, StatsBehind, NoLoad
<1>2. Bounded /\ StatsBehind /\ [Next]_vars => StatsBehind' BY NextStatsBehind
<1>3. Bounded /\ Conservation /\ StatsBehind => StatsSound
  <2> SUFFICES ASSUME Bounded, Conservation, StatsBehind
               PROVE  stats.flushed + stats.dropped <= submitted
    BY DEF StatsSound
  <2> USE DEF Bounded, TypeOK, CountersOK, QueuesOK, ControlOK
  <2>1. stats.flushed \in Int /\ stats.dropped \in Int BY DEF NoLoad
  <2>2. Uncounted >= 0 /\ Uncounted \in Int BY DEF Uncounted
  <2>3. flushed + dropped <= submitted BY <2>2 DEF Conservation
  <2>4. QED BY <2>1, <2>3 DEF StatsBehind
<1>4. QED BY <1>1, <1>2, <1>3, AlwaysBounded, ConservationHolds, PTL DEF Spec

(* When the worker returns after ctx.Done its batch has been written out. *)
THEOREM BatchFlushedOnStopHolds == Spec => []BatchFlushedOnStop
<1>1. Bounded => BatchFlushedOnStop BY DEF Bounded, Control, BatchFlushedOnStop
<1>2. QED BY <1>1, AlwaysBounded, PTL

-----------------------------------------------------------------------------
(* The refinement of LogSink.  flush is called with something to write, and *)
(* the worker is on its way out only after the cancellation.                *)
Stopping ==
    /\ returning => ctxDone
    /\ pc = "swap" => batch # <<>>
    /\ pc = "count" => work # <<>>

LEMMA NextStopping == Bounded /\ Stopping /\ [Next]_vars => Stopping'
<1> SUFFICES ASSUME Bounded, Stopping, [Next]_vars PROVE Stopping' OBVIOUS
<1> USE DEF Stopping, Bounded, TypeOK, QueuesOK, ControlOK
<1>1. CASE SubmitAccept BY <1>1 DEF SubmitAccept, workerVars
<1>2. CASE SubmitFull BY <1>2 DEF SubmitFull, workerVars
<1>3. CASE CountDrop BY <1>3 DEF CountDrop, workerVars
<1>4. CASE Cancel BY <1>4 DEF Cancel, workerVars
<1>5. CASE SelectDone BY <1>5 DEF SelectDone
<1>6. CASE SelectLog
  <2>1. batch' = Append(batch, Head(logCh)) /\ Head(logCh) \in Logs
    BY <1>6 DEF SelectLog
  <2>2. Len(batch') = Len(batch) + 1 BY <2>1
  <2>3. batch' # <<>> BY <2>2
  <2> QED BY <1>6, <2>3 DEF SelectLog
<1>7. CASE SelectTick BY <1>7 DEF SelectTick
<1>8. CASE SwapBatch BY <1>8 DEF SwapBatch
<1>9. CASE CountFlushed BY <1>9 DEF CountFlushed, FlushReturns
<1>10. CASE PrepareBatch BY <1>10 DEF PrepareBatch
<1>11. CASE PrepareFails BY <1>11 DEF PrepareFails, FlushReturns
<1>12. CASE AppendRow BY <1>12 DEF AppendRow
<1>13. CASE SendOk BY <1>13 DEF SendOk, FlushReturns
<1>14. CASE SendFails BY <1>14 DEF SendFails, FlushReturns
<1>15. CASE StatsFlushed BY <1>15 DEF StatsFlushed, workerVars
<1>16. CASE StatsDropped BY <1>16 DEF StatsDropped, workerVars
<1>17. CASE UNCHANGED vars BY <1>17 DEF vars
<1> QED BY <1>1, <1>2, <1>3, <1>4, <1>5, <1>6, <1>7, <1>8, <1>9, <1>10, <1>11, <1>12,
           <1>13, <1>14, <1>15, <1>16, <1>17 DEF Next

(* A step that moves no row and does not end the worker is invisible. *)
LEMMA Invisible ==
    ASSUME UNCHANGED <<logCh, dropping, dropped, flushed, ctxDone>>,
           Len(batch)' + Uncounted' = Len(batch) + Uncounted,
           (pc' = "done") <=> (pc = "done")
    PROVE  UNCHANGED Sink!sinkVars
BY DEF Sink!sinkVars

(* flushBatch is over: LogSink sees the worker end, or nothing. *)
LEMMA WriteEnds ==
    ASSUME Bounded, Stopping, pc \in {"prepare", "append"}, FlushReturns,
           UNCHANGED <<logCh, batch, dropping, dropped, flushed, ctxDone>>
    PROVE  Sink!WorkerEnds \/ UNCHANGED Sink!sinkVars
<1>1. Len(batch) + Uncounted = 0 /\ Len(batch)' + Uncounted' = 0
  BY DEF Bounded, Control, FlushReturns, Uncounted, TypeOK, ControlOK
<1>2. CASE returning
  BY <1>1, <1>2 DEF FlushReturns, Stopping, Sink!WorkerEnds
<1>3. CASE ~returning
  BY <1>1, <1>3, Invisible DEF FlushReturns
<1> QED BY <1>2, <1>3

LEMMA StepSimulated ==
    ASSUME Bounded, Stopping, [Next]_vars
    PROVE  [Sink!SinkNext]_(Sink!sinkVars)
<1> USE DEF Bounded, TypeOK, CountersOK, QueuesOK
<1>1. CASE SubmitAccept
  <2>1. Sink!SubmitQueued
    BY <1>1, SizesAssumption DEF SubmitAccept, QueueFull, workerVars, Uncounted, Sink!SubmitQueued
  <2> QED BY <2>1 DEF Sink!SinkNext
<1>2. CASE SubmitFull
  <2>1. Sink!SubmitDropped
    BY <1>2 DEF SubmitFull, QueueFull, workerVars, Uncounted, Sink!SubmitDropped
  <2> QED BY <2>1 DEF Sink!SinkNext
<1>3. CASE CountDrop
  <2>1. Sink!DropCounted
    BY <1>3 DEF CountDrop, workerVars, Uncounted, Sink!DropCounted
  <2> QED BY <2>1 DEF Sink!SinkNext
<1>4. CASE Cancel
  <2>1. Sink!SinkCancel
    BY <1>4 DEF Cancel, workerVars, Uncounted, Sink!SinkCancel
  <2> QED BY <2>1 DEF Sink!SinkNext
<1>5. CASE SelectLog
  <2>1. Sink!TakeRow
    BY <1>5 DEF SelectLog, Uncounted, Sink!TakeRow
  <2> QED BY <2>1 DEF Sink!SinkNext
<1>6. CASE SelectDone
  <2>1. CASE batch = <<>>
    <3>1. Sink!WorkerEnds
      BY <1>6, <2>1 DEF SelectDone, Uncounted, Sink!WorkerEnds
    <3> QED BY <3>1 DEF Sink!SinkNext
  <2>2. CASE batch # <<>>
    BY <1>6, <2>2, Invisible DEF SelectDone, Uncounted
  <2> QED BY <2>1, <2>2
<1>7. CASE SelectTick
  BY <1>7, Invisible DEF SelectTick, Uncounted
<1>8. CASE SwapBatch
  <2>1. Len(batch)' + Uncounted' = Len(batch) + Uncounted
    BY <1>8 DEF SwapBatch, Uncounted
  <2> QED BY <1>8, <2>1, Invisible DEF SwapBatch
<1>9. CASE CountFlushed
  <2>1. Len(batch) = 0 /\ Uncounted = Len(work) /\ Len(work) > 0
    BY <1>9 DEF CountFlushed, Control, Stopping, Uncounted
  <2>2. Len(batch)' + Uncounted' = 0 /\ pc # "done"
    BY <1>9, <2>1 DEF CountFlushed, FlushReturns, Uncounted
  <2>3. (pc' = "done") \in {FALSE, ctxDone}
    BY <1>9 DEF CountFlushed, FlushReturns, Stopping, ControlOK
  <2>4. /\ pc # "done" /\ Len(batch) + Uncounted > 0
        /\ flushed' = flushed + (Len(batch) + Uncounted)
        /\ Len(batch)' + Uncounted' = 0
        /\ UNCHANGED <<Len(logCh), dropping, dropped, ctxDone>>
    BY <1>9, <2>1, <2>2 DEF CountFlushed
  <2>5. Sink!FlushRows
    BY <2>3, <2>4, Zenon DEF Sink!FlushRows
  <2> QED BY <2>5 DEF Sink!SinkNext
<1>10. CASE PrepareBatch
  BY <1>10, Invisible DEF PrepareBatch, Uncounted
<1>11. CASE PrepareFails
  BY <1>11, WriteEnds DEF PrepareFails, Sink!SinkNext
<1>12. CASE AppendRow
  BY <1>12, Invisible DEF AppendRow, Uncounted
<1>13. CASE SendOk
  BY <1>13, WriteEnds DEF SendOk, Sink!SinkNext
<1>14. CASE SendFails
  BY <1>14, WriteEnds DEF SendFails, Sink!SinkNext
<1>15. CASE StatsFlushed \/ StatsDropped \/ UNCHANGED vars
  BY <1>15, Invisible DEF StatsFlushed, StatsDropped, vars, workerVars, Uncounted
<1> QED BY <1>1, <1>2, <1>3, <1>4, <1>5, <1>6, <1>7, <1>8, <1>9, <1>10, <1>11, <1>12,
           <1>13, <1>14, <1>15 DEF Next

(* The queue implements LogSink, for every capacity and threshold: what     *)
(* Lifecycle shows with LogSink holds with the queue in its place.          *)
THEOREM ImplementsSinkHolds == Spec => ImplementsSink
<1>1. Init => Sink!SinkInit
  BY DEF Init, Sink!SinkInit, Uncounted
<1>2. Init => Stopping
  BY DEF Init, Stopping
<1>3. Bounded /\ Stopping /\ [Next]_vars => Stopping'
  BY NextStopping
<1>4. Bounded /\ Stopping /\ [Next]_vars => [Sink!SinkNext]_(Sink!sinkVars)
  BY StepSimulated
<1> QED BY <1>1, <1>2, <1>3, <1>4, AlwaysBounded, PTL DEF Spec, ImplementsSink, Sink!SinkSpec
=============================================================================
