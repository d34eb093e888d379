--------------------------- MODULE LogAggregator ---------------------------
(***************************************************************************)
(* internal/analytics/aggregator.go: the queue between the query handlers  *)
(* and ClickHouse.  Handler goroutines call SubmitLog, one worker goroutine*)
(* collects the logs into batches and writes each batch with flush.        *)
(*                                                                         *)
(* A log is the number of the SubmitLog call that carried it, in the order *)
(* of the channel operations.  Every step is one access to state another   *)
(* goroutine can see: the channel operation, each atomic counter, each     *)
(* call to ClickHouse.                                                     *)
(***************************************************************************)
EXTENDS Integers, Sequences

CONSTANTS
    BufferSize,       \* capacity of logCh (10000 in main)
    FlushThreshold,   \* batch length that forces a flush (1000 in main)
    MaxLogs           \* bound: SubmitLog calls in a behaviour

ASSUME SizesAssumption ==
    /\ BufferSize \in Nat \ {0}
    /\ FlushThreshold \in Nat \ {0}
    /\ MaxLogs \in Nat

VARIABLES
    submitted,   \* SubmitLog calls whose channel operation is over
    dropping,    \* SubmitLog calls between the default branch and droppedCount.Add
    logCh,       \* the buffered channel
    batch,       \* a.batch
    dropped,     \* a.droppedCount
    flushed,     \* a.flushedCount
    pc,          \* where the worker goroutine is
    returning,   \* the flush under way is the one of the ctx.Done case
    work,        \* the local variable batch of flush and flushBatch
    row,         \* the loop index of flushBatch
    chBatch,     \* rows appended to the prepared ClickHouse batch
    stored,      \* rows ClickHouse has committed, in order
    lost,        \* the AnalyticsDroppedLogs metric
    skipped,     \* rows whose Append failed: reported in the log only
    chConn,      \* a.chConn is set: InitClickHouse succeeded
    ctxDone,     \* the context is cancelled
    stats        \* a reader of Stats: the two loads it made

workerVars == <<batch, flushed, pc, returning, work, row, chBatch, stored, lost, skipped>>
vars == <<submitted, dropping, logCh, batch, dropped, flushed, pc, returning,
          work, row, chBatch, stored, lost, skipped, chConn, ctxDone, stats>>

Logs == 1..MaxLogs

\* No load made yet, or only the first of the two.
NoLoad == -1

-----------------------------------------------------------------------------
(* NewLogAggregator, then InitClickHouse (its error leaves chConn nil and   *)
(* main goes on), then StartWorker.                                         *)
Init ==
    /\ submitted = 0 /\ dropping = 0
    /\ logCh = <<>> /\ batch = <<>>
    /\ dropped = 0 /\ flushed = 0
    /\ pc = "select" /\ returning = FALSE
    /\ work = <<>> /\ row = 0 /\ chBatch = <<>>
    /\ stored = <<>> /\ lost = 0 /\ skipped = 0
    /\ chConn \in BOOLEAN
    /\ ctxDone = FALSE
    /\ stats = [flushed |-> NoLoad, dropped |-> NoLoad]

(* The send on logCh cannot go ahead. *)
QueueFullLate == Len(logCh) > BufferSize
QueueFull == Len(logCh) >= BufferSize

(* SubmitLog, the send case of its select. *)
SubmitAccept ==
    /\ submitted < MaxLogs
    /\ ~QueueFull
    /\ submitted' = submitted + 1
    /\ logCh' = Append(logCh, submitted + 1)
    /\ UNCHANGED <<dropping, dropped, workerVars, chConn, ctxDone, stats>>

(* SubmitLog, the default case. *)
SubmitFull ==
    /\ submitted < MaxLogs
    /\ QueueFull
    /\ submitted' = submitted + 1
    /\ dropping' = dropping + 1
    /\ UNCHANGED <<logCh, dropped, workerVars, chConn, ctxDone, stats>>

(* droppedCount.Add(1) of the default case. *)
CountDrop ==
    /\ dropping > 0
    /\ dropping' = dropping - 1
    /\ dropped' = dropped + 1
    /\ UNCHANGED <<submitted, logCh, workerVars, chConn, ctxDone, stats>>

(* main cancels the context on a signal or a server error. *)
Cancel ==
    /\ ~ctxDone
    /\ ctxDone' = TRUE
    /\ UNCHANGED <<submitted, dropping, logCh, dropped, workerVars, chConn, stats>>

-----------------------------------------------------------------------------
(* The three cases of the worker's select.                                  *)

SelectDoneNoReturn ==
    /\ pc = "select"
    /\ ctxDone
    /\ pc' = IF batch = <<>> THEN "select" ELSE "swap"
    /\ UNCHANGED <<submitted, dropping, logCh, batch, dropped, flushed, returning, work, row,
                   chBatch, stored, lost, skipped, chConn, ctxDone, stats>>

SelectDoneNoFlush ==
    /\ pc = "select"
    /\ ctxDone
    /\ pc' = "done"
    /\ returning' = TRUE
    /\ UNCHANGED <<submitted, dropping, logCh, batch, dropped, flushed, work, row, chBatch,
                   stored, lost, skipped, chConn, ctxDone, stats>>

(* case <-ctx.Done(): flush what the batch holds and return. *)
SelectDone ==
    /\ pc = "select"
    /\ ctxDone
    /\ pc' = IF batch = <<>> THEN "done" ELSE "swap"
    /\ returning' = TRUE
    /\ UNCHANGED <<submitted, dropping, logCh, batch, dropped, flushed, work, row, chBatch,
                   stored, lost, skipped, chConn, ctxDone, stats>>

(* case log := <-a.logCh *)
SelectLog ==
    /\ pc = "select"
    /\ logCh # <<>>
    /\ logCh' = Tail(logCh)
    /\ batch' = Append(batch, Head(logCh))
    /\ pc' = IF Len(batch') >= FlushThreshold THEN "swap" ELSE "select"
    /\ UNCHANGED <<submitted, dropping, dropped, flushed, returning, work, row, chBatch,
                   stored, lost, skipped, chConn, ctxDone, stats>>

SelectTickFullOnly ==
    /\ pc = "select"
    /\ Len(batch) >= FlushThreshold
    /\ pc' = "swap"
    /\ UNCHANGED <<submitted, dropping, logCh, batch, dropped, flushed, returning, work, row,
                   chBatch, stored, lost, skipped, chConn, ctxDone, stats>>

(* case <-a.ticker.C; a tick that finds the batch empty changes nothing. *)
SelectTick ==
    /\ pc = "select"
    /\ batch # <<>>
    /\ pc' = "swap"
    /\ UNCHANGED <<submitted, dropping, logCh, batch, dropped, flushed, returning, work, row,
                   chBatch, stored, lost, skipped, chConn, ctxDone, stats>>

-----------------------------------------------------------------------------
(* flush and flushBatch.  flushBatch returns into flush, flush into the     *)
(* select or, in the ctx.Done case, out of the worker.                      *)
FlushReturns ==
    /\ pc' = IF returning THEN "done" ELSE "select"
    /\ work' = <<>> /\ row' = 0 /\ chBatch' = <<>>

SwapBatchNoReset ==
    /\ pc = "swap"
    /\ work' = batch
    /\ batch' = batch
    /\ pc' = "count"
    /\ UNCHANGED <<submitted, dropping, logCh, dropped, flushed, returning, row, chBatch,
                   stored, lost, skipped, chConn, ctxDone, stats>>

(* flush takes the batch and leaves an empty one. *)
SwapBatch ==
    /\ pc = "swap"
    /\ work' = batch
    /\ batch' = <<>>
    /\ pc' = "count"
    /\ UNCHANGED <<submitted, dropping, logCh, dropped, flushed, returning, row, chBatch,
                   stored, lost, skipped, chConn, ctxDone, stats>>

CountFlushedThreshold ==
    /\ pc = "count"
    /\ flushed' = flushed + FlushThreshold
    /\ IF chConn THEN pc' = "prepare" /\ UNCHANGED <<work, row, chBatch>>
                 ELSE FlushReturns
    /\ UNCHANGED <<submitted, dropping, logCh, batch, dropped, returning, stored, lost,
                   skipped, chConn, ctxDone, stats>>

(* flushedCount.Add, then flushBatch: without a connection it returns. *)
CountFlushed ==
    /\ pc = "count"
    /\ flushed' = flushed + Len(work)
    /\ IF chConn THEN pc' = "prepare" /\ UNCHANGED <<work, row, chBatch>>
                 ELSE FlushReturns
    /\ UNCHANGED <<submitted, dropping, logCh, batch, dropped, returning, stored, lost,
                   skipped, chConn, ctxDone, stats>>

(* PrepareBatch succeeds. *)
PrepareBatch ==
    /\ pc = "prepare"
    /\ pc' = "append"
    /\ row' = 1
    /\ UNCHANGED <<submitted, dropping, logCh, batch, dropped, flushed, returning, work,
                   chBatch, stored, lost, skipped, chConn, ctxDone, stats>>

PrepareFailsUncounted ==
    /\ pc = "prepare"
    /\ FlushReturns
    /\ UNCHANGED <<submitted, dropping, logCh, batch, dropped, flushed, returning, stored,
                   lost, skipped, chConn, ctxDone, stats>>

(* PrepareBatch fails: the batch goes to the metric. *)
PrepareFails ==
    /\ pc = "prepare"
    /\ lost' = lost + Len(work)
    /\ FlushReturns
    /\ UNCHANGED <<submitted, dropping, logCh, batch, dropped, flushed, returning, stored,
                   skipped, chConn, ctxDone, stats>>

(* One turn of the append loop; a row whose Append fails is passed over. *)
AppendRow ==
    /\ pc = "append"
    /\ row <= Len(work)
    /\ row' = row + 1
    /\ \/ chBatch' = Append(chBatch, work[row]) /\ skipped' = skipped
       \/ chBatch' = chBatch /\ skipped' = skipped + 1
    /\ UNCHANGED <<submitted, dropping, logCh, batch, dropped, flushed, pc, returning, work,
                   stored, lost, chConn, ctxDone, stats>>

(* Send returns nil: ClickHouse has the rows. *)
SendOk ==
    /\ pc = "append"
    /\ row > Len(work)
    /\ stored' = stored \o chBatch
    /\ FlushReturns
    /\ UNCHANGED <<submitted, dropping, logCh, batch, dropped, flushed, returning, lost,
                   skipped, chConn, ctxDone, stats>>

(* Send returns an error.  The whole batch goes to the metric, whether the  *)
(* server committed it before the error (a timeout on the answer) or not.   *)
SendFails ==
    /\ pc = "append"
    /\ row > Len(work)
    /\ stored' \in {stored, stored \o chBatch}
    /\ lost' = lost + Len(work)
    /\ FlushReturns
    /\ UNCHANGED <<submitted, dropping, logCh, batch, dropped, flushed, returning, skipped,
                   chConn, ctxDone, stats>>

-----------------------------------------------------------------------------
(* Stats: flushedCount.Load() and then droppedCount.Load(). *)
StatsFlushed ==
    /\ stats.flushed = NoLoad \/ stats.dropped # NoLoad
    /\ stats' = [flushed |-> flushed, dropped |-> NoLoad]
    /\ UNCHANGED <<submitted, dropping, logCh, dropped, workerVars, chConn, ctxDone>>

StatsDropped ==
    /\ stats.flushed # NoLoad
    /\ stats.dropped = NoLoad
    /\ stats' = [stats EXCEPT !.dropped = dropped]
    /\ UNCHANGED <<submitted, dropping, logCh, dropped, workerVars, chConn, ctxDone>>

-----------------------------------------------------------------------------
Flushing == SwapBatch \/ CountFlushed \/ PrepareBatch \/ PrepareFails \/ AppendRow
            \/ SendOk \/ SendFails

Next == \/ SubmitAccept \/ SubmitFull \/ CountDrop
        \/ Cancel
        \/ SelectDone \/ SelectLog \/ SelectTick
        \/ SwapBatch \/ CountFlushed \/ PrepareBatch \/ PrepareFails \/ AppendRow
        \/ SendOk \/ SendFails
        \/ StatsFlushed \/ StatsDropped

Spec == Init /\ [][Next]_vars

(* A goroutine that can go on does, and a call to ClickHouse ends within    *)
(* its ten-second context.  A select with several ready cases picks one at  *)
(* random, so a case that is ready again and again is taken: strong         *)
(* fairness for each case.  Nothing is assumed of callers or of the cancel. *)
Fairness ==
    /\ WF_vars(CountDrop)
    /\ SF_vars(SelectDone) /\ SF_vars(SelectLog) /\ SF_vars(SelectTick)
    /\ WF_vars(Flushing)

FairSpec == Spec /\ Fairness
=============================================================================
