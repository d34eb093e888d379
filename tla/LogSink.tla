------------------------------ MODULE LogSink ------------------------------
(***************************************************************************)
(* What the analytics queue is to the rest of the process: a bounded place *)
(* for rows, in which every row is queued, held by the worker, flushed or  *)
(* dropped, and a worker that ends some time after the cancellation with   *)
(* nothing in its hands.  LogAggregator implements it.                     *)
(***************************************************************************)
EXTENDS Integers

CONSTANT BufferSize   \* capacity of the channel

ASSUME CapacityAssumption == BufferSize \in Nat \ {0}

VARIABLES
    queued,     \* rows in the channel
    held,       \* rows the worker has taken and flushedCount does not show
    dropping,   \* SubmitLog calls that will count a drop
    dropped,    \* droppedCount
    flushed,    \* flushedCount
    ctxDone,    \* the context is cancelled
    done        \* the worker has returned: agg.Wait returns

sinkVars == <<queued, held, dropping, dropped, flushed, ctxDone, done>>

SinkInit ==
    /\ queued = 0 /\ held = 0
    /\ dropping = 0 /\ dropped = 0 /\ flushed = 0
    /\ ctxDone = FALSE /\ done = FALSE

(* SubmitLog: the row is queued if there is room, else it will be counted. *)
SubmitQueued ==
    /\ queued < BufferSize
    /\ queued' = queued + 1
    /\ UNCHANGED <<held, dropping, dropped, flushed, ctxDone, done>>

SubmitDropped ==
    /\ queued >= BufferSize
    /\ dropping' = dropping + 1
    /\ UNCHANGED <<queued, held, dropped, flushed, ctxDone, done>>

DropCounted ==
    /\ dropping > 0
    /\ dropping' = dropping - 1
    /\ dropped' = dropped + 1
    /\ UNCHANGED <<queued, held, flushed, ctxDone, done>>

SinkCancel ==
    /\ ~ctxDone
    /\ ctxDone' = TRUE
    /\ UNCHANGED <<queued, held, dropping, dropped, flushed, done>>

(* The worker takes a row, flushes what it holds (the last time, it ends),  *)
(* or ends with nothing to flush.                                           *)
TakeRow ==
    /\ ~done /\ queued > 0
    /\ queued' = queued - 1
    /\ held' = held + 1
    /\ UNCHANGED <<dropping, dropped, flushed, ctxDone, done>>

FlushRows ==
    /\ ~done /\ held > 0
    /\ flushed' = flushed + held
    /\ held' = 0
    /\ done' \in {FALSE, ctxDone}
    /\ UNCHANGED <<queued, dropping, dropped, ctxDone>>

WorkerEnds ==
    /\ ctxDone /\ ~done /\ held = 0
    /\ done' = TRUE
    /\ UNCHANGED <<queued, held, dropping, dropped, flushed, ctxDone>>

SinkNext ==
    \/ SubmitQueued \/ SubmitDropped \/ DropCounted \/ SinkCancel
    \/ TakeRow \/ FlushRows \/ WorkerEnds

SinkSpec == SinkInit /\ [][SinkNext]_sinkVars
=============================================================================
