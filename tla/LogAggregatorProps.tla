------------------------- MODULE LogAggregatorProps -------------------------
(* What the analytics queue promises: the properties of LogAggregator.      *)
EXTENDS LogAggregator

Positions == {"select", "swap", "count", "prepare", "append", "done"}

CountersOK ==
    /\ submitted \in 0..MaxLogs /\ dropping \in Nat /\ dropped \in Nat
    /\ flushed \in Nat /\ lost \in Nat /\ skipped \in Nat /\ row \in Nat

QueuesOK ==
    /\ logCh \in Seq(Logs) /\ Len(logCh) <= BufferSize
    /\ batch \in Seq(Logs) /\ Len(batch) <= FlushThreshold
    /\ work \in Seq(Logs) /\ chBatch \in Seq(Logs) /\ stored \in Seq(Logs)

ControlOK ==
    /\ pc \in Positions /\ returning \in BOOLEAN
    /\ chConn \in BOOLEAN /\ ctxDone \in BOOLEAN
    /\ stats \in [flushed : Nat \cup {NoLoad}, dropped : Nat \cup {NoLoad}]

(* The types of the queue's variables, with the bounds the code relies on:  *)
(* the channel never exceeds its capacity and the batch its threshold.      *)
TypeOK == CountersOK /\ QueuesOK /\ ControlOK

Increasing(s) == \A i, j \in 1..Len(s) : i < j => s[i] < s[j]

\* Rows taken from the batch that flushedCount does not show yet.
Uncounted == IF pc = "count" THEN Len(work) ELSE 0

\* Rows that are counted as flushed while their write is still going on.
Writing == IF pc \in {"prepare", "append"} THEN Len(work) ELSE 0

(* Every submitted log is in exactly one place: dropped (or about to be     *)
(* counted so), queued, batched, or flushed.  SubmitLog, the select and     *)
(* flush move logs between these without losing or doubling one.            *)
Conservation ==
    submitted = dropping + dropped + Len(logCh) + Len(batch) + Uncounted + flushed

(* ClickHouse holds each log at most once, in the order of submission: no   *)
(* failed write is repeated and no batch overtakes another.                 *)
StoredInOrder == Increasing(stored)

(* With a connection, a row that was flushed is stored, or in the metric of *)
(* failed writes, or reported as skipped: flushBatch loses none silently.   *)
WritesAccounted ==
    chConn => flushed <= Len(stored) + lost + skipped + Writing

(* Stats reads two counters at two moments; the sum it reports still never  *)
(* exceeds what was submitted by the time it returns.                       *)
StatsSound ==
    stats.dropped # NoLoad => stats.flushed + stats.dropped <= submitted

(* A log that entered the queue is eventually flushed or counted as         *)
(* dropped, unless the process is told to stop: a batch under the threshold *)
(* does not wait for ever (the ticker case of StartWorker).                 *)
EventuallyAccounted ==
    \A n \in 1..MaxLogs : (submitted >= n) ~> (flushed + dropped >= n \/ ctxDone)

(* After the context is cancelled the worker returns, so agg.Wait in main   *)
(* returns, however many logs keep arriving and whatever ClickHouse does.   *)
WorkerStops == ctxDone ~> pc = "done"

(* When the worker has returned, the batch it held has been written out:    *)
(* only the channel can still hold logs.                                    *)
BatchFlushedOnStop == pc = "done" => batch = <<>> /\ work = <<>>

-----------------------------------------------------------------------------
(* The queue as LogSink sees it: only how many rows are where. *)
Sink == INSTANCE LogSink WITH
    queued <- Len(logCh),
    held <- Len(batch) + Uncounted,
    done <- (pc = "done")

(* The queue implements LogSink: every step of producers and worker is one  *)
(* of its steps or invisible to it, so whoever reasons with LogSink (the    *)
(* shutdown of the process does) may do so.                                 *)
ImplementsSink == Sink!SinkSpec

-----------------------------------------------------------------------------
(* The producers end before the context is cancelled, as in TestSubmitConcurrent. *)
QuietNext == Next /\ (ctxDone => submitted' = submitted)
QuietSpec == Init /\ [][QuietNext]_vars

(* What TestSubmitConcurrent asserts after cancel and Wait: every submitted *)
(* log was flushed or dropped.  The ctx.Done case returns without draining  *)
(* logCh, so logs still in the channel are in neither count.                *)
AccountedAfterWait ==
    pc = "done" /\ dropping = 0 => submitted = flushed + dropped

=============================================================================
