--------------------------- MODULE LifecycleProps ---------------------------
(* What main, the servers and the queue promise together.                   *)
EXTENDS Lifecycle

Running(A) == mainPc # "exited" /\ A

(* A connection does not wait for its client when the client is gone; what  *)
(* a client does, and whether it takes its answer, is up to it.             *)
ConnRuns(c) ==
    \/ client[c] = "gone" /\ handleDoTConnection(c)
    \/ SubmitLog(c) \/ CountDrop(c)

(* Goroutines that can run do, Listen and the shutdown calls return, and    *)
(* the worker comes to the end of its loop, which LogAggregator's           *)
(* WorkerStops shows of it.  Whether a server fails is left open.           *)
FairLifeSpec ==
    /\ LifeSpec
    /\ WF_vars(Running(Main)) /\ WF_vars(Running(RunStd)) /\ WF_vars(Running(RunDoT))
    /\ WF_vars(Running(Worker))
    /\ \A h \in HttpServers : WF_vars(Running(RunHttp(h)))
    /\ \A c \in Conns : WF_vars(Running(ConnRuns(c)))

-----------------------------------------------------------------------------
(* RunDoT lets every connection finish: when the process ends no DoT query  *)
(* that was read is without its answer and its row, and no goroutine is     *)
(* left in the middle of one.                                               *)
DotFinishesQueries ==
    mainPc = "exited" => \A c \in Conns : conn[c] \in {"none", "closed"}

(* main ends after the worker's last flush: rows that are lost were still   *)
(* in the channel, or were being counted as dropped for a query nobody      *)
(* waits for.                                                               *)
RowsAtExit ==
    mainPc = "exited" =>
        /\ held = 0 /\ queued <= BufferSize
        /\ dropping = Cardinality({h \in Handlers : handler[h] = "count"})
        /\ rows = flushed + dropped + dropping + queued

(* RunStd closes what it opened: a server that was serving at the           *)
(* cancellation is closed when the process ends, unless the other one has   *)
(* failed: RunStd's select may then take the error, and closes nothing.     *)
ServersClosed ==
    mainPc = "exited" /\ (\A t \in Transports : listener[t] # "failed")
        => \A t \in Transports : listener[t] # "serving"

(* A query that is handled is one the client sent, although the two bytes   *)
(* of its length are read with a single Read, as long as all messages on    *)
(* the connection are shorter than 256 bytes: half a length is then zero.   *)
QueriesAsSent == garbled \subseteq large

(* The process ends after a signal or the failure of a server, if the       *)
(* DoT clients leave at last: no wait of main, of RunDoT or for room in     *)
(* errCh is in vain.                                                        *)
EventuallyExits ==
    /\ <>(signalled \/ errCh > 0)
    /\ <>[](\A c \in Conns : client[c] # "there")
    => <>(mainPc = "exited")
=============================================================================
