----------------------------- MODULE ConfigSync -----------------------------
(***************************************************************************)
(* How a rule change reaches a resolver's cache.  The admin API writes the *)
(* rule to Redis and then publishes a clear_cache event; the resolver's    *)
(* sync worker (internal/sync) subscribes to the channel and evicts the    *)
(* user's entries from the Checker's cache.  The publisher command sends   *)
(* the same kind of event by hand.  Redis delivers a message at most once, *)
(* to whoever is subscribed at that moment.                                *)
(*                                                                         *)
(* Versions count a user's rule changes.  They are not in the code: they   *)
(* say which changes an event, a lookup and a cache entry are later than.  *)
(***************************************************************************)
EXTENDS RuleChecker

CONSTANTS
    ChannelSize,    \* redis.WithChannelSize(100)
    FirstBackoff,   \* 500 ms, in ticks
    MaxBackoff,     \* 30 s, in ticks
    HealthCheck,    \* WithChannelHealthCheckInterval(10 s), in ticks
    MaxWrites       \* bound: rule changes per user

ASSUME SyncAssumption ==
    /\ ChannelSize \in Nat \ {0}
    /\ FirstBackoff \in Nat \ {0} /\ MaxBackoff \in Nat /\ FirstBackoff <= MaxBackoff
    /\ HealthCheck \in Nat
    /\ MaxWrites \in Nat

VARIABLES
    version,      \* rule changes made so far, per user
    unpublished,  \* changes whose handler has not called Publish yet
    worker,       \* where the sync worker is
    subscribed,   \* its connection would receive a message published now
    inbox,        \* the Go channel of pubsub.Channel
    backoff,      \* the variable backoff of run
    wait,         \* ticks left of time.After(backoff)
    ctxDone,
    readAt,       \* version a lookup in flight has read
    exempt,       \* lookups in flight when their user's cache was cleared, or not answered by Redis
    entryAt,      \* version a cache entry was read at
    late,         \* entries that such a lookup wrote
    cleared,      \* latest version a handled clear_cache event is later than
    gap           \* ticks without a subscription, Redis reachable all the while

adminVars == <<version, unpublished>>
workerVars == <<worker, subscribed, inbox, backoff, wait, ctxDone>>
ghostVars == <<readAt, exempt, entryAt, late, cleared, gap>>
vars == <<checkerVars, adminVars, workerVars, ghostVars>>

(* ActionClearCache, ActionUpdateRule, and what DecodeEvent refuses. *)
Actions == {"clear_cache", "update_rule", "invalid"}
Events == [action : Actions, user : Users, version : 0..MaxWrites]

SyncInit ==
    /\ Init
    /\ version = [u \in Users |-> 0] /\ unpublished = {}
    /\ worker = "connect" /\ subscribed = FALSE /\ inbox = <<>>
    /\ backoff = FirstBackoff /\ wait = 0 /\ ctxDone = FALSE
    /\ readAt = [p \in Procs |-> 0] /\ exempt = {}
    /\ entryAt = [k \in Keys |-> 0] /\ late = {}
    /\ cleared = [u \in Users |-> 0]
    /\ gap = 0

-----------------------------------------------------------------------------
(* The admin handlers: the Redis write first, then (its own step) the       *)
(* publish.  A failed write answers 500 and publishes nothing.              *)
Written(u) ==
    /\ redisUp
    /\ version[u] < MaxWrites
    /\ version' = [version EXCEPT ![u] = @ + 1]
    /\ unpublished' = unpublished \cup {[user |-> u, version |-> version[u] + 1]}
    /\ UNCHANGED <<workerVars, ghostVars>>

addRule(u, r) == AddRules(u, {r}) /\ Written(u)
removeRule(u, r) == RemoveRule(u, r) /\ Written(u)
addRedirect(u, r, ip) == PutRedirect(u, r, ip) /\ Written(u)
removeRedirect(u, r) == PutRedirect(u, r, NoIP) /\ Written(u)

\* A mistake: an unbounded channel.
DeliverAlways(e) == inbox' = IF subscribed THEN Append(inbox, e) ELSE inbox

(* Redis hands a message to the subscriber it has, if any; the client drops *)
(* what its full channel does not take.                                     *)
Deliver(e) ==
    inbox' = IF subscribed /\ Len(inbox) < ChannelSize THEN Append(inbox, e) ELSE inbox

(* publishClearCache.  The version is the one at publish time: the event is *)
(* later than every change made by then.                                    *)
publishClearCache(w) ==
    /\ redisUp
    /\ unpublished' = unpublished \ {w}
    /\ Deliver([action |-> "clear_cache", user |-> w.user, version |-> version[w.user]])
    /\ UNCHANGED <<checkerVars, version, worker, subscribed, backoff, wait, ctxDone, ghostVars>>

(* Publish fails, or the admin process ends first: the handler has logged   *)
(* at most a line, and answers 200.                                         *)
PublishFails(w) ==
    /\ unpublished' = unpublished \ {w}
    /\ UNCHANGED <<checkerVars, version, workerVars, ghostVars>>

(* cmd/publisher publishes a valid event; other clients of the channel may  *)
(* send anything.                                                           *)
PublishEvent(u, a) ==
    /\ redisUp
    /\ Deliver([action |-> a, user |-> u, version |-> version[u]])
    /\ UNCHANGED <<checkerVars, adminVars, worker, subscribed, backoff, wait, ctxDone, ghostVars>>

-----------------------------------------------------------------------------
(* The worker: run and subscribe.                                           *)

(* run finds the context done, at the top of its loop or in its wait. *)
WorkerStops ==
    /\ worker \in {"connect", "backoff"}
    /\ ctxDone
    /\ worker' = "stopped"
    /\ UNCHANGED <<checkerVars, adminVars, subscribed, inbox, backoff, wait, ctxDone, ghostVars>>

(* Subscribe and Receive succeed: a fresh channel. *)
SubscribeOk ==
    /\ worker = "connect"
    /\ redisUp
    /\ worker' = "listen" /\ subscribed' = TRUE /\ inbox' = <<>>
    /\ gap' = 0
    /\ UNCHANGED <<checkerVars, adminVars, backoff, wait, ctxDone, readAt, exempt, entryAt,
                   late, cleared>>

(* subscribe returns, because Receive failed or because the channel was     *)
(* closed and is drained; run waits.                                        *)
Retreat ==
    /\ \/ worker = "connect" /\ ~redisUp
       \/ worker = "listen" /\ ~subscribed /\ inbox = <<>>
    /\ worker' = "backoff" /\ wait' = backoff
    /\ UNCHANGED <<checkerVars, adminVars, subscribed, inbox, backoff, ctxDone, ghostVars>>

\* A mistake: no cap.
DoubledUncapped(b) == 2 * b

(* backoff *= 2, at most maxBackoff. *)
Doubled(b) == IF 2 * b > MaxBackoff THEN MaxBackoff ELSE 2 * b

(* time.After(backoff) fires. *)
BackoffOver ==
    /\ worker = "backoff" /\ wait = 0
    /\ worker' = "connect"
    /\ backoff' = Doubled(backoff)
    /\ UNCHANGED <<checkerVars, adminVars, subscribed, inbox, wait, ctxDone, ghostVars>>

(* The connection drops.  The client library subscribes again by itself     *)
(* when Redis is back, on its own goroutine, unless it closes the channel   *)
(* (Retreat).                                                               *)
LinkLost ==
    /\ subscribed
    /\ subscribed' = FALSE
    /\ UNCHANGED <<checkerVars, adminVars, worker, inbox, backoff, wait, ctxDone, ghostVars>>

LinkRestored ==
    /\ worker \in {"listen", "clear"} /\ ~subscribed /\ redisUp
    /\ subscribed' = TRUE /\ gap' = 0
    /\ UNCHANGED <<checkerVars, adminVars, worker, inbox, backoff, wait, ctxDone,
                   readAt, exempt, entryAt, late, cleared>>

Cancel ==
    /\ ~ctxDone
    /\ ctxDone' = TRUE
    /\ UNCHANGED <<checkerVars, adminVars, worker, subscribed, inbox, backoff, wait, ghostVars>>

-----------------------------------------------------------------------------
(* handleMessage.                                                           *)

Busies(u) == {p \in Procs : Busy(p) /\ call[p].key.user = u}

Later(m, n) == IF m > n THEN m ELSE n

(* An event that does not decode, or whose action is not clear_cache: a log *)
(* line and nothing else.                                                   *)
HandleOther ==
    LET e == Head(inbox)
    IN  /\ worker = "listen" /\ inbox # <<>>
        /\ e.action # "clear_cache"
        /\ inbox' = Tail(inbox)
        /\ UNCHANGED <<checkerVars, adminVars, worker, subscribed, backoff, wait, ctxDone,
                       readAt, exempt, entryAt, late, cleared, gap>>

(* clear_cache: the worker calls the evictor, ClearUserCache. *)
HandleClear ==
    LET e == Head(inbox)
    IN  /\ worker = "listen" /\ inbox # <<>>
        /\ e.action = "clear_cache"
        /\ worker' = "clear"
        /\ ClearUserCache(e.user)
        /\ exempt' = exempt \cup Busies(e.user)
        /\ UNCHANGED <<adminVars, subscribed, inbox, backoff, wait, ctxDone,
                       readAt, entryAt, late, cleared, gap>>

EvictKey(k) ==
    /\ worker = "clear"
    /\ ClearKey(k)
    /\ entryAt' = [entryAt EXCEPT ![k] = 0]
    /\ late' = late \ {k}
    /\ UNCHANGED <<adminVars, workerVars, readAt, exempt, cleared, gap>>

(* ClearUserCache returns and the loop takes the next message. *)
ClearDone ==
    LET e == Head(inbox)
    IN  /\ worker = "clear" /\ clearing = {}
        /\ worker' = "listen"
        /\ inbox' = Tail(inbox)
        /\ cleared' = [cleared EXCEPT ![e.user] = Later(@, e.version)]
        /\ UNCHANGED <<checkerVars, adminVars, subscribed, backoff, wait, ctxDone,
                       readAt, exempt, entryAt, late, gap>>

-----------------------------------------------------------------------------
(* The Checker's lookups, with the versions they read and write.            *)
SyncLookup(p, u, q) ==
    /\ Lookup(p, u, q)
    /\ UNCHANGED <<adminVars, workerVars, ghostVars>>

(* The first Redis command of a lookup: what it returns is of this version  *)
(* or a later one.                                                          *)
FirstRead(p) ==
    /\ enabled /\ redisUp /\ call[p].idx = 1
    /\ readAt' = [readAt EXCEPT ![p] = version[call[p].key.user]]
    /\ exempt' = exempt \ {p}

LaterRead(p) ==
    /\ call[p].idx # 1
    /\ UNCHANGED <<readAt, exempt>>

(* Check without Redis: its verdict is of no version. *)
NoRead(p) ==
    /\ ~(enabled /\ redisUp)
    /\ exempt' = exempt \cup {p} /\ UNCHANGED readAt

SyncQuery(p) ==
    /\ CheckQuery(p) \/ HGet(p)
    /\ FirstRead(p) \/ LaterRead(p) \/ NoRead(p)
    /\ UNCHANGED <<adminVars, workerVars, entryAt, late, cleared, gap>>

SyncFill(p) ==
    /\ Fill(p)
    /\ entryAt' = [entryAt EXCEPT ![call[p].key] = readAt[p]]
    /\ late' = IF p \in exempt THEN late \cup {call[p].key} ELSE late \ {call[p].key}
    /\ exempt' = exempt \ {p}
    /\ UNCHANGED <<adminVars, workerVars, readAt, cleared, gap>>

SyncReturn(p) ==
    /\ RedirectUnavailable(p) \/ Return(p)
    /\ readAt' = [readAt EXCEPT ![p] = 0]
    /\ exempt' = exempt \ {p}
    /\ UNCHANGED <<adminVars, workerVars, entryAt, late, cleared, gap>>

SyncRedisFails ==
    /\ RedisFails
    /\ gap' = 0
    /\ UNCHANGED <<adminVars, workerVars, readAt, exempt, entryAt, late, cleared>>

(* Without a subscription while Redis could be reached. *)
Deaf == ~subscribed /\ redisUp /\ worker # "stopped"

(* Time passes when the worker has nothing to do at once.  The library      *)
(* checks a connection it listens on every HealthCheck ticks: it does not   *)
(* leave the worker without one for longer before it reconnects or closes   *)
(* the channel.                                                             *)
SyncTick ==
    /\ Tick
    /\ worker # "connect"
    /\ ~(worker \in {"listen", "clear"} /\ Deaf /\ gap >= HealthCheck)
    /\ ~(worker = "backoff" /\ (wait = 0 \/ ctxDone))
    /\ wait' = IF worker = "backoff" THEN wait - 1 ELSE wait
    /\ entryAt' = [k \in Keys |-> IF cache'[k].ttl = 0 THEN 0 ELSE entryAt[k]]
    /\ late' = {k \in late : cache'[k].ttl > 0}
    /\ gap' = IF Deaf THEN gap + 1 ELSE 0
    /\ UNCHANGED <<adminVars, worker, subscribed, inbox, backoff, ctxDone, readAt, exempt, cleared>>

-----------------------------------------------------------------------------
AdminNext ==
    \E u \in Users :
        \/ \E r \in BlockRules : addRule(u, r) \/ removeRule(u, r)
        \/ \E r \in RedirectRules, ip \in IPs : addRedirect(u, r, ip)
        \/ \E r \in RedirectRules : removeRedirect(u, r)
        \/ \E a \in Actions : PublishEvent(u, a)

PublishNext == \E w \in unpublished : publishClearCache(w) \/ PublishFails(w)

WorkerNext ==
    WorkerStops \/ SubscribeOk \/ Retreat \/ BackoffOver \/ HandleOther \/ HandleClear \/ ClearDone
    \/ \E k \in clearing : EvictKey(k)

LinkNext == LinkLost \/ LinkRestored \/ SyncRedisFails

CheckerNext(p) ==
    \/ \E u \in Users, q \in Queries : SyncLookup(p, u, q)
    \/ SyncQuery(p) \/ SyncFill(p) \/ SyncReturn(p)

SyncNext ==
    \/ AdminNext \/ PublishNext \/ WorkerNext \/ LinkNext \/ Cancel \/ SyncTick
    \/ \E p \in Procs : CheckerNext(p)

SyncSpec == SyncInit /\ [][SyncNext]_vars

(* Goroutines that can go on do, Redis commands and clock ticks end and     *)
(* come.  Nothing is assumed of the users, of Redis or of the connection.   *)
Fairness ==
    /\ WF_vars(SyncTick)
    /\ WF_vars(WorkerNext)
    /\ WF_vars(PublishNext)
    /\ \A p \in Procs : WF_vars(SyncQuery(p) \/ SyncFill(p) \/ SyncReturn(p))

FairSyncSpec == SyncSpec /\ Fairness
=============================================================================
