-------------------------- MODULE ConfigSyncProps --------------------------
(* What rule changes and evictions promise: the properties of ConfigSync.   *)
EXTENDS ConfigSync

(* The types of the eviction path's variables; the channel never holds more *)
(* than its size.                                                           *)
TypeOK ==
    /\ version \in [Users -> 0..MaxWrites]
    /\ unpublished \subseteq [user : Users, version : 1..MaxWrites]
    /\ worker \in {"connect", "listen", "clear", "backoff", "stopped"}
    /\ subscribed \in BOOLEAN /\ ctxDone \in BOOLEAN
    /\ inbox \in Seq(Events) /\ Len(inbox) <= ChannelSize
    /\ backoff \in Nat /\ wait \in Nat
    /\ readAt \in [Procs -> 0..MaxWrites] /\ exempt \subseteq Procs
    /\ entryAt \in [Keys -> 0..MaxWrites] /\ late \subseteq Keys
    /\ cleared \in [Users -> 0..MaxWrites]
    /\ gap \in Nat

(* Once the worker has handled a clear_cache event, every cached answer of  *)
(* that user was read after the changes the event announced, except one     *)
(* that a lookup under way during the clear wrote, or one Redis had no part *)
(* in: the snapshot of ClearUserCache and its deletes miss no entry, of     *)
(* either kind.                                                             *)
EvictionEffective ==
    \A k \in Keys : Live(k) /\ k \notin late => entryAt[k] >= cleared[k.user]

(* While Redis is reachable and the worker runs, it is never without a      *)
(* subscription for longer than the library's health check and one          *)
(* maxBackoff, however often it has failed before: a lost link, a closed    *)
(* channel with messages left in it, the wait, and an outage in between.    *)
ResubscribesInTime == gap <= HealthCheck + MaxBackoff

(* What a lookup would read from the store now. *)
StoreAnswer(k) ==
    IF k.kind = "rule"
    THEN IF checkRedis(k.user, k.dom) \/ fallbackCheck(k.dom) THEN "blocked" ELSE "allowed"
    ELSE LET ps == generatePatterns(k.dom)
             hits == {i \in 1..Len(ps) : Field(k.user, ps[i]) # NoIP}
         IN  IF hits = {} THEN NoIP
             ELSE Field(k.user, ps[CHOOSE i \in hits : \A j \in hits : i <= j])

(* When the changes end and Redis stays reachable, the cache ends up in     *)
(* agreement with the store, whatever events were lost, dropped, overtaken  *)
(* or never published, and whatever was cached during an outage.            *)
EventuallyConsistent ==
    enabled /\ <>[]redisUp => <>[](\A k \in Keys : Live(k) => cache[k].val = StoreAnswer(k))

-----------------------------------------------------------------------------
(* What the publisher's usage text says of a clear_cache event: the server  *)
(* "evicts the user's in-memory cache, forcing a fresh Redis lookup".  A    *)
(* lookup that read Redis before the change and has not yet written the     *)
(* cache writes the old answer after the clear.                             *)
ClearForcesFreshLookup ==
    enabled => \A k \in Keys : Live(k) => entryAt[k] >= cleared[k.user]
=============================================================================
