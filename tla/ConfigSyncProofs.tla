------------------------- MODULE ConfigSyncProofs -------------------------
(***************************************************************************)
(* Proofs about the eviction path, for every number of users, rules,       *)
(* goroutines and rule changes, every channel size and every backoff:      *)
(* types, what a handled clear_cache event has achieved, and how long the  *)
(* worker can be without a subscription.                                   *)
(***************************************************************************)
EXTENDS ConfigSyncProps, RuleCheckerProofs

(* Every step of the eviction path is a step of the Checker, or none of it. *)
LEMMA SyncIsNext == [SyncNext]_vars => [Next]_checkerVars
<1> SUFFICES ASSUME [SyncNext]_vars PROVE [Next]_checkerVars OBVIOUS
<1>1. CASE UNCHANGED vars BY <1>1 DEF vars
<1>2. CASE AdminNext
  <2>1. NoIP \in Targets /\ \A ip \in IPs : ip \in Targets BY DEF Targets
  <2> QED BY <1>2, <2>1 DEF AdminNext, addRule, removeRule, addRedirect, removeRedirect, PublishEvent, Next, StoreNext
<1>3. CASE PublishNext BY <1>3 DEF PublishNext, publishClearCache, PublishFails
<1>4. CASE WorkerNext
  <2>1. CASE HandleClear
    <3>1. ClearUserCache(Head(inbox).user) BY <2>1 DEF HandleClear
    <3>2. CASE Head(inbox).user \in Users BY <3>1, <3>2 DEF Next, EvictNext
    <3>3. CASE Head(inbox).user \notin Users
      <4>1. clearing' = clearing BY <3>1, <3>3 DEF ClearUserCache, KeysOf, Keys
      <4> QED BY <3>1, <4>1 DEF ClearUserCache, checkerVars, storeVars
    <3> QED BY <3>2, <3>3
  <2>2. CASE \E k \in clearing : EvictKey(k) BY <2>2 DEF EvictKey, Next, EvictNext
  <2>3. CASE WorkerStops \/ SubscribeOk \/ Retreat \/ BackoffOver \/ HandleOther \/ ClearDone
    BY <2>3 DEF WorkerStops, SubscribeOk, Retreat, BackoffOver, HandleOther, ClearDone
  <2> QED BY <1>4, <2>1, <2>2, <2>3 DEF WorkerNext
<1>5. CASE LinkNext BY <1>5 DEF LinkNext, LinkLost, LinkRestored, SyncRedisFails, Next, StoreNext
<1>6. CASE Cancel BY <1>6 DEF Cancel
<1>7. CASE SyncTick BY <1>7 DEF SyncTick, Next
<1>8. CASE \E p \in Procs : CheckerNext(p)
  BY <1>8 DEF CheckerNext, SyncLookup, SyncQuery, SyncFill, SyncReturn, Next, LookupNext
<1> QED BY <1>1, <1>2, <1>3, <1>4, <1>5, <1>6, <1>7, <1>8 DEF SyncNext

(* A step of a lookup leaves the worker and the evictions alone. *)
LEMMA LookupLeaves ==
    ASSUME NEW p \in Procs, CheckerNext(p)
    PROVE  UNCHANGED <<redisUp, clearing, gap>> /\ UNCHANGED workerVars
<1>1. ASSUME NEW u \in Users, NEW q \in Queries, SyncLookup(p, u, q)
      PROVE  UNCHANGED <<redisUp, clearing, gap>> /\ UNCHANGED workerVars
  BY <1>1 DEF SyncLookup, Lookup, evictVars, ghostVars
<1>2. CASE SyncQuery(p) BY <1>2 DEF SyncQuery, CheckQuery, HGet, evictVars
<1>3. CASE SyncFill(p) BY <1>3 DEF SyncFill, Fill, evictVars
<1>4. CASE SyncReturn(p) BY <1>4 DEF SyncReturn, RedirectUnavailable, Return, evictVars
<1> QED BY <1>1, <1>2, <1>3, <1>4 DEF CheckerNext

-----------------------------------------------------------------------------
(* The types, by part. *)
AdminOK ==
    /\ version \in [Users -> 0..MaxWrites]
    /\ unpublished \subseteq [user : Users, version : 1..MaxWrites]

WorkerOK ==
    /\ worker \in {"connect", "listen", "clear", "backoff", "stopped"}
    /\ subscribed \in BOOLEAN /\ ctxDone \in BOOLEAN
    /\ inbox \in Seq(Events) /\ Len(inbox) <= ChannelSize
    /\ backoff \in Nat /\ wait \in Nat

GhostOK ==
    /\ readAt \in [Procs -> 0..MaxWrites] /\ exempt \subseteq Procs
    /\ entryAt \in [Keys -> 0..MaxWrites] /\ late \subseteq Keys
    /\ cleared \in [Users -> 0..MaxWrites]
    /\ gap \in Nat

(* A clear is of the event at the head of the channel. *)
ClearingHead == worker = "clear" => inbox # <<>>

SyncOK == CheckerOK /\ AdminOK /\ WorkerOK /\ GhostOK /\ ClearingHead

LEMMA InitSync == SyncInit => SyncOK
<1> SUFFICES ASSUME SyncInit PROVE SyncOK OBVIOUS
<1>1. CheckerOK BY InitChecker DEF SyncInit
<1>2. 0 \in 0..MaxWrites BY SyncAssumption
<1>3. <<>> \in Seq(Events) /\ Len(<<>>) = 0 OBVIOUS
<1>4. AdminOK BY <1>2 DEF SyncInit, AdminOK
<1>5. WorkerOK
  <2>1. 0 <= ChannelSize /\ FirstBackoff \in Nat BY SyncAssumption
  <2> QED BY <1>3, <2>1 DEF SyncInit, WorkerOK
<1>6. GhostOK BY <1>2 DEF SyncInit, GhostOK
<1>7. ClearingHead BY DEF SyncInit, ClearingHead
<1> QED BY <1>1, <1>4, <1>5, <1>6, <1>7 DEF SyncOK

LEMMA NextAdmin == SyncOK /\ [SyncNext]_vars => AdminOK'
<1> SUFFICES ASSUME SyncOK, [SyncNext]_vars PROVE AdminOK' OBVIOUS
<1>1. AdminOK BY DEF SyncOK
<1>2. ASSUME UNCHANGED adminVars PROVE AdminOK' BY <1>1, <1>2 DEF AdminOK, adminVars
<1>3. ASSUME NEW u \in Users, Written(u) PROVE AdminOK'
  <2>1. version[u] \in 0..MaxWrites /\ version[u] < MaxWrites BY <1>1, <1>3 DEF AdminOK, Written
  <2>2. version[u] + 1 \in 0..MaxWrites /\ version[u] + 1 \in 1..MaxWrites BY <2>1, SyncAssumption
  <2>3. [user |-> u, version |-> version[u] + 1] \in [user : Users, version : 1..MaxWrites] BY <2>2
  <2> QED BY <1>1, <1>3, <2>2, <2>3 DEF AdminOK, Written
<1>4. CASE UNCHANGED vars BY <1>2, <1>4 DEF vars
<1>5. CASE AdminNext
  BY <1>2, <1>3, <1>5 DEF AdminNext, addRule, removeRule, addRedirect, removeRedirect, PublishEvent
<1>6. CASE PublishNext BY <1>1, <1>6 DEF PublishNext, publishClearCache, PublishFails, AdminOK
<1>7. CASE WorkerNext \/ LinkNext \/ Cancel \/ SyncTick \/ \E p \in Procs : CheckerNext(p)
  BY <1>2, <1>7 DEF WorkerNext, WorkerStops, SubscribeOk, Retreat, BackoffOver, HandleOther, HandleClear,
     ClearDone, EvictKey, LinkNext, LinkLost, LinkRestored, SyncRedisFails, Cancel, SyncTick,
     CheckerNext, SyncLookup, SyncQuery, SyncFill, SyncReturn
<1> QED BY <1>4, <1>5, <1>6, <1>7 DEF SyncNext

(* What is published is an event, and the channel takes it if it has room. *)
LEMMA DeliverType ==
    ASSUME WorkerOK, NEW e \in Events, Deliver(e)
    PROVE  inbox' \in Seq(Events) /\ Len(inbox') <= ChannelSize
<1>1. CASE subscribed /\ Len(inbox) < ChannelSize
  <2>1. inbox' = Append(inbox, e) BY <1>1 DEF Deliver
  <2>2. inbox \in Seq(Events) BY DEF WorkerOK
  <2>3. Append(inbox, e) \in Seq(Events) /\ Len(Append(inbox, e)) = Len(inbox) + 1 /\ Len(inbox) \in Nat
    BY <2>2
  <2> QED BY <1>1, <2>1, <2>3, SyncAssumption
<1>2. CASE ~(subscribed /\ Len(inbox) < ChannelSize) BY <1>2 DEF Deliver, WorkerOK
<1> QED BY <1>1, <1>2

LEMMA TakeType ==
    ASSUME WorkerOK, inbox # <<>>, inbox' = Tail(inbox)
    PROVE  inbox' \in Seq(Events) /\ Len(inbox') <= ChannelSize /\ Head(inbox) \in Events
<1>1. inbox \in Seq(Events) /\ Len(inbox) <= ChannelSize BY DEF WorkerOK
<1>2. Tail(inbox) \in Seq(Events) /\ Len(Tail(inbox)) = Len(inbox) - 1 /\ Len(inbox) \in Nat
      /\ Head(inbox) \in Events
  BY <1>1
<1> QED BY <1>1, <1>2, SyncAssumption

LEMMA NextWorker == SyncOK /\ [SyncNext]_vars => WorkerOK' /\ ClearingHead'
<1> SUFFICES ASSUME SyncOK, [SyncNext]_vars PROVE WorkerOK' /\ ClearingHead' OBVIOUS
<1>1. WorkerOK /\ ClearingHead BY DEF SyncOK
<1>2. ASSUME UNCHANGED workerVars PROVE WorkerOK' /\ ClearingHead'
  BY <1>1, <1>2 DEF WorkerOK, ClearingHead, workerVars
<1>3. CASE UNCHANGED vars BY <1>2, <1>3 DEF vars
<1>4. ASSUME NEW e \in Events, Deliver(e), UNCHANGED <<worker, subscribed, backoff, wait, ctxDone>>
      PROVE  WorkerOK' /\ ClearingHead'
  <2>1. inbox' \in Seq(Events) /\ Len(inbox') <= ChannelSize BY <1>1, <1>4, DeliverType
  <2>2. inbox # <<>> => inbox' # <<>>
    <3>1. inbox \in Seq(Events) BY <1>1 DEF WorkerOK
    <3>2. Len(Append(inbox, e)) = Len(inbox) + 1 /\ Len(inbox) \in Nat /\ Len(<<>>) = 0 BY <3>1
    <3>3. Append(inbox, e) # <<>> BY <3>2
    <3> QED BY <1>4, <3>3 DEF Deliver
  <2> QED BY <1>1, <1>4, <2>1, <2>2 DEF WorkerOK, ClearingHead
<1>5. CASE AdminNext
  <2>1. ASSUME NEW u \in Users, NEW a \in Actions, PublishEvent(u, a) PROVE WorkerOK' /\ ClearingHead'
    <3>1. [action |-> a, user |-> u, version |-> version[u]] \in Events BY DEF SyncOK, AdminOK, Events
    <3> QED BY <1>4, <2>1, <3>1 DEF PublishEvent
  <2> QED BY <1>2, <1>5, <2>1 DEF AdminNext, addRule, removeRule, addRedirect, removeRedirect, Written
<1>6. CASE PublishNext
  <2>1. ASSUME NEW w \in unpublished, publishClearCache(w) PROVE WorkerOK' /\ ClearingHead'
    <3>1. w.user \in Users BY DEF SyncOK, AdminOK
    <3>2. [action |-> "clear_cache", user |-> w.user, version |-> version[w.user]] \in Events
      BY <3>1 DEF SyncOK, AdminOK, Events, Actions
    <3> QED BY <1>4, <2>1, <3>2 DEF publishClearCache
  <2> QED BY <1>2, <1>6, <2>1 DEF PublishNext, PublishFails
<1>7. CASE WorkerNext
  <2>1. CASE WorkerStops \/ Retreat BY <1>1, <2>1 DEF WorkerStops, Retreat, WorkerOK, ClearingHead
  <2>2. CASE SubscribeOk
    <3>1. <<>> \in Seq(Events) /\ Len(<<>>) = 0 OBVIOUS
    <3> QED BY <1>1, <2>2, <3>1, SyncAssumption DEF SubscribeOk, WorkerOK, ClearingHead
  <2>3. CASE BackoffOver
    <3>1. Doubled(backoff) \in Nat BY <1>1, SyncAssumption DEF WorkerOK, Doubled
    <3> QED BY <1>1, <2>3, <3>1 DEF BackoffOver, WorkerOK, ClearingHead
  <2>4. CASE HandleOther
    <3>1. inbox # <<>> /\ inbox' = Tail(inbox) /\ worker = "listen" BY <2>4 DEF HandleOther
    <3>2. inbox' \in Seq(Events) /\ Len(inbox') <= ChannelSize BY <1>1, <3>1, TakeType
    <3> QED BY <1>1, <2>4, <3>1, <3>2 DEF HandleOther, WorkerOK, ClearingHead
  <2>5. CASE HandleClear BY <1>1, <2>5 DEF HandleClear, WorkerOK, ClearingHead
  <2>6. CASE ClearDone
    <3>1. inbox # <<>> /\ inbox' = Tail(inbox) BY <1>1, <2>6 DEF ClearDone, ClearingHead
    <3>2. inbox' \in Seq(Events) /\ Len(inbox') <= ChannelSize BY <1>1, <3>1, TakeType
    <3> QED BY <1>1, <2>6, <3>2 DEF ClearDone, WorkerOK, ClearingHead
  <2>7. CASE \E k \in clearing : EvictKey(k) BY <1>2, <2>7 DEF EvictKey
  <2> QED BY <1>7, <2>1, <2>2, <2>3, <2>4, <2>5, <2>6, <2>7 DEF WorkerNext
<1>8. CASE LinkNext \/ Cancel
  BY <1>1, <1>2, <1>8 DEF LinkNext, LinkLost, LinkRestored, SyncRedisFails, Cancel, WorkerOK, ClearingHead
<1>9. CASE SyncTick
  <2>1. wait' \in Nat BY <1>1, <1>9 DEF SyncTick, WorkerOK
  <2> QED BY <1>1, <1>9, <2>1 DEF SyncTick, WorkerOK, ClearingHead
<1>10. CASE \E p \in Procs : CheckerNext(p)
  BY <1>2, <1>10 DEF CheckerNext, SyncLookup, SyncQuery, SyncFill, SyncReturn
<1> QED BY <1>3, <1>5, <1>6, <1>7, <1>8, <1>9, <1>10 DEF SyncNext

LEMMA NextGhost == SyncOK /\ [SyncNext]_vars => GhostOK'
<1> SUFFICES ASSUME SyncOK, [SyncNext]_vars PROVE GhostOK' OBVIOUS
<1>1. GhostOK BY DEF SyncOK
<1>2. ASSUME UNCHANGED ghostVars PROVE GhostOK' BY <1>1, <1>2 DEF GhostOK, ghostVars
<1>3. 0 \in 0..MaxWrites BY SyncAssumption
<1>4. CASE UNCHANGED vars BY <1>2, <1>4 DEF vars
<1>5. CASE AdminNext \/ PublishNext \/ Cancel
  BY <1>2, <1>5 DEF AdminNext, addRule, removeRule, addRedirect, removeRedirect, Written, PublishEvent,
                    PublishNext, publishClearCache, PublishFails, Cancel
<1>6. CASE WorkerNext
  <2>1. CASE WorkerStops \/ Retreat \/ BackoffOver \/ HandleOther
    BY <1>2, <2>1 DEF WorkerStops, Retreat, BackoffOver, HandleOther, ghostVars
  <2>2. CASE SubscribeOk \/ HandleClear BY <1>1, <2>2 DEF SubscribeOk, HandleClear, GhostOK, Busies
  <2>3. ASSUME NEW k \in clearing, EvictKey(k) PROVE GhostOK'
    BY <1>1, <1>3, <2>3 DEF EvictKey, GhostOK, SyncOK, CheckerOK, CacheOK
  <2>4. CASE ClearDone
    <3>1. inbox # <<>> /\ inbox' = Tail(inbox) BY <2>4 DEF ClearDone, SyncOK, ClearingHead
    <3>2. Head(inbox) \in Events BY <3>1, TakeType DEF SyncOK
    <3>3. Head(inbox).user \in Users /\ Head(inbox).version \in 0..MaxWrites BY <3>2 DEF Events
    <3>4. Later(cleared[Head(inbox).user], Head(inbox).version) \in 0..MaxWrites
      BY <1>1, <3>3 DEF Later, GhostOK
    <3> QED BY <1>1, <2>4, <3>3, <3>4 DEF ClearDone, GhostOK
  <2> QED BY <1>6, <2>1, <2>2, <2>3, <2>4 DEF WorkerNext
<1>7. CASE LinkNext BY <1>1, <1>2, <1>7 DEF LinkNext, LinkLost, LinkRestored, SyncRedisFails, GhostOK
<1>8. CASE SyncTick
  <2>1. gap' \in Nat BY <1>1, <1>8 DEF SyncTick, GhostOK
  <2>2. entryAt' \in [Keys -> 0..MaxWrites] BY <1>1, <1>3, <1>8 DEF SyncTick, GhostOK
  <2> QED BY <1>1, <1>8, <2>1, <2>2 DEF SyncTick, GhostOK
<1>9. ASSUME NEW p \in Procs, CheckerNext(p) PROVE GhostOK'
  <2>1. call[p].key \in Keys /\ call[p].key.user \in Users BY DEF SyncOK, CheckerOK, CallOK, Calls, Keys
  <2>2. CASE \E u \in Users, q \in Queries : SyncLookup(p, u, q) BY <1>2, <2>2 DEF SyncLookup
  <2>3. CASE SyncQuery(p)
    <3>1. version[call[p].key.user] \in 0..MaxWrites BY <2>1 DEF SyncOK, AdminOK
    <3> QED BY <1>1, <2>3, <3>1 DEF SyncQuery, FirstRead, LaterRead, NoRead, GhostOK
  <2>4. CASE SyncFill(p) BY <1>1, <2>1, <2>4 DEF SyncFill, GhostOK
  <2>5. CASE SyncReturn(p) BY <1>1, <1>3, <2>5 DEF SyncReturn, GhostOK
  <2> QED BY <1>9, <2>2, <2>3, <2>4, <2>5 DEF CheckerNext
<1> QED BY <1>4, <1>5, <1>6, <1>7, <1>8, <1>9 DEF SyncNext

LEMMA NextSync == SyncOK /\ [SyncNext]_vars => SyncOK'
  BY SyncIsNext, NextChecker, NextAdmin, NextWorker, NextGhost DEF SyncOK

(* The types of the eviction path's state are kept, and the channel never   *)
(* holds more than its size, whatever is published.                         *)
THEOREM SyncTypeCorrect == FairSyncSpec => []TypeOK
<1>1. SyncOK => TypeOK BY DEF SyncOK, AdminOK, WorkerOK, GhostOK, TypeOK
<1> QED BY <1>1, InitSync, NextSync, PTL DEF FairSyncSpec, SyncSpec

-----------------------------------------------------------------------------
(* How long the worker can be without a subscription. *)
BackoffInv ==
    /\ backoff <= MaxBackoff /\ gap <= HealthCheck + MaxBackoff
    /\ ~redisUp => gap = 0
    /\ worker \in {"listen", "clear"} => gap <= HealthCheck
    /\ worker = "backoff" => gap + wait <= HealthCheck + MaxBackoff

LEMMA NextBackoff == SyncOK /\ BackoffInv /\ [SyncNext]_vars => BackoffInv'
<1> SUFFICES ASSUME SyncOK, BackoffInv, [SyncNext]_vars PROVE BackoffInv' OBVIOUS
<1>1. backoff \in Nat /\ wait \in Nat /\ gap \in Nat /\ MaxBackoff \in Nat /\ HealthCheck \in Nat
  BY SyncAssumption DEF SyncOK, WorkerOK, GhostOK
<1>2. ASSUME UNCHANGED <<redisUp, worker, backoff, wait, gap>> PROVE BackoffInv'
  BY <1>2 DEF BackoffInv
<1>3. CASE UNCHANGED vars BY <1>2, <1>3 DEF vars, checkerVars, workerVars, ghostVars
<1>4. CASE AdminNext
  BY <1>2, <1>4 DEF AdminNext, addRule, removeRule, addRedirect, removeRedirect, Written, AddRules,
     RemoveRule, PutRedirect, PublishEvent, checkerVars, workerVars, ghostVars
<1>5. CASE PublishNext \/ Cancel
  BY <1>2, <1>5 DEF PublishNext, publishClearCache, PublishFails, Cancel, checkerVars, workerVars, ghostVars
<1>6. CASE \E p \in Procs : CheckerNext(p)
  BY <1>2, <1>6, LookupLeaves DEF workerVars
<1>7. CASE WorkerNext
  <2>1. CASE HandleOther \/ \E k \in clearing : EvictKey(k)
    BY <1>2, <2>1 DEF HandleOther, EvictKey, ClearKey, checkerVars, workerVars
  <2>2. CASE WorkerStops BY <2>2 DEF WorkerStops, BackoffInv, checkerVars, ghostVars
  <2>3. CASE SubscribeOk BY <1>1, <2>3 DEF SubscribeOk, BackoffInv, checkerVars
  <2>4. CASE Retreat
    <3>1. gap <= HealthCheck BY <1>1, <2>4 DEF Retreat, BackoffInv
    <3>2. worker' = "backoff" /\ wait' = backoff /\ gap' = gap /\ backoff' = backoff /\ redisUp' = redisUp
      BY <2>4 DEF Retreat, checkerVars, ghostVars
    <3> QED BY <1>1, <3>1, <3>2 DEF BackoffInv
  <2>5. CASE BackoffOver
    <3>1. Doubled(backoff) <= MaxBackoff BY <1>1 DEF Doubled
    <3> QED BY <2>5, <3>1 DEF BackoffOver, BackoffInv, checkerVars, ghostVars
  <2>6. CASE HandleClear BY <2>6 DEF HandleClear, ClearUserCache, BackoffInv
  <2>7. CASE ClearDone BY <2>7 DEF ClearDone, BackoffInv, checkerVars
  <2> QED BY <1>7, <2>1, <2>2, <2>3, <2>4, <2>5, <2>6, <2>7 DEF WorkerNext
<1>8. CASE LinkNext
  <2>1. CASE LinkLost BY <1>2, <2>1 DEF LinkLost, checkerVars, ghostVars
  <2>3. CASE LinkRestored BY <1>1, <2>3 DEF LinkRestored, BackoffInv, checkerVars
  <2>2. CASE SyncRedisFails
    <3>1. gap' = 0 /\ worker' = worker /\ backoff' = backoff /\ wait' = wait
      BY <2>2 DEF SyncRedisFails, workerVars
    <3> QED BY <1>1, <3>1 DEF BackoffInv
  <2> QED BY <1>8, <2>1, <2>2, <2>3 DEF LinkNext
<1>9. CASE SyncTick
  <2>1. redisUp' = redisUp /\ worker' = worker /\ backoff' = backoff BY <1>9 DEF SyncTick, Tick
  <2>2. CASE worker = "backoff"
    <3>1. wait > 0 /\ wait' = wait - 1 BY <1>1, <1>9, <2>2 DEF SyncTick
    <3>2. (gap' = gap + 1 /\ redisUp) \/ gap' = 0 BY <1>9 DEF SyncTick, Deaf
    <3> QED BY <1>1, <2>1, <2>2, <3>1, <3>2 DEF BackoffInv
  <2>3. CASE worker # "backoff"
    <3>1. (worker \in {"listen", "clear"} /\ gap' = gap + 1 /\ redisUp /\ gap < HealthCheck) \/ gap' = 0
      <4>1. worker \in {"listen", "clear", "stopped"} BY <1>9, <2>3 DEF SyncTick, SyncOK, WorkerOK
      <4>2. CASE Deaf
        <5>1. worker \in {"listen", "clear"} /\ redisUp BY <4>1, <4>2 DEF Deaf
        <5>2. ~(gap >= HealthCheck) /\ gap' = gap + 1 BY <1>9, <4>2, <5>1 DEF SyncTick
        <5> QED BY <1>1, <5>1, <5>2
      <4>3. CASE ~Deaf BY <1>9, <4>3 DEF SyncTick
      <4> QED BY <4>2, <4>3
    <3> QED BY <1>1, <2>1, <2>3, <3>1 DEF BackoffInv
  <2> QED BY <2>2, <2>3
<1> QED BY <1>3, <1>4, <1>5, <1>6, <1>7, <1>8, <1>9 DEF SyncNext

(* While Redis is reachable a running worker is without a subscription for  *)
(* at most a health check and maxBackoff, however often and however long it *)
(* has failed before: the doubling stops at the cap, a wait starts with at  *)
(* most the library's delay behind it, and after it Redis is asked again.   *)
THEOREM ResubscribesInTimeHolds == FairSyncSpec => []ResubscribesInTime
<1>1. SyncInit => BackoffInv
  <2>1. 0 <= HealthCheck + MaxBackoff /\ 0 <= HealthCheck /\ FirstBackoff <= MaxBackoff
    BY SyncAssumption
  <2> QED BY <2>1 DEF SyncInit, BackoffInv
<1>2. BackoffInv => ResubscribesInTime BY DEF BackoffInv, ResubscribesInTime
<1> QED BY <1>1, <1>2, InitSync, NextSync, NextBackoff, PTL DEF FairSyncSpec, SyncSpec

-----------------------------------------------------------------------------
(* What a handled event has achieved.  A lookup has read once its first     *)
(* Redis command is done; while a clear is at work, what is not in its      *)
(* snapshot any more is later than the event too.                           *)
HasRead(p) == call[p].pc = "fill" \/ (call[p].pc = "query" /\ call[p].idx # 1)

VersionsInv ==
    /\ \A u \in Users : cleared[u] <= version[u]
    /\ \A i \in 1..Len(inbox) : inbox[i].version <= version[inbox[i].user]

(* What was read or cached is later than the events handled, and than the   *)
(* one being handled.                                                       *)
ReadLate(p) ==
    /\ readAt[p] >= cleared[call[p].key.user]
    /\ worker = "clear" /\ Head(inbox).user = call[p].key.user => readAt[p] >= Head(inbox).version

EntryLate(k) ==
    /\ entryAt[k] >= cleared[k.user]
    /\ worker = "clear" /\ Head(inbox).user = k.user /\ k \notin clearing =>
          entryAt[k] >= Head(inbox).version

ReadsInv == \A p \in Procs : HasRead(p) /\ p \notin exempt => ReadLate(p)

EntriesInv == \A k \in Keys : Live(k) /\ k \notin late => EntryLate(k)

EvictInv == SyncOK /\ VersionsInv /\ ReadsInv /\ EntriesInv /\ (worker # "clear" => clearing = {})

(* The event being handled stays at the head of the channel. *)
LEMMA HeadKept ==
    ASSUME SyncOK, worker = "clear", NEW e \in Events, Deliver(e)
    PROVE  Head(inbox') = Head(inbox)
<1>1. inbox \in Seq(Events) /\ inbox # <<>> BY DEF SyncOK, WorkerOK, ClearingHead
<1>2. Head(Append(inbox, e)) = Head(inbox) BY <1>1
<1> QED BY <1>2 DEF Deliver

(* The head of the channel is its first event. *)
LEMMA HeadEvent ==
    ASSUME SyncOK, inbox # <<>>
    PROVE  /\ Len(inbox) \in Nat /\ 1 \in 1..Len(inbox) /\ Head(inbox) = inbox[1]
           /\ Head(inbox).user \in Users /\ Head(inbox).version \in Nat
<1>1. inbox \in Seq(Events) BY DEF SyncOK, WorkerOK
<1>2. Len(inbox) \in Nat /\ 1 \in 1..Len(inbox) /\ Head(inbox) = inbox[1] /\ Head(inbox) \in Events
  BY <1>1
<1>3. \A n \in 0..MaxWrites : n \in Nat BY SyncAssumption
<1> QED BY <1>2, <1>3 DEF Events

(* Versions are numbers. *)
LEMMA VersionsAreNumbers ==
    ASSUME SyncOK
    PROVE  /\ \A u \in Users : version[u] \in Nat /\ cleared[u] \in Nat
           /\ \A p \in Procs : readAt[p] \in Nat
           /\ \A k \in Keys : entryAt[k] \in Nat
<1>1. \A n \in 0..MaxWrites : n \in Nat BY SyncAssumption
<1> QED BY <1>1 DEF SyncOK, AdminOK, GhostOK

(* No event claims a change that has not been made. *)
LEMMA NextVersions == EvictInv /\ [SyncNext]_vars => VersionsInv'
<1> SUFFICES ASSUME EvictInv, [SyncNext]_vars PROVE VersionsInv' OBVIOUS
<1>1. SyncOK /\ VersionsInv BY DEF EvictInv
<1>2. \A u \in Users : version[u] \in Nat /\ cleared[u] \in Nat BY <1>1, VersionsAreNumbers
<1>3. inbox \in Seq(Events) /\ version \in [Users -> 0..MaxWrites] /\ cleared \in [Users -> 0..MaxWrites]
  BY <1>1 DEF SyncOK, WorkerOK, AdminOK, GhostOK
<1>4. ASSUME UNCHANGED <<version, inbox, cleared>> PROVE VersionsInv' BY <1>1, <1>4 DEF VersionsInv
<1>5. CASE UNCHANGED vars BY <1>4, <1>5 DEF vars, adminVars, workerVars, ghostVars
<1>6. ASSUME NEW e \in Events, e.version = version[e.user], Deliver(e), UNCHANGED <<version, cleared>>
      PROVE  VersionsInv'
  <2>1. CASE inbox' = inbox BY <1>4, <1>6, <2>1
  <2>2. CASE inbox' = Append(inbox, e)
    <3>1. Len(inbox) \in Nat /\ Len(inbox') = Len(inbox) + 1 /\ inbox'[Len(inbox) + 1] = e
          /\ \A i \in 1..Len(inbox) : inbox'[i] = inbox[i]
      BY <1>3, <2>2
    <3>2. e.user \in Users BY DEF Events
    <3>3. e.version <= version[e.user] BY <1>2, <1>6, <3>2
    <3>4. ASSUME NEW i \in 1..Len(inbox') PROVE inbox'[i].version <= version'[inbox'[i].user]
      <4>1. CASE i = Len(inbox) + 1 BY <1>6, <3>1, <3>3, <4>1
      <4>2. CASE i # Len(inbox) + 1
        <5>1. i \in 1..Len(inbox) BY <3>1, <4>2
        <5>2. inbox[i].version <= version[inbox[i].user] BY <1>1, <5>1 DEF VersionsInv
        <5> QED BY <1>6, <3>1, <5>1, <5>2
      <4> QED BY <4>1, <4>2
    <3> QED BY <1>1, <1>6, <3>4 DEF VersionsInv
  <2> QED BY <1>6, <2>1, <2>2 DEF Deliver
<1>7. ASSUME NEW u \in Users, Written(u) PROVE VersionsInv'
  <2>1. inbox' = inbox /\ cleared' = cleared BY <1>7 DEF Written, workerVars, ghostVars
  <2>2. \A x \in Users : version[x] <= version'[x] /\ version'[x] \in Nat
    BY <1>2, <1>3, <1>7 DEF Written
  <2>3. ASSUME NEW i \in 1..Len(inbox') PROVE inbox'[i].version <= version'[inbox'[i].user]
    <3>1. inbox[i] \in Events /\ inbox'[i] = inbox[i] BY <1>3, <2>1, <2>3
    <3>2. inbox[i].version <= version[inbox[i].user] BY <1>1, <2>1 DEF VersionsInv
    <3>3. inbox[i].user \in Users /\ inbox[i].version \in Int BY <3>1, SyncAssumption DEF Events
    <3> QED BY <1>2, <2>2, <3>1, <3>2, <3>3
  <2>4. \A x \in Users : cleared'[x] <= version'[x] BY <1>1, <1>2, <2>1, <2>2 DEF VersionsInv
  <2> QED BY <2>3, <2>4 DEF VersionsInv
<1>8. CASE AdminNext
  <2>1. ASSUME NEW u \in Users, NEW a \in Actions, PublishEvent(u, a) PROVE VersionsInv'
    <3>1. PICK e \in Events : e = [action |-> a, user |-> u, version |-> version[u]] BY <1>3 DEF Events
    <3> QED BY <1>6, <2>1, <3>1 DEF PublishEvent, adminVars, ghostVars
  <2> QED BY <1>7, <1>8, <2>1 DEF AdminNext, addRule, removeRule, addRedirect, removeRedirect
<1>9. CASE PublishNext
  <2>1. ASSUME NEW w \in unpublished, publishClearCache(w) PROVE VersionsInv'
    <3>1. w.user \in Users BY <1>1 DEF SyncOK, AdminOK
    <3>2. PICK e \in Events : e = [action |-> "clear_cache", user |-> w.user, version |-> version[w.user]]
      BY <1>3, <3>1 DEF Events, Actions
    <3> QED BY <1>6, <2>1, <3>2 DEF publishClearCache, ghostVars
  <2> QED BY <1>4, <1>9, <2>1 DEF PublishNext, PublishFails, workerVars, ghostVars
<1>10. ASSUME inbox # <<>>, inbox' = Tail(inbox)
       PROVE  \A i \in 1..Len(inbox') : inbox'[i].version <= version[inbox'[i].user]
  <2>1. Len(inbox) \in Nat /\ Len(inbox') = Len(inbox) - 1
        /\ \A i \in 1..Len(inbox') : inbox'[i] = inbox[i + 1]
    BY <1>3, <1>10
  <2>2. \A i \in 1..Len(inbox') : i + 1 \in 1..Len(inbox) BY <2>1
  <2> QED BY <1>1, <2>1, <2>2 DEF VersionsInv
<1>11. CASE WorkerNext
  <2>1. CASE WorkerStops \/ Retreat \/ BackoffOver \/ HandleClear \/ \E k \in clearing : EvictKey(k)
    BY <1>4, <2>1 DEF WorkerStops, Retreat, BackoffOver, HandleClear, EvictKey, adminVars, workerVars, ghostVars
  <2>2. CASE SubscribeOk
    <3>1. Len(inbox') = 0 /\ version' = version /\ cleared' = cleared
      BY <2>2 DEF SubscribeOk, adminVars
    <3> QED BY <1>1, <3>1 DEF VersionsInv
  <2>3. CASE HandleOther BY <1>1, <1>10, <2>3 DEF HandleOther, adminVars, VersionsInv
  <2>4. CASE ClearDone
    <3>1. inbox # <<>> /\ inbox' = Tail(inbox) /\ version' = version
      BY <1>1, <2>4 DEF ClearDone, SyncOK, ClearingHead, adminVars
    <3>2. PICK e : e = Head(inbox) OBVIOUS
    <3>3. e.user \in Users /\ e.version \in Nat /\ e.version <= version[e.user]
      BY <1>1, <3>1, <3>2, HeadEvent DEF VersionsInv
    <3>4. cleared' = [cleared EXCEPT ![e.user] = Later(@, e.version)] BY <2>4, <3>2 DEF ClearDone
    <3>5. \A x \in Users : cleared'[x] <= version[x]
      BY <1>1, <1>2, <1>3, <3>3, <3>4 DEF Later, VersionsInv
    <3> QED BY <1>10, <3>1, <3>5 DEF VersionsInv
  <2> QED BY <1>11, <2>1, <2>2, <2>3, <2>4 DEF WorkerNext
<1>12. CASE LinkNext \/ Cancel \/ SyncTick \/ \E p \in Procs : CheckerNext(p)
  BY <1>4, <1>12 DEF LinkNext, LinkLost, LinkRestored, SyncRedisFails, Cancel, SyncTick, CheckerNext,
     SyncLookup, SyncQuery, SyncFill, SyncReturn, adminVars, workerVars, ghostVars
<1> QED BY <1>5, <1>8, <1>9, <1>11, <1>12 DEF SyncNext

(* A step that touches neither what a lookup has nor the worker. *)
LEMMA ReadKept ==
    ASSUME EvictInv, NEW p \in Procs, HasRead(p)', p \notin exempt',
           HasRead(p), p \notin exempt, readAt'[p] = readAt[p], call'[p].key = call[p].key,
           cleared' = cleared,
           worker' = "clear" => worker = "clear" /\ Head(inbox') = Head(inbox)
    PROVE  ReadLate(p)'
  BY DEF EvictInv, ReadsInv, ReadLate

(* A lookup that no clear has exempt has read after the events handled. *)
LEMMA NextReads == EvictInv /\ [SyncNext]_vars => ReadsInv'
<1> SUFFICES ASSUME EvictInv, [SyncNext]_vars, NEW p \in Procs, HasRead(p)', p \notin exempt'
             PROVE  ReadLate(p)'
  BY DEF ReadsInv
<1>1. SyncOK /\ VersionsInv /\ ReadsInv BY DEF EvictInv
<1>2. call \in [Procs -> Calls] /\ call[p] \in Calls /\ call[p].key.user \in Users
  BY <1>1 DEF SyncOK, CheckerOK, CallOK, Calls, Keys
<1>3. readAt \in [Procs -> 0..MaxWrites] BY <1>1 DEF SyncOK, GhostOK
<1>4. ASSUME UNCHANGED <<call, exempt, readAt, cleared>>,
             worker' = "clear" => worker = "clear" /\ Head(inbox') = Head(inbox)
      PROVE  ReadLate(p)'
  BY <1>4, ReadKept DEF HasRead
<1>5. CASE UNCHANGED vars BY <1>4, <1>5 DEF vars, checkerVars, workerVars, ghostVars
<1>6. CASE AdminNext
  <2>1. ASSUME NEW u \in Users, NEW a \in Actions, PublishEvent(u, a) PROVE ReadLate(p)'
    <3>1. [action |-> a, user |-> u, version |-> version[u]] \in Events BY <1>1 DEF SyncOK, AdminOK, Events
    <3>2. worker = "clear" => Head(inbox') = Head(inbox) BY <1>1, <2>1, <3>1, HeadKept DEF PublishEvent
    <3> QED BY <1>4, <2>1, <3>2 DEF PublishEvent, checkerVars, ghostVars
  <2> QED BY <1>4, <1>6, <2>1
          DEF AdminNext, addRule, removeRule, addRedirect, removeRedirect, AddRules, RemoveRule, PutRedirect,
              Written, workerVars, ghostVars
<1>7. CASE PublishNext
  <2>1. ASSUME NEW w \in unpublished, publishClearCache(w) PROVE ReadLate(p)'
    <3>1. w.user \in Users BY <1>1 DEF SyncOK, AdminOK
    <3>2. [action |-> "clear_cache", user |-> w.user, version |-> version[w.user]] \in Events
      BY <1>1, <3>1 DEF SyncOK, AdminOK, Events, Actions
    <3>3. worker = "clear" => Head(inbox') = Head(inbox) BY <1>1, <2>1, <3>2, HeadKept DEF publishClearCache
    <3> QED BY <1>4, <2>1, <3>3 DEF publishClearCache, checkerVars, ghostVars
  <2> QED BY <1>4, <1>7, <2>1 DEF PublishNext, PublishFails, checkerVars, workerVars, ghostVars
<1>8. CASE WorkerNext
  <2>1. CASE WorkerStops \/ SubscribeOk \/ Retreat \/ BackoffOver \/ HandleOther
    BY <1>4, <2>1 DEF WorkerStops, SubscribeOk, Retreat, BackoffOver, HandleOther, checkerVars, ghostVars
  <2>2. CASE HandleClear
    <3>1. call' = call /\ readAt' = readAt /\ cleared' = cleared /\ inbox' = inbox
          /\ exempt' = exempt \cup Busies(Head(inbox).user)
      BY <2>2 DEF HandleClear, ClearUserCache
    <3>2. HasRead(p) /\ p \notin exempt BY <3>1 DEF HasRead
    <3>3. p \notin Busies(Head(inbox).user) BY <3>1
    <3>4. Head(inbox).user # call[p].key.user BY <3>2, <3>3 DEF Busies, Busy, HasRead
    <3>5. readAt[p] >= cleared[call[p].key.user] BY <1>1, <3>2 DEF ReadsInv, ReadLate
    <3> QED BY <3>1, <3>4, <3>5 DEF ReadLate
  <2>3. CASE \E k \in clearing : EvictKey(k) BY <1>4, <2>3 DEF EvictKey, ClearKey, workerVars
  <2>4. CASE ClearDone
    <3>1. call' = call /\ readAt' = readAt /\ exempt' = exempt /\ worker = "clear"
      BY <2>4 DEF ClearDone, checkerVars
    <3>2. HasRead(p) /\ p \notin exempt BY <3>1 DEF HasRead
    <3>3. ReadLate(p) BY <1>1, <3>2 DEF ReadsInv
    <3>4. PICK e : e = Head(inbox) OBVIOUS
    <3>5. cleared' = [cleared EXCEPT ![e.user] = Later(@, e.version)] BY <2>4, <3>4 DEF ClearDone
    <3>6. cleared \in [Users -> 0..MaxWrites] BY <1>1 DEF SyncOK, GhostOK
    <3>7. CASE e.user = call[p].key.user
      <4>1. cleared'[call[p].key.user] = Later(cleared[call[p].key.user], e.version)
        BY <1>2, <3>5, <3>6, <3>7
      <4>2. readAt[p] >= cleared[call[p].key.user] /\ readAt[p] >= e.version
        BY <3>1, <3>3, <3>4, <3>7 DEF ReadLate
      <4>3. readAt'[p] >= cleared'[call'[p].key.user] BY <3>1, <4>1, <4>2 DEF Later
      <4> QED BY <2>4, <4>3 DEF ReadLate, ClearDone
    <3>8. CASE e.user # call[p].key.user
      <4>1. cleared'[call[p].key.user] = cleared[call[p].key.user] BY <1>2, <3>5, <3>6, <3>8
      <4> QED BY <2>4, <3>1, <3>3, <4>1 DEF ReadLate, ClearDone
    <3> QED BY <3>7, <3>8
  <2> QED BY <1>8, <2>1, <2>2, <2>3, <2>4 DEF WorkerNext
<1>9. CASE LinkNext \/ Cancel
  BY <1>4, <1>9 DEF LinkNext, LinkLost, LinkRestored, SyncRedisFails, RedisFails, Cancel, checkerVars,
                    workerVars, ghostVars
<1>10. CASE SyncTick
  <2>1. call'[p].pc = call[p].pc /\ call'[p].key = call[p].key /\ call'[p].idx = call[p].idx
    BY <1>2, <1>10 DEF SyncTick, Tick, Calls
  <2>2. readAt' = readAt /\ exempt' = exempt /\ cleared' = cleared /\ worker' = worker /\ inbox' = inbox
    BY <1>10 DEF SyncTick
  <2> QED BY <2>1, <2>2, ReadKept DEF HasRead
<1>11. ASSUME NEW x \in Procs, CheckerNext(x) PROVE ReadLate(p)'
  <2>1. cleared' = cleared /\ worker' = worker /\ inbox' = inbox /\ version' = version
    BY <1>11 DEF CheckerNext, SyncLookup, SyncQuery, SyncFill, SyncReturn, adminVars, workerVars, ghostVars
  <2>2. CASE x # p
    <3>1. \E c : call' = [call EXCEPT ![x] = c]
      BY <1>11 DEF CheckerNext, SyncLookup, SyncQuery, SyncFill, SyncReturn, Lookup, CheckQuery, HGet,
                   RedirectUnavailable, Fill, Return
    <3>2. call'[p] = call[p] BY <1>2, <2>2, <3>1
    <3>3. readAt'[p] = readAt[p]
      BY <1>3, <1>11, <2>2 DEF CheckerNext, SyncLookup, SyncQuery, FirstRead, LaterRead, NoRead, SyncFill,
                               SyncReturn, ghostVars
    <3>4. p \notin exempt
      BY <1>11, <2>2 DEF CheckerNext, SyncLookup, SyncQuery, FirstRead, LaterRead, NoRead, SyncFill,
                         SyncReturn, ghostVars
    <3> QED BY <2>1, <3>2, <3>3, <3>4, ReadKept DEF HasRead
  <2>3. CASE x = p
    <3>1. ASSUME NEW u \in Users, NEW q \in Queries, SyncLookup(p, u, q) PROVE FALSE
      <4>1. PICK kind \in Kinds : Lookup(p, u, q)!(kind) BY <3>1 DEF SyncLookup, Lookup
      <4>2. call'[p].pc = "return" \/ (call'[p].pc = "query" /\ call'[p].idx = 1) BY <1>2, <4>1
      <4> QED BY <4>2 DEF HasRead
    <3>2. ~SyncFill(p) /\ ~SyncReturn(p)
      <4>1. SyncFill(p) \/ SyncReturn(p) => call'[p].pc \in {"return", "idle"}
        BY <1>2 DEF SyncFill, SyncReturn, Fill, RedirectUnavailable, Return, Idle, Calls
      <4> QED BY <4>1 DEF HasRead
    <3>3. CASE SyncQuery(p)
      <4>1. call'[p].key = call[p].key /\ call[p].pc = "query"
        BY <1>1, <3>3, CommandStep DEF SyncQuery, EvictInv, SyncOK, CheckerOK
      <4>2. CASE FirstRead(p)
        <5>1. readAt'[p] = version[call[p].key.user] BY <1>3, <4>2 DEF FirstRead
        <5>2. version[call[p].key.user] >= cleared[call[p].key.user]
          BY <1>1, <1>2, VersionsAreNumbers DEF VersionsInv
        <5>3. worker = "clear" /\ Head(inbox).user = call[p].key.user
              => version[call[p].key.user] >= Head(inbox).version
          <6> SUFFICES ASSUME worker = "clear", Head(inbox).user = call[p].key.user
                       PROVE  version[call[p].key.user] >= Head(inbox).version
            OBVIOUS
          <6>1. inbox # <<>> BY <1>1 DEF SyncOK, ClearingHead
          <6>2. Head(inbox).version <= version[Head(inbox).user] /\ Head(inbox).version \in Nat
            BY <1>1, <6>1, HeadEvent DEF VersionsInv
          <6>3. version[call[p].key.user] \in Nat BY <1>1, <1>2, VersionsAreNumbers
          <6> QED BY <6>2, <6>3
        <5> QED BY <2>1, <4>1, <5>1, <5>2, <5>3 DEF ReadLate
      <4>3. CASE LaterRead(p)
        <5>1. readAt' = readAt /\ exempt' = exempt /\ call[p].idx # 1 BY <4>3 DEF LaterRead
        <5> QED BY <2>1, <4>1, <5>1, ReadKept DEF HasRead
      <4>4. ~NoRead(p) BY DEF NoRead
      <4> QED BY <3>3, <4>2, <4>3, <4>4 DEF SyncQuery
    <3> QED BY <1>11, <2>3, <3>1, <3>2, <3>3 DEF CheckerNext
  <2> QED BY <2>2, <2>3
<1> QED BY <1>5, <1>6, <1>7, <1>8, <1>9, <1>10, <1>11 DEF SyncNext

(* A step that leaves an entry and the worker alone. *)
LEMMA EntryKept ==
    ASSUME EvictInv, NEW k \in Keys, Live(k), k \notin late,
           entryAt'[k] = entryAt[k], cleared' = cleared,
           worker' = "clear" => /\ worker = "clear" /\ Head(inbox') = Head(inbox)
                                /\ k \notin clearing' => k \notin clearing
    PROVE  EntryLate(k)'
  BY DEF EvictInv, EntriesInv, EntryLate

(* An entry that no exempt lookup wrote was read after the events        *)
(* handled; the snapshot of a clear misses none.                            *)
LEMMA NextEntries == EvictInv /\ [SyncNext]_vars => EntriesInv'
<1> SUFFICES ASSUME EvictInv, [SyncNext]_vars, NEW k \in Keys, Live(k)', k \notin late'
             PROVE  EntryLate(k)'
  BY DEF EntriesInv
<1>1. SyncOK /\ VersionsInv /\ ReadsInv /\ EntriesInv BY DEF EvictInv
<1>2. cache \in [Keys -> Entries] /\ entryAt \in [Keys -> 0..MaxWrites] /\ k.user \in Users
  BY <1>1 DEF SyncOK, CheckerOK, CacheOK, GhostOK, Keys
<1>3. ASSUME UNCHANGED <<cache, late, entryAt, cleared, clearing>>,
             worker' = "clear" => worker = "clear" /\ Head(inbox') = Head(inbox)
      PROVE  EntryLate(k)'
  BY <1>3, EntryKept DEF Live
<1>4. CASE UNCHANGED vars BY <1>3, <1>4 DEF vars, checkerVars, workerVars, ghostVars
<1>5. CASE AdminNext
  <2>1. ASSUME NEW u \in Users, NEW a \in Actions, PublishEvent(u, a) PROVE EntryLate(k)'
    <3>1. [action |-> a, user |-> u, version |-> version[u]] \in Events BY <1>1 DEF SyncOK, AdminOK, Events
    <3>2. worker = "clear" => Head(inbox') = Head(inbox) BY <1>1, <2>1, <3>1, HeadKept DEF PublishEvent
    <3> QED BY <1>3, <2>1, <3>2 DEF PublishEvent, checkerVars, ghostVars
  <2> QED BY <1>3, <1>5, <2>1
          DEF AdminNext, addRule, removeRule, addRedirect, removeRedirect, AddRules, RemoveRule, PutRedirect,
              Written, workerVars, ghostVars, evictVars
<1>6. CASE PublishNext
  <2>1. ASSUME NEW w \in unpublished, publishClearCache(w) PROVE EntryLate(k)'
    <3>1. w.user \in Users BY <1>1 DEF SyncOK, AdminOK
    <3>2. [action |-> "clear_cache", user |-> w.user, version |-> version[w.user]] \in Events
      BY <1>1, <3>1 DEF SyncOK, AdminOK, Events, Actions
    <3>3. worker = "clear" => Head(inbox') = Head(inbox) BY <1>1, <2>1, <3>2, HeadKept DEF publishClearCache
    <3> QED BY <1>3, <2>1, <3>3 DEF publishClearCache, checkerVars, ghostVars
  <2> QED BY <1>3, <1>6, <2>1 DEF PublishNext, PublishFails, checkerVars, workerVars, ghostVars
<1>7. CASE WorkerNext
  <2>1. CASE WorkerStops \/ SubscribeOk \/ Retreat \/ BackoffOver \/ HandleOther
    BY <1>3, <2>1 DEF WorkerStops, SubscribeOk, Retreat, BackoffOver, HandleOther, checkerVars, ghostVars
  <2>2. CASE HandleClear
    <3>1. /\ cache' = cache /\ late' = late /\ entryAt' = entryAt /\ cleared' = cleared /\ inbox' = inbox
          /\ clearing' = {x \in KeysOf(Head(inbox).user) : Live(x)}
      BY <2>2 DEF HandleClear, ClearUserCache
    <3>2. Live(k) /\ k \notin late BY <3>1 DEF Live
    <3>3. Head(inbox).user = k.user => k \in clearing' BY <3>1, <3>2 DEF KeysOf
    <3>4. entryAt[k] >= cleared[k.user] BY <1>1, <3>2 DEF EntriesInv, EntryLate
    <3> QED BY <3>1, <3>3, <3>4 DEF EntryLate
  <2>3. ASSUME NEW x \in clearing, EvictKey(x) PROVE EntryLate(k)'
    <3>1. clearing' = clearing \ {x} /\ Drop({x}) /\ late' = late \ {x}
          /\ entryAt' = [entryAt EXCEPT ![x] = 0] /\ cleared' = cleared /\ worker' = worker /\ inbox' = inbox
      BY <2>3 DEF EvictKey, ClearKey, workerVars
    <3>2. x # k
      <4>1. x = k => cache'[k].ttl = 0 BY <3>1 DEF Drop, NoEntry
      <4> QED BY <4>1 DEF Live
    <3>3. Live(k) BY <3>1, <3>2 DEF Drop, Live
    <3>4. entryAt'[k] = entryAt[k] BY <1>2, <3>1, <3>2
    <3> QED BY <3>1, <3>2, <3>3, <3>4, EntryKept
  <2>4. CASE ClearDone
    <3>1. cache' = cache /\ late' = late /\ entryAt' = entryAt /\ worker = "clear" /\ clearing = {}
      BY <2>4 DEF ClearDone, checkerVars
    <3>2. Live(k) /\ k \notin late BY <3>1 DEF Live
    <3>3. EntryLate(k) BY <1>1, <3>2 DEF EntriesInv
    <3>4. PICK e : e = Head(inbox) OBVIOUS
    <3>5. cleared' = [cleared EXCEPT ![e.user] = Later(@, e.version)] BY <2>4, <3>4 DEF ClearDone
    <3>6. cleared \in [Users -> 0..MaxWrites] BY <1>1 DEF SyncOK, GhostOK
    <3>7. cleared'[k.user] = IF e.user = k.user THEN Later(cleared[k.user], e.version) ELSE cleared[k.user]
      BY <1>2, <3>5, <3>6
    <3>8. entryAt[k] >= cleared[k.user] /\ (e.user = k.user => entryAt[k] >= e.version)
      BY <3>1, <3>3, <3>4 DEF EntryLate
    <3>9. entryAt'[k] >= cleared'[k.user] BY <3>1, <3>7, <3>8 DEF Later
    <3> QED BY <2>4, <3>9 DEF EntryLate, ClearDone
  <2> QED BY <1>7, <2>1, <2>2, <2>3, <2>4 DEF WorkerNext
<1>8. CASE LinkNext \/ Cancel
  BY <1>3, <1>8 DEF LinkNext, LinkLost, LinkRestored, SyncRedisFails, RedisFails, Cancel, checkerVars,
                    workerVars, ghostVars, evictVars
<1>9. CASE SyncTick
  <2>1. cache'[k] = Aged(cache[k]) /\ cache[k] \in Entries BY <1>2, <1>9 DEF SyncTick, Tick
  <2>2. cache[k].ttl > 0 BY <2>1, SyncAssumption, CheckerAssumption DEF Live, Aged, NoEntry, Entries
  <2>3. Live(k) /\ cache'[k].ttl > 0 /\ cache'[k].ttl # 0 BY <2>2 DEF Live
  <2>4. k \notin late /\ entryAt'[k] = entryAt[k] BY <1>2, <1>9, <2>3 DEF SyncTick
  <2> QED BY <1>9, <2>3, <2>4, EntryKept DEF SyncTick, Tick, evictVars
<1>10. ASSUME NEW p \in Procs, CheckerNext(p) PROVE EntryLate(k)'
  <2>1. cleared' = cleared /\ worker' = worker /\ inbox' = inbox /\ clearing' = clearing
    BY <1>10 DEF CheckerNext, SyncLookup, SyncQuery, SyncFill, SyncReturn, workerVars, ghostVars, Lookup,
                 CheckQuery, HGet, Fill, RedirectUnavailable, Return, evictVars
  <2>2. CASE ~SyncFill(p)
    BY <1>3, <1>10, <2>1, <2>2 DEF CheckerNext, SyncLookup, SyncQuery, SyncReturn, ghostVars, Lookup,
                 CheckQuery, HGet, RedirectUnavailable, Return
  <2>3. CASE SyncFill(p) /\ call[p].key # k
    <3>1. cache'[k] = cache[k] BY <1>2, <2>3 DEF SyncFill, Fill, SetEntry
    <3>2. Live(k) /\ k \notin late BY <2>3, <3>1 DEF SyncFill, Live
    <3>3. entryAt'[k] = entryAt[k] BY <1>2, <2>3 DEF SyncFill
    <3> QED BY <2>1, <3>2, <3>3, EntryKept
  <2>4. CASE SyncFill(p) /\ call[p].key = k
    <3>1. entryAt'[k] = readAt[p] /\ p \notin exempt BY <1>2, <2>4 DEF SyncFill
    <3>2. HasRead(p) BY <2>4 DEF SyncFill, Fill, HasRead
    <3>3. ReadLate(p) BY <1>1, <3>1, <3>2 DEF ReadsInv
    <3> QED BY <2>1, <2>4, <3>1, <3>3 DEF ReadLate, EntryLate
  <2> QED BY <2>2, <2>3, <2>4
<1> QED BY <1>4, <1>5, <1>6, <1>7, <1>8, <1>9, <1>10 DEF SyncNext

(* Nothing is being deleted when no clear is under way. *)
LEMMA NextClearing == EvictInv /\ [SyncNext]_vars => (worker # "clear" => clearing = {})'
<1> SUFFICES ASSUME EvictInv, [SyncNext]_vars, worker' # "clear" PROVE clearing' = {} OBVIOUS
<1>1. worker # "clear" => clearing = {} BY DEF EvictInv
<1>2. CASE UNCHANGED vars BY <1>1, <1>2 DEF vars, checkerVars, workerVars
<1>3. CASE AdminNext \/ PublishNext
  <2>1. CASE AdminNext
    BY <1>1, <2>1 DEF AdminNext, addRule, removeRule, addRedirect, removeRedirect, AddRules, RemoveRule,
       PutRedirect, Written, PublishEvent, checkerVars, workerVars, evictVars
  <2>2. CASE PublishNext
    BY <1>1, <2>2 DEF PublishNext, publishClearCache, PublishFails, checkerVars, workerVars
  <2> QED BY <1>3, <2>1, <2>2
<1>4. CASE WorkerNext
  BY <1>1, <1>4 DEF WorkerNext, WorkerStops, SubscribeOk, Retreat, BackoffOver, HandleOther, HandleClear,
     ClearDone, EvictKey, checkerVars, workerVars
<1>5. CASE LinkNext \/ Cancel \/ SyncTick
  BY <1>1, <1>5 DEF LinkNext, LinkLost, LinkRestored, SyncRedisFails, RedisFails, Cancel, SyncTick, Tick,
     checkerVars, workerVars, evictVars
<1>6. CASE \E p \in Procs : CheckerNext(p) BY <1>1, <1>6, LookupLeaves DEF workerVars
<1> QED BY <1>2, <1>3, <1>4, <1>5, <1>6 DEF SyncNext

(* Once a clear_cache event has been handled, what is cached for its user   *)
(* was read after the changes it announced, whatever lookups, changes and   *)
(* further events went on during the clear; only a lookup that was under    *)
(* way when the clear began can put an older answer back.                   *)
THEOREM EvictionEffectiveHolds == FairSyncSpec => []EvictionEffective
<1>1. SyncInit => EvictInv
  <2> SUFFICES ASSUME SyncInit PROVE EvictInv OBVIOUS
  <2>1. VersionsInv BY DEF SyncInit, VersionsInv
  <2>2. ReadsInv BY DEF SyncInit, Init, ReadsInv, HasRead, Idle
  <2>3. EntriesInv BY DEF SyncInit, Init, EntriesInv, Live, NoEntry
  <2>4. clearing = {} BY DEF SyncInit, Init
  <2> QED BY <2>1, <2>2, <2>3, <2>4, InitSync DEF EvictInv
<1>2. EvictInv /\ [SyncNext]_vars => EvictInv'
  <2> SUFFICES ASSUME EvictInv, [SyncNext]_vars PROVE EvictInv' OBVIOUS
  <2>1. SyncOK' BY NextSync DEF EvictInv
  <2>2. VersionsInv' /\ ReadsInv' /\ EntriesInv' /\ (worker # "clear" => clearing = {})'
    BY NextVersions, NextReads, NextEntries, NextClearing
  <2> QED BY <2>1, <2>2 DEF EvictInv
<1>3. EvictInv => EvictionEffective BY DEF EvictInv, EntriesInv, EntryLate, EvictionEffective
<1> QED BY <1>1, <1>2, <1>3, PTL DEF FairSyncSpec, SyncSpec
=============================================================================
