---------------------------- MODULE RuleChecker ----------------------------
(***************************************************************************)
(* internal/rule: the Checker of one resolver process.  Handler goroutines *)
(* call Check and GetRedirect; both read a TTL cache and, on a miss, the   *)
(* user's rules in Redis, and write the cache.  Meanwhile the sync worker  *)
(* may call ClearUserCache and other processes change the rules in Redis.  *)
(*                                                                         *)
(* Every step is one access to state that others can see: a cache          *)
(* operation or a Redis command.  Time passes in Ticks; TTL is the cache's *)
(* 60 seconds and MaxLag the longest a lookup can hold what it read (its   *)
(* context ends after 200 ms).                                             *)
(***************************************************************************)
EXTENDS DomainPatterns

CONSTANTS
    Users,
    BlockRules,      \* strings that are put in blocklists, as they arrive
    RedirectRules,   \* strings that are put in redirect hashes, as they arrive
    Queries,         \* domains that are asked for, as they arrive
    IPs,             \* redirect targets
    NoIP,            \* the empty string of GetRedirect
    Procs,           \* goroutines that call the Checker
    Kinds,           \* which of the two lookups they make
    TTL, MaxLag

Doms == {Normalize(q) : q \in Queries}
Verdicts == {"blocked", "allowed"}
Targets == IPs \cup {NoIP}

(* userID + ":" + domain and "redirect:" + userID + ":" + domain.  The two  *)
(* families do not meet as long as no user is called "redirect" or has a    *)
(* colon in its name.                                                       *)
Keys == [kind : {"rule", "redirect"}, user : Users, dom : Doms]

ASSUME CheckerAssumption ==
    /\ Users # {} /\ Queries # {}
    /\ \A r \in Queries \cup BlockRules \cup RedirectRules : r \in Names
    /\ NoIP \notin IPs
    /\ (IPs \cup {NoIP}) \cap {"blocked", "allowed"} = {}
    /\ Kinds \subseteq {"rule", "redirect"}
    /\ TTL \in Nat \ {0} /\ MaxLag \in Nat

VARIABLES
    redisUp,     \* Redis answers within the client's timeouts
    enabled,     \* c.enabled: Redis answered the Ping of NewChecker
    blocked,     \* the sets user:settings:<user>:blocked
    redirects,   \* the hashes user:settings:<user>:redirects
    cache,       \* the go-cache: values and remaining lifetimes
    call,        \* the lookup each goroutine is making
    clearing,    \* ClearUserCache: keys of its snapshot still to delete
    deleting     \* SetRedirect, RemoveRedirect: cache keys still to delete

storeVars == <<blocked, redirects>>
evictVars == <<clearing, deleting>>
checkerVars == <<redisUp, enabled, blocked, redirects, cache, call, clearing, deleting>>

NoEntry == [val |-> NoIP, ttl |-> 0]
Entries == [val : Verdicts \cup Targets, ttl : 0..TTL]

Calls == [pc : {"idle", "query", "fill", "return"}, key : Keys, idx : Nat,
          val : Verdicts \cup Targets, ok : BOOLEAN, lag : 0..MaxLag]

Idle == [pc |-> "idle", key |-> CHOOSE k \in Keys : TRUE, idx |-> 1, val |-> NoIP,
         ok |-> FALSE, lag |-> 0]

Live(k) == cache[k].ttl > 0

(* What a pattern has in the redirect hash of u; a field that is missing    *)
(* and one that is empty are the same to redisGetRedirect.                  *)
Field(u, r) == IF r \in RedirectRules THEN redirects[u][r] ELSE NoIP

(* checkRedis: SMISMEMBER of all patterns, one atomic command. *)
checkRedis(u, d) == \E r \in Patterns(d) : r \in blocked[u]

\* A mistake: the built-in list is consulted only when Redis is not.
VerdictRedisOnly(u, d) ==
    IF (IF enabled /\ redisUp THEN checkRedis(u, d) ELSE fallbackCheck(d)) THEN "blocked" ELSE "allowed"

(* Check after a miss: Redis if it is enabled and answers, then the         *)
(* built-in list.                                                           *)
Verdict(u, d) ==
    IF (enabled /\ redisUp /\ checkRedis(u, d)) \/ fallbackCheck(d) THEN "blocked" ELSE "allowed"

-----------------------------------------------------------------------------
(* NewChecker: enabled is decided once, by a Ping. *)
Init ==
    /\ redisUp \in BOOLEAN
    /\ enabled = redisUp
    /\ blocked = [u \in Users |-> {}]
    /\ redirects = [u \in Users |-> [r \in RedirectRules |-> NoIP]]
    /\ cache = [k \in Keys |-> NoEntry]
    /\ call = [p \in Procs |-> Idle]
    /\ clearing = {} /\ deleting = {}

\* A mistake: a hit renews the entry.
LookupRenews(p, u, q) ==
    \E kind \in Kinds :
        LET k == [kind |-> kind, user |-> u, dom |-> Normalize(q)]
        IN  /\ call[p].pc = "idle"
            /\ cache' = IF Live(k) THEN [cache EXCEPT ![k].ttl = TTL] ELSE cache
            /\ call' = [call EXCEPT ![p] =
                   [pc |-> IF Live(k) THEN "return" ELSE "query", key |-> k, idx |-> 1,
                    val |-> IF Live(k) THEN cache[k].val ELSE NoIP, ok |-> Live(k), lag |-> 0]]
            /\ UNCHANGED <<redisUp, enabled, storeVars, evictVars>>

(* Check and GetRedirect start: normalise, and look in the cache.  A hit is *)
(* returned; GetRedirect's ok then says that the value is a string.         *)
Lookup(p, u, q) ==
    \E kind \in Kinds :
        LET k == [kind |-> kind, user |-> u, dom |-> Normalize(q)]
        IN  /\ call[p].pc = "idle"
            /\ call' = [call EXCEPT ![p] =
                   IF Live(k)
                   THEN [pc |-> "return", key |-> k, idx |-> 1, val |-> cache[k].val,
                         ok |-> TRUE, lag |-> 0]
                   ELSE [pc |-> "query", key |-> k, idx |-> 1, val |-> NoIP,
                         ok |-> FALSE, lag |-> 0]]
            /\ UNCHANGED <<redisUp, enabled, storeVars, cache, evictVars>>

(* Check after a miss: a Redis error leaves blocked false. *)
CheckQuery(p) ==
    /\ call[p].pc = "query" /\ call[p].key.kind = "rule"
    /\ call' = [call EXCEPT ![p].pc = "fill", ![p].val = Verdict(call[p].key.user, call[p].key.dom)]
    /\ UNCHANGED <<redisUp, enabled, storeVars, cache, evictVars>>

\* A mistake: only the exact name is looked up.
HGetExactOnly(p) ==
    LET c == call[p]
        ip == Field(c.key.user, c.key.dom)
    IN  /\ c.pc = "query" /\ c.key.kind = "redirect"
        /\ enabled /\ redisUp
        /\ call' = [call EXCEPT ![p] = [c EXCEPT !.pc = "fill", !.val = ip]]
        /\ UNCHANGED <<redisUp, enabled, storeVars, cache, evictVars>>

(* GetRedirect after a miss: one HGET per pattern, first hit wins. *)
HGet(p) ==
    LET c == call[p]
        ps == generatePatterns(c.key.dom)
        ip == Field(c.key.user, ps[c.idx])
    IN  /\ c.pc = "query" /\ c.key.kind = "redirect"
        /\ enabled /\ redisUp
        /\ call' = [call EXCEPT ![p] =
               CASE ip # NoIP -> [c EXCEPT !.pc = "fill", !.val = ip]
                 [] ip = NoIP /\ c.idx = Len(ps) -> [c EXCEPT !.pc = "fill"]
                 [] OTHER -> [c EXCEPT !.idx = @ + 1]]
        /\ UNCHANGED <<redisUp, enabled, storeVars, cache, evictVars>>

(* GetRedirect without Redis or after an HGET error: no redirect, and       *)
(* nothing is cached.                                                       *)
RedirectUnavailable(p) ==
    /\ call[p].pc = "query" /\ call[p].key.kind = "redirect"
    /\ ~(enabled /\ redisUp)
    /\ call' = [call EXCEPT ![p].pc = "return"]
    /\ UNCHANGED <<redisUp, enabled, storeVars, cache, evictVars>>

\* A mistake: cache.Set with no expiration.
SetEntryForever(k, v) == cache' = [cache EXCEPT ![k] = [val |-> v, ttl |-> cache[k].ttl + TTL + 1]]

(* c.cache.Set(key, value, cache.DefaultExpiration) *)
SetEntry(k, v) == cache' = [cache EXCEPT ![k] = [val |-> v, ttl |-> TTL]]

(* The end of a miss: cache what was read, a missing redirect too, and      *)
(* return it.                                                               *)
Fill(p) ==
    /\ call[p].pc = "fill"
    /\ SetEntry(call[p].key, call[p].val)
    /\ call' = [call EXCEPT ![p].pc = "return", ![p].ok = (call[p].val # NoIP)]
    /\ UNCHANGED <<redisUp, enabled, storeVars, evictVars>>

Return(p) ==
    /\ call[p].pc = "return"
    /\ call' = [call EXCEPT ![p] = Idle]
    /\ UNCHANGED <<redisUp, enabled, storeVars, cache, evictVars>>

-----------------------------------------------------------------------------
Drop(K) == cache' = [k \in Keys |-> IF k \in K THEN NoEntry ELSE cache[k]]

\* A mistake: the redirect prefix is forgotten.
KeysOfVerdicts(u) == {k \in Keys : k.user = u /\ k.kind = "rule"}

(* The keys with one of the prefixes of ClearUserCache. *)
KeysOf(u) == {k \in Keys : k.user = u}

(* ClearUserCache: c.cache.Items() is a snapshot of the live entries. *)
ClearUserCache(u) ==
    /\ clearing = {}
    /\ clearing' = {k \in KeysOf(u) : Live(k)}
    /\ UNCHANGED <<redisUp, enabled, storeVars, cache, call, deleting>>

(* c.cache.Delete(k), one key of the snapshot at a time. *)
ClearKey(k) ==
    /\ k \in clearing
    /\ clearing' = clearing \ {k}
    /\ Drop({k})
    /\ UNCHANGED <<redisUp, enabled, storeVars, call, deleting>>

(* SetRedirect: HSET of the normalised domain, then the cache entry of that *)
(* very domain goes.  An HSET error returns and changes nothing.            *)
SetRedirect(u, q, ip) ==
    LET d == Normalize(q)
    IN  /\ redisUp
        /\ d \in RedirectRules
        /\ redirects' = [redirects EXCEPT ![u][d] = ip]
        /\ deleting' = deleting \cup ({[kind |-> "redirect", user |-> u, dom |-> d]} \cap Keys)
        /\ UNCHANGED <<redisUp, enabled, blocked, cache, call, clearing>>

(* RemoveRedirect: HDEL, then the same. *)
RemoveRedirect(u, q) == SetRedirect(u, q, NoIP)

DeleteKey(k) ==
    /\ k \in deleting
    /\ deleting' = deleting \ {k}
    /\ Drop({k})
    /\ UNCHANGED <<redisUp, enabled, storeVars, call, clearing>>

-----------------------------------------------------------------------------
(* Writes of other processes: the admin API's SADD, SREM, HSET and HDEL,    *)
(* and SeedUserBlocklist (SADD of several).  The strings go in as they are. *)
AddRules(u, R) ==
    /\ blocked' = [blocked EXCEPT ![u] = @ \cup R]
    /\ UNCHANGED <<redisUp, enabled, redirects, cache, call, evictVars>>

RemoveRule(u, r) ==
    /\ blocked' = [blocked EXCEPT ![u] = @ \ {r}]
    /\ UNCHANGED <<redisUp, enabled, redirects, cache, call, evictVars>>

PutRedirect(u, r, ip) ==
    /\ redirects' = [redirects EXCEPT ![u][r] = ip]
    /\ UNCHANGED <<redisUp, enabled, blocked, cache, call, evictVars>>

(* Redis gets out of reach, or back: a failed Ping at the start, a timeout  *)
(* or an error of a later command.                                          *)
RedisFails ==
    /\ redisUp' = ~redisUp
    /\ UNCHANGED <<enabled, storeVars, cache, call, evictVars>>

(* An entry a tick later; go-cache does not return one that has expired. *)
Aged(e) == IF e.ttl <= 1 THEN NoEntry ELSE [e EXCEPT !.ttl = @ - 1]

Busy(p) == call[p].pc \in {"query", "fill"}

(* A lookup ends within MaxLag ticks of its first Redis command. *)
Tick ==
    /\ \A p \in Procs : Busy(p) => call[p].lag < MaxLag
    /\ cache' = [k \in Keys |-> Aged(cache[k])]
    /\ call' = [p \in Procs |-> IF Busy(p) THEN [call[p] EXCEPT !.lag = @ + 1] ELSE call[p]]
    /\ UNCHANGED <<redisUp, enabled, storeVars, evictVars>>

-----------------------------------------------------------------------------
LookupNext ==
    \E p \in Procs :
        \/ \E u \in Users, q \in Queries : Lookup(p, u, q)
        \/ CheckQuery(p) \/ HGet(p) \/ RedirectUnavailable(p) \/ Fill(p) \/ Return(p)

EvictNext ==
    \/ \E u \in Users : ClearUserCache(u)
    \/ \E k \in clearing : ClearKey(k)
    \/ \E u \in Users, q \in Queries, ip \in IPs : SetRedirect(u, q, ip)
    \/ \E u \in Users, q \in Queries : RemoveRedirect(u, q)
    \/ \E k \in deleting : DeleteKey(k)

StoreNext ==
    \/ \E u \in Users, r \in BlockRules : AddRules(u, {r})
    \/ \E u \in Users, r \in BlockRules : RemoveRule(u, r)
    \/ \E u \in Users, r \in RedirectRules, ip \in Targets : PutRedirect(u, r, ip)
    \/ RedisFails

Next == LookupNext \/ EvictNext \/ StoreNext \/ Tick

Spec == Init /\ [][Next]_checkerVars
=============================================================================
