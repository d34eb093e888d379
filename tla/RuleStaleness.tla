--------------------------- MODULE RuleStaleness ---------------------------
(***************************************************************************)
(* How old an answer of the Checker can be.  RuleChecker with a record of  *)
(* the past: for every answer a rule store could give, the ticks since it  *)
(* last gave it.  The record is not code; it reads the store and nothing   *)
(* reads it but the properties.                                            *)
(***************************************************************************)
EXTENDS RuleChecker

VARIABLES
    sinceVerdict,   \* ticks since a verdict was the right one for a user and a domain
    sinceField,     \* ticks since a field of a redirect hash had a value
    sinceDown       \* ticks since Redis was out of the Checker's reach

history == <<sinceVerdict, sinceField, sinceDown>>
vars == <<checkerVars, history>>

(* The oldest answer the code may give: read MaxLag before it was cached,   *)
(* served in the last tick of the entry's life.                             *)
Horizon == TTL + MaxLag - 1
Cap == Horizon + 1

Ages == 0..Cap

Unavailable == ~(enabled /\ redisUp)

FallbackVerdict(d) == IF fallbackCheck(d) THEN "blocked" ELSE "allowed"

TrueVerdict(u, d) == IF checkRedis(u, d) \/ fallbackCheck(d) THEN "blocked" ELSE "allowed"

Older(n, ticks) == IF n + ticks > Cap THEN Cap ELSE n + ticks

(* The record after a step, ticks later. *)
Record(ticks) ==
    /\ sinceVerdict' = [x \in Users \X Doms \X Verdicts |->
           IF TrueVerdict(x[1], x[2])' = x[3] THEN 0 ELSE Older(sinceVerdict[x], ticks)]
    /\ sinceField' = [x \in Users \X RedirectRules \X Targets |->
           IF redirects'[x[1]][x[2]] = x[3] THEN 0 ELSE Older(sinceField[x], ticks)]
    /\ sinceDown' = IF Unavailable' THEN 0 ELSE Older(sinceDown, ticks)

HInit ==
    /\ Init
    /\ sinceVerdict = [x \in Users \X Doms \X Verdicts |-> IF TrueVerdict(x[1], x[2]) = x[3] THEN 0 ELSE Cap]
    /\ sinceField = [x \in Users \X RedirectRules \X Targets |-> IF x[3] = NoIP THEN 0 ELSE Cap]
    /\ sinceDown = IF Unavailable THEN 0 ELSE Cap

HNext ==
    \/ Tick /\ Record(1)
    \/ LookupNext /\ Record(0)
    \/ EvictNext /\ Record(0)
    \/ StoreNext /\ Record(0)

HSpec == HInit /\ [][HNext]_vars

-----------------------------------------------------------------------------
(* The types of the Checker's state and of the record. *)
TypeOK ==
    /\ redisUp \in BOOLEAN /\ enabled \in BOOLEAN
    /\ blocked \in [Users -> SUBSET BlockRules]
    /\ redirects \in [Users -> [RedirectRules -> Targets]]
    /\ cache \in [Keys -> Entries]
    /\ call \in [Procs -> Calls]
    /\ clearing \subseteq Keys /\ deleting \subseteq Keys
    /\ sinceVerdict \in [Users \X Doms \X Verdicts -> Ages]
    /\ sinceField \in [Users \X RedirectRules \X Targets -> Ages]
    /\ sinceDown \in Ages

(* A verdict was right n ticks ago or later, or was the built-in list's     *)
(* while Redis was out of reach n ticks ago or later.                       *)
VerdictFresh(k, v, n) ==
    \/ sinceVerdict[<<k.user, k.dom, v>>] <= n
    \/ v = FallbackVerdict(k.dom) /\ sinceDown <= n

FieldFresh(u, r, v, n) == r \in RedirectRules => sinceField[<<u, r, v>>] <= n

(* A redirect was in the hash under a pattern of the domain n ticks ago or  *)
(* later; "no redirect" means that each pattern was absent n ticks ago or   *)
(* later.                                                                   *)
RedirectFresh(k, v, n) ==
    IF v = NoIP
    THEN \A r \in Patterns(k.dom) : FieldFresh(k.user, r, NoIP, n)
    ELSE \E r \in Patterns(k.dom) : r \in RedirectRules /\ FieldFresh(k.user, r, v, n)

Fresh(k, v, n) == IF k.kind = "rule" THEN VerdictFresh(k, v, n) ELSE RedirectFresh(k, v, n)

(* What the cache holds was in the store when the entry was written or at   *)
(* most MaxLag before: no interleaving of lookups, evictions, rule changes  *)
(* and Redis failures leaves an entry with a value from longer ago.         *)
EntriesFresh == \A k \in Keys : Live(k) => Fresh(k, cache[k].val, MaxLag + TTL - cache[k].ttl)

AnswerFresh(p) ==
    \/ Fresh(call[p].key, call[p].val, Horizon)
    \/ call[p].val = NoIP /\ sinceDown <= Horizon

(* Every answer Check and GetRedirect return was the store's answer at most *)
(* TTL + MaxLag - 1 ticks ago, even when no eviction message ever arrives,  *)
(* or was forced by a Redis outage as recent.                               *)
ServedFresh ==
    [][\A p \in Procs : call'[p].pc = "return" /\ call[p].pc # "return" => AnswerFresh(p)']_vars

(* A domain on the built-in list is blocked for every user, whatever the    *)
(* user's rules say, whether Redis answers or not, cached or not.           *)
FallbackAlwaysBlocks ==
    /\ \A k \in Keys : k.kind = "rule" /\ Live(k) /\ fallbackCheck(k.dom) => cache[k].val = "blocked"
    /\ \A p \in Procs : call[p].key.kind = "rule" /\ call[p].pc \in {"fill", "return"}
                        /\ fallbackCheck(call[p].key.dom) => call[p].val = "blocked"

-----------------------------------------------------------------------------
(* What TestGetRedirectNoMatch asserts of GetRedirect: without a matching   *)
(* rule it does not report a redirect.  From the second call on, the cached *)
(* "" is reported with ok = true.                                           *)
NoMatchNotReported ==
    \A p \in Procs : call[p].pc = "return" /\ call[p].key.kind = "redirect" /\ call[p].ok
                     => call[p].val # NoIP
=============================================================================
