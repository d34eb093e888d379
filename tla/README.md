# TLA+ verification of edge-dns

edge-dns is a filtering DNS resolver. Several resolver processes (`cmd/edgedns`) answer plain
DNS, DoT and DoH queries; per-user rules live in Redis; an admin API changes them and announces
the change over Redis Pub/Sub; query logs go to ClickHouse. This directory models the parts
where concurrency, failure and stale state decide whether the system is right, checks them
with TLC on small instances, and proves the safety properties for instances of any size with TLAPS.

## 1. The system

| Part | State | Operations | Talks to |
|---|---|---|---|
| Front ends (`internal/server`) | connections | accept, read a message, answer | call the handler |
| Query handler (`internal/handler`) | none of its own | `ProcessQuery` | limiter, checker, upstream, analytics |
| Rate limiter (`internal/ratelimit`) | process-local counter; sorted set in Redis | `AllowQuery` | Redis (Lua script) |
| Rule checker (`internal/rule`) | 60 s cache, `enabled` | `Check`, `GetRedirect`, `SetRedirect`, `RemoveRedirect`, `ClearUserCache` | Redis sets and hashes |
| Config sync (`internal/sync`) | subscription, backoff | subscribe loop, `handleMessage` | Redis Pub/Sub; evicts the checker's cache |
| Admin API (`internal/admin`) | none of its own | add and remove rules and redirects, listings, analytics | writes Redis, then publishes |
| Publisher (`cmd/publisher`) | none | one event by hand | publishes |
| Analytics queue (`internal/analytics`) | channel, batch, two counters | `SubmitLog`, worker, `Stats`, `Wait` | ClickHouse |
| Life cycle (`cmd/edgedns`) | context, `errCh`, wait groups | start, cancel, wait | everything |
| SNI proxy (`cmd/sniproxy`) | connections, deadlines | parse a ClientHello, dial, replay it, copy both ways | backends |
| Upstream cache (`internal/upstream/cache.go`) | map with expiry | no caller in the repository | none |

What is hard in it, and the property each part owes:

* **Analytics queue.** Producers, one worker, a reader of the counters and the cancellation run
  concurrently, and a write fails in three places. No log may be lost, doubled or reordered
  without being counted, and the worker must end.
* **Rule checker.** A lookup reads Redis and writes the cache later; in between rules change, the
  cache is cleared and Redis goes away. Owed: a bound on the age of an answer, and the built-in
  list enforced always.
* **Config sync.** Messages are lost when nobody listens. Owed: a handled event really evicts, the
  worker comes back in bounded time, and the cache converges even if no event arrives.
* **Rate limiter.** Calls overlap, are delayed and repeated. Owed: at most the limit in a window,
  and nobody refused whose window has room. The second is kept only for scripts that run once (§3).
* **Query handler.** Four services that fail independently, two lookups that are not atomic. Owed:
  rules enforced in time, own user's rules only, a log that says what was answered, an answer always.
* **Life cycle.** Four run functions, each with its own way to stop, a shared error channel, and a
  log worker that hears of the cancellation before the last queries are answered. Owed: the process
  ends, what it opened is closed, queries on a DoT connection finish, and rows are lost only where
  the code accepts it.
* **DoT framing.** A length prefix is read with one `Read`, which may return one byte. Owed: a query
  is handled as it was sent.
* **SNI proxy.** A parser driven by the client's own length fields; two goroutines copying over one
  pair of connections, each ended by an error, an end of file or a deadline. Owed: no read outside a
  slice, the right name, bytes in order, a connection in use not closed, an idle one closed.

## 2. Modules

```
DomainPatterns ── RuleChecker ─┬─ RuleCheckerProofs
      │                        ├─ RuleStaleness ──────────────────┬─ MCRuleStaleness
      │                        │                                  └─ RuleStalenessProofs *
      │                        ├─ ConfigSync ─ ConfigSyncProps ───┬─ MCConfigSync
      │                        │                                  └─ ConfigSyncProofs *
      │                        └─ QueryHandler ─ QueryHandlerProps ┬─ MCQueryHandler
      │                                                           └─ QueryHandlerProofs *
      └─ DomainNames ─┬─ MCDomainPatterns
                      └─ RuleStalenessProofs
LogAggregator ─ LogAggregatorProps ─┬─ MCLogAggregator
                     ┆              └─ LogAggregatorProofs
                  LogSink ─ Lifecycle ─ LifecycleProps ─┬─ MCLifecycle
                                                        └─ LifecycleProofs
ClientHello ─┬─ SniProxy ─ SniProxyProps ─┬─ MCSniProxy
             │                            └─ SniProxyProofs
             └─ ClientHelloLayout ─┬─ MCSniProxy
                                   └─ SniProxyProofs
RateLimiter ─┬─ MCRateLimiter
             └─ RateLimiterProofs
```

The modules marked * also extend `RuleCheckerProofs`. Every line is an EXTENDS; the dotted one is the refinement `Sink == INSTANCE LogSink WITH ...`. `PROJECT.json` maps each definition to the lines it models.

**LogAggregator.** One action per case of the two selects (`SubmitAccept`, `SubmitFull`,
`SelectDone`, `SelectLog`, `SelectTick`) and per step of `flush` and `flushBatch` between which
another goroutine can see a difference: the swap of the batch, the counter, `PrepareBatch`, each
`Append`, `Send`. `Send` can fail after the server committed. A log is its submission number.
`droppedCount.Add` is a step of its own, after the default case was chosen. The write of the
`AnalyticsDroppedLogs` metric is `lost`; rows whose `Append` fails appear only in the program's
log, which is `skipped`.

**LogSink** is the queue seen from outside: how many rows are queued, held by the worker, flushed
and dropped, and a worker that ends after the cancellation with empty hands. `ImplementsSink` (run
`log`) says that `LogAggregator` implements it, with `queued` the length of the channel and `held`
the batch and the rows of a flush that `flushedCount` does not show yet. `Lifecycle` composes with
`LogSink` instead of the detailed module: 820 000 states instead of a product nobody could check.

**DomainPatterns.** A domain is the sequence of its labels, so `strings.Split`, `TrimSuffix`,
`ToLower`, `HasSuffix` are operators on sequences. `Covers` is the reference: a rule covers the
name it spells, `*.s` covers the names strictly under `s`, and parents of ten or more labels are
out of reach. **DomainNames** states what the matcher owes a name and runs through the names, one
label in front of another.

**RuleChecker.** A step is one cache operation or one Redis command. `call[p]` is the lookup of
goroutine `p`: the cache is read by `Lookup`, Redis by `CheckQuery` (one SMISMEMBER) or by one
`HGet` per pattern, the cache is written by `Fill`. `ClearUserCache` takes its snapshot and
`ClearKey` deletes key after key. `Tick` ages the entries. A single failed command is `redisUp`
going down and up again around it. `enabled` is decided in `Init`, as in `NewChecker`.

**RuleStaleness** adds a record of the past that nothing but the properties reads: for every
possible answer the ticks since the store would have given it.

**ConfigSync** composes the checker with the admin handlers (write, then publish), Redis Pub/Sub
and the worker. Version numbers count a user's changes and are carried by events, lookups and
entries; they exist only to say which is later. A verdict found while Redis is away is of no version
(`NoRead`). The go-redis client is external: after a lost connection it subscribes again by itself
(`LinkRestored`) or closes the channel (`Retreat` from "listen"), and it does one of the two within
`HealthCheck` ticks of Redis being reachable, the interval `subscribe` gives it. `gap` counts all
ticks in which a running worker is without a subscription although Redis is reachable, while it
listens on a dead connection as well as while it waits.

**RateLimiter.** `AllowQuery` reads clock and counter; the script runs later, atomically, and may
run again with the same arguments when its answer was lost (`Resend`). `ReplicaOf` says which process a caller is in.

**QueryHandler** composes front ends, `ProcessQuery` and the checker. The limiter is its three
outcomes, the upstream its two; an answer is its kind, and what is handed to `WriteMsg`: an error of
the write is logged and nothing else depends on it. A user comes from `STD_USER_ID`, from the
first label of the SNI (or "unknown") or from the first segment of the DoH path.

**Lifecycle** composes `main`, `RunStd` (a UDP and a TCP server), `RunDoH` and the metrics server
(both `net/http`), `RunDoT` with its connections, queries of the other front ends and the log queue.
`mainPc` is where `main` waits: for a signal or an error, for the run functions, for the worker. A
server can fail to start and can fail later (`ServerFails`); its error takes a place in `errCh`. A DoT connection goes through handshake, `readMsgFromConn`,
the answer, and the two steps of `SubmitLog`. `wire[c]` is the length of the message next on a
connection and `aligned[c]` whether the reader stands at its first byte: a read of one byte makes
`lenBuf` the high byte and a zero, and the reader takes what follows for the message. `garbled` and
`large` record connections on which something else than a sent message was handled, and on which a
message of 256 bytes or more was sent. `HandleQuery` runs apart from the shutdown, as `RunStd` and
`RunDoH` do not wait for it.

**ClientHello** is `parseClientHello`, `extractSNI` and `parseSNI` field by field on the bytes of one
record: positions are Go's, `limit` the end of the slice the code holds, `touched` the end of the
furthest read. **ClientHelloLayout** says when a record holds a ClientHello (`LaidOut`: which bytes
stand where, for any lengths and any list of extensions) and which name that hello asks for
(`NamesIn`). It says so by positions, not by putting bytes together, so that it can be proved about.
`MCSniProxy` writes hellos byte by byte as a client does, and its `WriterAssumption` checks that what
is written is laid out as the reference says. A hello split over several records, or with a different handshake message first, is refused, as
in the code.

**SniProxy** is one connection of the proxy, from accept to close, and the process around it: the
read deadline of the hello, lookup and dial as outcomes, the replay, and the two `transfer`
goroutines, each with the deadline it sets before every read and every write. Bytes travel in
numbered chunks, at most `MaxChunks` from each end; the code has no such limit, so no property may
rest on it. `SniProxyProps` adds `quiet`, the ticks since something moved in a direction.

Assumptions of the models, beyond the constants' ASSUMEs:

* user IDs contain no colon and no user is called "redirect", so that cache keys of different
  users and kinds differ and `ClearUserCache`'s prefixes match exactly one user's keys. The code does
  not enforce this: a user is whatever stands in the SNI, the DoH path or the admin request, and the
  keys (`checker.go:72,159`) are strings joined by colons. For users outside the assumption a verdict
  and a redirect can share a key, and nothing below is claimed of them;
* a redirect with an empty target and a missing one are the same (the code skips both);
* time passes in ticks; a lookup keeps what it read for at most `MaxLag` ticks (its context ends
  after 200 ms), an entry lives `TTL` ticks (60 s); local computation takes no tick;
* `SetRedirect` and `RemoveRedirect` are exported but no process of the repository calls them; they
  are in the checker's model and not in the composed ones;
* the replicas' clocks agree.

## 3. Runs

| Run | Checks | Instance |
|---|---|---|
| `log` | `Conservation`, `StoredInOrder`, `WritesAccounted`, `StatsSound`, `BatchFlushedOnStop`, `EventuallyAccounted`, `WorkerStops`, `ImplementsSink` | channel 1, threshold 2, 4 logs: the channel overflows, full and partial batches |
| `domain_patterns` | `PatternsMatchReference` (with the order), `SpellingsAgree`, `SubdomainsStayBlocked` | all names of up to 4 labels over 5 labels, cut at 3: longer than the cut |
| `rule_verdicts` | `EntriesFresh`, `ServedFresh`, `FallbackAlwaysBlocks` | 2 goroutines, exact and wildcard rule, one built-in name, `TTL` 2, `MaxLag` 1 |
| `config_sync` | `EvictionEffective`, `ResubscribesInTime`, `EventuallyConsistent` | both kinds of entry, a lookup under way, one change, channel of one, backoff doubling to its cap, a link that is lost and restored or given up |
| `rate_limit` | `SetBounded`, `AdmissionBounded`, `RefusedOnlyAtLimit` | 2 callers, limit 2, window 3, delay 1, 5 calls in 5 ticks: a full window passes and the key expires |
| `queries` | `BuiltinNeverResolved`, `BlockEnforced`, `RowMatchesAnswer`, `RedirectAsConfigured`, `EveryQueryAnswered` | all front ends, a name with a rule and a redirect, a name on the built-in list |
| `sni_proxy` | `StaysInside`, `FindsName`, `InOrder`, `IdleBound`, `ClosedWhenOver`, `Released` | 9 well-formed hellos, and two of them cut at every field and with bytes replaced; 2 chunks each way, read deadline 1, idle deadline 2 |
| `lifecycle` | `DotFinishesQueries`, `RowsAtExit`, `ServersClosed`, `QueriesAsSent`, `EventuallyExits` | one `net/http` server, one DoT connection, one other query at a time, 2 queries of 40 or 300 bytes, channel of one |

`log`, `rule_verdicts`, `config_sync` and `rate_limit` also check a type invariant.

The bounds `MaxLogs`, `MaxWrites`, `MaxClock`, `MaxCalls`, `MaxQueries`, `MaxChunks` end a behaviour; everything else is
bounded by the code. Two goroutines are enough for a reader and an overtaking writer of one entry;
goroutines are interchangeable, so the runs of the checker use symmetry. The handler runs have one
goroutine: what a second one could do to it goes through the cache, which the checker's runs cover
with two, and through the store and the evictions, which are there.

`ResubscribesInTime` is tight: with a health check of 1 and a cap of 2 the worker can be deaf for 3
ticks and no more. `RefusedOnlyAtLimit` counts the *other* calls admitted in the window. It has a
second case because the code has one: a script that was executed, whose answer was lost and which
the client sends again meets its own member in the set, so the limit-th call of a window can be
refused although it was admitted (with a limit of 1, a user's first query). In `Released` the copying
ends under the hypothesis that the two ends send no more from some time on; in the instance every
behaviour meets it, because `MaxChunks` ends the sending. `WorkerStops` is checked with four logs: it
shows that the cancellation is noticed with logs waiting, not that it would be under an endless
stream. `QueriesAsSent` says of which connections a wrong query can come, namely those on which a
message of 256 bytes or more was sent; of these it promises nothing.

In `lifecycle` the error channel has a place for each run function that exists, as in `main` (4 for
four); with one place less a run function could wait for ever, and `EventuallyExits` is violated. The
two lengths are one below 256 and one above, which is the only thing the framing tells apart. In
`sni_proxy` the records that are not well formed have every length field at 0, at its smallest
values and at 255, and end inside every field; two chunks make a copy loop run past the replayed
hello, and deadlines of 1 and 2 ticks differ so that they cannot be confused. Connections of the
proxy share nothing, so one is enough.

The redirects of the checker have no run of their own: their lookups are in `config_sync` and
`queries`. No run has two users; that entries of different users cannot meet is their different keys.

Deadlock checking is off where
the bounded clock and call counts end the run (`rate_limit`, `rate_replicas`) and for the
enumeration of `domain_patterns`, and in `sni_proxy` and `lifecycle`, which end when the process does.

Fairness. `log`: a runnable goroutine runs, ClickHouse calls end (10 s context), and a ready
select case is not passed over for ever, because Go's select picks at random: strong fairness per
case. `config_sync`: the clock ticks, the worker, publishers and lookups go on; nothing is assumed
of Redis or the link except the hypothesis of the property. `queries`: Redis and upstream calls
end by answer or timeout, so a handler goes on. `sni_proxy`: the process's own steps and the clock;
not that an end sends, closes or makes room for a write. `lifecycle`: `main`, the run functions and
a connection whose client is gone go on (not that a server fails), `Shutdown` returns, and the worker ends, which `WorkerStops`
shows of the detailed queue; the hypothesis of `EventuallyExits` is that a signal or an error comes
and that DoT clients leave at last, because a DoT read has no deadline (`dot.go:59`). No fairness is assumed of users, clients, Redis or
the network.

### Disagreements

| Run | The code | The text |
|---|---|---|
| `log_shutdown` | `ctx.Done` returns without draining `logCh`: logs in neither counter | `aggregator_test.go:202-205` asserts that all are accounted for |
| `no_match` | a cached missing redirect is returned with `ok = true`; the query is logged as REDIRECTED | `redirect_test.go:50-53`, "expected no redirect" |
| `clear_race` | a lookup under way writes its old answer after the clear | `cmd/publisher/main.go:24-26`, "forcing a fresh Redis lookup" |
| `rate_replicas` | member names are unique in one process only | `limiter_test.go:49-55`, "6th request should be blocked"; two replicas are deployed |

Two more have no run. `deployments/single-vps/GUIDE.md:96-103` adds a rule for user "test" and
expects plain `dig` to see it blocked, but plain DNS asks as `STD_USER_ID`, which is "default" unless
it is set (`std.go:12-19`, `ServeDNS`): which user a query has is a definition here, not a property.
And `TestAllowQuery_underLimit` ("request %d should be allowed") holds of scripts that run once only,
which is the second case of `RefusedOnlyAtLimit`.

The age bounds that do hold limit the damage of `clear_race` to one lifetime of an entry
(`ServedFresh`, `EventuallyConsistent`). The same text offers `--action update_rule`, which the
worker logs as unhandled (`HandleOther`); the entries then change only as they expire.

## 4. Proofs

Every invariant and action property of a run has a theorem; only the liveness properties have none. A
theorem holds for every value of the constants that meets the named ASSUMEs of its module. The larger
inductive invariants (`EvictInv`, `FreshInv` of the handler, `RowInv`, `DropInv`, `StdInv`, `NameInv`)
were model-checked before they were proved.

**`LogAggregatorProofs`**, for every channel size, threshold and number of logs (`SizesAssumption`):

* `TypeCorrect`. The batch is at most the threshold only because the worker flushes before it
  receives again; so `TypeOK` is proved together with `Control`, which says what the local
  variables hold at each position of the worker. Their conjunction `Bounded` is inductive.
* `ConservationHolds`: `Conservation` is inductive relative to `Bounded`.
* `StoredInOrderHolds`: from `Order`, which says that what ClickHouse holds, the write under way,
  the batch and the channel are one increasing run. Three lemmas on increasing sequences carry it.
* `WritesAccountedHolds`: from `WriteBalance`, which splits a write under way into rows appended
  and rows to come.
* `StatsSoundHolds`: from `StatsBehind` (what a reader saw is behind the counters, which only grow)
  and `Conservation`. `BatchFlushedOnStopHolds` follows from `Control`.
* `ImplementsSinkHolds`: every step is a step of `LogSink` or invisible to it. The strengthening
  `Stopping` is needed: a flush starts with something to write, and the worker is on its way out only
  after the cancellation.

**`RateLimiterProofs`**, for every limit, window, delay, and set of callers:

* `SetBoundedHolds`: at most the limit in the set, with any number of replicas. `TypeCorrect`.
* `AdmissionBoundedHolds`, for one replica: every recent admission is still in the set
  (`RecentInSet`), because its stamp is in every later call's window and the key outlives it;
  names are then distinct places in a set of at most `Limit`. The hypothesis of one replica is
  needed: `rate_replicas` is the counterexample without it.
* `RefusedOnlyAtLimitHolds`, for any number of replicas: `Sourced` says that every member comes from an
  admission with its score. A member's name fixes its score, so `Limit` members in the window are
  `Limit` admissions of different names, of which at most one is the call's own.

**`RuleCheckerProofs`**, for any users, rules, names, goroutines and lifetimes (`PatternsAssumption`,
`CheckerAssumption`):

* `PatternsAreCovers`, `NearestFirst`: for names of any length `generatePatterns` yields exactly the
  rules of the reference `Covers`, the name first and the wildcards from the nearest parent on. The
  i-th pattern is computed once (`PatternsSpelled`) and compared.
* `SpellingsAreOne`: a trailing dot or upper case makes no difference after normalising. It rests on
  `strings.ToLower` being idempotent and turning no label into the empty one.
* `SubdomainsBlocked`: no label in front of a blocked name gets past the built-in list.
* The lemmas the three composed modules share: each step keeps the types (`CheckerOK`), that an
  answer is of the kind the key asks for (`Fits`), and that entries and answers for names on the
  built-in list are "blocked" (`CachedBlock`, `AnsweredBlock`; inductive only together, since a lookup
  copies an entry and an entry is filled from a lookup). A composed module shows once that its steps
  are steps of the checker (`HNextIsNext`, `SyncIsNext`, `QueryIsNext`) and has them all.

**`RuleStalenessProofs`**:

* `TypeCorrect`: `CheckerOK` and `HistoryOK`, the types of the recorded ages.
* `FallbackAlwaysBlocksHolds`: from `CachedBlock` and `AnsweredBlock`.
* `EntriesFreshHolds`, `ServedFreshHolds`: from `FreshInv`. `EntriesFresh` alone is not inductive: an
  entry is filled from a lookup, so `LookupsSound` says that what a lookup carries is as old as its
  delay. A redirect lookup asks pattern after pattern while the hash changes; what it carries is
  that each pattern it passed was unset at most that long ago (`Missed`). `RecordNow` ties the record
  to the store: the present answer has age zero.
* `PatternsMatchReferenceHolds`, `SpellingsAgreeHolds`, `SubdomainsStayBlockedHolds`: the properties of
  `domain_patterns`, for every set of labels, limit and length. Every state is a name, and
  `RuleCheckerProofs` says the rest of every name.

**`ConfigSyncProofs`** (also `SyncAssumption`):

* `SyncTypeCorrect`: with the channel's bound, and that a clear has its event at the channel's head.
* `ResubscribesInTimeHolds`: from `BackoffInv`: while the worker listens it has been deaf for at most a
  health check; while it waits, the time it has been deaf and what is left of the wait stay below a
  health check and the cap together; an outage starts the count again. What the library does within a
  health check is an assumption of the model, the rest is the worker's.
* `EvictionEffectiveHolds`: from `EvictInv`. What a handled event guarantees must be known while it is
  handled: an entry that the clear has passed is as late as the event (`EntriesInv`), and so is what a
  lookup that is not exempt has read (`ReadsInv`), because it may be written behind the clear.
  `VersionsInv` says that no event is ahead of the changes.

**`QueryHandlerProofs`** (also `HandlerAssumption`):

* `BuiltinNeverResolvedHolds`, `RowMatchesAnswerHolds`: from `HandlerInv`, the checker's lemmas and for
  each goroutine what its stage allows as answer and status (`StageOK`), that the lookup under way is for
  its own query and user (`Linked`), and that a query that passed is not on the list (`PassedOK`).
* `BlockEnforcedHolds`, `RedirectAsConfiguredHolds`: from `FreshInv`, which adds ages: of what a lookup
  holds, of each entry, and of the verdict of a query that goes on to the redirect lookup
  (`RecentQuery`). That last one is the second `MaxLag` in the bound of `BlockEnforced`.

**`LifecycleProofs`**, for any servers, connections, handlers, lengths and channel size
(`LifecycleAssumption`):

* `DotFinishesQueriesHolds`: from `DrainInv`, which ties the connections to `RunDoT`'s position and
  that to `main`'s.
* `QueriesAsSentHolds`: from `FramingInv`. A connection that carried only lengths below 256 is at a
  message boundary whenever the reader believes so, because half of such a length is zero, which
  ends the connection.
* `RowsAtExitHolds`: `RowInv` is the balance of the rows through `LogSink`, `DropInv` counts the
  goroutines between the full channel and the counter; `DrainInv` says that none of these is a DoT
  connection when `main` ends. That the counted sets are finite is part of `DropInv`, so the theorem
  needs no bound on the number of connections and queries.
* `ServersClosedHolds`: from `StdInv`: what `RunStd` has shut down at each of its positions.

**`SniProxyProofs`**, for every set of records (`RecordsAssumption`: bytes of any number), any
deadlines and number of chunks (`ProxyAssumption`):

* `StaysInsideHolds`: no read ends behind the slice it is made in, and a name that is found lies in
  its extension. `TypeInv` says that positions are naturals; `InsideInv` orders `pos`, `end`, `limit`
  and the size of the payload at each field. `StaysInside` alone is not inductive: that a field is
  inside follows from where the one before it ended. One lemma per field of the parser.
* `FindsNameHolds`, also for every set of hellos (`HellosAssumption`): in a record that holds a hello,
  the name the parser returns is the one the hello asks for, and the parser refuses only a hello that
  asks for none. From `NameInv`: at each field `pos` is where that field starts in the hello and
  `limit` where the hello ends (`InHello`); in the loop, `pos` is where some extension starts, or the
  end, and none before it was a server_name (`InExtensions`); then it is in the first that is
  (`InServerName`). The loop is an induction over steps, not over the list of extensions, so no
  bound on their number is needed. `ReadTwo` and `ReadOne` turn bytes in the record into the lengths
  the parser reads, `TheName` says that the first server_name extension decides.
* `InOrderHolds`, `IdleBoundHolds`, `ClosedWhenOverHolds`: from `ConnInv`, for each direction: what was
  received is numbered from one (`Numbered`), what was read and not passed on is nothing, the hello or
  one chunk, by the stage and the copier's position (`Carried`), and the quiet time and the rest of
  the running deadline make up the timeout (`Timed`).

Only model-checked: the liveness properties `EventuallyAccounted`, `WorkerStops`, `EventuallyConsistent`,
`EveryQueryAnswered`, `Released`, `EventuallyExits`: fairness and ENABLED are out of the prover's reach.

## 5. Not modelled

* The upstream cache (`internal/upstream/cache.go`): nothing calls `InitCache`, `ResolveCached` or
  `ClearCache`, so no state of the program contains it.
* Certificates, metrics declarations, the dashboard and the test client hold no state worth a model.
  `cmd/adminapi` is wiring; it ends without waiting for requests, which `ConfigSync` covers as a
  write whose event is never published.
* Authentication, the listings and the analytics queries of the admin API only read.
* Contents of DNS messages, JSON and SQL are abstracted. The inline list in `CheckRule` for a
  process without a checker cannot be reached after `InitChecker`.
* `RunDoT` retries a failing `Accept` without a pause (`dot.go:62`): that costs processor time, which
  the models do not count.
* Queries of plain DNS and DoH may be cut off at shutdown: `HandleQuery` can be anywhere when `main`
  exits. No property forbids it, because no text of the repository promises otherwise; `RowsAtExit`
  says what becomes of their rows.

## 6. Plan

What is left is refinement and upkeep: an abstract specification of the cache of verdicts that
`RuleStaleness` and `QueryHandlerProps` could both be shown to implement, so that the two proofs of
freshness become one.
