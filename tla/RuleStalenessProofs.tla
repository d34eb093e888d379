------------------------ MODULE RuleStalenessProofs ------------------------
(***************************************************************************)
(* Proofs about the Checker's answers, for every set of users, rules,      *)
(* names and goroutines and every cache lifetime: the built-in list blocks *)
(* always, and no cached or returned answer is older than the bound.  At   *)
(* the end, what DomainNames says of the matcher, for names of any length. *)
(***************************************************************************)
EXTENDS RuleStaleness, RuleCheckerProofs, DomainNames

HistoryOK ==
    /\ sinceVerdict \in [Users \X Doms \X Verdicts -> Ages]
    /\ sinceField \in [Users \X RedirectRules \X Targets -> Ages]
    /\ sinceDown \in Ages

(* A step of the recorded specification is a step of the Checker. *)
LEMMA HNextIsNext == [HNext]_vars => [Next]_checkerVars
  BY DEF HNext, Next, vars, checkerVars

(* Ages stay ages. *)
LEMMA OlderType ==
    ASSUME NEW n \in Ages, NEW ticks \in Nat
    PROVE  Older(n, ticks) \in Ages
  BY CheckerAssumption DEF Older, Ages, Cap, Horizon

(* The record keeps its types, whatever the store does. *)
LEMMA RecordType == HistoryOK /\ [HNext]_vars => HistoryOK'
<1> SUFFICES ASSUME HistoryOK, [HNext]_vars PROVE HistoryOK' OBVIOUS
<1> USE DEF HistoryOK
<1>1. CASE UNCHANGED vars BY <1>1 DEF vars, history
<1>2. ASSUME NEW ticks \in Nat, Record(ticks) PROVE HistoryOK'
  <2>1. 0 \in Ages BY CheckerAssumption DEF Ages, Cap, Horizon
  <2>2. \A x \in Users \X Doms \X Verdicts : Older(sinceVerdict[x], ticks) \in Ages BY OlderType
  <2>3. \A x \in Users \X RedirectRules \X Targets : Older(sinceField[x], ticks) \in Ages BY OlderType
  <2>4. Older(sinceDown, ticks) \in Ages BY OlderType
  <2>5. sinceVerdict' \in [Users \X Doms \X Verdicts -> Ages] BY <1>2, <2>1, <2>2 DEF Record
  <2>6. sinceField' \in [Users \X RedirectRules \X Targets -> Ages] BY <1>2, <2>1, <2>3 DEF Record
  <2>7. sinceDown' \in Ages BY <1>2, <2>1, <2>4 DEF Record
  <2> QED BY <2>5, <2>6, <2>7
<1> QED BY <1>1, <1>2 DEF HNext

(* The types hold at the start. *)
LEMMA InitType == HInit => CheckerOK /\ HistoryOK
<1> SUFFICES ASSUME HInit PROVE CheckerOK /\ HistoryOK OBVIOUS
<1>1. CheckerOK BY InitChecker DEF HInit
<1>2. 0 \in Ages /\ Cap \in Ages BY CheckerAssumption DEF Ages, Cap, Horizon
<1>3. HistoryOK BY <1>2 DEF HInit, HistoryOK
<1> QED BY <1>1, <1>3

(* The Checker's types are an invariant, whatever rules change, however     *)
(* often Redis fails and however lookups and evictions interleave.          *)
THEOREM TypeCorrect == HSpec => []TypeOK
<1>1. CheckerOK /\ [HNext]_vars => CheckerOK'
  BY HNextIsNext, NextChecker
<1>2. CheckerOK /\ HistoryOK => TypeOK
  BY DEF CheckerOK, StoreOK, CacheOK, CallOK, HistoryOK, TypeOK
<1> QED BY <1>1, <1>2, InitType, RecordType, PTL DEF HSpec

(* A name on the built-in list is blocked for every user: no rule, no       *)
(* outage, no cached answer and no interleaving lets it through.            *)
THEOREM FallbackAlwaysBlocksHolds == HSpec => []FallbackAlwaysBlocks
<1>1. HInit => CheckerOK /\ CachedBlock /\ AnsweredBlock
  <2>1. HInit => CachedBlock BY CheckerAssumption DEF HInit, Init, CachedBlock, Live, NoEntry
  <2>2. HInit => AnsweredBlock BY DEF HInit, Init, AnsweredBlock, Idle
  <2> QED BY <2>1, <2>2, InitType
<1>2. CheckerOK /\ CachedBlock /\ AnsweredBlock /\ [HNext]_vars
      => (CheckerOK /\ CachedBlock /\ AnsweredBlock)'
  BY HNextIsNext, NextChecker, NextCachedBlock, NextAnsweredBlock
<1>3. CachedBlock /\ AnsweredBlock => FallbackAlwaysBlocks
  BY DEF CachedBlock, AnsweredBlock, FallbackAlwaysBlocks
<1> QED BY <1>1, <1>2, <1>3, PTL DEF HSpec
-----------------------------------------------------------------------------
(* The age of answers.  What the store says now has age 0; what a lookup    *)
(* has read is as old as the lookup; what the cache holds is older by the   *)
(* life the entry has spent.                                                *)
RecordNow ==
    /\ \A u \in Users, d \in Doms : sinceVerdict[<<u, d, TrueVerdict(u, d)>>] = 0
    /\ \A u \in Users, r \in RedirectRules : sinceField[<<u, r, redirects[u][r]>>] = 0
    /\ Unavailable => sinceDown = 0

(* The patterns a redirect lookup has already asked for without a hit. *)
Missed(c) == {generatePatterns(c.key.dom)[i] : i \in 1..(c.idx - 1)}

Sound(c) ==
    /\ c.pc = "query" => /\ c.val = NoIP
                         /\ c.idx \in 1..Len(generatePatterns(c.key.dom))
                         /\ \A r \in Missed(c) : FieldFresh(c.key.user, r, NoIP, c.lag)
    /\ c.pc = "fill" => KindOK(c.key, c.val) /\ Fresh(c.key, c.val, c.lag)

LookupsSound == \A p \in Procs : Sound(call[p])

EntriesSound ==
    \A k \in Keys : Live(k) =>
        KindOK(k, cache[k].val) /\ Fresh(k, cache[k].val, MaxLag + TTL - cache[k].ttl)

(* Nothing gets older faster than the clock. *)
Ageing(ticks) ==
    /\ \A u \in Users, d \in Doms, v \in Verdicts :
          sinceVerdict'[<<u, d, v>>] <= sinceVerdict[<<u, d, v>>] + ticks
    /\ \A u \in Users, r \in RedirectRules, v \in Targets :
          sinceField'[<<u, r, v>>] <= sinceField[<<u, r, v>>] + ticks
    /\ sinceDown' <= sinceDown + ticks

(* Ages are numbers. *)
LEMMA AgesAreNumbers == \A n \in Ages : n \in Nat
  BY CheckerAssumption DEF Ages, Cap, Horizon

LEMMA VerdictAge ==
    ASSUME NEW f \in [Users \X Doms \X Verdicts -> Ages], NEW u \in Users, NEW d \in Doms, NEW v \in Verdicts
    PROVE  f[<<u, d, v>>] \in Nat
  BY AgesAreNumbers

LEMMA FieldAge ==
    ASSUME NEW f \in [Users \X RedirectRules \X Targets -> Ages],
           NEW u \in Users, NEW r \in RedirectRules, NEW v \in Targets
    PROVE  f[<<u, r, v>>] \in Nat
  BY AgesAreNumbers

LEMMA OlderBound ==
    ASSUME NEW n \in Nat, NEW ticks \in Nat
    PROVE  Older(n, ticks) <= n + ticks
  BY CheckerAssumption DEF Older, Cap, Horizon

(* The record is kept as it should be. *)
LEMMA RecordAges ==
    ASSUME HistoryOK, NEW ticks \in Nat, Record(ticks)
    PROVE  Ageing(ticks)
<1>1. ASSUME NEW u \in Users, NEW d \in Doms, NEW v \in Verdicts
      PROVE  sinceVerdict'[<<u, d, v>>] <= sinceVerdict[<<u, d, v>>] + ticks
  <2>1. \/ sinceVerdict'[<<u, d, v>>] = 0
        \/ sinceVerdict'[<<u, d, v>>] = Older(sinceVerdict[<<u, d, v>>], ticks)
    BY DEF Record
  <2>2. sinceVerdict[<<u, d, v>>] \in Nat BY VerdictAge DEF HistoryOK
  <2>3. Older(sinceVerdict[<<u, d, v>>], ticks) <= sinceVerdict[<<u, d, v>>] + ticks BY <2>2, OlderBound
  <2> QED BY <2>1, <2>2, <2>3
<1>2. ASSUME NEW u \in Users, NEW r \in RedirectRules, NEW v \in Targets
      PROVE  sinceField'[<<u, r, v>>] <= sinceField[<<u, r, v>>] + ticks
  <2>1. \/ sinceField'[<<u, r, v>>] = 0
        \/ sinceField'[<<u, r, v>>] = Older(sinceField[<<u, r, v>>], ticks)
    BY DEF Record
  <2>2. sinceField[<<u, r, v>>] \in Nat BY FieldAge DEF HistoryOK
  <2>3. Older(sinceField[<<u, r, v>>], ticks) <= sinceField[<<u, r, v>>] + ticks BY <2>2, OlderBound
  <2> QED BY <2>1, <2>2, <2>3
<1>3. sinceDown' <= sinceDown + ticks
  <2>1. sinceDown' = 0 \/ sinceDown' = Older(sinceDown, ticks) BY DEF Record
  <2> QED BY <2>1, AgesAreNumbers, OlderBound DEF HistoryOK
<1> QED BY <1>1, <1>2, <1>3 DEF Ageing

LEMMA RecordIsNow ==
    ASSUME StoreOK', NEW ticks \in Nat, Record(ticks)
    PROVE  RecordNow'
<1>1. ASSUME NEW u \in Users, NEW d \in Doms PROVE sinceVerdict'[<<u, d, TrueVerdict(u, d)'>>] = 0
  <2>1. PICK v \in Verdicts : v = TrueVerdict(u, d)' BY DEF TrueVerdict, Verdicts
  <2> QED BY <2>1 DEF Record
<1>2. ASSUME NEW u \in Users, NEW r \in RedirectRules PROVE sinceField'[<<u, r, redirects'[u][r]>>] = 0
  <2>1. redirects'[u][r] \in Targets BY DEF StoreOK
  <2> QED BY <2>1 DEF Record
<1>3. Unavailable' => sinceDown' = 0 BY DEF Record
<1> QED BY <1>1, <1>2, <1>3 DEF RecordNow

LEMMA FieldFreshAges ==
    ASSUME HistoryOK, HistoryOK', NEW ticks \in Nat, Ageing(ticks),
           NEW u \in Users, NEW r, NEW v \in Targets, NEW n \in Int, NEW m \in Int, n + ticks <= m,
           FieldFresh(u, r, v, n)
    PROVE  FieldFresh(u, r, v, m)'
<1> SUFFICES ASSUME r \in RedirectRules PROVE sinceField'[<<u, r, v>>] <= m
  BY DEF FieldFresh
<1>1. sinceField[<<u, r, v>>] <= n BY DEF FieldFresh
<1>2. sinceField[<<u, r, v>>] \in Nat /\ sinceField'[<<u, r, v>>] \in Nat
  BY FieldAge DEF HistoryOK
<1>3. sinceField'[<<u, r, v>>] <= sinceField[<<u, r, v>>] + ticks BY DEF Ageing
<1> QED BY <1>1, <1>2, <1>3

(* What was fresh is fresh, allowing for the ticks that have passed. *)
LEMMA FreshAges ==
    ASSUME HistoryOK, HistoryOK', NEW ticks \in Nat, Ageing(ticks),
           NEW k \in Keys, NEW v, KindOK(k, v), NEW n \in Int, NEW m \in Int, n + ticks <= m,
           Fresh(k, v, n)
    PROVE  Fresh(k, v, m)'
<1>1. k.user \in Users /\ k.dom \in Doms BY DEF Keys
<1>2. CASE k.kind = "rule"
  <2>1. v \in Verdicts BY <1>2 DEF KindOK
  <2>2. sinceVerdict[<<k.user, k.dom, v>>] \in Nat /\ sinceVerdict'[<<k.user, k.dom, v>>] \in Nat
        /\ sinceDown \in Nat /\ sinceDown' \in Nat
    BY <1>1, <2>1, VerdictAge, AgesAreNumbers DEF HistoryOK
  <2>3. sinceVerdict'[<<k.user, k.dom, v>>] <= sinceVerdict[<<k.user, k.dom, v>>] + ticks
        /\ sinceDown' <= sinceDown + ticks
    BY <1>1, <2>1 DEF Ageing
  <2>4. VerdictFresh(k, v, n) BY <1>2 DEF Fresh
  <2>5. VerdictFresh(k, v, m)' BY <2>2, <2>3, <2>4 DEF VerdictFresh
  <2> QED BY <1>2, <2>5 DEF Fresh
<1>3. CASE k.kind # "rule"
  <2>1. v \in Targets /\ NoIP \in Targets BY <1>3 DEF KindOK, Targets
  <2>2. ASSUME NEW r, NEW w \in Targets, FieldFresh(k.user, r, w, n)
        PROVE  FieldFresh(k.user, r, w, m)'
    BY <1>1, <2>2, FieldFreshAges
  <2>3. RedirectFresh(k, v, n) BY <1>3 DEF Fresh
  <2>4. RedirectFresh(k, v, m)' BY <2>1, <2>2, <2>3 DEF RedirectFresh
  <2> QED BY <1>3, <2>4 DEF Fresh
<1> QED BY <1>2, <1>3

(* What the store says now is fresh. *)
LEMMA VerdictFreshNow ==
    ASSUME RecordNow, HistoryOK, NEW k \in Keys
    PROVE  VerdictFresh(k, Verdict(k.user, k.dom), 0) /\ Verdict(k.user, k.dom) \in Verdicts
<1>1. k.user \in Users /\ k.dom \in Doms BY DEF Keys
<1>2. Verdict(k.user, k.dom) \in Verdicts BY DEF Verdict, Verdicts
<1>3. CASE enabled /\ redisUp
  <2>1. Verdict(k.user, k.dom) = TrueVerdict(k.user, k.dom) BY <1>3 DEF Verdict, TrueVerdict
  <2>2. sinceVerdict[<<k.user, k.dom, TrueVerdict(k.user, k.dom)>>] = 0 BY <1>1 DEF RecordNow
  <2> QED BY <1>2, <2>1, <2>2 DEF VerdictFresh
<1>4. CASE ~(enabled /\ redisUp)
  <2>1. Verdict(k.user, k.dom) = FallbackVerdict(k.dom) BY <1>4 DEF Verdict, FallbackVerdict
  <2>2. sinceDown = 0 BY <1>4 DEF RecordNow, Unavailable
  <2> QED BY <1>2, <2>1, <2>2 DEF VerdictFresh
<1> QED BY <1>3, <1>4

LEMMA FieldFreshNow ==
    ASSUME RecordNow, NEW u \in Users, NEW r
    PROVE  FieldFresh(u, r, Field(u, r), 0)
  BY DEF FieldFresh, Field, RecordNow

(* A lookup that makes no step, or is only a tick older, stays sound. *)
LEMMA SoundAges ==
    ASSUME HistoryOK, HistoryOK', NEW ticks \in Nat, Ageing(ticks),
           NEW c \in Calls, NEW e \in Calls,
           e.pc = c.pc, e.key = c.key, e.val = c.val, e.idx = c.idx,
           c.pc \in {"query", "fill"} => e.lag = c.lag + ticks,
           Sound(c)
    PROVE  Sound(e)'
<1>1. c.key \in Keys /\ c.lag \in Int /\ e.lag \in Int BY CheckerAssumption DEF Calls
<1>2. CASE e.pc = "query"
  <2>1. c.val = NoIP /\ c.idx \in 1..Len(generatePatterns(c.key.dom)) BY <1>2 DEF Sound
  <2>2. \A r \in Missed(c) : FieldFresh(c.key.user, r, NoIP, c.lag) BY <1>2 DEF Sound
  <2>3. Missed(e) = Missed(c) BY DEF Missed
  <2>4. ASSUME NEW r \in Missed(c) PROVE FieldFresh(c.key.user, r, NoIP, e.lag)'
    <3>1. c.key.user \in Users /\ NoIP \in Targets BY <1>1 DEF Keys, Targets
    <3> QED BY <1>1, <1>2, <2>2, <3>1, FieldFreshAges
  <2> QED BY <1>2, <2>1, <2>3, <2>4 DEF Sound, Missed
<1>3. CASE e.pc = "fill"
  <2>1. KindOK(c.key, c.val) /\ Fresh(c.key, c.val, c.lag) BY <1>3 DEF Sound
  <2>2. c.lag + ticks <= e.lag BY <1>1, <1>3
  <2>3. Fresh(c.key, c.val, e.lag)' BY <1>1, <2>1, <2>2, FreshAges
  <2> QED BY <1>3, <2>1, <2>3 DEF Sound, KindOK
<1>4. CASE e.pc \notin {"query", "fill"} BY <1>4 DEF Sound
<1> QED BY <1>2, <1>3, <1>4

(* Soundness of a lookup's next state is soundness of that value. *)
LEMMA SoundNext ==
    ASSUME NEW p \in Procs, NEW e, e = call'[p], Sound(e)'
    PROVE  Sound(call[p])'
  BY DEF Sound, Missed, KindOK, Fresh, VerdictFresh, RedirectFresh, FieldFresh

(* An unrecorded step lets nothing age. *)
LEMMA StillAges ==
    ASSUME HistoryOK, UNCHANGED history
    PROVE  Ageing(0)
<1>1. ASSUME NEW u \in Users, NEW d \in Doms, NEW v \in Verdicts
      PROVE  sinceVerdict'[<<u, d, v>>] <= sinceVerdict[<<u, d, v>>] + 0
  <2>1. sinceVerdict[<<u, d, v>>] \in Nat BY VerdictAge DEF HistoryOK
  <2>2. sinceVerdict' = sinceVerdict BY DEF history
  <2> QED BY <2>1, <2>2
<1>2. ASSUME NEW u \in Users, NEW r \in RedirectRules, NEW v \in Targets
      PROVE  sinceField'[<<u, r, v>>] <= sinceField[<<u, r, v>>] + 0
  <2>1. sinceField[<<u, r, v>>] \in Nat BY FieldAge DEF HistoryOK
  <2>2. sinceField' = sinceField BY DEF history
  <2> QED BY <2>1, <2>2
<1>3. sinceDown' <= sinceDown + 0 BY AgesAreNumbers DEF HistoryOK, history
<1> QED BY <1>1, <1>2, <1>3 DEF Ageing

(* A field that is read now is fresh however old the lookup is. *)
LEMMA FieldReadNow ==
    ASSUME HistoryOK, HistoryOK', RecordNow, StoreOK, Ageing(0),
           NEW u \in Users, NEW r, NEW v, v = Field(u, r), NEW lag \in Nat
    PROVE  v \in Targets /\ FieldFresh(u, r, v, lag)'
<1>1. v \in Targets BY AnswerType
<1>2. FieldFresh(u, r, v, 0) BY FieldFreshNow
<1>3. FieldFresh(u, r, v, lag)' BY <1>1, <1>2, FieldFreshAges
<1> QED BY <1>1, <1>3

(* One pattern of a redirect lookup: a hit, the last miss, or the next. *)
LEMMA HGetSound ==
    ASSUME CheckerOK, HistoryOK, HistoryOK', RecordNow, Ageing(0),
           NEW p \in Procs, Sound(call[p]), HGet(p)
    PROVE  Sound(call[p])'
<1> DEFINE c == call[p]
           ps == generatePatterns(c.key.dom)
           ip == Field(c.key.user, ps[c.idx])
<1>1. c \in Calls BY DEF CheckerOK, CallOK
<1>2. c.pc = "query" /\ c.key.kind = "redirect" BY DEF HGet
<1>3. /\ c.val = NoIP /\ c.idx \in 1..Len(ps)
      /\ \A r \in Missed(c) : FieldFresh(c.key.user, r, NoIP, c.lag)
  BY <1>2 DEF Sound
<1>4. c.key \in Keys /\ c.key.user \in Users /\ c.lag \in Nat /\ c.idx \in Nat
  BY <1>1, CheckerAssumption DEF Calls, Keys
<1>5. PICK e : e = call'[p] OBVIOUS
<1>6. e = CASE ip # NoIP -> [c EXCEPT !.pc = "fill", !.val = ip]
            [] ip = NoIP /\ c.idx = Len(ps) -> [c EXCEPT !.pc = "fill"]
            [] OTHER -> [c EXCEPT !.idx = @ + 1]
  BY <1>5 DEF HGet, CheckerOK, CallOK
<1>7. NoIP \in Targets BY DEF Targets
<1>8. PICK k, u, lag, idx, qs, v :
          k = c.key /\ u = c.key.user /\ lag = c.lag /\ idx = c.idx /\ qs = ps /\ v = ip
  OBVIOUS
<1>9. k \in Keys /\ u \in Users /\ lag \in Nat /\ idx \in Nat /\ v \in Targets
  BY <1>4, <1>8, AnswerType DEF CheckerOK
<1> HIDE DEF c, ps, ip
<1>10. FieldFresh(u, qs[idx], v, lag)' BY <1>8, <1>9, FieldReadNow DEF CheckerOK, c, ps, ip
<1>11. \A i \in 1..(idx - 1) : FieldFresh(u, qs[i], NoIP, lag)'
  <2> SUFFICES ASSUME NEW i \in 1..(idx - 1) PROVE FieldFresh(u, qs[i], NoIP, lag)' OBVIOUS
  <2>1. qs[i] \in Missed(c) BY <1>8 DEF Missed, ps
  <2>2. FieldFresh(u, qs[i], NoIP, lag) BY <1>3, <1>8, <2>1
  <2> QED BY <1>7, <1>9, <2>2, FieldFreshAges
<1>12. k.kind = "redirect" /\ k.user = u /\ qs = generatePatterns(k.dom) /\ idx \in 1..Len(qs)
  BY <1>2, <1>3, <1>8 DEF ps
<1>13. c.pc = "query" /\ c.val = NoIP /\ c.key = k /\ c.lag = lag /\ c.idx = idx
  BY <1>2, <1>3, <1>8
<1>14. e = CASE v # NoIP -> [c EXCEPT !.pc = "fill", !.val = v]
             [] v = NoIP /\ idx = Len(qs) -> [c EXCEPT !.pc = "fill"]
             [] OTHER -> [c EXCEPT !.idx = idx + 1]
  BY <1>6, <1>8
<1>15. PICK d \in Calls : d = c BY <1>1
<1>16. CASE v # NoIP
  <2>1. e = [d EXCEPT !.pc = "fill", !.val = v] BY <1>14, <1>15, <1>16
  <2>2. e.pc = "fill" /\ e.key = k /\ e.val = v /\ e.lag = lag BY <1>13, <1>15, <2>1 DEF Calls
  <2>3. qs[idx] \in RedirectRules BY <1>8, <1>16 DEF Field, ps, ip, c
  <2>4. qs[idx] \in Patterns(k.dom) BY <1>12 DEF Patterns
  <2>5. RedirectFresh(k, v, lag)' BY <1>10, <1>12, <1>16, <2>3, <2>4 DEF RedirectFresh
  <2>6. Fresh(k, v, lag)' /\ KindOK(k, v) BY <1>9, <1>12, <2>5 DEF Fresh, KindOK
  <2>7. Sound(e)' BY <2>2, <2>6 DEF Sound
  <2> QED BY <1>5, <2>7, SoundNext
<1>17. CASE v = NoIP /\ idx = Len(qs)
  <2>1. e = [d EXCEPT !.pc = "fill"] BY <1>14, <1>15, <1>17
  <2>2. e.pc = "fill" /\ e.key = k /\ e.val = v /\ e.lag = lag BY <1>13, <1>15, <1>17, <2>1 DEF Calls
  <2>3. ASSUME NEW r \in Patterns(k.dom) PROVE FieldFresh(u, r, NoIP, lag)'
    <3>1. PICK i \in 1..Len(qs) : r = qs[i] BY <1>12 DEF Patterns
    <3>2. CASE i = idx BY <1>10, <1>17, <3>1, <3>2
    <3>3. CASE i # idx
      <4>1. i \in 1..(idx - 1) BY <1>17, <3>3
      <4> QED BY <1>11, <3>1, <4>1
    <3> QED BY <3>2, <3>3
  <2>4. RedirectFresh(k, v, lag)' BY <1>12, <1>17, <2>3 DEF RedirectFresh
  <2>5. Fresh(k, v, lag)' /\ KindOK(k, v) BY <1>9, <1>12, <2>4 DEF Fresh, KindOK
  <2>6. Sound(e)' BY <2>2, <2>5 DEF Sound
  <2> QED BY <1>5, <2>6, SoundNext
<1>18. CASE v = NoIP /\ idx # Len(qs)
  <2>1. e = [d EXCEPT !.idx = idx + 1] BY <1>14, <1>15, <1>18
  <2>2. e.pc = "query" /\ e.key = k /\ e.val = NoIP /\ e.lag = lag /\ e.idx = idx + 1
    BY <1>13, <1>15, <2>1 DEF Calls
  <2>3. e.idx \in 1..Len(qs) BY <1>12, <1>18, <2>2
  <2>4. ASSUME NEW r \in Missed(e) PROVE FieldFresh(u, r, NoIP, lag)'
    <3>1. PICK i \in 1..idx : r = qs[i] BY <1>12, <2>2 DEF Missed
    <3>2. CASE i = idx BY <1>10, <1>18, <3>1, <3>2
    <3>3. CASE i # idx
      <4>1. i \in 1..(idx - 1) BY <1>9, <3>3
      <4> QED BY <1>11, <3>1, <4>1
    <3> QED BY <3>2, <3>3
  <2>5. Sound(e)' BY <1>12, <2>2, <2>3, <2>4 DEF Sound, Missed
  <2> QED BY <1>5, <2>5, SoundNext
<1> QED BY <1>16, <1>17, <1>18
(* A verdict is read in one go. *)
LEMMA CheckSound ==
    ASSUME CheckerOK, HistoryOK, HistoryOK', RecordNow, Ageing(0),
           NEW p \in Procs, CheckQuery(p)
    PROVE  Sound(call[p])'
<1>1. call[p] \in Calls BY DEF CheckerOK, CallOK
<1>2. PICK k \in Keys, lag \in Nat : k = call[p].key /\ lag = call[p].lag
  BY <1>1, CheckerAssumption DEF Calls
<1>3. PICK v \in Verdicts : v = Verdict(k.user, k.dom) BY VerdictFreshNow
<1>4. PICK e : e = call'[p] OBVIOUS
<1>5. call' = [call EXCEPT ![p].pc = "fill", ![p].val = v] BY <1>2, <1>3 DEF CheckQuery
<1>6. e.pc = "fill" /\ e.key = k /\ e.val = v /\ e.lag = lag
  BY <1>1, <1>2, <1>4, <1>5 DEF CheckerOK, CallOK, Calls
<1>7. k.kind = "rule" BY <1>2 DEF CheckQuery
<1>8. VerdictFresh(k, v, 0) BY <1>3, VerdictFreshNow
<1>9. KindOK(k, v) /\ Fresh(k, v, 0) BY <1>7, <1>8 DEF KindOK, Fresh
<1>10. Fresh(k, v, lag)' BY <1>9, FreshAges
<1>11. Sound(e)' BY <1>6, <1>9, <1>10 DEF Sound
<1> QED BY <1>4, <1>11, SoundNext

(* A lookup starts with its first pattern. *)
LEMMA LookupSound ==
    ASSUME CheckerOK, NEW p \in Procs, NEW u \in Users, NEW q \in Queries, Lookup(p, u, q)
    PROVE  Sound(call[p])'
<1>1. PICK kind \in Kinds : Lookup(p, u, q)!(kind) BY DEF Lookup
<1>2. PICK k \in Keys : k = [kind |-> kind, user |-> u, dom |-> Normalize(q)]
  BY CheckerAssumption DEF Keys, Doms
<1>3. PICK e : e = call'[p] OBVIOUS
<1>4. e = IF Live(k)
          THEN [pc |-> "return", key |-> k, idx |-> 1, val |-> cache[k].val, ok |-> TRUE, lag |-> 0]
          ELSE [pc |-> "query", key |-> k, idx |-> 1, val |-> NoIP, ok |-> FALSE, lag |-> 0]
  BY <1>1, <1>2, <1>3 DEF CheckerOK, CallOK
<1>5. CASE Live(k)
  <2>1. e.pc = "return" BY <1>4, <1>5
  <2>2. Sound(e)' BY <2>1 DEF Sound
  <2> QED BY <1>3, <2>2, SoundNext
<1>6. CASE ~Live(k)
  <2>1. e.pc = "query" /\ e.idx = 1 /\ e.val = NoIP /\ e.key = k BY <1>4, <1>6
  <2>2. q \in Names BY CheckerAssumption
  <2>3. k.dom \in Names BY <1>2, <2>2, NormalizeType
  <2>4. Len(generatePatterns(k.dom)) \in Nat /\ Len(generatePatterns(k.dom)) >= 1
    BY <2>3, PatternsSpelled
  <2>5. e.idx \in 1..Len(generatePatterns(e.key.dom)) BY <2>1, <2>4
  <2>6. Missed(e) = {} BY <2>1 DEF Missed
  <2>7. Sound(e)' BY <2>1, <2>5, <2>6 DEF Sound, Missed
  <2> QED BY <1>3, <2>7, SoundNext
<1> QED BY <1>5, <1>6

(* Every step keeps the lookups sound. *)
LEMMA NextLookupsSound ==
    ASSUME CheckerOK, CheckerOK', HistoryOK, HistoryOK', RecordNow, LookupsSound, [HNext]_vars
    PROVE  LookupsSound'
<1> SUFFICES ASSUME NEW p \in Procs PROVE Sound(call[p])' BY DEF LookupsSound
<1>1. call[p] \in Calls /\ Sound(call[p]) BY DEF CheckerOK, CallOK, LookupsSound
<1>2. PICK c \in Calls, e \in Calls : c = call[p] /\ e = call'[p]
  BY <1>1 DEF CheckerOK, CallOK
<1>3. Sound(c) BY <1>1, <1>2
<1>4. ASSUME Ageing(0), call'[p] = call[p] PROVE Sound(call[p])'
  <2>1. e = c /\ (c.pc \in {"query", "fill"} => e.lag = c.lag + 0)
    BY <1>2, <1>4, CheckerAssumption DEF Calls
  <2>2. Sound(e)' BY <1>3, <1>4, <2>1, SoundAges
  <2> QED BY <1>2, <2>2, SoundNext
<1>5. CASE UNCHANGED vars BY <1>4, <1>5, StillAges DEF vars, checkerVars
<1>6. ASSUME Ageing(0), NEW x \in Procs, NEW d, call' = [call EXCEPT ![x] = d], x # p
      PROVE  Sound(call[p])'
  BY <1>4, <1>6 DEF CheckerOK, CallOK
<1>7. CASE LookupNext /\ Record(0)
  <2>1. Ageing(0) BY <1>7, RecordAges
  <2>2. PICK x \in Procs : LookupNext!(x) BY <1>7 DEF LookupNext
  <2>3. CASE x # p
    <3>1. \E d : call' = [call EXCEPT ![x] = d]
      BY <2>2 DEF Lookup, CheckQuery, HGet, RedirectUnavailable, Fill, Return
    <3> QED BY <1>6, <2>1, <2>3, <3>1
  <2>4. CASE x = p
    <3>1. CASE \E u \in Users, q \in Queries : Lookup(p, u, q) BY <3>1, LookupSound
    <3>2. CASE CheckQuery(p) BY <2>1, <3>2, CheckSound
    <3>3. CASE HGet(p) BY <1>1, <2>1, <3>3, HGetSound
    <3>4. CASE RedirectUnavailable(p) \/ Fill(p) \/ Return(p)
      <4>1. e.pc \in {"return", "idle"}
        BY <1>2, <3>4 DEF RedirectUnavailable, Fill, Return, Idle, CheckerOK, CallOK, Calls
      <4>2. Sound(e)' BY <4>1 DEF Sound
      <4> QED BY <1>2, <4>2, SoundNext
    <3> QED BY <2>2, <2>4, <3>1, <3>2, <3>3, <3>4
  <2> QED BY <2>3, <2>4
<1>8. CASE EvictNext /\ Record(0)
  <2>1. call' = call
    BY <1>8 DEF EvictNext, ClearUserCache, ClearKey, SetRedirect, RemoveRedirect, DeleteKey
  <2> QED BY <1>4, <1>8, <2>1, RecordAges
<1>9. CASE StoreNext /\ Record(0)
  <2>1. call' = call BY <1>9 DEF StoreNext, AddRules, RemoveRule, PutRedirect, RedisFails
  <2> QED BY <1>4, <1>9, <2>1, RecordAges
<1>10. CASE Tick /\ Record(1)
  <2>1. Ageing(1) BY <1>10, RecordAges
  <2>2. /\ e.pc = c.pc /\ e.key = c.key /\ e.val = c.val /\ e.idx = c.idx
        /\ c.pc \in {"query", "fill"} => e.lag = c.lag + 1
    BY <1>2, <1>10 DEF Tick, Busy, Calls
  <2>3. Sound(e)' BY <1>3, <2>1, <2>2, SoundAges
  <2> QED BY <1>2, <2>3, SoundNext
<1> QED BY <1>5, <1>7, <1>8, <1>9, <1>10 DEF HNext
-----------------------------------------------------------------------------
EntrySound(k, v, ttl) == KindOK(k, v) /\ Fresh(k, v, MaxLag + TTL - ttl)

LEMMA EntryNext ==
    ASSUME NEW k \in Keys, NEW v, NEW ttl, v = cache'[k].val, ttl = cache'[k].ttl, EntrySound(k, v, ttl)'
    PROVE  EntrySound(k, cache[k].val, cache[k].ttl)'
  BY DEF EntrySound, KindOK, Fresh, VerdictFresh, RedirectFresh, FieldFresh

(* An entry is worth what it was, and a tick older after a tick. *)
LEMMA EntryAges ==
    ASSUME HistoryOK, HistoryOK', NEW ticks \in Nat, Ageing(ticks), NEW k \in Keys, NEW v,
           NEW ttl \in Nat, NEW left \in Nat, left + ticks = ttl, EntrySound(k, v, ttl)
    PROVE  EntrySound(k, v, left)'
<1>1. PICK n \in Int, m \in Int : n = MaxLag + TTL - ttl /\ m = MaxLag + TTL - left /\ n + ticks <= m
  BY CheckerAssumption
<1>2. KindOK(k, v) /\ Fresh(k, v, n) BY <1>1 DEF EntrySound
<1>3. Fresh(k, v, m)' BY <1>1, <1>2, FreshAges
<1> QED BY <1>1, <1>2, <1>3 DEF EntrySound, KindOK

(* Every step keeps the entries sound. *)
LEMMA NextEntriesSound ==
    ASSUME CheckerOK, CheckerOK', HistoryOK, HistoryOK', LookupsSound, EntriesSound, [HNext]_vars
    PROVE  EntriesSound'
<1> SUFFICES ASSUME NEW k \in Keys, Live(k)' PROVE EntrySound(k, cache[k].val, cache[k].ttl)'
  BY DEF EntriesSound, EntrySound
<1>1. cache[k] \in Entries /\ cache'[k] \in Entries /\ \A e \in Entries : e.ttl \in Nat
  BY CheckerAssumption DEF CheckerOK, CacheOK, Entries
<1>2. PICK v : v = cache[k].val OBVIOUS
<1>3. PICK ttl \in Nat : ttl = cache[k].ttl BY <1>1
<1>4. PICK w : w = cache'[k].val OBVIOUS
<1>5. PICK left \in Nat : left = cache'[k].ttl BY <1>1
<1>6. left > 0 /\ (ttl > 0 => EntrySound(k, v, ttl))
  BY <1>2, <1>3, <1>4, <1>5 DEF Live, EntriesSound, EntrySound
<1>7. ASSUME Ageing(0), cache'[k] = cache[k] PROVE EntrySound(k, cache[k].val, cache[k].ttl)'
  <2>1. w = v /\ left = ttl /\ left + 0 = ttl BY <1>2, <1>3, <1>4, <1>5, <1>7
  <2>2. EntrySound(k, v, left)' BY <1>6, <1>7, <2>1, EntryAges
  <2> QED BY <1>4, <1>5, <2>1, <2>2, EntryNext
<1>8. CASE UNCHANGED vars BY <1>7, <1>8, StillAges DEF vars, checkerVars
<1>9. ASSUME Ageing(0), NEW p \in Procs, Fill(p) PROVE EntrySound(k, cache[k].val, cache[k].ttl)'
  <2>1. CASE call[p].key = k
    <3>1. PICK c \in Calls : c = call[p] BY DEF CheckerOK, CallOK
    <3>2. c.pc = "fill" /\ c.key = k BY <1>9, <2>1, <3>1 DEF Fill
    <3>3. KindOK(k, c.val) /\ Fresh(k, c.val, c.lag) BY <3>1, <3>2 DEF LookupsSound, Sound
    <3>4. cache'[k] = [val |-> c.val, ttl |-> TTL]
      BY <1>9, <2>1, <3>1 DEF Fill, SetEntry, CheckerOK, CacheOK
    <3>5. w = c.val /\ left = TTL BY <1>4, <1>5, <3>4
    <3>6. PICK n \in Int, m \in Int : n = c.lag /\ m = MaxLag + TTL - left /\ n + 0 <= m
      BY <3>5, CheckerAssumption DEF Calls
    <3>7. Fresh(k, w, m)' BY <1>9, <3>3, <3>5, <3>6, FreshAges
    <3>8. EntrySound(k, w, left)' BY <3>3, <3>5, <3>6, <3>7 DEF EntrySound, KindOK
    <3> QED BY <1>4, <1>5, <3>8, EntryNext
  <2>2. CASE call[p].key # k
    <3>1. cache'[k] = cache[k] BY <1>9, <2>2 DEF Fill, SetEntry, CheckerOK, CacheOK
    <3> QED BY <1>7, <1>9, <3>1
  <2> QED BY <2>1, <2>2
<1>10. CASE LookupNext /\ Record(0)
  <2>1. Ageing(0) BY <1>10, RecordAges
  <2>2. cache' = cache \/ \E p \in Procs : Fill(p)
    BY <1>10 DEF LookupNext, Lookup, CheckQuery, HGet, RedirectUnavailable, Return
  <2> QED BY <1>7, <1>9, <2>1, <2>2
<1>11. CASE EvictNext /\ Record(0)
  <2>1. Ageing(0) BY <1>11, RecordAges
  <2>2. cache' = cache \/ \E K : Drop(K)
    BY <1>11 DEF EvictNext, ClearUserCache, ClearKey, SetRedirect, RemoveRedirect, DeleteKey
  <2>3. cache'[k] = cache[k] \/ cache'[k] = NoEntry BY <2>2 DEF Drop
  <2>4. cache'[k] # NoEntry BY <1>4, <1>5, <1>6 DEF NoEntry
  <2> QED BY <1>7, <2>1, <2>3, <2>4
<1>12. CASE StoreNext /\ Record(0)
  <2>1. Ageing(0) BY <1>12, RecordAges
  <2>2. cache' = cache BY <1>12 DEF StoreNext, AddRules, RemoveRule, PutRedirect, RedisFails
  <2> QED BY <1>7, <2>1, <2>2
<1>13. CASE Tick /\ Record(1)
  <2>1. Ageing(1) BY <1>13, RecordAges
  <2>2. cache'[k] = Aged(cache[k]) BY <1>13 DEF Tick
  <2>3. w = v /\ left + 1 = ttl
    BY <1>1, <1>2, <1>3, <1>4, <1>5, <1>6, <2>2 DEF Aged, NoEntry, Entries
  <2>4. EntrySound(k, v, left)' BY <1>6, <2>1, <2>3, EntryAges
  <2> QED BY <1>4, <1>5, <2>3, <2>4, EntryNext
<1> QED BY <1>8, <1>10, <1>11, <1>12, <1>13 DEF HNext

-----------------------------------------------------------------------------
FreshInv == CheckerOK /\ HistoryOK /\ RecordNow /\ LookupsSound /\ EntriesSound

LEMMA InitFresh == HInit => FreshInv
<1> SUFFICES ASSUME HInit PROVE FreshInv OBVIOUS
<1>1. RecordNow
  <2>1. ASSUME NEW u \in Users, NEW d \in Doms PROVE sinceVerdict[<<u, d, TrueVerdict(u, d)>>] = 0
    <3>1. PICK v \in Verdicts : v = TrueVerdict(u, d) BY DEF TrueVerdict, Verdicts
    <3> QED BY <3>1 DEF HInit
  <2>2. ASSUME NEW u \in Users, NEW r \in RedirectRules PROVE sinceField[<<u, r, redirects[u][r]>>] = 0
    <3>1. redirects[u][r] = NoIP /\ NoIP \in Targets BY DEF HInit, Init, Targets
    <3> QED BY <3>1 DEF HInit
  <2>3. Unavailable => sinceDown = 0 BY DEF HInit
  <2> QED BY <2>1, <2>2, <2>3 DEF RecordNow
<1>2. LookupsSound BY DEF HInit, Init, LookupsSound, Sound, Idle
<1>3. EntriesSound BY DEF HInit, Init, EntriesSound, Live, NoEntry
<1> QED BY <1>1, <1>2, <1>3, InitType DEF FreshInv

LEMMA NextFresh == FreshInv /\ [HNext]_vars => FreshInv'
<1> SUFFICES ASSUME FreshInv, [HNext]_vars PROVE FreshInv' OBVIOUS
<1> USE DEF FreshInv
<1>1. CheckerOK' BY HNextIsNext, NextChecker
<1>2. HistoryOK' BY RecordType
<1>3. RecordNow'
  <2>1. CASE UNCHANGED vars
    BY <2>1 DEF RecordNow, vars, checkerVars, history, TrueVerdict, checkRedis, Unavailable
  <2>2. ASSUME NEW ticks \in Nat, Record(ticks) PROVE RecordNow'
    BY <1>1, <2>2, RecordIsNow DEF CheckerOK
  <2> QED BY <2>1, <2>2 DEF HNext
<1>4. LookupsSound' BY <1>1, <1>2, NextLookupsSound
<1>5. EntriesSound' BY <1>1, <1>2, NextEntriesSound
<1> QED BY <1>1, <1>2, <1>3, <1>4, <1>5

(* No interleaving of lookups, evictions, rule changes and Redis failures   *)
(* leaves an entry in the cache whose value the store had longer ago than   *)
(* the entry's age and MaxLag: a slow lookup cannot cache an old verdict.   *)
THEOREM EntriesFreshHolds == HSpec => []EntriesFresh
<1>1. FreshInv => EntriesFresh BY DEF FreshInv, EntriesSound, EntriesFresh
<1> QED BY <1>1, InitFresh, NextFresh, PTL DEF HSpec

(* An answer that is fresh for a shorter time is fresh. *)
LEMMA AnswerNext ==
    ASSUME HistoryOK, HistoryOK', NEW p \in Procs, Ageing(0),
           NEW e, e = call'[p], e.key \in Keys,
           NEW n \in Int, n <= Horizon, KindOK(e.key, e.val), Fresh(e.key, e.val, n)
    PROVE  AnswerFresh(p)'
<1>1. Horizon \in Int /\ n + 0 <= Horizon BY CheckerAssumption DEF Horizon
<1>2. PICK k \in Keys, h \in Int : k = e.key /\ h = Horizon BY <1>1
<1>3. PICK v : v = e.val OBVIOUS
<1>4. Fresh(k, v, h)' BY <1>1, <1>2, <1>3, FreshAges
<1> QED BY <1>2, <1>3, <1>4
        DEF AnswerFresh, Horizon, Fresh, VerdictFresh, RedirectFresh, FieldFresh

(* Every answer Check and GetRedirect give was the store's at most          *)
(* TTL + MaxLag - 1 ticks ago, though no eviction need ever arrive, or was  *)
(* forced by an outage as recent: the bound on serving stale rules.         *)
THEOREM ServedFreshHolds == HSpec => ServedFresh
<1> DEFINE Served == \A p \in Procs : call'[p].pc = "return" /\ call[p].pc # "return" => AnswerFresh(p)'
<1>1. FreshInv /\ [HNext]_vars => [Served]_vars
  <2> SUFFICES ASSUME FreshInv, HNext, NEW p \in Procs,
                      call'[p].pc = "return", call[p].pc # "return"
               PROVE  AnswerFresh(p)'
    OBVIOUS
  <2> USE DEF FreshInv
  <2>1. FreshInv' BY NextFresh
  <2>2. PICK e \in Calls : e = call'[p] BY <2>1 DEF CheckerOK, CallOK
  <2>3. call \in [Procs -> Calls] /\ cache \in [Keys -> Entries] BY DEF CheckerOK, CallOK, CacheOK
  <2>4. e.key \in Keys BY DEF Calls
  <2>5. CASE Tick
    <3>1. call'[p].pc = call[p].pc BY <2>3, <2>5 DEF Tick, Calls
    <3> QED BY <3>1
  <2>6. CASE EvictNext \/ StoreNext
    <3>1. call' = call
      BY <2>6 DEF EvictNext, ClearUserCache, ClearKey, SetRedirect, RemoveRedirect, DeleteKey,
                  StoreNext, AddRules, RemoveRule, PutRedirect, RedisFails
    <3> QED BY <3>1
  <2>7. CASE LookupNext /\ Record(0)
    <3>1. Ageing(0) BY <2>7, RecordAges
    <3>2. PICK x \in Procs : LookupNext!(x) BY <2>7 DEF LookupNext
    <3>3. x = p
      <4>1. \E d : call' = [call EXCEPT ![x] = d]
        BY <3>2 DEF Lookup, CheckQuery, HGet, RedirectUnavailable, Fill, Return
      <4> QED BY <2>3, <4>1
    <3>4. ASSUME NEW u \in Users, NEW q \in Queries, Lookup(p, u, q) PROVE AnswerFresh(p)'
      <4>1. PICK kind \in Kinds : Lookup(p, u, q)!(kind) BY <3>4 DEF Lookup
      <4>2. PICK k \in Keys : k = [kind |-> kind, user |-> u, dom |-> Normalize(q)]
        BY CheckerAssumption DEF Keys, Doms
      <4>3. Live(k) BY <2>3, <4>1, <4>2
      <4>4. e.key = k /\ e.val = cache[k].val BY <2>2, <2>3, <4>1, <4>2, <4>3
      <4>5. cache[k] \in Entries /\ cache[k].ttl > 0 BY <2>3, <4>3 DEF Live
      <4>6. PICK n \in Int : n = MaxLag + TTL - cache[k].ttl /\ n <= Horizon
        BY <4>5, CheckerAssumption DEF Horizon, Entries
      <4>7. KindOK(k, e.val) /\ Fresh(k, e.val, n) BY <4>3, <4>4, <4>6 DEF EntriesSound
      <4> QED BY <2>1, <2>2, <2>4, <3>1, <4>4, <4>6, <4>7, AnswerNext
    <3>5. ASSUME CheckQuery(p) \/ HGet(p) \/ Return(p) PROVE FALSE
      <4>1. CASE CheckQuery(p) \/ HGet(p)
        <5>1. call'[p].pc \in {"query", "fill"} BY <4>1, CommandStep DEF CheckerOK
        <5> QED BY <5>1
      <4>2. CASE Return(p) BY <4>2 DEF Return
      <4> QED BY <3>5, <4>1, <4>2
    <3>6. ASSUME RedirectUnavailable(p) PROVE AnswerFresh(p)'
      <4>1. e.val = NoIP
        BY <2>2, <2>3, <3>6 DEF RedirectUnavailable, LookupsSound, Sound, Calls
      <4>2. Unavailable' BY <3>6 DEF RedirectUnavailable, Unavailable
      <4>3. sinceDown' = 0 BY <2>1, <4>2 DEF RecordNow
      <4>4. sinceDown' <= Horizon BY <4>3, CheckerAssumption DEF Horizon
      <4> QED BY <2>2, <4>1, <4>4 DEF AnswerFresh, Horizon
    <3>7. ASSUME Fill(p) PROVE AnswerFresh(p)'
      <4>1. PICK c \in Calls : c = call[p] BY <2>3
      <4>2. c.pc = "fill" /\ e.key = c.key /\ e.val = c.val BY <2>2, <2>3, <3>7, <4>1 DEF Fill, Calls
      <4>3. KindOK(c.key, c.val) /\ Fresh(c.key, c.val, c.lag) BY <4>1, <4>2 DEF LookupsSound, Sound
      <4>4. c.lag \in Int /\ c.lag <= Horizon BY CheckerAssumption DEF Calls, Horizon
      <4> QED BY <2>1, <2>2, <2>4, <3>1, <4>2, <4>3, <4>4, AnswerNext
    <3> QED BY <3>2, <3>3, <3>4, <3>5, <3>6, <3>7
  <2> QED BY <2>5, <2>6, <2>7 DEF HNext
<1> QED BY <1>1, InitFresh, NextFresh, PTL DEF HSpec, ServedFresh

-----------------------------------------------------------------------------
(* Every state of DomainNames is a name. *)
LEMMA InitName == NameInit => name \in Names
<1> SUFFICES ASSUME NEW l \in Labels PROVE <<l>> \in Names
  BY DEF NameInit
<1>1. <<l>> \in Seq(Labels) /\ Len(<<l>>) = 1 /\ Len(<<>>) = 0
  OBVIOUS
<1> QED BY <1>1 DEF Names

LEMMA NextName ==
    ASSUME name \in Names, [NameNext]_name
    PROVE  name' \in Names
<1>1. CASE UNCHANGED name
  BY <1>1
<1>2. ASSUME NEW l \in Labels, name' = <<l>> \o name PROVE name' \in Names
  <2>1. PICK d \in Seq(Labels) : d = name
    BY DEF Names
  <2>2. <<l>> \o d \in Seq(Labels) /\ Len(<<l>> \o d) = 1 + Len(d) /\ Len(<<>>) = 0 /\ Len(d) \in Nat
    OBVIOUS
  <2>3. <<l>> \o d # <<>>
    BY <2>2
  <2> QED BY <1>2, <2>1, <2>2, <2>3 DEF Names
<1> QED BY <1>1, <1>2 DEF NameNext, Subdomain

(* generatePatterns yields the rules that cover a name and no other, the    *)
(* more specific one first.                                                 *)
THEOREM PatternsMatchReferenceHolds == NameSpec => []PatternsMatchReference
<1>1. name \in Names => PatternsMatchReference
  BY PatternsAreCovers, NearestFirst DEF PatternsMatchReference
<1>2. name \in Names /\ [NameNext]_name => (name \in Names)'
  BY NextName
<1> QED BY <1>1, <1>2, InitName, PTL DEF NameSpec

(* A name, its dotted form and its other spellings are one name to the      *)
(* rules and the cache.                                                     *)
THEOREM SpellingsAgreeHolds == NameSpec => []SpellingsAgree
<1>1. name \in Names => SpellingsAgree
  BY SpellingsAreOne DEF SpellingsAgree
<1>2. name \in Names /\ [NameNext]_name => (name \in Names)'
  BY NextName
<1> QED BY <1>1, <1>2, InitName, PTL DEF NameSpec

(* Whatever is put in front of a blocked built-in name, it stays blocked.   *)
THEOREM SubdomainsStayBlockedHolds == NameSpec => SubdomainsStayBlocked
<1>1. name \in Names /\ [NameNext]_name => [fallbackCheck(name) => fallbackCheck(name')]_name
  <2> SUFFICES ASSUME name \in Names, NEW l \in Labels, Subdomain(l), fallbackCheck(name)
               PROVE  fallbackCheck(name')
    BY DEF NameNext
  <2>1. fallbackCheck(<<l>> \o name)
    BY SubdomainsBlocked
  <2> QED BY <2>1 DEF Subdomain
<1>2. name \in Names /\ [NameNext]_name => (name \in Names)'
  BY NextName
<1> QED BY <1>1, <1>2, InitName, PTL DEF NameSpec, SubdomainsStayBlocked
=============================================================================
