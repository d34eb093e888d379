------------------------ MODULE QueryHandlerProofs ------------------------
(***************************************************************************)
(* Proofs about the answers of the resolver, for every set of users,       *)
(* names, rules, addresses, front-end inputs and goroutines and every      *)
(* cache lifetime: the built-in list holds, the log tells what the client  *)
(* was told, and blocks and redirects are enforced with a bounded delay.   *)
(***************************************************************************)
EXTENDS QueryHandlerProps, RuleCheckerProofs

QueryRecords ==
    [pc : {"idle", "limit", "rule", "checking", "redirect", "redirecting", "forward", "log"},
     user : Users, name : Queries, empty : BOOLEAN,
     answer : IPs \cup {"none", "refused", "nxdomain", "upstream", "servfail"},
     status : {"ALLOWED", "BLOCKED", "REDIRECTED"}]

HandlerOK ==
    /\ conn \in [Procs -> Users \cup {NoConn}]
    /\ query \in [Procs -> QueryRecords]

LEMMA NoQueryType == NoQuery \in QueryRecords
<1>1. (CHOOSE q \in Queries : TRUE) \in Queries BY CheckerAssumption
<1> QED BY <1>1, HandlerAssumption DEF NoQuery, QueryRecords

(* A query that arrives changes nothing of the Checker. *)
LEMMA FrontEndLeaves ==
    ASSUME NEW p \in Procs, FrontEnd(p)
    PROVE  UNCHANGED checkerVars
  BY Zenon DEF FrontEnd, ServeDNS, ReadDoT, handleDoH, AcceptDoT, CloseDoT, HandleDNSQuery

(* A step of the handler is a step of the Checker, or none of it. *)
LEMMA StepIsNext ==
    ASSUME HandlerOK, QueryStep
    PROVE  LookupNext \/ EvictNext \/ StoreNext \/ UNCHANGED checkerVars
<1>1. ASSUME NEW p \in Procs, FrontEnd(p) PROVE UNCHANGED checkerVars
  BY <1>1, FrontEndLeaves
<1>2. ASSUME NEW p \in Procs, ProcessQuery(p) PROVE LookupNext \/ UNCHANGED checkerVars
  <2>1. query[p].user \in Users /\ query[p].name \in Queries BY DEF HandlerOK, QueryRecords
  <2>2. CASE CheckRule(p) \/ GetRedirectDomain(p)
    BY <2>1, <2>2 DEF CheckRule, GetRedirectDomain, Called, LookupNext
  <2>3. CASE RuleResult(p) \/ RedirectResult(p)
    BY <2>3 DEF RuleResult, RedirectResult, Returned, LookupNext
  <2>4. CASE RateLimited(p) \/ Admitted(p) \/ forwardResponse(p) \/ submitLog(p)
    BY <2>4 DEF RateLimited, Admitted, forwardResponse, submitLog
  <2>5. CASE CheckerStep(p) BY <2>5 DEF CheckerStep, LookupNext
  <2> QED BY <1>2, <2>2, <2>3, <2>4, <2>5 DEF ProcessQuery
<1>3. CASE CacheStep BY <1>3 DEF CacheStep, EvictNext
<1>4. CASE StoreStep BY <1>4 DEF StoreStep
<1> QED BY <1>1, <1>2, <1>3, <1>4 DEF QueryStep

LEMMA QueryIsNext == HandlerOK /\ [HNext]_hvars => [Next]_checkerVars
  BY StepIsNext DEF HNext, HandlerTick, Next, hvars, vars

(* The three ways in all end in HandleDNSQuery, for a known user. *)
LEMMA FrontEndUser ==
    ASSUME HandlerOK, NEW p \in Procs, FrontEnd(p)
    PROVE  \/ \E u \in Users, q \in Queries, empty \in BOOLEAN : HandleDNSQuery(p, u, q, empty)
           \/ query' = query /\ call' = call /\ \E u \in Users \cup {NoConn} : conn' = [conn EXCEPT ![p] = u]
<1>1. ASSUME NEW q \in Queries, NEW empty \in BOOLEAN, ServeDNS(p, q, empty)
      PROVE  \E u \in Users : HandleDNSQuery(p, u, q, empty)
  BY <1>1, HandlerAssumption DEF ServeDNS
<1>2. ASSUME NEW q \in Queries, NEW empty \in BOOLEAN, ReadDoT(p, q, empty)
      PROVE  \E u \in Users : HandleDNSQuery(p, u, q, empty)
  BY <1>2 DEF ReadDoT, HandlerOK
<1>3. ASSUME NEW q \in Queries, NEW empty \in BOOLEAN, NEW s \in Paths, handleDoH(p, s, q, empty)
      PROVE  \E u \in Users : HandleDNSQuery(p, u, q, empty)
  BY <1>3, HandlerAssumption DEF handleDoH, ValidPath
<1>4. ASSUME NEW n \in ServerNames, AcceptDoT(p, n)
      PROVE  query' = query /\ call' = call /\ \E u \in Users \cup {NoConn} : conn' = [conn EXCEPT ![p] = u]
  <2>1. ExtractUserFromSNI(n) \in Users BY HandlerAssumption DEF ExtractUserFromSNI
  <2> QED BY <1>4, <2>1 DEF AcceptDoT, checkerVars
<1>5. ASSUME CloseDoT(p)
      PROVE  query' = query /\ call' = call /\ \E u \in Users \cup {NoConn} : conn' = [conn EXCEPT ![p] = u]
  BY <1>5 DEF CloseDoT, checkerVars
<1> QED BY <1>1, <1>2, <1>3, <1>4, <1>5 DEF FrontEnd

(* What ProcessQuery can make of a query record. *)
LEMMA UpdateType ==
    ASSUME HandlerOK, NEW p \in Procs, ProcessQuery(p)
    PROVE  conn' = conn /\ \E r \in QueryRecords : query' = [query EXCEPT ![p] = r]
<1>1. query[p] \in QueryRecords /\ query = [query EXCEPT ![p] = query[p]] BY DEF HandlerOK
<1>2. CASE RateLimited(p)
  <2>1. writeRateLimitResponse \in QueryRecords
    BY NoQueryType DEF writeRateLimitResponse, QueryRecords
  <2> QED BY <1>2, <2>1 DEF RateLimited, Update
<1>3. CASE Admitted(p)
  <2>1. [query[p] EXCEPT !.pc = "rule"] \in QueryRecords BY <1>1 DEF QueryRecords
  <2> QED BY <1>3, <2>1, NoQueryType DEF Admitted, Update
<1>4. CASE CheckRule(p)
  <2>1. [query[p] EXCEPT !.pc = "checking"] \in QueryRecords BY <1>1 DEF QueryRecords
  <2> QED BY <1>4, <2>1 DEF CheckRule, Called, Update
<1>5. CASE RuleResult(p)
  <2>1. [query[p] EXCEPT !.pc = "redirect"] \in QueryRecords BY <1>1 DEF QueryRecords
  <2>2. writeBlockResponse(query[p]) \in QueryRecords BY <1>1 DEF writeBlockResponse, QueryRecords
  <2> QED BY <1>5, <2>1, <2>2 DEF RuleResult, Returned, Update
<1>6. CASE GetRedirectDomain(p)
  <2>1. [query[p] EXCEPT !.pc = "redirecting"] \in QueryRecords BY <1>1 DEF QueryRecords
  <2> QED BY <1>6, <2>1 DEF GetRedirectDomain, Called, Update
<1>7. CASE RedirectResult(p)
  <2>1. [query[p] EXCEPT !.pc = "forward"] \in QueryRecords BY <1>1 DEF QueryRecords
  <2>2. ASSUME NEW ip PROVE writeRedirectResponse(query[p], ip) \in QueryRecords
    <3>1. CASE ip \in IPv4
      <4>1. ip \in IPs BY <3>1, HandlerAssumption
      <4>2. [query[p] EXCEPT !.pc = "log", !.answer = ip, !.status = "REDIRECTED"] \in QueryRecords
        BY <1>1, <4>1 DEF QueryRecords
      <4> QED BY <3>1, <4>2 DEF writeRedirectResponse
    <3>2. CASE ip \notin IPv4
      <4>1. [query[p] EXCEPT !.pc = "forward", !.status = "REDIRECTED"] \in QueryRecords
        BY <1>1 DEF QueryRecords
      <4> QED BY <3>2, <4>1 DEF writeRedirectResponse
    <3> QED BY <3>1, <3>2
  <2> QED BY <1>7, <2>1, <2>2 DEF RedirectResult, Returned, Update
<1>8. CASE forwardResponse(p)
  <2>1. \A a \in Resolve : [query[p] EXCEPT !.pc = "log", !.answer = a] \in QueryRecords
    BY <1>1 DEF QueryRecords, Resolve
  <2> QED BY <1>8, <2>1 DEF forwardResponse, Update
<1>9. CASE submitLog(p) BY <1>9, NoQueryType DEF submitLog, Update
<1>10. CASE CheckerStep(p)
  <2>1. query' = query /\ conn' = conn BY <1>10 DEF CheckerStep, handlerVars
  <2> QED BY <1>1, <2>1
<1> QED BY <1>2, <1>3, <1>4, <1>5, <1>6, <1>7, <1>8, <1>9, <1>10 DEF ProcessQuery

LEMMA NextHandler == HandlerOK /\ [HNext]_hvars => HandlerOK'
<1> SUFFICES ASSUME HandlerOK, [HNext]_hvars PROVE HandlerOK' OBVIOUS
<1>1. CASE UNCHANGED hvars BY <1>1 DEF hvars, vars, handlerVars, HandlerOK
<1>2. ASSUME NEW p \in Procs, FrontEnd(p) PROVE HandlerOK'
  <2>1. ASSUME NEW u \in Users, NEW q \in Queries, NEW empty \in BOOLEAN, HandleDNSQuery(p, u, q, empty)
        PROVE  HandlerOK'
    <3>1. [NoQuery EXCEPT !.pc = "limit", !.user = u, !.name = q, !.empty = empty] \in QueryRecords
      BY NoQueryType DEF QueryRecords
    <3> QED BY <2>1, <3>1 DEF HandleDNSQuery, Update, HandlerOK
  <2> QED BY <1>2, <2>1, FrontEndUser DEF HandlerOK
<1>3. ASSUME NEW p \in Procs, ProcessQuery(p) PROVE HandlerOK'
  BY <1>3, UpdateType DEF HandlerOK
<1>4. CASE CacheStep \/ StoreStep \/ HandlerTick
  BY <1>4 DEF CacheStep, StoreStep, HandlerTick, handlerVars, HandlerOK
<1> QED BY <1>1, <1>2, <1>3, <1>4 DEF HNext, QueryStep

LEMMA InitHandler == HInit => HandlerOK
  BY NoQueryType DEF HInit, QueryInit, HandlerOK

-----------------------------------------------------------------------------
(* What a query record says at each stage. *)
StageOK(q) ==
    /\ q.pc \in {"limit", "rule", "checking", "redirect", "redirecting"} =>
          q.answer = "none" /\ q.status = "ALLOWED"
    /\ q.pc = "forward" => q.answer = "none" /\ q.status # "BLOCKED"
    /\ q.pc = "log" =>
          /\ q.status = "BLOCKED" <=> q.answer = "nxdomain"
          /\ q.answer \in IPs => q.status = "REDIRECTED"
    /\ q.pc = "idle" => q.answer \notin IPs

(* The Checker is asked about this query and no other. *)
Asked(p, kind) ==
    /\ call[p].pc # "idle"
    /\ call[p].key = [kind |-> kind, user |-> query[p].user, dom |-> Dom(p)]

Linked(p) ==
    /\ At(p, "checking") => Asked(p, "rule")
    /\ At(p, "redirecting") => Asked(p, "redirect")

(* The verdict was not "blocked". *)
Passed(p) == query[p].pc \in {"redirect", "redirecting", "forward"} \/ query[p].answer \in IPs

PassedOK(p) == Passed(p) => ~fallbackCheck(Dom(p))

StepInv(p) == StageOK(query[p]) /\ Linked(p) /\ PassedOK(p)

HandlerInv ==
    /\ HandlerOK /\ CheckerOK /\ Fits /\ CachedBlock /\ AnsweredBlock
    /\ \A p \in Procs : StepInv(p)

LEMMA NoAddress == \A a \in {"none", "refused", "nxdomain", "upstream", "servfail"} : a \notin IPs
  BY HandlerAssumption

LEMMA IdleStage == NoQuery.pc = "idle" /\ NoQuery.answer = "none" /\ NoQuery.status = "ALLOWED"
  BY DEF NoQuery

(* What a goroutine leaves alone stays as it is. *)
LEMMA StepKept ==
    ASSUME NEW p \in Procs, StepInv(p), query'[p] = query[p],
           call'[p].key = call[p].key, call[p].pc # "idle" => call'[p].pc # "idle"
    PROVE  StepInv(p)'
  BY DEF StepInv, StageOK, Linked, Asked, PassedOK, Passed, Dom, At

(* A query that is at none of the later stages. *)
LEMMA StepStarts ==
    ASSUME NEW p \in Procs, query'[p].pc \in {"idle", "limit", "rule"},
           query'[p].answer \in {"none", "refused"}, query'[p].status = "ALLOWED",
           query'[p].pc # "idle" => query'[p].answer = "none"
    PROVE  StepInv(p)'
<1>1. query'[p].answer \notin IPs BY NoAddress
<1> QED BY <1>1 DEF StepInv, StageOK, Linked, PassedOK, Passed, At

(* The Checker's steps keep the key of a lookup and do not end it. *)
LEMMA CheckerStepKeeps ==
    ASSUME CheckerOK, NEW p \in Procs, CheckerStep(p)
    PROVE  /\ query' = query /\ call'[p].key = call[p].key /\ call'[p].pc # "idle"
           /\ call'[p].lag = call[p].lag
<1>1. call \in [Procs -> Calls] /\ call[p] \in Calls BY DEF CheckerOK, CallOK
<1>2. query' = query BY DEF CheckerStep, handlerVars
<1>3. CASE CheckQuery(p) BY <1>1, <1>2, <1>3 DEF CheckQuery, Calls
<1>4. CASE HGet(p)
  <2> DEFINE ip == Field(call[p].key.user, generatePatterns(call[p].key.dom)[call[p].idx])
             n == Len(generatePatterns(call[p].key.dom))
  <2>1. call'[p] = CASE ip # NoIP -> [call[p] EXCEPT !.pc = "fill", !.val = ip]
                     [] ip = NoIP /\ call[p].idx = n -> [call[p] EXCEPT !.pc = "fill"]
                     [] OTHER -> [call[p] EXCEPT !.idx = @ + 1]
    BY <1>1, <1>4 DEF HGet
  <2> HIDE DEF ip, n
  <2>2. \/ call'[p] = [call[p] EXCEPT !.pc = "fill", !.val = ip]
        \/ call'[p] = [call[p] EXCEPT !.pc = "fill"]
        \/ call'[p] = [call[p] EXCEPT !.idx = @ + 1]
    BY <2>1
  <2>3. call[p].pc = "query" BY <1>4 DEF HGet
  <2> QED BY <1>1, <1>2, <2>2, <2>3 DEF Calls
<1>5. CASE RedirectUnavailable(p) BY <1>1, <1>2, <1>5 DEF RedirectUnavailable, Calls
<1>6. CASE Fill(p) BY <1>1, <1>2, <1>6 DEF Fill, Calls
<1> QED BY <1>3, <1>4, <1>5, <1>6 DEF CheckerStep

(* A call of the Checker is about the query's user and name. *)
LEMMA CalledAsks ==
    ASSUME CheckerOK, NEW p \in Procs, NEW kind, Called(p, kind)
    PROVE  /\ call'[p].pc # "idle" /\ call'[p].lag = 0
           /\ call'[p].key = [kind |-> kind, user |-> query[p].user, dom |-> Dom(p)]
<1>1. call \in [Procs -> Calls] BY DEF CheckerOK, CallOK
<1>2. Lookup(p, query[p].user, query[p].name) /\ call'[p].key.kind = kind BY DEF Called
<1>3. PICK k \in Kinds : Lookup(p, query[p].user, query[p].name)!(k) BY <1>2 DEF Lookup
<1>4. PICK key : key = [kind |-> k, user |-> query[p].user, dom |-> Normalize(query[p].name)] OBVIOUS
<1>5. call'[p].key = key /\ call'[p].pc # "idle" /\ call'[p].lag = 0 BY <1>1, <1>3, <1>4
<1>6. k = kind BY <1>2, <1>4, <1>5
<1> QED BY <1>4, <1>5, <1>6 DEF Dom

(* Other goroutines leave a query and its lookup alone. *)
LEMMA OthersKeep ==
    ASSUME HandlerInv, NEW p \in Procs, NEW x \in Procs, x # p, FrontEnd(x) \/ ProcessQuery(x)
    PROVE  query'[p] = query[p] /\ call'[p] = call[p]
<1>1. query \in [Procs -> QueryRecords] /\ call \in [Procs -> Calls]
  BY DEF HandlerInv, HandlerOK, CheckerOK, CallOK
<1>2. query' = query \/ \E r : query' = [query EXCEPT ![x] = r]
  <2>1. HandlerOK BY DEF HandlerInv
  <2>2. CASE FrontEnd(x)
    <3>1. CASE query' = query BY <3>1
    <3>2. CASE \E u \in Users, q \in Queries, empty \in BOOLEAN : HandleDNSQuery(x, u, q, empty)
      BY <3>2, Zenon DEF HandleDNSQuery, Update
    <3> QED BY <2>1, <2>2, <3>1, <3>2, FrontEndUser
  <2>3. CASE ProcessQuery(x) BY <2>1, <2>3, UpdateType
  <2> QED BY <2>2, <2>3
<1>3. call' = call \/ \E c : call' = [call EXCEPT ![x] = c]
  <2>1. CASE FrontEnd(x)
    <3>1. UNCHANGED checkerVars BY <2>1, FrontEndLeaves
    <3> QED BY <3>1 DEF checkerVars
  <2>2. CASE CheckRule(x) \/ GetRedirectDomain(x)
    BY <2>2 DEF CheckRule, GetRedirectDomain, Called, Lookup
  <2>3. CASE RuleResult(x) \/ RedirectResult(x) BY <2>3 DEF RuleResult, RedirectResult, Returned, Return
  <2>4. CASE RateLimited(x) \/ Admitted(x) \/ forwardResponse(x) \/ submitLog(x)
    BY <2>4 DEF RateLimited, Admitted, forwardResponse, submitLog, checkerVars
  <2>5. CASE CheckerStep(x) BY <2>5 DEF CheckerStep, CheckQuery, HGet, RedirectUnavailable, Fill
  <2> QED BY <2>1, <2>2, <2>3, <2>4, <2>5 DEF ProcessQuery
<1> QED BY <1>1, <1>2, <1>3

(* The handler's own steps, one by one. *)
LEMMA ResultStep ==
    ASSUME HandlerInv, NEW p \in Procs, RuleResult(p) \/ RedirectResult(p)
    PROVE  StepInv(p)'
<1>1. query \in [Procs -> QueryRecords] /\ query[p] \in QueryRecords /\ StepInv(p)
  BY DEF HandlerInv, HandlerOK
<1>2. PICK q \in QueryRecords : q = query[p] BY <1>1
<1>3. PICK e : e = query'[p] OBVIOUS
<1>4. e.answer \in IPs => e.answer # "nxdomain" BY NoAddress
<1>5. CASE RuleResult(p)
  <2>1. q.pc = "checking" /\ q.answer = "none" /\ q.status = "ALLOWED" /\ Asked(p, "rule")
    BY <1>1, <1>2, <1>5 DEF RuleResult, At, StepInv, StageOK, Linked
  <2>2. CASE call[p].val = "blocked"
    <3>1. e = [q EXCEPT !.pc = "log", !.answer = "nxdomain", !.status = "BLOCKED"]
      BY <1>1, <1>2, <1>3, <1>5, <2>2 DEF RuleResult, Update, writeBlockResponse
    <3>2. e.pc = "log" /\ e.answer = "nxdomain" /\ e.status = "BLOCKED" BY <3>1 DEF QueryRecords
    <3> QED BY <1>3, <3>2, NoAddress DEF StepInv, StageOK, Linked, PassedOK, Passed, At
  <2>3. CASE call[p].val # "blocked"
    <3>1. e = [q EXCEPT !.pc = "redirect"]
      BY <1>1, <1>2, <1>3, <1>5, <2>3 DEF RuleResult, Update
    <3>2. e.pc = "redirect" /\ e.answer = "none" /\ e.status = "ALLOWED" /\ e.name = q.name
      BY <2>1, <3>1 DEF QueryRecords
    <3>3. call[p].pc = "return" /\ call[p].key.kind = "rule" /\ call[p].key.dom = Dom(p)
      BY <1>5, <2>1 DEF RuleResult, Returned, Return, Asked
    <3>4. ~fallbackCheck(Dom(p)) BY <2>3, <3>3 DEF HandlerInv, AnsweredBlock
    <3> QED BY <1>2, <1>3, <3>2, <3>4 DEF StepInv, StageOK, Linked, PassedOK, Passed, At, Dom
  <2> QED BY <2>2, <2>3
<1>6. CASE RedirectResult(p)
  <2>1. q.pc = "redirecting" /\ q.answer = "none" /\ q.status = "ALLOWED" /\ ~fallbackCheck(Dom(p))
    BY <1>1, <1>2, <1>6 DEF RedirectResult, At, StepInv, StageOK, PassedOK, Passed
  <2>2. \/ e = [q EXCEPT !.pc = "forward"]
        \/ e = [q EXCEPT !.pc = "forward", !.status = "REDIRECTED"]
        \/ e = [q EXCEPT !.pc = "log", !.answer = call[p].val, !.status = "REDIRECTED"] /\ call[p].val \in IPs
    BY <1>1, <1>2, <1>3, <1>6, HandlerAssumption DEF RedirectResult, Update, writeRedirectResponse
  <2>3. CASE e = [q EXCEPT !.pc = "log", !.answer = call[p].val, !.status = "REDIRECTED"] /\ call[p].val \in IPs
    <3>1. e.name = q.name /\ e.pc = "log" /\ e.answer \in IPs /\ e.status = "REDIRECTED"
      BY <2>3 DEF QueryRecords
    <3>2. StageOK(e) BY <1>4, <3>1 DEF StageOK
    <3> QED BY <1>2, <1>3, <2>1, <3>1, <3>2 DEF StepInv, StageOK, Linked, PassedOK, At, Dom
  <2>4. CASE \/ e = [q EXCEPT !.pc = "forward"]
             \/ e = [q EXCEPT !.pc = "forward", !.status = "REDIRECTED"]
    <3>1. e.name = q.name /\ e.pc = "forward" /\ e.answer = "none" /\ e.status # "BLOCKED"
      BY <2>1, <2>4 DEF QueryRecords
    <3>2. StageOK(e) BY <3>1 DEF StageOK
    <3> QED BY <1>2, <1>3, <2>1, <3>1, <3>2 DEF StepInv, StageOK, Linked, PassedOK, At, Dom
  <2> QED BY <2>2, <2>3, <2>4
<1> QED BY <1>5, <1>6

LEMMA ForwardStep ==
    ASSUME HandlerInv, NEW p \in Procs, forwardResponse(p)
    PROVE  StepInv(p)'
<1>1. query \in [Procs -> QueryRecords] /\ query[p] \in QueryRecords /\ StepInv(p)
  BY DEF HandlerInv, HandlerOK
<1>2. PICK q \in QueryRecords : q = query[p] BY <1>1
<1>3. PICK e : e = query'[p] OBVIOUS
<1>4. PICK a \in Resolve : e = [q EXCEPT !.pc = "log", !.answer = a]
  BY <1>1, <1>2, <1>3 DEF forwardResponse, Update
<1>5. q.pc = "forward" /\ q.status # "BLOCKED"
  BY <1>1, <1>2 DEF forwardResponse, At, StepInv, StageOK
<1>6. e.pc = "log" /\ e.answer = a /\ e.status # "BLOCKED" BY <1>4, <1>5 DEF QueryRecords
<1>7. a # "nxdomain" /\ a \notin IPs BY NoAddress DEF Resolve
<1>8. StageOK(e) BY <1>6, <1>7 DEF StageOK
<1> QED BY <1>3, <1>6, <1>7, <1>8 DEF StepInv, StageOK, Linked, PassedOK, Passed, At

LEMMA CallStep ==
    ASSUME HandlerInv, NEW p \in Procs, CheckRule(p) \/ GetRedirectDomain(p)
    PROVE  StepInv(p)'
<1>1. query \in [Procs -> QueryRecords] /\ query[p] \in QueryRecords /\ StepInv(p) /\ CheckerOK
  BY DEF HandlerInv, HandlerOK
<1>2. PICK q \in QueryRecords : q = query[p] BY <1>1
<1>3. PICK e : e = query'[p] OBVIOUS
<1>4. CASE CheckRule(p)
  <2>1. e = [q EXCEPT !.pc = "checking"] BY <1>1, <1>2, <1>3, <1>4 DEF CheckRule, Update
  <2>2. q.answer = "none" /\ q.status = "ALLOWED"
    BY <1>1, <1>2, <1>4 DEF CheckRule, At, StepInv, StageOK
  <2>3. /\ e.pc = "checking" /\ e.answer = "none" /\ e.status = "ALLOWED"
        /\ e.user = q.user /\ e.name = q.name
    BY <2>1, <2>2 DEF QueryRecords
  <2>4. call'[p].pc # "idle" /\ call'[p].key = [kind |-> "rule", user |-> query[p].user, dom |-> Dom(p)]
    BY <1>1, <1>4, CalledAsks DEF CheckRule
  <2> QED BY <1>2, <1>3, <2>3, <2>4, NoAddress
          DEF StepInv, StageOK, Linked, Asked, PassedOK, Passed, At, Dom
<1>5. CASE GetRedirectDomain(p)
  <2>1. e = [q EXCEPT !.pc = "redirecting"] BY <1>1, <1>2, <1>3, <1>5 DEF GetRedirectDomain, Update
  <2>2. q.answer = "none" /\ q.status = "ALLOWED" /\ ~fallbackCheck(Dom(p))
    BY <1>1, <1>2, <1>5 DEF GetRedirectDomain, At, StepInv, StageOK, PassedOK, Passed
  <2>3. /\ e.pc = "redirecting" /\ e.answer = "none" /\ e.status = "ALLOWED"
        /\ e.user = q.user /\ e.name = q.name
    BY <2>1, <2>2 DEF QueryRecords
  <2>4. call'[p].pc # "idle" /\ call'[p].key = [kind |-> "redirect", user |-> query[p].user, dom |-> Dom(p)]
    BY <1>1, <1>5, CalledAsks DEF GetRedirectDomain
  <2> QED BY <1>2, <1>3, <2>2, <2>3, <2>4, NoAddress
          DEF StepInv, StageOK, Linked, Asked, PassedOK, Passed, At, Dom
<1> QED BY <1>4, <1>5

LEMMA StartStep ==
    ASSUME HandlerInv, NEW p \in Procs,
           \/ \E u \in Users, q \in Queries, empty \in BOOLEAN : HandleDNSQuery(p, u, q, empty)
           \/ RateLimited(p) \/ Admitted(p) \/ submitLog(p)
    PROVE  StepInv(p)'
<1>1. query \in [Procs -> QueryRecords] /\ query[p] \in QueryRecords /\ StepInv(p)
  BY DEF HandlerInv, HandlerOK
<1>2. NoQuery \in QueryRecords BY NoQueryType
<1>3. CASE \E u \in Users, q \in Queries, empty \in BOOLEAN : HandleDNSQuery(p, u, q, empty)
  <2>1. PICK u \in Users, q \in Queries, empty \in BOOLEAN : HandleDNSQuery(p, u, q, empty) BY <1>3
  <2>2. query'[p] = [NoQuery EXCEPT !.pc = "limit", !.user = u, !.name = q, !.empty = empty]
    BY <1>1, <2>1 DEF HandleDNSQuery, Update
  <2>3. query'[p].pc = "limit" /\ query'[p].answer = "none" /\ query'[p].status = "ALLOWED"
    BY <1>2, <2>2, IdleStage DEF QueryRecords
  <2> QED BY <2>3, StepStarts
<1>4. CASE RateLimited(p)
  <2>1. query'[p] = [NoQuery EXCEPT !.answer = "refused"]
    BY <1>1, <1>4 DEF RateLimited, Update, writeRateLimitResponse
  <2>2. query'[p].pc = "idle" /\ query'[p].answer = "refused" /\ query'[p].status = "ALLOWED"
    BY <1>2, <2>1, IdleStage DEF QueryRecords
  <2> QED BY <2>2, StepStarts
<1>5. ASSUME query'[p] = NoQuery PROVE StepInv(p)' BY <1>5, IdleStage, StepStarts
<1>6. CASE submitLog(p) BY <1>1, <1>5, <1>6 DEF submitLog, Update
<1>7. CASE Admitted(p)
  <2>1. query'[p] = NoQuery \/ query'[p] = [query[p] EXCEPT !.pc = "rule"]
    BY <1>1, <1>7 DEF Admitted, Update
  <2>2. query[p].answer = "none" /\ query[p].status = "ALLOWED"
    BY <1>1, <1>7 DEF Admitted, At, StepInv, StageOK
  <2>3. CASE query'[p] = [query[p] EXCEPT !.pc = "rule"]
    <3>1. query'[p].pc = "rule" /\ query'[p].answer = "none" /\ query'[p].status = "ALLOWED"
      BY <1>1, <2>2, <2>3 DEF QueryRecords
    <3> QED BY <3>1, StepStarts
  <2> QED BY <1>5, <2>1, <2>3
<1> QED BY <1>3, <1>4, <1>6, <1>7

(* Every step keeps what is known of each query. *)
LEMMA NextStep == HandlerInv /\ [HNext]_hvars => \A p \in Procs : StepInv(p)'
<1> SUFFICES ASSUME HandlerInv, [HNext]_hvars, NEW p \in Procs PROVE StepInv(p)' OBVIOUS
<1>1. StepInv(p) /\ call \in [Procs -> Calls] /\ CheckerOK /\ HandlerOK
  BY DEF HandlerInv, CheckerOK, CallOK
<1>2. ASSUME query'[p] = query[p], call'[p] = call[p] PROVE StepInv(p)' BY <1>1, <1>2, StepKept
<1>3. CASE UNCHANGED hvars BY <1>2, <1>3 DEF hvars, vars, checkerVars, handlerVars
<1>4. ASSUME NEW x \in Procs, x # p, FrontEnd(x) \/ ProcessQuery(x) PROVE StepInv(p)'
  BY <1>2, <1>4, OthersKeep
<1>5. CASE FrontEnd(p) BY <1>1, <1>2, <1>5, FrontEndUser, StartStep
<1>6. CASE ProcessQuery(p)
  <2>1. CASE CheckerStep(p) BY <1>1, <2>1, CheckerStepKeeps, StepKept
  <2> QED BY <1>6, <2>1, StartStep, CallStep, ResultStep, ForwardStep DEF ProcessQuery
<1>7. CASE CacheStep
  BY <1>2, <1>7 DEF CacheStep, ClearUserCache, ClearKey, handlerVars
<1>8. CASE StoreStep
  BY <1>2, <1>8 DEF StoreStep, StoreNext, AddRules, RemoveRule, PutRedirect, RedisFails, handlerVars
<1>9. CASE HandlerTick
  <2>1. query' = query BY <1>9 DEF HandlerTick, handlerVars
  <2>2. call'[p] = IF Busy(p) THEN [call[p] EXCEPT !.lag = @ + 1] ELSE call[p]
    BY <1>9 DEF HandlerTick, Tick
  <2>3. call'[p].key = call[p].key /\ call'[p].pc = call[p].pc BY <1>1, <2>2 DEF Calls
  <2> QED BY <1>1, <2>1, <2>3, StepKept
<1> QED BY <1>3, <1>4, <1>5, <1>6, <1>7, <1>8, <1>9 DEF HNext, QueryStep

LEMMA InitHandlerInv == HInit => HandlerInv
<1> SUFFICES ASSUME HInit PROVE HandlerInv OBVIOUS
<1>1. Init BY DEF HInit, QueryInit
<1>2. HandlerOK /\ CheckerOK /\ Fits BY <1>1, InitHandler, InitChecker, InitFits
<1>3. CachedBlock BY <1>1, CheckerAssumption DEF Init, CachedBlock, Live, NoEntry
<1>4. AnsweredBlock BY <1>1 DEF Init, AnsweredBlock, Idle
<1>5. ASSUME NEW p \in Procs PROVE StepInv(p)
  <2>1. query[p].pc = "idle" /\ query[p].answer = "none" BY IdleStage DEF HInit, QueryInit
  <2> QED BY <2>1, NoAddress DEF StepInv, StageOK, Linked, PassedOK, Passed, At
<1> QED BY <1>2, <1>3, <1>4, <1>5 DEF HandlerInv

LEMMA NextHandlerInv == HandlerInv /\ [HNext]_hvars => HandlerInv'
<1> SUFFICES ASSUME HandlerInv, [HNext]_hvars PROVE HandlerInv' OBVIOUS
<1>1. HandlerOK /\ CheckerOK /\ Fits /\ CachedBlock /\ AnsweredBlock BY DEF HandlerInv
<1>2. [Next]_checkerVars BY <1>1, QueryIsNext
<1>3. HandlerOK' BY <1>1, NextHandler
<1>4. CheckerOK' /\ Fits' /\ CachedBlock' /\ AnsweredBlock'
  BY <1>1, <1>2, NextChecker, NextFits, NextCachedBlock, NextAnsweredBlock
<1> QED BY <1>3, <1>4, NextStep DEF HandlerInv

(* A name on the built-in list is never forwarded and never redirected: the *)
(* verdict that let a query pass was about this very user and name, and no  *)
(* cache entry or lookup has another verdict for such a name.               *)
THEOREM BuiltinNeverResolvedHolds == FairHSpec => []BuiltinNeverResolved
<1>1. HandlerInv => BuiltinNeverResolved
  BY DEF HandlerInv, StepInv, PassedOK, Passed, BuiltinNeverResolved, LetThrough, At
<1> QED BY <1>1, InitHandlerInv, NextHandlerInv, PTL DEF FairHSpec, HSpec

(* The row that is submitted says BLOCKED exactly when the client got       *)
(* NXDOMAIN from the handler, and REDIRECTED when it got an address.        *)
THEOREM RowMatchesAnswerHolds == FairHSpec => []RowMatchesAnswer
<1>1. HandlerInv => RowMatchesAnswer
  <2> SUFFICES ASSUME HandlerInv, NEW p \in Procs, query[p].pc = "log"
               PROVE  /\ (query[p].status = "BLOCKED") <=> (query[p].answer = "nxdomain")
                      /\ query[p].answer \in IPs => query[p].status = "REDIRECTED"
    BY DEF RowMatchesAnswer, At
  <2>1. StageOK(query[p]) BY DEF HandlerInv, StepInv
  <2> QED BY <2>1 DEF StageOK
<1> QED BY <1>1, InitHandlerInv, NextHandlerInv, PTL DEF FairHSpec, HSpec

-----------------------------------------------------------------------------
(* The age of answers.  What the store says now has age 0; what a lookup    *)
(* has read is as old as the lookup; what the cache holds is older by the   *)
(* life the entry has spent; what a query was told ages while it asks for   *)
(* the redirect.                                                            *)
Ages == 0..Cap

HistoryOK ==
    /\ sinceOpen \in [Users \X Doms -> Ages]
    /\ sinceTarget \in [Users \X Doms \X IPs -> Ages]

RecordNow ==
    /\ \A u \in Users, d \in Doms : Open(u, d) => sinceOpen[<<u, d>>] = 0
    /\ \A u \in Users, d \in Doms, ip \in IPs : Pointed(u, d, ip) => sinceTarget[<<u, d, ip>>] = 0

(* An answer that lets a query through, or redirects it, was right at most  *)
(* n ticks ago.                                                             *)
Recent(k, v, n) ==
    /\ k.kind = "rule" /\ v = "allowed" => sinceOpen[<<k.user, k.dom>>] <= n
    /\ k.kind = "redirect" /\ v \in IPs => sinceTarget[<<k.user, k.dom, v>>] <= n

RecentCall(c) ==
    /\ c.pc = "fill" => Recent(c.key, c.val, c.lag)
    /\ c.pc = "return" => Recent(c.key, c.val, Horizon)

RecentEntry(k, e) == e.ttl > 0 => Recent(k, e.val, MaxLag + TTL - e.ttl)

RecentQuery(p) ==
    /\ At(p, "redirect") => sinceOpen[<<query[p].user, Dom(p)>>] <= Horizon
    /\ At(p, "redirecting") => sinceOpen[<<query[p].user, Dom(p)>>] <= Horizon + call[p].lag

FreshInv ==
    /\ HandlerInv /\ HistoryOK /\ RecordNow
    /\ \A p \in Procs : RecentCall(call[p]) /\ RecentQuery(p)
    /\ \A k \in Keys : RecentEntry(k, cache[k])

(* Nothing gets older faster than the clock. *)
Ageing(ticks) ==
    /\ \A u \in Users, d \in Doms : sinceOpen'[<<u, d>>] <= sinceOpen[<<u, d>>] + ticks
    /\ \A u \in Users, d \in Doms, ip \in IPs :
          sinceTarget'[<<u, d, ip>>] <= sinceTarget[<<u, d, ip>>] + ticks

LEMMA AgesAreNumbers == \A n \in Ages : n \in Nat
  BY CheckerAssumption DEF Ages, Cap, Horizon

LEMMA HorizonType == Horizon \in Nat /\ Horizon >= MaxLag /\ Cap \in Nat
  BY CheckerAssumption DEF Horizon, Cap

LEMMA OpenAge ==
    ASSUME NEW f \in [Users \X Doms -> Ages], NEW u \in Users, NEW d \in Doms
    PROVE  f[<<u, d>>] \in Nat
  BY AgesAreNumbers

LEMMA TargetAge ==
    ASSUME NEW f \in [Users \X Doms \X IPs -> Ages], NEW u \in Users, NEW d \in Doms, NEW ip \in IPs
    PROVE  f[<<u, d, ip>>] \in Nat
  BY AgesAreNumbers

LEMMA OlderType ==
    ASSUME NEW n \in Ages, NEW ticks \in Nat
    PROVE  Older(n, ticks) \in Ages /\ Older(n, ticks) <= n + ticks
  BY HorizonType DEF Older, Ages

(* The record is kept as it should be. *)
LEMMA RecordKept ==
    ASSUME HistoryOK, NEW ticks \in Nat, Record(ticks)
    PROVE  HistoryOK' /\ Ageing(ticks) /\ RecordNow'
<1>1. 0 \in Ages BY HorizonType DEF Ages
<1>2. ASSUME NEW u \in Users, NEW d \in Doms
      PROVE  sinceOpen'[<<u, d>>] <= sinceOpen[<<u, d>>] + ticks
  <2>1. sinceOpen[<<u, d>>] \in Ages /\ sinceOpen[<<u, d>>] \in Nat BY OpenAge DEF HistoryOK
  <2>2. sinceOpen'[<<u, d>>] = 0 \/ sinceOpen'[<<u, d>>] = Older(sinceOpen[<<u, d>>], ticks)
    BY DEF Record
  <2>3. Older(sinceOpen[<<u, d>>], ticks) <= sinceOpen[<<u, d>>] + ticks BY <2>1, OlderType
  <2> QED BY <2>1, <2>2, <2>3
<1>3. ASSUME NEW u \in Users, NEW d \in Doms, NEW ip \in IPs
      PROVE  sinceTarget'[<<u, d, ip>>] <= sinceTarget[<<u, d, ip>>] + ticks
  <2>1. sinceTarget[<<u, d, ip>>] \in Ages /\ sinceTarget[<<u, d, ip>>] \in Nat
    BY TargetAge DEF HistoryOK
  <2>2. \/ sinceTarget'[<<u, d, ip>>] = 0
        \/ sinceTarget'[<<u, d, ip>>] = Older(sinceTarget[<<u, d, ip>>], ticks)
    BY DEF Record
  <2>3. Older(sinceTarget[<<u, d, ip>>], ticks) <= sinceTarget[<<u, d, ip>>] + ticks BY <2>1, OlderType
  <2> QED BY <2>1, <2>2, <2>3
<1>4. sinceOpen' \in [Users \X Doms -> Ages]
  <2>1. \A x \in Users \X Doms : Older(sinceOpen[x], ticks) \in Ages BY OlderType DEF HistoryOK
  <2> QED BY <1>1, <2>1 DEF Record
<1>5. sinceTarget' \in [Users \X Doms \X IPs -> Ages]
  <2>1. \A x \in Users \X Doms \X IPs : Older(sinceTarget[x], ticks) \in Ages
    BY OlderType DEF HistoryOK
  <2> QED BY <1>1, <2>1 DEF Record
<1>6. RecordNow' BY DEF RecordNow, Record
<1> QED BY <1>2, <1>3, <1>4, <1>5, <1>6 DEF HistoryOK, Ageing

(* An unrecorded step lets nothing age. *)
LEMMA StillAges == HistoryOK /\ UNCHANGED history => Ageing(0)
<1> SUFFICES ASSUME HistoryOK, UNCHANGED history PROVE Ageing(0) OBVIOUS
<1>1. sinceOpen' = sinceOpen /\ sinceTarget' = sinceTarget BY DEF history
<1>2. ASSUME NEW u \in Users, NEW d \in Doms PROVE sinceOpen'[<<u, d>>] <= sinceOpen[<<u, d>>] + 0
  <2>1. sinceOpen[<<u, d>>] \in Nat BY OpenAge DEF HistoryOK
  <2> QED BY <1>1, <2>1
<1>3. ASSUME NEW u \in Users, NEW d \in Doms, NEW ip \in IPs
      PROVE  sinceTarget'[<<u, d, ip>>] <= sinceTarget[<<u, d, ip>>] + 0
  <2>1. sinceTarget[<<u, d, ip>>] \in Nat BY TargetAge DEF HistoryOK
  <2> QED BY <1>1, <2>1
<1> QED BY <1>2, <1>3 DEF Ageing

(* What was right n ticks ago was right n + ticks ago, ticks later. *)
LEMMA RecentAges ==
    ASSUME HistoryOK, HistoryOK', NEW ticks \in Nat, Ageing(ticks), NEW k \in Keys, NEW v,
           NEW n \in Int, NEW m \in Int, n + ticks <= m, Recent(k, v, n)
    PROVE  Recent(k, v, m)'
<1>1. k.user \in Users /\ k.dom \in Doms BY DEF Keys
<1>2. ASSUME k.kind = "rule", v = "allowed" PROVE sinceOpen'[<<k.user, k.dom>>] <= m
  <2>1. sinceOpen[<<k.user, k.dom>>] \in Nat /\ sinceOpen'[<<k.user, k.dom>>] \in Nat
    BY <1>1, OpenAge DEF HistoryOK
  <2>2. sinceOpen[<<k.user, k.dom>>] <= n BY <1>2 DEF Recent
  <2>3. sinceOpen'[<<k.user, k.dom>>] <= sinceOpen[<<k.user, k.dom>>] + ticks BY <1>1 DEF Ageing
  <2> QED BY <2>1, <2>2, <2>3
<1>3. ASSUME k.kind = "redirect", v \in IPs PROVE sinceTarget'[<<k.user, k.dom, v>>] <= m
  <2>1. sinceTarget[<<k.user, k.dom, v>>] \in Nat /\ sinceTarget'[<<k.user, k.dom, v>>] \in Nat
    BY <1>1, <1>3, TargetAge DEF HistoryOK
  <2>2. sinceTarget[<<k.user, k.dom, v>>] <= n BY <1>3 DEF Recent
  <2>3. sinceTarget'[<<k.user, k.dom, v>>] <= sinceTarget[<<k.user, k.dom, v>>] + ticks
    BY <1>1, <1>3 DEF Ageing
  <2> QED BY <2>1, <2>2, <2>3
<1> QED BY <1>2, <1>3 DEF Recent

(* The age of a lookup's answer after a step, from that of the value. *)
LEMMA RecentNext ==
    /\ \A p \in Procs : \A e : e = call'[p] /\ RecentCall(e)' => RecentCall(call[p])'
    /\ \A k \in Keys : \A e : e = cache'[k] /\ RecentEntry(k, e)' => RecentEntry(k, cache[k])'
  BY DEF RecentCall, RecentEntry, Recent

LEMMA CallAges ==
    ASSUME HistoryOK, HistoryOK', NEW ticks \in Nat, Ageing(ticks), NEW c \in Calls, NEW e \in Calls,
           e.pc = c.pc, e.key = c.key, e.val = c.val, c.pc = "fill" => e.lag = c.lag + ticks,
           c.pc = "return" => ticks = 0, RecentCall(c)
    PROVE  RecentCall(e)'
<1>1. c.key \in Keys /\ c.lag \in Int /\ e.lag \in Int BY CheckerAssumption DEF Calls
<1>2. CASE c.pc = "fill"
  <2>1. Recent(c.key, c.val, c.lag) /\ c.lag + ticks <= e.lag BY <1>1, <1>2 DEF RecentCall
  <2>2. Recent(c.key, c.val, e.lag)' BY <1>1, <2>1, RecentAges
  <2> QED BY <1>2, <2>2 DEF RecentCall, Recent
<1>3. CASE c.pc = "return"
  <2>1. PICK h \in Int : h = Horizon /\ h + ticks <= h BY <1>3, HorizonType
  <2>2. Recent(c.key, c.val, h) BY <1>3, <2>1 DEF RecentCall
  <2>3. Recent(c.key, c.val, h)' BY <1>1, <2>1, <2>2, RecentAges
  <2> QED BY <1>3, <2>1, <2>3 DEF RecentCall, Recent, Horizon
<1> QED BY <1>2, <1>3 DEF RecentCall

LEMMA EntryAges ==
    ASSUME HistoryOK, HistoryOK', NEW ticks \in Nat, Ageing(ticks), NEW k \in Keys,
           NEW e \in Entries, NEW f \in Entries, f.val = e.val, f.ttl + ticks = e.ttl, RecentEntry(k, e)
    PROVE  RecentEntry(k, f)'
<1>0. PICK v : v = e.val OBVIOUS
<1>1. PICK ttl \in Nat, left \in Nat : ttl = e.ttl /\ left = f.ttl
  BY CheckerAssumption DEF Entries
<1> SUFFICES ASSUME left > 0 PROVE Recent(k, v, MaxLag + TTL - left)'
  BY <1>0, <1>1 DEF RecentEntry, Recent
<1>2. PICK n \in Int, m \in Int : n = MaxLag + TTL - ttl /\ m = MaxLag + TTL - left /\ n + ticks <= m
  BY <1>1, CheckerAssumption
<1>3. Recent(k, v, n) BY <1>0, <1>1, <1>2 DEF RecentEntry
<1>4. Recent(k, v, m)' BY <1>2, <1>3, RecentAges
<1> QED BY <1>2, <1>4 DEF Recent

(* What the store says is recent however old the lookup is that reads it. *)
LEMMA ReadNow ==
    ASSUME HistoryOK, HistoryOK', RecordNow, Ageing(0), NEW k \in Keys, NEW v, NEW lag \in Nat,
           \/ k.kind = "rule" /\ v = Verdict(k.user, k.dom)
           \/ k.kind = "redirect" /\ (v \in IPs => Pointed(k.user, k.dom, v))
    PROVE  Recent(k, v, lag)'
<1>1. k.user \in Users /\ k.dom \in Doms BY DEF Keys
<1>2. Recent(k, v, 0)
  <2>1. CASE k.kind = "rule" /\ v = Verdict(k.user, k.dom)
    BY <1>1, <2>1 DEF Recent, RecordNow, Open
  <2>2. CASE k.kind = "redirect" /\ (v \in IPs => Pointed(k.user, k.dom, v))
    BY <1>1, <2>2 DEF Recent, RecordNow
  <2> QED BY <2>1, <2>2
<1> QED BY <1>2, RecentAges

(* A redirect lookup takes only what one of its patterns points to. *)
LEMMA HGetRecent ==
    ASSUME FreshInv, HistoryOK', Ageing(0), NEW p \in Procs, HGet(p), NEW e, e = call'[p]
    PROVE  RecentCall(e)'
<1> DEFINE ip == Field(call[p].key.user, generatePatterns(call[p].key.dom)[call[p].idx])
<1>1. PICK c \in Calls : c = call[p] BY DEF FreshInv, HandlerInv, CheckerOK, CallOK
<1>2. c.pc = "query" /\ c.key.kind = "redirect" BY <1>1 DEF HGet
<1>3. c.val = NoIP /\ c.idx \in 1..Len(generatePatterns(c.key.dom))
  BY <1>1, <1>2 DEF FreshInv, HandlerInv, Fits, CallFits
<1>4. PICK k \in Keys, lag \in Nat : k = c.key /\ lag = c.lag BY CheckerAssumption DEF Calls
<1>5. PICK v : v = ip OBVIOUS
<1>6. e = CASE ip # NoIP -> [call[p] EXCEPT !.pc = "fill", !.val = ip]
            [] ip = NoIP /\ call[p].idx = Len(generatePatterns(call[p].key.dom)) -> [call[p] EXCEPT !.pc = "fill"]
            [] OTHER -> [call[p] EXCEPT !.idx = @ + 1]
  BY DEF HGet, FreshInv, HandlerInv, CheckerOK, CallOK
<1>7. v \in IPs => Pointed(k.user, k.dom, v)
  BY <1>1, <1>3, <1>4, <1>5 DEF Pointed, Patterns
<1> HIDE DEF ip
<1>8. \/ e = [c EXCEPT !.pc = "fill", !.val = v]
      \/ e = [c EXCEPT !.pc = "fill"]
      \/ e = [c EXCEPT !.idx = @ + 1]
  BY <1>1, <1>5, <1>6
<1>9. \/ e.pc = "query"
      \/ e.pc = "fill" /\ e.key = k /\ e.lag = lag /\ (e.val = v \/ e.val = NoIP)
  BY <1>2, <1>3, <1>4, <1>8 DEF Calls
<1>10. Recent(k, v, lag)' /\ Recent(k, NoIP, lag)'
  BY <1>2, <1>4, <1>7, ReadNow, CheckerAssumption DEF FreshInv
<1> QED BY <1>9, <1>10 DEF RecentCall, Recent

(* The other steps of a lookup. *)
LEMMA LookupRecent ==
    ASSUME FreshInv, HistoryOK', Ageing(0), NEW p \in Procs, NEW u \in Users, NEW q \in Queries,
           Lookup(p, u, q), NEW e, e = call'[p]
    PROVE  RecentCall(e)'
<1>1. call \in [Procs -> Calls] /\ cache \in [Keys -> Entries]
  BY DEF FreshInv, HandlerInv, CheckerOK, CallOK, CacheOK
<1>2. PICK kind \in Kinds : Lookup(p, u, q)!(kind) BY DEF Lookup
<1>3. PICK k \in Keys : k = [kind |-> kind, user |-> u, dom |-> Normalize(q)]
  BY CheckerAssumption DEF Keys, Doms
<1>4. PICK v : v = cache[k].val OBVIOUS
<1>5. CASE Live(k)
  <2>1. e = [pc |-> "return", key |-> k, idx |-> 1, val |-> v, ok |-> TRUE, lag |-> 0]
    BY <1>1, <1>2, <1>3, <1>4, <1>5
  <2>2. PICK n \in Int, h \in Int : n = MaxLag + TTL - cache[k].ttl /\ h = Horizon /\ n + 0 <= h
    BY <1>1, <1>5, CheckerAssumption DEF Live, Entries, Horizon
  <2>3. Recent(k, v, n) BY <1>4, <1>5, <2>2 DEF FreshInv, RecentEntry, Live
  <2>4. Recent(k, v, h)' BY <2>2, <2>3, RecentAges DEF FreshInv
  <2> QED BY <2>1, <2>2, <2>4 DEF RecentCall, Recent, Horizon
<1>6. CASE ~Live(k)
  <2>1. e.pc = "query" BY <1>1, <1>2, <1>3, <1>6
  <2> QED BY <2>1 DEF RecentCall
<1> QED BY <1>5, <1>6

LEMMA AnswerRecent ==
    ASSUME FreshInv, HistoryOK', Ageing(0), NEW p \in Procs, NEW e, e = call'[p],
           CheckQuery(p) \/ RedirectUnavailable(p) \/ Fill(p) \/ Return(p)
    PROVE  RecentCall(e)'
<1>1. PICK c \in Calls : c = call[p] BY DEF FreshInv, HandlerInv, CheckerOK, CallOK
<1>2. call \in [Procs -> Calls] /\ RecentCall(c) BY <1>1 DEF FreshInv, HandlerInv, CheckerOK, CallOK
<1>3. PICK k \in Keys, lag \in Nat : k = c.key /\ lag = c.lag /\ lag <= MaxLag
  BY CheckerAssumption DEF Calls
<1>4. CASE CheckQuery(p)
  <2>1. PICK v : v = Verdict(k.user, k.dom) OBVIOUS
  <2>2. k.kind = "rule" BY <1>1, <1>3, <1>4 DEF CheckQuery
  <2>3. e.pc = "fill" /\ e.key = k /\ e.val = v /\ e.lag = lag
    BY <1>1, <1>2, <1>3, <1>4, <2>1 DEF CheckQuery, Calls
  <2>4. Recent(k, v, lag)' BY <2>1, <2>2, ReadNow DEF FreshInv
  <2> QED BY <2>3, <2>4 DEF RecentCall, Recent
<1>5. CASE RedirectUnavailable(p)
  <2>1. c.pc = "query" /\ k.kind = "redirect" BY <1>1, <1>3, <1>5 DEF RedirectUnavailable
  <2>2. c.val = NoIP BY <1>1, <2>1 DEF FreshInv, HandlerInv, Fits, CallFits
  <2>3. e.pc = "return" /\ e.key = k /\ e.val = NoIP
    BY <1>1, <1>2, <1>3, <1>5, <2>2 DEF RedirectUnavailable, Calls
  <2> QED BY <2>1, <2>3, CheckerAssumption DEF RecentCall, Recent
<1>6. CASE Fill(p)
  <2>1. PICK v : v = c.val OBVIOUS
  <2>2. c.pc = "fill" BY <1>1, <1>6 DEF Fill
  <2>3. e.pc = "return" /\ e.key = k /\ e.val = v
    BY <1>1, <1>2, <1>3, <1>6, <2>1 DEF Fill, Calls
  <2>4. Recent(k, v, lag) BY <1>2, <1>3, <2>1, <2>2 DEF RecentCall
  <2>5. PICK h \in Int : h = Horizon /\ lag + 0 <= h BY <1>3, HorizonType, CheckerAssumption
  <2>6. Recent(k, v, h)' BY <2>4, <2>5, RecentAges DEF FreshInv
  <2> QED BY <2>3, <2>5, <2>6 DEF RecentCall, Recent, Horizon
<1>7. CASE Return(p)
  <2>1. e.pc = "idle" BY <1>2, <1>7 DEF Return, Idle
  <2> QED BY <2>1 DEF RecentCall
<1> QED BY <1>4, <1>5, <1>6, <1>7

(* What a step is to the Checker and to the record of the past. *)
LEMMA StepCases ==
    ASSUME FreshInv, [HNext]_hvars
    PROVE  /\ HistoryOK' /\ HandlerInv' /\ RecordNow'
           /\ \/ Ageing(0) /\ (UNCHANGED hvars \/ QueryStep)
              \/ Ageing(1) /\ HandlerTick
<1>1. HistoryOK /\ RecordNow /\ HandlerInv BY DEF FreshInv
<1>2. HandlerInv' BY <1>1, NextHandlerInv
<1>3. CASE UNCHANGED hvars
  <2>1. UNCHANGED history /\ UNCHANGED checkerVars BY <1>3 DEF hvars, vars
  <2>2. HistoryOK' /\ Ageing(0) BY <1>1, <2>1, StillAges DEF HistoryOK, history
  <2>3. RecordNow'
    BY <1>1, <2>1 DEF RecordNow, history, checkerVars, Open, Pointed, Verdict, checkRedis, Field
  <2> QED BY <1>2, <1>3, <2>2, <2>3
<1>4. CASE QueryStep /\ Record(0) BY <1>1, <1>2, <1>4, RecordKept
<1>5. CASE HandlerTick /\ Record(1) BY <1>1, <1>2, <1>5, RecordKept
<1> QED BY <1>3, <1>4, <1>5 DEF HNext

LEMMA NextCallsRecent == FreshInv /\ [HNext]_hvars => \A p \in Procs : RecentCall(call[p])'
<1> SUFFICES ASSUME FreshInv, [HNext]_hvars, NEW p \in Procs PROVE RecentCall(call[p])' OBVIOUS
<1>1. HistoryOK /\ HistoryOK' /\ HandlerOK /\ call \in [Procs -> Calls] /\ call' \in [Procs -> Calls]
  BY StepCases DEF FreshInv, HandlerInv, CheckerOK, CallOK
<1>2. PICK c \in Calls : c = call[p] BY <1>1
<1>3. PICK e \in Calls : e = call'[p] BY <1>1
<1>4. RecentCall(c) BY <1>2 DEF FreshInv
<1> SUFFICES RecentCall(e)' BY <1>3, RecentNext
<1>5. ASSUME Ageing(0), e = c PROVE RecentCall(e)'
  <2>1. c.lag \in Nat BY CheckerAssumption DEF Calls
  <2> QED BY <1>1, <1>4, <1>5, <2>1, CallAges
<1>6. ASSUME NEW x \in Procs, LookupNext!(x), Ageing(0) PROVE RecentCall(e)'
  <2>1. CASE x # p
    <3>1. call'[p] = call[p]
      BY <1>1, <1>6, <2>1 DEF Lookup, CheckQuery, HGet, RedirectUnavailable, Fill, Return
    <3> QED BY <1>2, <1>3, <1>5, <1>6, <3>1
  <2>2. CASE x = p
    <3>1. ASSUME NEW u \in Users, NEW q \in Queries, Lookup(p, u, q) PROVE RecentCall(e)'
      BY <1>1, <1>3, <1>6, <3>1, LookupRecent
    <3>2. CASE HGet(p) BY <1>1, <1>3, <1>6, <3>2, HGetRecent
    <3>3. CASE CheckQuery(p) \/ RedirectUnavailable(p) \/ Fill(p) \/ Return(p)
      BY <1>1, <1>3, <1>6, <3>3, AnswerRecent
    <3> QED BY <1>6, <2>2, <3>1, <3>2, <3>3
  <2> QED BY <2>1, <2>2
<1>7. CASE Ageing(0) /\ (UNCHANGED hvars \/ QueryStep)
  <2>1. LookupNext \/ EvictNext \/ StoreNext \/ UNCHANGED checkerVars
    BY <1>1, <1>7, StepIsNext DEF hvars, vars
  <2>2. CASE LookupNext BY <1>6, <1>7, <2>2 DEF LookupNext
  <2>3. CASE EvictNext \/ StoreNext \/ UNCHANGED checkerVars
    <3>1. call' = call
      BY <2>3 DEF EvictNext, ClearUserCache, ClearKey, SetRedirect, RemoveRedirect, DeleteKey,
                  StoreNext, AddRules, RemoveRule, PutRedirect, RedisFails, checkerVars
    <3> QED BY <1>2, <1>3, <1>5, <1>7, <3>1
  <2> QED BY <2>1, <2>2, <2>3
<1>8. CASE Ageing(1) /\ HandlerTick
  <2>1. e = IF Busy(p) THEN [call[p] EXCEPT !.lag = @ + 1] ELSE call[p]
    BY <1>3, <1>8 DEF HandlerTick, Tick
  <2>2. e.pc = c.pc /\ e.key = c.key /\ e.val = c.val /\ (c.pc = "fill" => e.lag = c.lag + 1)
    BY <1>2, <2>1 DEF Busy, Calls
  <2>3. c.pc # "return" BY <1>2, <1>8 DEF HandlerTick, Computing
  <2> QED BY <1>1, <1>4, <1>8, <2>2, <2>3, CallAges
<1> QED BY <1>7, <1>8, StepCases

LEMMA NextEntriesRecent == FreshInv /\ [HNext]_hvars => \A k \in Keys : RecentEntry(k, cache[k])'
<1> SUFFICES ASSUME FreshInv, [HNext]_hvars, NEW k \in Keys PROVE RecentEntry(k, cache[k])' OBVIOUS
<1>1. /\ HistoryOK /\ HistoryOK' /\ HandlerOK /\ call \in [Procs -> Calls]
      /\ cache \in [Keys -> Entries] /\ cache' \in [Keys -> Entries]
  BY StepCases DEF FreshInv, HandlerInv, CheckerOK, CallOK, CacheOK
<1>2. PICK e \in Entries : e = cache[k] BY <1>1
<1>3. PICK f \in Entries : f = cache'[k] BY <1>1
<1>4. RecentEntry(k, e) BY <1>2 DEF FreshInv
<1> SUFFICES RecentEntry(k, f)' BY <1>3, RecentNext
<1>5. ASSUME Ageing(0), f = e PROVE RecentEntry(k, f)'
  <2>1. e.ttl + 0 = e.ttl BY CheckerAssumption DEF Entries
  <2> QED BY <1>1, <1>4, <1>5, <2>1, EntryAges
<1>6. ASSUME f = NoEntry PROVE RecentEntry(k, f)' BY <1>6 DEF NoEntry, RecentEntry
<1>7. ASSUME Ageing(0), NEW p \in Procs, Fill(p), call[p].key = k PROVE RecentEntry(k, f)'
  <2>1. PICK c \in Calls : c = call[p] BY <1>1
  <2>2. PICK v, lag : v = c.val /\ lag = c.lag OBVIOUS
  <2>3. PICK n \in Int : n = MaxLag + TTL - TTL /\ lag \in Int /\ lag + 0 <= n
    BY <2>2, CheckerAssumption DEF Calls
  <2>4. f = [val |-> v, ttl |-> TTL] BY <1>1, <1>3, <1>7, <2>1, <2>2 DEF Fill, SetEntry
  <2>5. Recent(k, v, lag) BY <1>7, <2>1, <2>2 DEF Fill, FreshInv, RecentCall
  <2>6. Recent(k, v, n)' BY <1>1, <1>7, <2>3, <2>5, RecentAges
  <2> QED BY <2>3, <2>4, <2>6 DEF RecentEntry, Recent
<1>8. CASE Ageing(0) /\ (UNCHANGED hvars \/ QueryStep)
  <2>1. LookupNext \/ EvictNext \/ StoreNext \/ UNCHANGED checkerVars
    BY <1>1, <1>8, StepIsNext DEF hvars, vars
  <2>2. CASE EvictNext
    <3>1. cache' = cache \/ \E K : Drop(K)
      BY <2>2 DEF EvictNext, ClearUserCache, ClearKey, SetRedirect, RemoveRedirect, DeleteKey
    <3>2. cache'[k] = cache[k] \/ cache'[k] = NoEntry BY <3>1 DEF Drop
    <3> QED BY <1>2, <1>3, <1>5, <1>6, <1>8, <3>2
  <2>3. CASE LookupNext
    <3>1. cache' = cache \/ \E p \in Procs : Fill(p)
      BY <2>3 DEF LookupNext, Lookup, CheckQuery, HGet, RedirectUnavailable, Return
    <3>2. ASSUME NEW p \in Procs, Fill(p), call[p].key # k PROVE cache'[k] = cache[k]
      BY <1>1, <3>2 DEF Fill, SetEntry
    <3> QED BY <1>2, <1>3, <1>5, <1>7, <1>8, <3>1, <3>2
  <2>4. CASE StoreNext \/ UNCHANGED checkerVars
    <3>1. cache' = cache
      BY <2>4 DEF StoreNext, AddRules, RemoveRule, PutRedirect, RedisFails, checkerVars
    <3> QED BY <1>2, <1>3, <1>5, <1>8, <3>1
  <2> QED BY <2>1, <2>2, <2>3, <2>4
<1>9. CASE Ageing(1) /\ HandlerTick
  <2>1. f = Aged(e) BY <1>2, <1>3, <1>9 DEF HandlerTick, Tick
  <2>2. f = NoEntry \/ (f.val = e.val /\ f.ttl + 1 = e.ttl)
    BY <2>1, CheckerAssumption DEF Aged, Entries
  <2> QED BY <1>1, <1>4, <1>6, <1>9, <2>2, EntryAges
<1> QED BY <1>8, <1>9, StepCases

(* Whose query it is, and how long ago its name was open. *)
LEMMA OpenAges ==
    ASSUME FreshInv, HistoryOK', NEW ticks \in Nat, Ageing(ticks), NEW p \in Procs,
           NEW n \in Int, NEW m \in Int, n + ticks <= m,
           sinceOpen[<<query[p].user, Dom(p)>>] <= n
    PROVE  sinceOpen'[<<query[p].user, Dom(p)>>] <= m
<1>1. PICK u \in Users, d \in Doms : u = query[p].user /\ d = Dom(p)
  BY DEF FreshInv, HandlerInv, HandlerOK, QueryRecords, Dom, Doms
<1>2. sinceOpen[<<u, d>>] \in Nat /\ sinceOpen'[<<u, d>>] \in Nat BY OpenAge DEF FreshInv, HistoryOK
<1>3. sinceOpen'[<<u, d>>] <= sinceOpen[<<u, d>>] + ticks BY DEF Ageing
<1>4. sinceOpen[<<u, d>>] <= n BY <1>1
<1>5. sinceOpen'[<<u, d>>] <= m BY <1>2, <1>3, <1>4
<1> QED BY <1>1, <1>5

LEMMA QueryAges ==
    ASSUME FreshInv, HistoryOK', CheckerOK', NEW ticks \in Nat, Ageing(ticks), NEW p \in Procs,
           query'[p] = query[p], At(p, "redirect") => ticks = 0,
           At(p, "redirecting") => call'[p].lag = call[p].lag + ticks
    PROVE  RecentQuery(p)'
<1>1. RecentQuery(p) /\ call[p] \in Calls /\ call'[p] \in Calls
  BY DEF FreshInv, HandlerInv, CheckerOK, CallOK
<1>2. call[p].lag \in Nat /\ call'[p].lag \in Nat /\ Horizon \in Nat
  BY <1>1, HorizonType, CheckerAssumption DEF Calls
<1>3. CASE At(p, "redirect")
  <2>1. PICK n \in Int : n = Horizon /\ n + ticks <= n BY <1>2, <1>3
  <2>2. sinceOpen[<<query[p].user, Dom(p)>>] <= n BY <1>1, <1>3, <2>1 DEF RecentQuery
  <2>3. sinceOpen'[<<query[p].user, Dom(p)>>] <= n BY <2>1, <2>2, OpenAges
  <2> QED BY <1>3, <2>1, <2>3 DEF RecentQuery, At, Dom, Horizon
<1>4. CASE At(p, "redirecting")
  <2>1. PICK n \in Int, m \in Int : n = Horizon + call[p].lag /\ m = Horizon + call'[p].lag /\ n + ticks <= m
    BY <1>2, <1>4
  <2>2. sinceOpen[<<query[p].user, Dom(p)>>] <= n BY <1>1, <1>4, <2>1 DEF RecentQuery
  <2>3. sinceOpen'[<<query[p].user, Dom(p)>>] <= m BY <2>1, <2>2, OpenAges
  <2> QED BY <1>4, <2>1, <2>3 DEF RecentQuery, At, Dom, Horizon
<1> QED BY <1>3, <1>4 DEF RecentQuery, At

(* The verdict that lets a query pass is recent, and ages with the lookup   *)
(* of the redirect.                                                         *)
LEMMA PassRecent ==
    ASSUME FreshInv, HistoryOK', Ageing(0), NEW p \in Procs, RuleResult(p) \/ GetRedirectDomain(p)
    PROVE  RecentQuery(p)'
<1>1. query \in [Procs -> QueryRecords] /\ query[p] \in QueryRecords /\ StepInv(p) /\ CheckerOK
  BY DEF FreshInv, HandlerInv, HandlerOK
<1>2. PICK q \in QueryRecords : q = query[p] BY <1>1
<1>3. PICK e : e = query'[p] OBVIOUS
<1>4. PICK h \in Int : h = Horizon /\ h + 0 <= h BY HorizonType
<1>5. CASE RuleResult(p)
  <2>1. CASE call[p].val = "blocked"
    <3>1. e = [q EXCEPT !.pc = "log", !.answer = "nxdomain", !.status = "BLOCKED"]
      BY <1>1, <1>2, <1>3, <1>5, <2>1 DEF RuleResult, Update, writeBlockResponse
    <3>2. e.pc = "log" BY <3>1 DEF QueryRecords
    <3> QED BY <1>3, <3>2 DEF RecentQuery, At
  <2>2. CASE call[p].val # "blocked"
    <3>1. e = [q EXCEPT !.pc = "redirect"] BY <1>1, <1>2, <1>3, <1>5, <2>2 DEF RuleResult, Update
    <3>2. e.pc = "redirect" /\ e.user = q.user /\ e.name = q.name BY <3>1 DEF QueryRecords
    <3>3. call[p].pc = "return" BY <1>5 DEF RuleResult, Returned, Return
    <3>4. call[p].key = [kind |-> "rule", user |-> query[p].user, dom |-> Dom(p)]
      BY <1>1, <1>5 DEF RuleResult, StepInv, Linked, Asked
    <3>5. call[p].key.kind = "rule" /\ call[p].key.user = query[p].user /\ call[p].key.dom = Dom(p)
      BY <3>4
    <3>6. call[p].val = "allowed"
      BY <2>2, <3>3, <3>5 DEF FreshInv, HandlerInv, Fits, CallFits, KindOK, Verdicts
    <3>7. sinceOpen[<<query[p].user, Dom(p)>>] <= h
      BY <1>4, <3>3, <3>5, <3>6 DEF FreshInv, RecentCall, Recent
    <3>8. sinceOpen'[<<query[p].user, Dom(p)>>] <= h BY <1>4, <3>7, OpenAges
    <3> QED BY <1>2, <1>3, <1>4, <3>2, <3>8 DEF RecentQuery, At, Dom, Horizon
  <2> QED BY <2>1, <2>2
<1>6. CASE GetRedirectDomain(p)
  <2>1. e = [q EXCEPT !.pc = "redirecting"] BY <1>1, <1>2, <1>3, <1>6 DEF GetRedirectDomain, Update
  <2>2. e.pc = "redirecting" /\ e.user = q.user /\ e.name = q.name BY <2>1 DEF QueryRecords
  <2>3. call'[p].lag = 0 BY <1>1, <1>6, CalledAsks DEF GetRedirectDomain
  <2>4. sinceOpen[<<query[p].user, Dom(p)>>] <= h
    BY <1>4, <1>6 DEF FreshInv, RecentQuery, GetRedirectDomain
  <2>5. sinceOpen'[<<query[p].user, Dom(p)>>] <= h BY <1>4, <2>4, OpenAges
  <2>6. h = Horizon + call'[p].lag BY <1>4, <2>3, HorizonType
  <2> QED BY <1>2, <1>3, <2>2, <2>5, <2>6 DEF RecentQuery, At, Dom, Horizon
<1> QED BY <1>5, <1>6

(* The other steps of a goroutine leave both stages. *)
LEMMA PassLeft ==
    ASSUME HandlerInv, NEW p \in Procs,
           \/ \E u \in Users, q \in Queries, empty \in BOOLEAN : HandleDNSQuery(p, u, q, empty)
           \/ RateLimited(p) \/ Admitted(p) \/ CheckRule(p)
           \/ RedirectResult(p) \/ forwardResponse(p) \/ submitLog(p)
    PROVE  query'[p].pc \notin {"redirect", "redirecting"}
<1>1. query \in [Procs -> QueryRecords] /\ query[p] \in QueryRecords /\ NoQuery \in QueryRecords
  BY NoQueryType DEF HandlerInv, HandlerOK
<1>2. CASE \E u \in Users, q \in Queries, empty \in BOOLEAN : HandleDNSQuery(p, u, q, empty)
  <2>1. PICK u \in Users, q \in Queries, empty \in BOOLEAN : HandleDNSQuery(p, u, q, empty) BY <1>2
  <2>2. query'[p] = [NoQuery EXCEPT !.pc = "limit", !.user = u, !.name = q, !.empty = empty]
    BY <1>1, <2>1 DEF HandleDNSQuery, Update
  <2>3. query'[p].pc = "limit" BY <1>1, <2>2 DEF QueryRecords
  <2> QED BY <2>3
<1>7. CASE RateLimited(p) \/ submitLog(p)
  BY <1>1, <1>7, IdleStage DEF RateLimited, submitLog, Update, writeRateLimitResponse, QueryRecords
<1>3. CASE Admitted(p) BY <1>1, <1>3, IdleStage DEF Admitted, Update, QueryRecords
<1>4. CASE CheckRule(p) BY <1>1, <1>4 DEF CheckRule, Update, QueryRecords
<1>5. CASE RedirectResult(p)
  BY <1>1, <1>5 DEF RedirectResult, Update, writeRedirectResponse, QueryRecords
<1>6. CASE forwardResponse(p)
  <2>1. PICK a \in Resolve : query'[p] = [query[p] EXCEPT !.pc = "log", !.answer = a]
    BY <1>1, <1>6 DEF forwardResponse, Update
  <2>2. query'[p].pc = "log" BY <1>1, <2>1 DEF QueryRecords
  <2> QED BY <2>2
<1> QED BY <1>2, <1>3, <1>4, <1>5, <1>6, <1>7

LEMMA NextQueriesRecent == FreshInv /\ [HNext]_hvars => \A p \in Procs : RecentQuery(p)'
<1> SUFFICES ASSUME FreshInv, [HNext]_hvars, NEW p \in Procs PROVE RecentQuery(p)' OBVIOUS
<1>1. /\ HistoryOK' /\ CheckerOK' /\ CheckerOK /\ HandlerOK /\ HandlerInv /\ StepInv(p)
      /\ call[p] \in Calls
  BY StepCases DEF FreshInv, HandlerInv, CheckerOK, CallOK
<1>2. ASSUME Ageing(0), query'[p] = query[p], call'[p].lag = call[p].lag PROVE RecentQuery(p)'
  <2>1. call[p].lag = call[p].lag + 0 BY <1>1, CheckerAssumption DEF Calls
  <2> QED BY <1>1, <1>2, <2>1, QueryAges
<1>3. ASSUME query'[p].pc \notin {"redirect", "redirecting"} PROVE RecentQuery(p)'
  BY <1>3 DEF RecentQuery, At
<1>4. CASE Ageing(0) /\ UNCHANGED hvars
  BY <1>2, <1>4 DEF hvars, vars, checkerVars, handlerVars
<1>5. ASSUME Ageing(0), NEW x \in Procs, FrontEnd(x) \/ ProcessQuery(x) PROVE RecentQuery(p)'
  <2>1. CASE x # p BY <1>1, <1>2, <1>5, <2>1, OthersKeep
  <2>2. CASE FrontEnd(p) BY <1>1, <1>2, <1>3, <1>5, <2>2, FrontEndUser, PassLeft
  <2>3. CASE CheckerStep(p) BY <1>1, <1>2, <1>5, <2>3, CheckerStepKeeps
  <2>4. CASE RuleResult(p) \/ GetRedirectDomain(p) BY <1>1, <1>5, <2>4, PassRecent
  <2>5. CASE \/ RateLimited(p) \/ Admitted(p) \/ CheckRule(p)
             \/ RedirectResult(p) \/ forwardResponse(p) \/ submitLog(p)
    BY <1>1, <1>3, <2>5, PassLeft
  <2> QED BY <1>5, <2>1, <2>2, <2>3, <2>4, <2>5 DEF ProcessQuery
<1>6. CASE Ageing(0) /\ (CacheStep \/ StoreStep)
  <2>1. query' = query /\ call' = call
    BY <1>6 DEF CacheStep, ClearUserCache, ClearKey, StoreStep, StoreNext, AddRules, RemoveRule,
                PutRedirect, RedisFails, handlerVars
  <2> QED BY <1>2, <1>6, <2>1
<1>7. CASE Ageing(1) /\ HandlerTick
  <2>1. query' = query BY <1>7 DEF HandlerTick, handlerVars
  <2>2. ~At(p, "redirect") /\ call[p].pc # "return" BY <1>7 DEF HandlerTick, Computing, At
  <2>3. At(p, "redirecting") => call[p].pc # "idle" BY <1>1 DEF StepInv, Linked, Asked
  <2>4. At(p, "redirecting") => Busy(p) BY <1>1, <2>2, <2>3 DEF Busy, Calls
  <2>5. At(p, "redirecting") => call'[p].lag = call[p].lag + 1
    BY <1>1, <1>7, <2>4 DEF HandlerTick, Tick, Calls
  <2> QED BY <1>1, <1>7, <2>1, <2>2, <2>5, QueryAges
<1> QED BY <1>4, <1>5, <1>6, <1>7, StepCases DEF QueryStep

LEMMA InitFresh == HInit => FreshInv
<1> SUFFICES ASSUME HInit PROVE FreshInv OBVIOUS
<1>1. Init BY DEF HInit, QueryInit
<1>2. 0 \in Ages /\ Cap \in Ages BY HorizonType DEF Ages
<1>3. HistoryOK BY <1>2 DEF HInit, HistoryOK
<1>4. RecordNow
  <2>1. ASSUME NEW u \in Users, NEW d \in Doms, Open(u, d) PROVE sinceOpen[<<u, d>>] = 0
    BY <2>1 DEF HInit
  <2>2. ASSUME NEW u \in Users, NEW d \in Doms, NEW ip \in IPs PROVE ~Pointed(u, d, ip)
    BY <1>1, CheckerAssumption DEF Init, Pointed, Field
  <2> QED BY <2>1, <2>2 DEF RecordNow
<1>5. ASSUME NEW p \in Procs PROVE RecentCall(call[p]) /\ RecentQuery(p)
  <2>1. call[p].pc = "idle" /\ query[p].pc = "idle" BY <1>1, IdleStage DEF Init, Idle, HInit, QueryInit
  <2> QED BY <2>1 DEF RecentCall, RecentQuery, At
<1>6. ASSUME NEW k \in Keys PROVE RecentEntry(k, cache[k])
  BY <1>1 DEF Init, RecentEntry, NoEntry
<1> QED BY <1>3, <1>4, <1>5, <1>6, InitHandlerInv DEF FreshInv

LEMMA NextFresh == FreshInv /\ [HNext]_hvars => FreshInv'
<1> SUFFICES ASSUME FreshInv, [HNext]_hvars PROVE FreshInv' OBVIOUS
<1>1. HistoryOK' /\ HandlerInv' /\ RecordNow' BY StepCases
<1> QED BY <1>1, NextCallsRecent, NextEntriesRecent, NextQueriesRecent DEF FreshInv

(* Only the end of the redirect lookup lets a query through or redirects it. *)
LEMMA OnlyRedirectResult ==
    ASSUME FreshInv, HNext, NEW p \in Procs,
           \/ LetThrough(p)' /\ ~LetThrough(p)
           \/ query'[p].answer \in IPs /\ query[p].answer \notin IPs
    PROVE  RedirectResult(p) /\ Ageing(0) /\ HistoryOK'
<1>1. HandlerInv /\ query \in [Procs -> QueryRecords] /\ query[p] \in QueryRecords /\ StepInv(p)
  BY DEF FreshInv, HandlerInv, HandlerOK
<1>2. query'[p] # query[p] BY DEF LetThrough, At
<1>3. HistoryOK' /\ (Ageing(0) \/ HandlerTick) BY StepCases
<1>4. ~HandlerTick /\ ~CacheStep /\ ~StoreStep
  BY <1>2 DEF HandlerTick, CacheStep, StoreStep, handlerVars
<1>5. FrontEnd(p) \/ ProcessQuery(p) BY <1>1, <1>2, <1>4, OthersKeep DEF HNext, QueryStep
<1>6. query'[p].pc = "forward" \/ query'[p].answer \in IPs BY DEF LetThrough, At
<1>7. ASSUME query'[p].pc \in {"idle", "limit", "rule"}, query'[p].answer \in {"none", "refused"} PROVE FALSE
  BY <1>6, <1>7, NoAddress
<1>8. ~CheckerStep(p) BY <1>1, <1>2, CheckerStepKeeps DEF HandlerInv
<1>9. ASSUME \E u \in Users, q \in Queries, empty \in BOOLEAN : HandleDNSQuery(p, u, q, empty) PROVE FALSE
  <2>1. PICK u \in Users, q \in Queries, empty \in BOOLEAN : HandleDNSQuery(p, u, q, empty) BY <1>9
  <2>2. query'[p] = [NoQuery EXCEPT !.pc = "limit", !.user = u, !.name = q, !.empty = empty]
    BY <1>1, <2>1 DEF HandleDNSQuery, Update
  <2>3. query'[p].pc = "limit" /\ query'[p].answer = "none"
    BY <2>2, IdleStage, NoQueryType DEF QueryRecords
  <2> QED BY <1>7, <2>3
<1>10. ASSUME RateLimited(p) \/ submitLog(p) PROVE FALSE
  <2>1. query'[p].pc = "idle" /\ query'[p].answer \in {"none", "refused"}
    BY <1>1, <1>10, IdleStage, NoQueryType
       DEF RateLimited, submitLog, Update, writeRateLimitResponse, QueryRecords
  <2> QED BY <1>7, <2>1
<1>11. ASSUME query[p].answer = "none", NEW s \in {"rule", "checking", "redirect", "redirecting"},
              query'[p] = [query[p] EXCEPT !.pc = s]
       PROVE  FALSE
  <2>1. query'[p].pc = s /\ query'[p].answer = "none" BY <1>1, <1>11 DEF QueryRecords
  <2> QED BY <1>6, <2>1, NoAddress
<1>12. ASSUME Admitted(p) \/ CheckRule(p) \/ GetRedirectDomain(p) PROVE FALSE
  <2>1. query[p].answer = "none"
    BY <1>1, <1>12 DEF Admitted, CheckRule, GetRedirectDomain, At, StepInv, StageOK
  <2>2. \/ query'[p] = NoQuery
        \/ \E s \in {"rule", "checking", "redirecting"} : query'[p] = [query[p] EXCEPT !.pc = s]
    BY <1>1, <1>12 DEF Admitted, CheckRule, GetRedirectDomain, Update
  <2> QED BY <1>7, <1>11, <2>1, <2>2, IdleStage
<1>13. ASSUME RuleResult(p) PROVE FALSE
  <2>1. query[p].answer = "none" BY <1>1, <1>13 DEF RuleResult, At, StepInv, StageOK
  <2>2. \/ query'[p] = [query[p] EXCEPT !.pc = "log", !.answer = "nxdomain", !.status = "BLOCKED"]
        \/ query'[p] = [query[p] EXCEPT !.pc = "redirect"]
    BY <1>1, <1>13 DEF RuleResult, Update, writeBlockResponse
  <2>3. query'[p] = [query[p] EXCEPT !.pc = "redirect"]
    BY <1>1, <1>6, <2>2, NoAddress DEF QueryRecords
  <2> QED BY <1>11, <2>1, <2>3
<1>14. ASSUME forwardResponse(p) PROVE FALSE
  <2>1. PICK a \in Resolve : query'[p] = [query[p] EXCEPT !.pc = "log", !.answer = a]
    BY <1>1, <1>14 DEF forwardResponse, Update
  <2>2. query'[p].pc = "log" /\ query'[p].answer = a BY <1>1, <2>1 DEF QueryRecords
  <2> QED BY <1>6, <2>2, NoAddress DEF Resolve
<1>15. RedirectResult(p)
  BY <1>1, <1>2, <1>5, <1>8, <1>9, <1>10, <1>12, <1>13, <1>14, FrontEndUser
     DEF ProcessQuery, HandlerInv
<1> QED BY <1>3, <1>4, <1>15

(* A query is forwarded or redirected only if its name was open to its user *)
(* at most TTL + 2 * MaxLag - 1 ticks before: the verdict may be a cached   *)
(* one, and it grows MaxLag older while the redirect is looked up.          *)
THEOREM BlockEnforcedHolds == FairHSpec => BlockEnforced
<1>1. FreshInv /\ [HNext]_hvars
      => [\A p \in Procs : LetThrough(p)' /\ ~LetThrough(p)
             => sinceOpen'[<<query[p].user, Dom(p)>>] <= Horizon + MaxLag]_hvars
  <2> SUFFICES ASSUME FreshInv, HNext, NEW p \in Procs, LetThrough(p)', ~LetThrough(p)
               PROVE  sinceOpen'[<<query[p].user, Dom(p)>>] <= Horizon + MaxLag
    OBVIOUS
  <2>1. RedirectResult(p) /\ Ageing(0) /\ HistoryOK' BY OnlyRedirectResult
  <2>2. call[p] \in Calls BY DEF FreshInv, HandlerInv, CheckerOK, CallOK
  <2>3. PICK n \in Int, m \in Int : n = Horizon + call[p].lag /\ m = Horizon + MaxLag /\ n + 0 <= m
    BY <2>2, HorizonType, CheckerAssumption DEF Calls
  <2>4. sinceOpen[<<query[p].user, Dom(p)>>] <= n
    BY <2>1, <2>3 DEF FreshInv, RecentQuery, RedirectResult
  <2>5. sinceOpen'[<<query[p].user, Dom(p)>>] <= m BY <2>1, <2>3, <2>4, OpenAges
  <2> QED BY <2>3, <2>5
<1> QED BY <1>1, InitFresh, NextFresh, PTL DEF FairHSpec, HSpec, BlockEnforced

(* A client is sent to an address only if one of the patterns of its name   *)
(* pointed there in its own user's hash at most TTL + MaxLag - 1 ticks      *)
(* before.                                                                  *)
THEOREM RedirectAsConfiguredHolds == FairHSpec => RedirectAsConfigured
<1>1. FreshInv /\ [HNext]_hvars
      => [\A p \in Procs : query'[p].answer \in IPs /\ query[p].answer \notin IPs
             => sinceTarget'[<<query[p].user, Dom(p), query'[p].answer>>] <= Horizon]_hvars
  <2> SUFFICES ASSUME FreshInv, HNext, NEW p \in Procs,
                      query'[p].answer \in IPs, query[p].answer \notin IPs
               PROVE  sinceTarget'[<<query[p].user, Dom(p), query'[p].answer>>] <= Horizon
    OBVIOUS
  <2>1. RedirectResult(p) /\ Ageing(0) /\ HistoryOK' BY OnlyRedirectResult
  <2>2. query \in [Procs -> QueryRecords] /\ query[p] \in QueryRecords /\ call[p] \in Calls
    BY DEF FreshInv, HandlerInv, HandlerOK, CheckerOK, CallOK
  <2>3. \/ query'[p] = [query[p] EXCEPT !.pc = "forward"]
        \/ query'[p] = [query[p] EXCEPT !.pc = "forward", !.status = "REDIRECTED"]
        \/ query'[p] = [query[p] EXCEPT !.pc = "log", !.answer = call[p].val, !.status = "REDIRECTED"]
    BY <2>1, <2>2 DEF RedirectResult, Update, writeRedirectResponse
  <2>4. query'[p].answer = call[p].val BY <2>2, <2>3 DEF QueryRecords
  <2>5. call[p].key = [kind |-> "redirect", user |-> query[p].user, dom |-> Dom(p)] /\ call[p].pc = "return"
    BY <2>1 DEF FreshInv, HandlerInv, StepInv, Linked, Asked, RedirectResult, Returned, Return
  <2>6. PICK k \in Keys, ip \in IPs : k = call[p].key /\ ip = call[p].val BY <2>2, <2>4 DEF Calls
  <2>7. k.kind = "redirect" /\ k.user = query[p].user /\ k.dom = Dom(p) BY <2>5, <2>6
  <2>8. PICK h \in Int : h = Horizon /\ h + 0 <= h BY HorizonType
  <2>9. Recent(k, ip, h) BY <2>5, <2>6, <2>8 DEF FreshInv, RecentCall
  <2>10. Recent(k, ip, h)' BY <2>1, <2>8, <2>9, RecentAges DEF FreshInv
  <2>11. sinceTarget'[<<k.user, k.dom, ip>>] <= h BY <2>7, <2>10 DEF Recent
  <2> QED BY <2>4, <2>6, <2>7, <2>8, <2>11
<1> QED BY <1>1, InitFresh, NextFresh, PTL DEF FairHSpec, HSpec, RedirectAsConfigured
=============================================================================
