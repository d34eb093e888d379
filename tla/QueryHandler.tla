---------------------------- MODULE QueryHandler ----------------------------
(***************************************************************************)
(* internal/handler and internal/server: the way of a query through one    *)
(* resolver process.  A goroutine takes a query from plain DNS, from a DoT *)
(* connection or from a DoH request, and ProcessQuery asks the rate        *)
(* limiter, the Checker for a verdict, the Checker for a redirect and the  *)
(* upstream resolver, in this order, answers and submits a log row.        *)
(*                                                                         *)
(* The Checker is RuleChecker.  The limiter is known by its three          *)
(* outcomes; RateLimiter says when it has which.  Rows go to SubmitLog,    *)
(* which never blocks; LogAggregator says what becomes of them.            *)
(***************************************************************************)
EXTENDS RuleChecker

CONSTANTS
    StdUser,       \* STD_USER_ID: the user of plain DNS
    UnknownUser,   \* "unknown", the user of a DoT connection without a usable SNI
    ServerNames,   \* SNIs, as label sequences
    Paths,         \* DoH paths, as the sequence of what is between the slashes
    IPv4           \* the redirect targets that net.ParseIP(ip).To4() accepts

ASSUME HandlerAssumption ==
    /\ StdUser \in Users /\ UnknownUser \in Users
    /\ \A n \in ServerNames : Len(n) > 1 /\ n[1] # "" => n[1] \in Users
    /\ \A s \in Paths : s # <<>> /\ s[1] # "" => s[1] \in Users
    /\ IPv4 \subseteq IPs
    /\ IPs \cap {"none", "refused", "nxdomain", "upstream", "servfail"} = {}

VARIABLES
    conn,    \* the user of the DoT connection a goroutine serves
    query    \* the query it is answering

handlerVars == <<conn, query>>
vars == <<checkerVars, handlerVars>>

NoConn == "-"

(* pc: idle, limit, rule, checking, redirect, redirecting, forward, log.    *)
(* answer: what is handed to WriteMsg (none, refused, nxdomain, upstream,   *)
(* servfail or an address); an error of WriteMsg is logged and changes      *)
(* nothing of what follows.                                                 *)
(* status: ALLOWED, BLOCKED or REDIRECTED.                                  *)
NoQuery == [pc |-> "idle", user |-> StdUser, name |-> CHOOSE q \in Queries : TRUE,
            empty |-> FALSE, answer |-> "none", status |-> "ALLOWED"]

QueryInit ==
    /\ Init
    /\ conn = [p \in Procs |-> NoConn]
    /\ query = [p \in Procs |-> NoQuery]

At(p, stage) == query[p].pc = stage
Update(p, q) == query' = [query EXCEPT ![p] = q]

-----------------------------------------------------------------------------
(* The front ends.                                                          *)

(* HandleDNSQuery: ProcessQuery starts. *)
HandleDNSQuery(p, u, q, empty) ==
    /\ At(p, "idle")
    /\ Update(p, [NoQuery EXCEPT !.pc = "limit", !.user = u, !.name = q, !.empty = empty])
    /\ UNCHANGED <<checkerVars, conn>>

(* What comes before the first dot; an error without a dot or with nothing  *)
(* before it, which the connection turns into "unknown".                    *)
ExtractUserFromSNI(n) == IF Len(n) > 1 /\ n[1] # "" THEN n[1] ELSE UnknownUser

(* What comes between the first and the second slash must not be empty. *)
ValidPath(s) == s # <<>> /\ s[1] # ""

ServeDNS(p, q, empty) ==
    /\ conn[p] = NoConn
    /\ HandleDNSQuery(p, StdUser, q, empty)

(* A path without a user gets status 400 and no further. *)
handleDoH(p, s, q, empty) ==
    /\ conn[p] = NoConn
    /\ ValidPath(s)
    /\ HandleDNSQuery(p, s[1], q, empty)

(* The handshake is over; a failed one closes the connection at once. *)
AcceptDoT(p, n) ==
    /\ conn[p] = NoConn /\ At(p, "idle")
    /\ conn' = [conn EXCEPT ![p] = ExtractUserFromSNI(n)]
    /\ UNCHANGED <<checkerVars, query>>

(* The loop of handleDoTConnection: the next message is read when the       *)
(* answer to the last is out.                                               *)
ReadDoT(p, q, empty) ==
    /\ conn[p] # NoConn
    /\ HandleDNSQuery(p, conn[p], q, empty)

(* End of file, a read error or bytes that are no DNS message. *)
CloseDoT(p) ==
    /\ conn[p] # NoConn /\ At(p, "idle")
    /\ conn' = [conn EXCEPT ![p] = NoConn]
    /\ UNCHANGED <<checkerVars, query>>

-----------------------------------------------------------------------------
(* ProcessQuery.                                                            *)

(* The responses the handler makes itself, each with what ProcessQuery does *)
(* to the status around it.                                                 *)
writeRateLimitResponse == [NoQuery EXCEPT !.answer = "refused"]

writeBlockResponse(q) == [q EXCEPT !.pc = "log", !.answer = "nxdomain", !.status = "BLOCKED"]

\* A mistake: the status is not set.
writeRedirectResponseNoStatus(q, ip) ==
    IF ip \in IPv4 THEN [q EXCEPT !.pc = "log", !.answer = ip] ELSE [q EXCEPT !.pc = "forward"]

(* A target that is no IPv4 address is forwarded; the status is REDIRECTED  *)
(* in both cases.                                                           *)
writeRedirectResponse(q, ip) ==
    IF ip \in IPv4 THEN [q EXCEPT !.pc = "log", !.answer = ip, !.status = "REDIRECTED"]
                   ELSE [q EXCEPT !.pc = "forward", !.status = "REDIRECTED"]

(* What comes of the exchange with the upstream: its response, or SERVFAIL  *)
(* for a timeout or any other error.                                        *)
Resolve == {"upstream", "servfail"}

(* The limiter says no, which takes Redis: REFUSED, and no log row. *)
RateLimited(p) ==
    /\ At(p, "limit")
    /\ redisUp
    /\ Update(p, writeRateLimitResponse)
    /\ UNCHANGED <<checkerVars, conn>>

(* The limiter says yes or fails.  A message without a question is then     *)
(* dropped without an answer.                                               *)
Admitted(p) ==
    /\ At(p, "limit")
    /\ Update(p, IF query[p].empty THEN NoQuery ELSE [query[p] EXCEPT !.pc = "rule"])
    /\ UNCHANGED <<checkerVars, conn>>

(* The Checker is called, and its answer is there. *)
Called(p, kind) ==
    /\ Lookup(p, query[p].user, query[p].name)
    /\ call'[p].key.kind = kind
    /\ UNCHANGED conn

Returned(p) ==
    /\ Return(p)
    /\ UNCHANGED conn

CheckRule(p) ==
    /\ At(p, "rule")
    /\ Update(p, [query[p] EXCEPT !.pc = "checking"])
    /\ Called(p, "rule")

\* A mistake: a blocked name with a redirect is redirected.
RuleResultRedirectFirst(p) ==
    /\ At(p, "checking")
    /\ Update(p, [query[p] EXCEPT !.pc = "redirect"])
    /\ Returned(p)

(* A verdict of 1 ends in writeBlockResponse, any other asks for a redirect. *)
RuleResult(p) ==
    /\ At(p, "checking")
    /\ Update(p, IF call[p].val = "blocked" THEN writeBlockResponse(query[p])
                 ELSE [query[p] EXCEPT !.pc = "redirect"])
    /\ Returned(p)

GetRedirectDomain(p) ==
    /\ At(p, "redirect")
    /\ Update(p, [query[p] EXCEPT !.pc = "redirecting"])
    /\ Called(p, "redirect")

RedirectResult(p) ==
    /\ At(p, "redirecting")
    /\ Update(p, IF call[p].ok THEN writeRedirectResponse(query[p], call[p].val)
                 ELSE [query[p] EXCEPT !.pc = "forward"])
    /\ Returned(p)

\* A mistake: an upstream error returns without an answer.
forwardResponseSilent(p) ==
    /\ At(p, "forward")
    /\ \/ Update(p, [query[p] EXCEPT !.pc = "log", !.answer = "upstream"])
       \/ Update(p, NoQuery)
    /\ UNCHANGED <<checkerVars, conn>>

forwardResponse(p) ==
    /\ At(p, "forward")
    /\ \E a \in Resolve :
          Update(p, [query[p] EXCEPT !.pc = "log", !.answer = a])
    /\ UNCHANGED <<checkerVars, conn>>

(* The row with the query's status is handed to the aggregator. *)
submitLog(p) ==
    /\ At(p, "log")
    /\ Update(p, NoQuery)
    /\ UNCHANGED <<checkerVars, conn>>

-----------------------------------------------------------------------------
(* The Checker's own steps, and what happens around it. *)
CheckerStep(p) ==
    /\ CheckQuery(p) \/ HGet(p) \/ RedirectUnavailable(p) \/ Fill(p)
    /\ UNCHANGED handlerVars

CacheStep ==
    /\ (\E u \in Users : ClearUserCache(u)) \/ (\E k \in clearing : ClearKey(k))
    /\ UNCHANGED handlerVars

StoreStep ==
    /\ StoreNext
    /\ UNCHANGED handlerVars

(* Between two calls ProcessQuery only computes: no time passes there. *)
Computing(p) == query[p].pc \in {"rule", "redirect", "log"} \/ call[p].pc = "return"

HandlerTick ==
    /\ Tick
    /\ \A p \in Procs : ~Computing(p)
    /\ UNCHANGED handlerVars

FrontEnd(p) ==
    \/ \E q \in Queries, empty \in BOOLEAN :
          \/ ServeDNS(p, q, empty)
          \/ ReadDoT(p, q, empty)
          \/ \E s \in Paths : handleDoH(p, s, q, empty)
    \/ \E n \in ServerNames : AcceptDoT(p, n)
    \/ CloseDoT(p)

ProcessQuery(p) ==
    \/ RateLimited(p) \/ Admitted(p) \/ CheckRule(p) \/ RuleResult(p)
    \/ GetRedirectDomain(p) \/ RedirectResult(p) \/ forwardResponse(p) \/ submitLog(p)
    \/ CheckerStep(p)

QueryStep ==
    \/ \E p \in Procs : FrontEnd(p) \/ ProcessQuery(p)
    \/ CacheStep \/ StoreStep

QueryNext == QueryStep \/ HandlerTick

QuerySpec == QueryInit /\ [][QueryNext]_vars
=============================================================================
