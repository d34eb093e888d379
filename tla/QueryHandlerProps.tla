------------------------- MODULE QueryHandlerProps -------------------------
(***************************************************************************)
(* What the resolver promises of the answers it gives.  QueryHandler with  *)
(* a record of the past, which is not code: how long ago a name was last   *)
(* open to a user, and how long ago an address was last a redirect's.      *)
(***************************************************************************)
EXTENDS QueryHandler

VARIABLES
    sinceOpen,    \* ticks since a lookup would have answered "allowed"
    sinceTarget   \* ticks since a redirect of the user sent the name to the address

history == <<sinceOpen, sinceTarget>>
hvars == <<vars, history>>

(* The oldest answer a lookup may give: read MaxLag before it was cached,   *)
(* served in the last tick of the entry's life.                             *)
Horizon == TTL + MaxLag - 1
Cap == Horizon + MaxLag + 1

Older(n, ticks) == IF n + ticks > Cap THEN Cap ELSE n + ticks

Open(u, d) == Verdict(u, d) = "allowed"
Pointed(u, d, ip) == \E r \in Patterns(d) : Field(u, r) = ip

Record(ticks) ==
    /\ sinceOpen' = [x \in Users \X Doms |->
           IF Open(x[1], x[2])' THEN 0 ELSE Older(sinceOpen[x], ticks)]
    /\ sinceTarget' = [x \in Users \X Doms \X IPs |->
           IF Pointed(x[1], x[2], x[3])' THEN 0 ELSE Older(sinceTarget[x], ticks)]

HInit ==
    /\ QueryInit
    /\ sinceOpen = [x \in Users \X Doms |-> IF Open(x[1], x[2]) THEN 0 ELSE Cap]
    /\ sinceTarget = [x \in Users \X Doms \X IPs |-> Cap]

HNext ==
    \/ QueryStep /\ Record(0)
    \/ HandlerTick /\ Record(1)

HSpec == HInit /\ [][HNext]_hvars

(* Redis commands and the upstream exchange end, by an answer or a timeout; *)
(* a goroutine that can run does.                                           *)
FairHSpec == HSpec /\ \A p \in Procs : WF_vars(ProcessQuery(p))

-----------------------------------------------------------------------------
Dom(p) == Normalize(query[p].name)

LetThrough(p) == At(p, "forward") \/ query[p].answer \in IPs

(* A name on the built-in list is never resolved or redirected, for no user *)
(* and by no front end, whether Redis is there, gone or gone since.         *)
BuiltinNeverResolved ==
    \A p \in Procs : fallbackCheck(Dom(p)) => ~LetThrough(p)

(* A query is let through only if the name was open to the user it came     *)
(* from at some moment of the last TTL + 2 * MaxLag - 1 ticks: no rule      *)
(* against it, or Redis out of reach.  Verdict and redirect are two         *)
(* lookups, each with its own cache entry, and rules change between them.   *)
BlockEnforced ==
    [][\A p \in Procs : LetThrough(p)' /\ ~LetThrough(p)
           => sinceOpen'[<<query[p].user, Dom(p)>>] <= Horizon + MaxLag]_hvars

(* A client is sent to an address only if the address was the target of one *)
(* of its own user's redirects for the name at most TTL + MaxLag - 1 ticks  *)
(* before.                                                                  *)
RedirectAsConfigured ==
    [][\A p \in Procs : query'[p].answer \in IPs /\ query[p].answer \notin IPs
           => sinceTarget'[<<query[p].user, Dom(p), query'[p].answer>>] <= Horizon]_hvars

(* The log tells what the client was told: BLOCKED of the refused names and *)
(* of no other, and never ALLOWED of a redirected one.  The converse of the *)
(* last does not hold: a redirect to no address, or a missing one that was  *)
(* cached, is logged as REDIRECTED and answered by the upstream.            *)
RowMatchesAnswer ==
    \A p \in Procs : At(p, "log") =>
        /\ query[p].status = "BLOCKED" <=> query[p].answer = "nxdomain"
        /\ query[p].answer \in IPs => query[p].status = "REDIRECTED"

(* Every query with a question is given an answer to write, whatever fails  *)
(* behind it: limiter, rule store, upstream.                                *)
EveryQueryAnswered ==
    \A p \in Procs : (At(p, "limit") /\ ~query[p].empty) ~> (query[p].answer # "none")
=============================================================================
