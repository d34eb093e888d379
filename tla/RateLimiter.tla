---------------------------- MODULE RateLimiter ----------------------------
(***************************************************************************)
(* internal/ratelimit: one user's sliding window, a sorted set in Redis    *)
(* that all resolver replicas share.  AllowQuery reads the clock, names    *)
(* the call by the time and a process-local counter, and runs a Lua        *)
(* script, which Redis executes atomically.                                *)
(*                                                                         *)
(* The replicas' clocks agree; MaxLag bounds the ticks from AllowQuery's   *)
(* time.Now to the script's last execution.                                *)
(***************************************************************************)
EXTENDS Integers, FiniteSets

CONSTANTS
    Callers,     \* goroutines that call AllowQuery
    Replicas,    \* resolver processes
    ReplicaOf,   \* the process of a goroutine
    Limit, Window, MaxLag,
    MaxClock,    \* bound: ticks
    MaxCalls     \* bound: AllowQuery calls per replica

ASSUME LimiterAssumption ==
    /\ ReplicaOf \in [Callers -> Replicas]
    /\ Limit \in Nat /\ Window \in Nat \ {0} /\ MaxLag \in Nat
    /\ MaxClock \in Nat /\ MaxCalls \in Nat

VARIABLES
    clock,
    memberCounter,   \* the process-local counter
    call,            \* a caller's nowMs and counter value while its script is to run
    zset,            \* dns:ratelimit:<user>: members and scores
    expireAt,        \* when EXPIRE drops the key
    admitted         \* script executions that returned 1, and when

vars == <<clock, memberCounter, call, zset, expireAt, admitted>>

NoCall == [now |-> -1, n |-> 0]
InCall(c) == call[c] # NoCall

(* fmt.Sprintf("%d:%d", nowMs, memberCounter.Add(1)): what tells two calls  *)
(* apart in the sorted set.                                                 *)
Member(c) == <<call[c].now, call[c].n>>

Init ==
    /\ clock = 0
    /\ memberCounter = [r \in Replicas |-> 0]
    /\ call = [c \in Callers |-> NoCall]
    /\ zset = {} /\ expireAt = 0 /\ admitted = {}

\* A mistake: the counter is read before it is advanced.
AllowQueryStaleCounter(c) ==
    LET r == ReplicaOf[c]
    IN  /\ ~InCall(c)
        /\ memberCounter[r] < MaxCalls
        /\ memberCounter' = [memberCounter EXCEPT ![r] = @ + 1]
        /\ call' = [call EXCEPT ![c] = [now |-> clock, n |-> memberCounter[r]]]
        /\ UNCHANGED <<clock, zset, expireAt, admitted>>

(* AllowQuery up to the call of the script. *)
AllowQuery(c) ==
    LET r == ReplicaOf[c]
    IN  /\ ~InCall(c)
        /\ memberCounter[r] < MaxCalls
        /\ memberCounter' = [memberCounter EXCEPT ![r] = @ + 1]
        /\ call' = [call EXCEPT ![c] = [now |-> clock, n |-> memberCounter[r] + 1]]
        /\ UNCHANGED <<clock, zset, expireAt, admitted>>

\* A mistake: the entry of exactly one window ago stays.
InWindowLate(now) == {e \in zset : e.score >= now - Window}

\* A mistake: the window starts a tick late, so a call inside it is forgotten.
InWindowShort(now) == {e \in zset : e.score > now - Window + 1}

(* ZREMRANGEBYSCORE key 0 now-win: what it leaves. *)
InWindow(now) == {e \in zset : e.score > now - Window}

\* A mistake: one query more than the limit.
HasRoomOneMore(kept) == Cardinality(kept) <= Limit

(* count < limit *)
HasRoom(kept) == Cardinality(kept) < Limit

(* The script returns 1: ZADD (which moves a member that is there already)  *)
(* and EXPIRE.                                                              *)
ScriptAdmits(c) ==
    /\ HasRoom(InWindow(call[c].now))
    /\ zset' = {e \in InWindow(call[c].now) : e.member # Member(c)}
               \cup {[member |-> Member(c), score |-> call[c].now]}
    /\ expireAt' = clock + Window
    /\ admitted' = admitted \cup {[replica |-> ReplicaOf[c], member |-> Member(c),
                                   stamp |-> call[c].now, at |-> clock]}

(* The script returns 0. *)
ScriptRefuses(c) ==
    /\ ~HasRoom(InWindow(call[c].now))
    /\ zset' = InWindow(call[c].now)
    /\ UNCHANGED <<expireAt, admitted>>

Admit(c) ==
    /\ InCall(c)
    /\ ScriptAdmits(c)
    /\ call' = [call EXCEPT ![c] = NoCall]
    /\ UNCHANGED <<clock, memberCounter>>

Refuse(c) ==
    /\ InCall(c)
    /\ ScriptRefuses(c)
    /\ call' = [call EXCEPT ![c] = NoCall]
    /\ UNCHANGED <<clock, memberCounter>>

(* The script runs and its answer is lost; the client sends the command     *)
(* again, with the same arguments.                                          *)
Resend(c) ==
    /\ InCall(c)
    /\ ScriptAdmits(c) \/ ScriptRefuses(c)
    /\ UNCHANGED <<clock, memberCounter, call>>

(* AllowQuery returns an error: ProcessQuery logs it and answers the query. *)
ScriptFails(c) ==
    /\ InCall(c)
    /\ call' = [call EXCEPT ![c] = NoCall]
    /\ UNCHANGED <<clock, memberCounter, zset, expireAt, admitted>>

Tick ==
    /\ clock < MaxClock
    /\ \A c \in Callers : InCall(c) => clock - call[c].now < MaxLag
    /\ clock' = clock + 1
    /\ zset' = IF clock + 1 >= expireAt THEN {} ELSE zset
    /\ UNCHANGED <<memberCounter, call, expireAt, admitted>>

Next ==
    \/ \E c \in Callers :
          AllowQuery(c) \/ Admit(c) \/ Refuse(c) \/ Resend(c) \/ ScriptFails(c)
    \/ Tick

Spec == Init /\ [][Next]_vars

-----------------------------------------------------------------------------
Members == (0..MaxClock) \X (1..MaxCalls)
Pending == [now : 0..MaxClock, n : 1..MaxCalls]

(* The types of the limiter's variables. *)
TypeOK ==
    /\ clock \in 0..MaxClock
    /\ memberCounter \in [Replicas -> 0..MaxCalls]
    /\ call \in [Callers -> Pending \cup {NoCall}]
    /\ zset \subseteq [member : Members, score : 0..MaxClock]
    /\ expireAt \in Nat
    /\ admitted \subseteq [replica : Replicas, member : Members, stamp : 0..MaxClock, at : 0..MaxClock]

(* The set never holds more than Limit members, whoever wrote them: what    *)
(* the script relies on, and what bounds the key's memory.                  *)
SetBounded == Cardinality(zset) <= Limit

Recent == {a \in admitted : a.at > clock - (Window - MaxLag)}

(* However calls overlap, are delayed or repeated, no stretch of            *)
(* Window - MaxLag ticks admits more than Limit of them: the limit holds    *)
(* for the time of execution up to the delay a call may have.  This is what *)
(* TestAllowQuery_overLimit asserts of one process ("6th request should be  *)
(* blocked").  Two replicas can give one name to two calls of the same      *)
(* millisecond, which then share one place in the set.                      *)
AdmissionBounded == Cardinality({<<a.replica, a.member>> : a \in Recent}) <= Limit

(* The other calls admitted in the window of c. *)
Others(c) ==
    {<<a.replica, a.member>> : a \in {b \in admitted : b.stamp > call[c].now - Window}}
        \ {<<ReplicaOf[c], Member(c)>>}

(* The script has admitted c already; its answer was lost. *)
AdmittedBefore(c) == \E a \in admitted : a.replica = ReplicaOf[c] /\ a.member = Member(c)

(* A query whose script runs once is refused only when Limit other queries  *)
(* were admitted in its window: an expired or emptied set never turns a     *)
(* user away ("request %d should be allowed", TestAllowQuery_underLimit).   *)
(* A script that runs again after a lost answer meets the place its own     *)
(* first execution took: such a query can be refused with one other query   *)
(* fewer in the window, and never with less.                                *)
RefusedOnlyAtLimit ==
    [][\A c \in Callers : Refuse(c) =>
          \/ Cardinality(Others(c)) >= Limit
          \/ AdmittedBefore(c) /\ Cardinality(Others(c)) >= Limit - 1]_vars
=============================================================================
