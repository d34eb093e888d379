------------------------- MODULE RateLimiterProofs -------------------------
(***************************************************************************)
(* Proofs about RateLimiter, for every limit, window, delay and number of  *)
(* callers: the sorted set never exceeds the limit, nobody is refused who  *)
(* is not at it, and when the callers are of one replica the admissions    *)
(* are bounded.                                                            *)
(***************************************************************************)
EXTENDS RateLimiter, FiniteSetTheorems, TLAPS

(* A call under way read a clock that is at most MaxLag behind. *)
CallsInTime ==
    \A c \in Callers : InCall(c) => call[c].now <= clock /\ clock - call[c].now <= MaxLag

(* What is in the set carries its time in its name; what was admitted is    *)
(* stamped at most MaxLag before its execution, and the key lives on for a  *)
(* window after the last one.                                               *)
Stamped ==
    /\ \A e \in zset : e.score = e.member[1]
    /\ \A a \in admitted : /\ a.stamp = a.member[1]
                           /\ a.at <= clock /\ a.at - a.stamp <= MaxLag
                           /\ a.at + Window <= expireAt

(* An admission the limit still has to count is in the set. *)
RecentInSet == \A a \in Recent : \E e \in zset : e.member = a.member

FiniteBounded == IsFiniteSet(zset) /\ SetBounded

-----------------------------------------------------------------------------
(* The types hold at the start. *)
LEMMA InitType == Init => TypeOK
  BY LimiterAssumption DEF Init, TypeOK

(* A pending call has a name and a time of the right types. *)
LEMMA PendingType ==
    ASSUME TypeOK, NEW c \in Callers, InCall(c)
    PROVE  call[c] \in Pending /\ Member(c) \in Members
  BY DEF TypeOK, InCall, Pending, Member, Members

(* The types survive every step. *)
LEMMA NextType == TypeOK /\ [Next]_vars => TypeOK'
<1> SUFFICES ASSUME TypeOK, [Next]_vars PROVE TypeOK' OBVIOUS
<1> USE LimiterAssumption
<1>1. ASSUME NEW c \in Callers, AllowQuery(c) PROVE TypeOK'
  BY <1>1 DEF AllowQuery, TypeOK, Pending
<1>2. ASSUME NEW c \in Callers, InCall(c), ScriptAdmits(c)
      PROVE  /\ zset' \subseteq [member : Members, score : 0..MaxClock]
             /\ expireAt' \in Nat
             /\ admitted' \subseteq [replica : Replicas, member : Members, stamp : 0..MaxClock,
                                     at : 0..MaxClock]
  <2>1. Member(c) \in Members /\ call[c].now \in 0..MaxClock BY <1>2, PendingType DEF Pending
  <2>2. [member |-> Member(c), score |-> call[c].now] \in [member : Members, score : 0..MaxClock]
    BY <2>1
  <2>3. [replica |-> ReplicaOf[c], member |-> Member(c), stamp |-> call[c].now, at |-> clock]
          \in [replica : Replicas, member : Members, stamp : 0..MaxClock, at : 0..MaxClock]
    BY <2>1 DEF TypeOK
  <2>4. zset' \subseteq [member : Members, score : 0..MaxClock]
    BY <1>2, <2>2 DEF ScriptAdmits, InWindow, TypeOK
  <2>5. admitted' \subseteq [replica : Replicas, member : Members, stamp : 0..MaxClock, at : 0..MaxClock]
    BY <1>2, <2>3 DEF ScriptAdmits, TypeOK
  <2>6. QED BY <1>2, <2>4, <2>5 DEF ScriptAdmits, TypeOK
<1>3. ASSUME NEW c \in Callers, ScriptRefuses(c)
      PROVE  /\ zset' \subseteq [member : Members, score : 0..MaxClock]
             /\ expireAt' \in Nat
             /\ admitted' \subseteq [replica : Replicas, member : Members, stamp : 0..MaxClock,
                                     at : 0..MaxClock]
  BY <1>3 DEF ScriptRefuses, InWindow, TypeOK
<1>4. ASSUME NEW c \in Callers, Admit(c) PROVE TypeOK'
  BY <1>4, <1>2 DEF Admit, TypeOK
<1>5. ASSUME NEW c \in Callers, Refuse(c) PROVE TypeOK'
  BY <1>5, <1>3 DEF Refuse, TypeOK
<1>6. ASSUME NEW c \in Callers, Resend(c) PROVE TypeOK'
  BY <1>6, <1>2, <1>3 DEF Resend, TypeOK
<1>7. ASSUME NEW c \in Callers, ScriptFails(c) PROVE TypeOK'
  BY <1>7 DEF ScriptFails, TypeOK
<1>8. CASE Tick BY <1>8 DEF Tick, TypeOK
<1>9. CASE UNCHANGED vars BY <1>9 DEF vars, TypeOK
<1>10. QED BY <1>1, <1>4, <1>5, <1>6, <1>7, <1>8, <1>9 DEF Next

-----------------------------------------------------------------------------
(* What the script does to a bounded set: it stays finite and bounded. *)
LEMMA ScriptBounded ==
    ASSUME FiniteBounded, NEW c \in Callers, ScriptAdmits(c) \/ ScriptRefuses(c)
    PROVE  FiniteBounded'
<1> USE LimiterAssumption
<1> DEFINE kept == InWindow(call[c].now)
<1>1. kept \in SUBSET zset BY DEF InWindow
<1>2. IsFiniteSet(kept) /\ Cardinality(kept) <= Cardinality(zset)
  BY <1>1, FS_Subset DEF FiniteBounded
<1>3. Cardinality(kept) \in Nat /\ Cardinality(zset) \in Nat
  BY <1>2, FS_CardinalityType DEF FiniteBounded
<1>4. CASE ScriptRefuses(c)
  <2>1. zset' = kept BY <1>4 DEF ScriptRefuses
  <2>2. QED BY <1>2, <1>3, <2>1 DEF FiniteBounded, SetBounded
<1>5. CASE ScriptAdmits(c)
  <2> DEFINE rest == {e \in kept : e.member # Member(c)}
  <2> DEFINE new == [member |-> Member(c), score |-> call[c].now]
  <2>1. zset' = rest \cup {new} /\ Cardinality(kept) < Limit BY <1>5 DEF ScriptAdmits, HasRoom
  <2>2. rest \in SUBSET kept OBVIOUS
  <2>3. IsFiniteSet(rest) /\ Cardinality(rest) <= Cardinality(kept) BY <1>2, <2>2, FS_Subset
  <2>4. Cardinality(rest) \in Nat BY <2>3, FS_CardinalityType
  <2>5. IsFiniteSet(rest \cup {new}) /\ Cardinality(rest \cup {new}) <= Cardinality(rest) + 1
    <3> HIDE DEF rest, new
    <3>1. /\ IsFiniteSet(rest \cup {new})
          /\ Cardinality(rest \cup {new}) = IF new \in rest THEN Cardinality(rest)
                                            ELSE Cardinality(rest) + 1
      BY <2>3, FS_AddElement
    <3>2. QED BY <2>4, <3>1
  <2>6. Cardinality(rest \cup {new}) \in Nat BY <2>5, FS_CardinalityType
  <2> HIDE DEF rest, new, kept
  <2>7. Cardinality(rest \cup {new}) <= Limit BY <1>3, <2>1, <2>3, <2>4, <2>5, <2>6
  <2>8. QED BY <2>1, <2>5, <2>7 DEF FiniteBounded, SetBounded
<1>6. QED BY <1>4, <1>5

(* No step of any caller makes the set exceed the limit. *)
LEMMA NextBounded == FiniteBounded /\ [Next]_vars => FiniteBounded'
<1> SUFFICES ASSUME FiniteBounded, [Next]_vars PROVE FiniteBounded' OBVIOUS
<1>1. ASSUME NEW c \in Callers, Admit(c) \/ Refuse(c) \/ Resend(c) PROVE FiniteBounded'
  BY <1>1, ScriptBounded DEF Admit, Refuse, Resend
<1>2. ASSUME NEW c \in Callers, AllowQuery(c) \/ ScriptFails(c) PROVE FiniteBounded'
  BY <1>2 DEF AllowQuery, ScriptFails, FiniteBounded, SetBounded
<1>3. CASE Tick
  <2>1. zset' = {} \/ zset' = zset BY <1>3 DEF Tick
  <2>2. QED BY <2>1, FS_EmptySet, LimiterAssumption DEF FiniteBounded, SetBounded
<1>4. CASE UNCHANGED vars BY <1>4 DEF vars, FiniteBounded, SetBounded
<1>5. QED BY <1>1, <1>2, <1>3, <1>4 DEF Next

(* The sorted set of a user never holds more than Limit members, for any    *)
(* number of callers and replicas.                                          *)
THEOREM SetBoundedHolds == Spec => []SetBounded
<1>1. Init => FiniteBounded
  BY FS_EmptySet, LimiterAssumption DEF Init, FiniteBounded, SetBounded
<1>2. FiniteBounded => SetBounded BY DEF FiniteBounded
<1>3. QED BY <1>1, <1>2, NextBounded, PTL DEF Spec

(* The limiter's variables keep their types. *)
THEOREM TypeCorrect == Spec => []TypeOK
  BY InitType, NextType, PTL DEF Spec

-----------------------------------------------------------------------------
(* Times: what calls read and what admissions carry. *)
Timed == CallsInTime /\ Stamped

(* No step breaks what is known of the times of calls and admissions. *)
LEMMA NextTimed == TypeOK /\ Timed /\ [Next]_vars => Timed'
<1> SUFFICES ASSUME TypeOK, Timed, [Next]_vars PROVE Timed' OBVIOUS
<1> USE LimiterAssumption
<1>0. clock \in Int /\ expireAt \in Int /\ \A c \in Callers : InCall(c) => call[c].now \in Int
  BY PendingType DEF TypeOK, Pending
<1>1. ASSUME NEW c \in Callers, AllowQuery(c) PROVE Timed'
  <2>1. UNCHANGED <<clock, zset, expireAt, admitted>> BY <1>1 DEF AllowQuery
  <2>2. \A d \in Callers : d # c => call'[d] = call[d] BY <1>1 DEF AllowQuery, TypeOK
  <2>3. call'[c].now = clock BY <1>1 DEF AllowQuery, TypeOK
  <2>4. CallsInTime' BY <1>0, <2>1, <2>2, <2>3 DEF Timed, CallsInTime, InCall
  <2>5. QED BY <2>1, <2>4 DEF Timed, Stamped
<1>2. ASSUME NEW c \in Callers, InCall(c), ScriptAdmits(c), clock' = clock PROVE Stamped'
  <2>1. Member(c)[1] = call[c].now BY DEF Member
  <2>2. \A e \in zset' : e.score = e.member[1]
    BY <1>2, <2>1 DEF ScriptAdmits, InWindow, Timed, Stamped
  <2>3. expireAt' = clock + Window /\ expireAt' \in Int BY <1>0, <1>2 DEF ScriptAdmits
  <2>4. ASSUME NEW a \in admitted
        PROVE  a.stamp = a.member[1] /\ a.at <= clock /\ a.at - a.stamp <= MaxLag
               /\ a.at + Window <= expireAt'
    <3>1. a.at \in Int BY DEF TypeOK
    <3>2. a.stamp = a.member[1] /\ a.at <= clock /\ a.at - a.stamp <= MaxLag
      BY DEF Timed, Stamped
    <3>3. QED BY <1>0, <2>3, <3>1, <3>2
  <2>5. call[c].now <= clock /\ clock - call[c].now <= MaxLag BY <1>2 DEF Timed, CallsInTime
  <2>6. \A a \in admitted' : a \in admitted \/ (a.stamp = call[c].now /\ a.member = Member(c) /\ a.at = clock)
    BY <1>2 DEF ScriptAdmits
  <2>7. \A a \in admitted' : /\ a.stamp = a.member[1]
                             /\ a.at <= clock /\ a.at - a.stamp <= MaxLag
                             /\ a.at + Window <= expireAt'
    BY <1>0, <2>1, <2>3, <2>4, <2>5, <2>6
  <2>8. QED BY <1>2, <2>2, <2>7 DEF Stamped
<1>3. ASSUME NEW c \in Callers, ScriptRefuses(c), clock' = clock PROVE Stamped'
  BY <1>3 DEF ScriptRefuses, InWindow, Timed, Stamped
<1>4. ASSUME NEW c \in Callers, call' = [call EXCEPT ![c] = NoCall] \/ call' = call, clock' = clock
      PROVE  CallsInTime'
  BY <1>4 DEF Timed, CallsInTime, InCall, TypeOK
<1>5. ASSUME NEW c \in Callers, Admit(c) \/ Refuse(c) \/ Resend(c) PROVE Timed'
  BY <1>2, <1>3, <1>4, <1>5 DEF Admit, Refuse, Resend, Timed
<1>6. ASSUME NEW c \in Callers, ScriptFails(c) PROVE Timed'
  BY <1>4, <1>6 DEF ScriptFails, Timed, Stamped
<1>7. CASE Tick
  <2>1. clock' = clock + 1 /\ UNCHANGED <<call, expireAt, admitted>> /\ zset' \subseteq zset
    BY <1>7 DEF Tick
  <2>2. CallsInTime'
    BY <1>0, <1>7, <2>1 DEF Tick, Timed, CallsInTime, InCall
  <2>3. \A a \in admitted : a.at \in Int BY DEF TypeOK
  <2>4. Stamped' BY <1>0, <2>1, <2>3 DEF Timed, Stamped
  <2>5. QED BY <2>2, <2>4 DEF Timed
<1>8. CASE UNCHANGED vars BY <1>8 DEF vars, Timed, CallsInTime, Stamped, InCall
<1>9. QED BY <1>1, <1>5, <1>6, <1>7, <1>8 DEF Next

(* An admission that the limit still counts is not removed from the set: a  *)
(* later call removes what is a window older than its own clock, and that   *)
(* clock is not ahead.                                                      *)
LEMMA NextRecentInSet ==
    TypeOK /\ Timed /\ RecentInSet /\ [Next]_vars => RecentInSet'
<1> SUFFICES ASSUME TypeOK, Timed, RecentInSet, [Next]_vars PROVE RecentInSet' OBVIOUS
<1> USE LimiterAssumption
<1>0. clock \in Int /\ expireAt \in Int
      /\ \A a \in admitted : a.at \in Int /\ a.stamp \in Int
  BY DEF TypeOK
<1>1. ASSUME NEW c \in Callers, InCall(c), NEW a \in Recent
      PROVE  \E e \in InWindow(call[c].now) : e.member = a.member
  <2>1. PICK e \in zset : e.member = a.member BY <1>1 DEF RecentInSet
  <2>2. e.score = a.stamp BY <1>1, <2>1 DEF Timed, Stamped, Recent
  <2>3. a.at > clock - (Window - MaxLag) /\ a.at - a.stamp <= MaxLag /\ a \in admitted
    BY <1>1 DEF Recent, Timed, Stamped
  <2>4. call[c].now <= clock /\ call[c].now \in Int
    BY <1>1, PendingType DEF Timed, CallsInTime, Pending
  <2>5. a.stamp > call[c].now - Window BY <1>0, <2>3, <2>4
  <2>6. QED BY <2>1, <2>2, <2>5 DEF InWindow
<1>2. ASSUME NEW c \in Callers, InCall(c), ScriptAdmits(c), clock' = clock PROVE RecentInSet'
  <2>0. [member |-> Member(c), score |-> call[c].now] \in zset' BY <1>2 DEF ScriptAdmits
  <2>1. ASSUME NEW a \in Recent PROVE \E e \in zset' : e.member = a.member
    <3>1. PICK e \in InWindow(call[c].now) : e.member = a.member BY <1>1, <1>2, <2>1
    <3>2. CASE e.member = Member(c) BY <2>0, <3>1, <3>2
    <3>3. CASE e.member # Member(c) BY <1>2, <3>1, <3>3 DEF ScriptAdmits
    <3>4. QED BY <3>2, <3>3
  <2>2. \E e \in zset' : e.member = Member(c) BY <2>0
  <2>3. \A a \in Recent' : a \in Recent \/ a.member = Member(c)
    BY <1>2 DEF ScriptAdmits, Recent
  <2>4. QED BY <2>1, <2>2, <2>3 DEF RecentInSet
<1>3. ASSUME NEW c \in Callers, InCall(c), ScriptRefuses(c), clock' = clock PROVE RecentInSet'
  <2>1. Recent' = Recent /\ zset' = InWindow(call[c].now) BY <1>3 DEF ScriptRefuses, Recent
  <2>2. QED BY <1>1, <1>3, <2>1 DEF RecentInSet
<1>4. ASSUME NEW c \in Callers, Admit(c) \/ Refuse(c) \/ Resend(c) PROVE RecentInSet'
  BY <1>2, <1>3, <1>4 DEF Admit, Refuse, Resend
<1>5. ASSUME NEW c \in Callers, AllowQuery(c) \/ ScriptFails(c) PROVE RecentInSet'
  BY <1>5 DEF AllowQuery, ScriptFails, RecentInSet, Recent
<1>6. CASE Tick
  <2>1. clock' = clock + 1 /\ admitted' = admitted BY <1>6 DEF Tick
  <2>2. Recent' \subseteq Recent BY <1>0, <2>1 DEF Recent
  <2>3. CASE zset' = zset BY <2>2, <2>3 DEF RecentInSet
  <2>4. CASE clock + 1 >= expireAt
    <3>1. \A a \in admitted : ~(a.at > clock + 1 - (Window - MaxLag))
      BY <1>0, <2>4 DEF Timed, Stamped
    <3>2. \A a \in Recent' : a \in admitted' /\ a.at > clock' - (Window - MaxLag) BY DEF Recent
    <3>3. \A a \in Recent' : FALSE BY <1>0, <2>1, <3>1, <3>2
    <3>4. QED BY <3>3 DEF RecentInSet
  <2>5. QED BY <1>6, <2>3, <2>4 DEF Tick
<1>7. CASE UNCHANGED vars BY <1>7 DEF vars, RecentInSet, Recent
<1>8. QED BY <1>4, <1>5, <1>6, <1>7 DEF Next

(* Admissions come from the replicas of the callers. *)
LEMMA NextReplica ==
    ASSUME NEW r, \A c \in Callers : ReplicaOf[c] = r
    PROVE  (\A a \in admitted : a.replica = r) /\ [Next]_vars => (\A a \in admitted : a.replica = r)'
  BY DEF Next, vars, AllowQuery, Admit, Refuse, Resend, ScriptFails, ScriptAdmits, ScriptRefuses, Tick

(* With the callers of one replica, no stretch of Window - MaxLag ticks     *)
(* admits more than Limit calls, for any limit, window, delay, number of    *)
(* callers and repetition of commands.                                      *)
THEOREM AdmissionBoundedHolds ==
    ASSUME NEW r, \A c \in Callers : ReplicaOf[c] = r
    PROVE  Spec => []AdmissionBounded
<1> DEFINE Own == \A a \in admitted : a.replica = r
<1> DEFINE Inv == TypeOK /\ Timed /\ RecentInSet /\ FiniteBounded /\ Own
<1>1. Init => Inv
  <2> SUFFICES ASSUME Init PROVE Inv OBVIOUS
  <2>1. FiniteBounded BY FS_EmptySet, LimiterAssumption DEF Init, FiniteBounded, SetBounded
  <2>2. Timed /\ RecentInSet /\ Own
    BY DEF Init, Timed, CallsInTime, InCall, Stamped, RecentInSet, Recent
  <2>3. QED BY <2>1, <2>2, InitType
<1>2. Inv /\ [Next]_vars => Inv'
  <2> SUFFICES ASSUME Inv, [Next]_vars PROVE Inv' OBVIOUS
  <2>1. Own' BY NextReplica
  <2>2. QED BY <2>1, NextType, NextTimed, NextRecentInSet, NextBounded
<1>3. Inv => AdmissionBounded
  <2> SUFFICES ASSUME Inv PROVE AdmissionBounded OBVIOUS
  <2> DEFINE Names == {<<a.replica, a.member>> : a \in Recent}
  <2> DEFINE Places == {<<r, e.member>> : e \in zset}
  <2> DEFINE f == [e \in zset |-> <<r, e.member>>]
  <2>1. Names \in SUBSET Places BY DEF RecentInSet, Recent
  <2>2. f \in Surjection(zset, Places) BY DEF Surjection
  <2>3. IsFiniteSet(Places) /\ Cardinality(Places) <= Cardinality(zset)
    <3> HIDE DEF Places, f
    <3>1. QED BY <2>2, FS_Surjection DEF FiniteBounded
  <2>4. IsFiniteSet(Names) /\ Cardinality(Names) <= Cardinality(Places)
    <3> HIDE DEF Places, Names
    <3>1. QED BY <2>1, <2>3, FS_Subset
  <2>5. Cardinality(Names) \in Nat /\ Cardinality(Places) \in Nat /\ Cardinality(zset) \in Nat
    <3> HIDE DEF Places, Names
    <3>1. QED BY <2>3, <2>4, FS_CardinalityType DEF FiniteBounded
  <2>6. Cardinality(Names) <= Limit
    <3> HIDE DEF Places, Names
    <3>1. QED BY <2>3, <2>4, <2>5, LimiterAssumption DEF FiniteBounded, SetBounded
  <2>7. QED BY <2>6 DEF AdmissionBounded
<1> HIDE DEF Inv
<1>4. QED BY <1>1, <1>2, <1>3, PTL DEF Spec

-----------------------------------------------------------------------------
(* What is in the set was put there by an admission of that name and time. *)
Sourced ==
    /\ IsFiniteSet(admitted)
    /\ \A e \in zset : \E a \in admitted : a.member = e.member /\ a.stamp = e.score

LEMMA NextSourced == Sourced /\ [Next]_vars => Sourced'
<1> SUFFICES ASSUME Sourced, [Next]_vars PROVE Sourced' OBVIOUS
<1>1. ASSUME NEW c \in Callers, ScriptAdmits(c) PROVE Sourced'
  <2> DEFINE new == [replica |-> ReplicaOf[c], member |-> Member(c), stamp |-> call[c].now, at |-> clock]
  <2>1. admitted' = admitted \cup {new} BY <1>1 DEF ScriptAdmits
  <2>2. IsFiniteSet(admitted')
    <3> HIDE DEF new
    <3>1. IsFiniteSet(admitted \cup {new}) BY FS_AddElement DEF Sourced
    <3> QED BY <2>1, <3>1
  <2>3. new.member = Member(c) /\ new.stamp = call[c].now OBVIOUS
  <2>4. \A e \in zset' : e \in zset \/ (e.member = Member(c) /\ e.score = call[c].now)
    BY <1>1 DEF ScriptAdmits, InWindow
  <2> HIDE DEF new
  <2> QED BY <2>1, <2>2, <2>3, <2>4 DEF Sourced
<1>2. ASSUME NEW c \in Callers, ScriptRefuses(c) PROVE Sourced'
  BY <1>2 DEF ScriptRefuses, InWindow, Sourced
<1>3. ASSUME NEW c \in Callers, Admit(c) \/ Refuse(c) \/ Resend(c) PROVE Sourced'
  BY <1>1, <1>2, <1>3 DEF Admit, Refuse, Resend
<1>4. ASSUME NEW c \in Callers, AllowQuery(c) \/ ScriptFails(c) PROVE Sourced'
  BY <1>4 DEF AllowQuery, ScriptFails, Sourced
<1>5. CASE Tick BY <1>5 DEF Tick, Sourced
<1>6. CASE UNCHANGED vars BY <1>6 DEF vars, Sourced
<1> QED BY <1>3, <1>4, <1>5, <1>6 DEF Next

(* A call is refused only if Limit other calls were admitted with stamps    *)
(* inside its window, or one fewer and its own first execution, whose       *)
(* answer was lost: a name fixes the score, so the places that are taken    *)
(* are as many different admissions, and at most one of them its own.       *)
THEOREM RefusedOnlyAtLimitHolds == Spec => RefusedOnlyAtLimit
<1> DEFINE Inv == TypeOK /\ Timed /\ FiniteBounded /\ Sourced
<1>1. Init => Inv
  <2> SUFFICES ASSUME Init PROVE Inv OBVIOUS
  <2>1. FiniteBounded /\ Sourced
    BY FS_EmptySet, LimiterAssumption DEF Init, FiniteBounded, SetBounded, Sourced
  <2>2. Timed BY DEF Init, Timed, CallsInTime, InCall, Stamped
  <2> QED BY <2>1, <2>2, InitType
<1>2. Inv /\ [Next]_vars => Inv' BY NextType, NextTimed, NextBounded, NextSourced
<1>3. Inv /\ [Next]_vars => [\A c \in Callers : Refuse(c) =>
          \/ Cardinality(Others(c)) >= Limit
          \/ AdmittedBefore(c) /\ Cardinality(Others(c)) >= Limit - 1]_vars
  <2> SUFFICES ASSUME Inv, NEW c \in Callers, Refuse(c)
               PROVE  \/ Cardinality(Others(c)) >= Limit
                      \/ AdmittedBefore(c) /\ Cardinality(Others(c)) >= Limit - 1
    OBVIOUS
  <2> DEFINE Kept == InWindow(call[c].now)
             Inside == {b \in admitted : b.stamp > call[c].now - Window}
             Names == {a.member : a \in Inside}
             name == [e \in Kept |-> e.member]
             Calls == {<<a.replica, a.member>> : a \in Inside}
             own == <<ReplicaOf[c], Member(c)>>
             of == [a \in Inside |-> <<a.replica, a.member>>]
             second == [x \in Calls |-> x[2]]
  <2>1. Kept \in SUBSET zset /\ Inside \in SUBSET admitted BY DEF InWindow
  <2>2. \A e \in Kept : e.member \in Names BY DEF Sourced, InWindow
  <2>3. ASSUME NEW d \in Kept, NEW e \in Kept, d.member = e.member PROVE d = e
    <3>1. d.score = e.score BY <2>1, <2>3 DEF Timed, Stamped
    <3>2. d \in [member : Members, score : 0..MaxClock] /\ e \in [member : Members, score : 0..MaxClock]
      BY <2>1 DEF TypeOK
    <3> QED BY <2>3, <3>1, <3>2
  <2>4. name \in Injection(Kept, Names) BY <2>2, <2>3 DEF Injection, IsInjective
  <2>5. of \in Surjection(Inside, Calls) /\ second \in Surjection(Calls, Names)
    <3>1. of \in Surjection(Inside, Calls) BY DEF Surjection
    <3>2. \A a \in Inside : <<a.replica, a.member>> \in Calls /\ <<a.replica, a.member>>[2] = a.member OBVIOUS
    <3>3. \A x \in Calls : x[2] \in Names OBVIOUS
    <3>4. \A n \in Names : \E x \in Calls : x[2] = n BY <3>2
    <3>5. second \in Surjection(Calls, Names)
      <4> HIDE DEF Calls, Names
      <4> QED BY <3>3, <3>4 DEF Surjection
    <3> QED BY <3>1, <3>5
  <2>6. own \in Calls => AdmittedBefore(c) BY DEF AdmittedBefore
  <2>7. Others(c) = Calls \ {own} BY DEF Others
  <2> HIDE DEF Kept, Inside, Names, Calls, own, name, of, second
  <2>8. IsFiniteSet(Calls) BY <2>1, <2>5, FS_Subset, FS_Surjection DEF Sourced
  <2>9. IsFiniteSet(Names) /\ Cardinality(Names) <= Cardinality(Calls) BY <2>5, <2>8, FS_Surjection
  <2>10. IsFiniteSet(Kept) /\ Cardinality(Kept) <= Cardinality(Names) BY <2>4, <2>9, FS_Injection
  <2>11. Cardinality(Kept) \in Nat /\ Cardinality(Names) \in Nat /\ Cardinality(Calls) \in Nat
    BY <2>8, <2>9, <2>10, FS_CardinalityType
  <2>12. ~(Cardinality(Kept) < Limit) BY DEF Refuse, ScriptRefuses, HasRoom, Kept
  <2>13. Cardinality(Calls) >= Limit BY <2>9, <2>10, <2>11, <2>12, LimiterAssumption
  <2>14. Cardinality(Calls \ {own}) = IF own \in Calls THEN Cardinality(Calls) - 1 ELSE Cardinality(Calls)
    BY <2>8, FS_RemoveElement
  <2> QED BY <2>6, <2>7, <2>11, <2>13, <2>14, LimiterAssumption
<1> HIDE DEF Inv
<1> QED BY <1>1, <1>2, <1>3, PTL DEF Spec, RefusedOnlyAtLimit
=============================================================================
