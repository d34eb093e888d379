------------------------- MODULE RuleCheckerProofs -------------------------
(***************************************************************************)
(* Proofs about the matcher and the Checker, for every set of users,       *)
(* rules, names and goroutines and every cache lifetime: the patterns are  *)
(* the rules that cover a name; the types of the Checker's state; what is  *)
(* cached and answered for a name on the built-in list.  The modules that  *)
(* build on the Checker use them.                                          *)
(***************************************************************************)
EXTENDS RuleChecker, SequenceTheorems, TLAPS

(* Names, and the names lookups are made for. *)
LEMMA NameType ==
    ASSUME NEW d \in Names
    PROVE  d \in Seq(Labels) /\ Len(d) \in Nat /\ Len(d) >= 1 /\ \A i \in 1..Len(d) : d[i] \in Labels
  BY DEF Names

LEMMA LengthType ==
    ASSUME NEW d \in Names
    PROVE  Len(d) \in Nat /\ Len(d) >= 1
  BY NameType

LEMMA LimitType == MaxLabels \in Nat /\ MaxLabels >= 1
<1>1. MaxLabels \in Nat \ {0} BY PatternsAssumption
<1> QED BY <1>1

LEMMA NormalizeType ==
    ASSUME NEW d \in Names
    PROVE  Normalize(d) \in Names
<1>1. TrimDot(d) \in Seq(Labels) /\ Len(TrimDot(d)) >= 1
  <2>1. CASE Len(d) > 1 /\ d[Len(d)] = RootLabel
    <3>1. Len(d) \in Nat BY LengthType
    <3>2. \A i \in 1..(Len(d) - 1) : d[i] \in Labels BY <3>1, NameType
    <3>3. Len(d) > 1 BY <2>1
    <3>4. Len(d) - 1 \in Int /\ 1 \in Int /\ Len(d) - 1 >= 1 BY <3>1, <3>3
    <3>5. SubSeq(d, 1, Len(d) - 1) \in Seq(Labels) /\ Len(SubSeq(d, 1, Len(d) - 1)) = Len(d) - 1
      BY <3>2, <3>4, SubSeqProperties
    <3> QED BY <2>1, <3>4, <3>5 DEF TrimDot
  <2>2. CASE ~(Len(d) > 1 /\ d[Len(d)] = RootLabel) BY <2>2, NameType DEF TrimDot
  <2> QED BY <2>1, <2>2
<1> DEFINE t == TrimDot(d)
<1>2. \A i \in 1..Len(t) : Lower[t[i]] \in Labels
  <2>1. \A l \in Labels : Lower[l] \in Labels BY PatternsAssumption
  <2>2. \A i \in 1..Len(t) : t[i] \in Labels BY <1>1
  <2> QED BY <2>1, <2>2
<1>3. Len(t) \in Nat BY <1>1
<1> HIDE DEF t
<1>4. [i \in 1..Len(t) |-> Lower[t[i]]] \in Seq(Labels) BY <1>2, <1>3
<1>5. Len([i \in 1..Len(t) |-> Lower[t[i]]]) = Len(t) BY <1>3
<1> QED BY <1>1, <1>4, <1>5 DEF Normalize, Names, t

(* How many labels of a name the matcher looks at. *)
Reach(d) == IF Len(d) > MaxLabels THEN MaxLabels ELSE Len(d)

LEMMA LastLabelsType ==
    ASSUME NEW d \in Names
    PROVE  /\ LastLabels(d) \in Seq(Labels) /\ Len(LastLabels(d)) = Reach(d)
           /\ \A i \in 1..Reach(d) : LastLabels(d)[i] = d[Len(d) - Reach(d) + i]
<1>1. CASE Len(d) > MaxLabels
  <2> DEFINE m == Len(d) - MaxLabels + 1
  <2>1. m \in Int /\ Len(d) \in Int /\ m >= 1 /\ m <= Len(d) /\ Len(d) - m + 1 = MaxLabels
    BY <1>1, LengthType, LimitType
  <2>2. \A i \in m..Len(d) : d[i] \in Labels BY <2>1, NameType
  <2> HIDE DEF m
  <2>3. /\ SubSeq(d, m, Len(d)) \in Seq(Labels) /\ Len(SubSeq(d, m, Len(d))) = MaxLabels
        /\ \A i \in 1..MaxLabels : SubSeq(d, m, Len(d))[i] = d[m + i - 1]
    BY <2>1, <2>2, SubSeqProperties
  <2>4. \A i \in 1..MaxLabels : m + i - 1 = Len(d) - MaxLabels + i
    BY <2>1, LimitType
  <2> QED BY <1>1, <2>3, <2>4 DEF LastLabels, Reach, m
<1>2. CASE ~(Len(d) > MaxLabels)
  <2>1. LastLabels(d) = d /\ Reach(d) = Len(d) BY <1>2 DEF LastLabels, Reach
  <2>2. Len(d) \in Nat BY LengthType
  <2>3. \A i \in 1..Len(d) : d[i] = d[Len(d) - Len(d) + i] BY <2>2
  <2> QED BY <2>1, <2>3, NameType
<1> QED BY <1>1, <1>2

(* The last n labels, out of the last Reach(d), are the last n of the name. *)
LEMMA LastOfLast ==
    ASSUME NEW d \in Names, NEW n \in Nat, n >= 1, n <= Reach(d)
    PROVE  SubSeq(LastLabels(d), Reach(d) - n + 1, Reach(d)) = SubSeq(d, Len(d) - n + 1, Len(d))
<1> DEFINE l == LastLabels(d)
           L == Reach(d)
           s == SubSeq(l, L - n + 1, L)
           t == SubSeq(d, Len(d) - n + 1, Len(d))
<1>1. L \in Nat /\ Len(d) \in Nat /\ n <= L /\ L <= Len(d)
  BY LengthType, LimitType DEF Reach
<1>2. /\ l \in Seq(Labels) /\ Len(l) = L
      /\ \A i \in 1..L : l[i] = d[Len(d) - L + i]
  BY LastLabelsType
<1>3. \A i \in (Len(d) - n + 1)..Len(d) : d[i] \in Labels BY <1>1, NameType
<1>4. \A i \in (L - n + 1)..L : l[i] \in Labels BY <1>1, <1>2
<1> HIDE DEF l, L
<1>5. s \in Seq(Labels) /\ Len(s) = n /\ \A i \in 1..n : s[i] = l[L - n + i]
  <2>1. /\ s \in Seq(Labels) /\ Len(s) = IF L - n + 1 <= L THEN L - (L - n + 1) + 1 ELSE 0
        /\ \A i \in 1..(L - (L - n + 1) + 1) : s[i] = l[L - n + 1 + i - 1]
    BY <1>1, <1>4, SubSeqProperties
  <2> QED BY <1>1, <2>1
<1>6. t \in Seq(Labels) /\ Len(t) = n /\ \A i \in 1..n : t[i] = d[Len(d) - n + i]
  <2>1. /\ t \in Seq(Labels) /\ Len(t) = IF Len(d) - n + 1 <= Len(d) THEN Len(d) - (Len(d) - n + 1) + 1 ELSE 0
        /\ \A i \in 1..(Len(d) - (Len(d) - n + 1) + 1) : t[i] = d[Len(d) - n + 1 + i - 1]
    BY <1>1, <1>3, SubSeqProperties
  <2> QED BY <1>1, <2>1
<1>7. \A i \in 1..n : s[i] = t[i]
  <2> SUFFICES ASSUME NEW i \in 1..n PROVE s[i] = t[i] OBVIOUS
  <2>1. L - n + i \in 1..L /\ Len(d) - L + (L - n + i) = Len(d) - n + i BY <1>1
  <2> QED BY <1>2, <1>5, <1>6, <2>1
<1> HIDE DEF s, t
<1>8. s = t BY <1>5, <1>6, <1>7
<1> QED BY <1>8 DEF s, t, l, L

(* The patterns one by one: the name, then the wildcards of its parents. *)
LEMMA PatternsSpelled ==
    ASSUME NEW d \in Names
    PROVE  /\ Len(generatePatterns(d)) = Reach(d) /\ Reach(d) \in Nat /\ Reach(d) >= 1
           /\ generatePatterns(d)[1] = d
           /\ \A i \in 2..Reach(d) :
                 generatePatterns(d)[i] = Wildcard(SubSeq(d, Len(d) - (Reach(d) - i + 1) + 1, Len(d)))
<1> DEFINE l == LastLabels(d)
           L == Reach(d)
           wild == [i \in 1..(L - 1) |-> Wildcard(SubSeq(l, i + 1, L))]
           S == {Wildcard(SubSeq(l, i + 1, L)) : i \in 1..(L - 1)}
<1>1. L \in Nat /\ L >= 1 BY LengthType, LimitType DEF Reach
<1>2. Len(l) = L BY LastLabelsType
<1>3. generatePatterns(d) = <<d>> \o wild BY <1>2 DEF generatePatterns
<1>4. \A i \in 1..(L - 1) : wild[i] \in S OBVIOUS
<1>5. wild \in Seq(S) /\ Len(wild) = L - 1
  <2> HIDE DEF S, L, l
  <2> QED BY <1>1, <1>4
<1>6. \A i \in 1..(L - 1) : wild[i] = Wildcard(SubSeq(l, i + 1, L)) OBVIOUS
<1> HIDE DEF wild, S, l, L
<1>7. /\ Len(<<d>> \o wild) = L /\ (<<d>> \o wild)[1] = d
      /\ \A i \in 2..L : (<<d>> \o wild)[i] = wild[i - 1]
  BY <1>1, <1>5
<1>8. ASSUME NEW i \in 2..L
      PROVE  (<<d>> \o wild)[i] = Wildcard(SubSeq(d, Len(d) - (L - i + 1) + 1, Len(d)))
  <2>1. i - 1 \in 1..(L - 1) /\ (i - 1) + 1 = i BY <1>1
  <2>2. (<<d>> \o wild)[i] = Wildcard(SubSeq(l, i, L)) BY <1>6, <1>7, <2>1
  <2>3. L - i + 1 \in Nat /\ L - i + 1 >= 1 /\ L - i + 1 <= L /\ L - (L - i + 1) + 1 = i BY <1>1
  <2>4. SubSeq(l, i, L) = SubSeq(d, Len(d) - (L - i + 1) + 1, Len(d))
    BY <2>3, LastOfLast DEF l, L
  <2> QED BY <2>2, <2>4
<1> QED BY <1>1, <1>3, <1>7, <1>8 DEF L

(* A wildcard is a label longer than the parent it is for. *)
LEMMA WildcardLength ==
    ASSUME NEW d \in Names, NEW n \in Nat, n >= 1, n <= Len(d)
    PROVE  Len(Wildcard(SubSeq(d, Len(d) - n + 1, Len(d)))) = n + 1
<1> DEFINE m == Len(d) - n + 1
<1>1. m \in Int /\ Len(d) \in Int /\ m >= 1 /\ m <= Len(d) /\ Len(d) - m + 1 = n BY LengthType
<1>2. \A i \in m..Len(d) : d[i] \in Labels BY <1>1, NameType
<1> HIDE DEF m
<1>3. SubSeq(d, m, Len(d)) \in Seq(Labels) /\ Len(SubSeq(d, m, Len(d))) = n
  BY <1>1, <1>2, SubSeqProperties
<1>4. PICK t \in Seq(Labels) : t = SubSeq(d, m, Len(d)) /\ Len(t) = n BY <1>3
<1>5. "*" \in Labels BY PatternsAssumption
<1>6. Len(<<"*">> \o t) = 1 + Len(t) BY <1>5
<1> QED BY <1>4, <1>6 DEF Wildcard, m

(* The nearer parent comes first, so the first redirect found is the most   *)
(* specific one.                                                            *)
THEOREM NearestFirst ==
    \A d \in Names : \A i, j \in 2..Len(generatePatterns(d)) :
        i < j => Len(generatePatterns(d)[i]) > Len(generatePatterns(d)[j])
<1> SUFFICES ASSUME NEW d \in Names, NEW i \in 2..Len(generatePatterns(d)),
                    NEW j \in 2..Len(generatePatterns(d)), i < j
             PROVE  Len(generatePatterns(d)[i]) > Len(generatePatterns(d)[j])
  OBVIOUS
<1>1. Len(generatePatterns(d)) = Reach(d) /\ Reach(d) \in Nat BY PatternsSpelled
<1>2. Reach(d) <= Len(d) /\ Len(d) \in Nat BY LengthType, LimitType DEF Reach
<1>3. ASSUME NEW k \in 2..Reach(d) PROVE Len(generatePatterns(d)[k]) = Reach(d) - k + 2
  <2>1. Reach(d) - k + 1 \in Nat /\ Reach(d) - k + 1 >= 1 /\ Reach(d) - k + 1 <= Len(d) BY <1>1, <1>2
  <2>2. generatePatterns(d)[k] = Wildcard(SubSeq(d, Len(d) - (Reach(d) - k + 1) + 1, Len(d)))
    BY PatternsSpelled
  <2>3. Len(generatePatterns(d)[k]) = (Reach(d) - k + 1) + 1 BY <2>1, <2>2, WildcardLength
  <2> QED BY <1>1, <2>3
<1> QED BY <1>1, <1>3

(* generatePatterns yields exactly the rules that cover the name, for names *)
(* of any length and any limit on the labels: no parent is missed, and no   *)
(* other name's rule is asked for.  The name itself comes first.            *)
THEOREM PatternsAreCovers ==
    \A d \in Names : generatePatterns(d)[1] = d /\ \A r : r \in Patterns(d) <=> Covers(r, d)
<1> SUFFICES ASSUME NEW d \in Names, NEW r
             PROVE  generatePatterns(d)[1] = d /\ (r \in Patterns(d) <=> Covers(r, d))
  OBVIOUS
<1> DEFINE L == Reach(d)
<1>1. L \in Nat /\ L >= 1 /\ Len(d) \in Nat /\ MaxLabels \in Nat /\ L <= Len(d) /\ L <= MaxLabels
      /\ (L = Len(d) \/ L = MaxLabels)
  BY LengthType, LimitType DEF Reach
<1> HIDE DEF L
<1>2. /\ Len(generatePatterns(d)) = L /\ generatePatterns(d)[1] = d
      /\ \A i \in 2..L : generatePatterns(d)[i] = Wildcard(SubSeq(d, Len(d) - (L - i + 1) + 1, Len(d)))
  BY PatternsSpelled DEF L
<1>3. ASSUME r \in Patterns(d) PROVE Covers(r, d)
  <2>1. PICK i \in 1..L : r = generatePatterns(d)[i] BY <1>2, <1>3 DEF Patterns
  <2>2. CASE i = 1 BY <1>2, <2>1, <2>2 DEF Covers
  <2>3. CASE i # 1
    <3>1. i \in 2..L /\ L - i + 1 \in 1..(Len(d) - 1) /\ L - i + 1 <= MaxLabels - 1 BY <1>1, <2>3
    <3>2. r = Wildcard(SubSeq(d, Len(d) - (L - i + 1) + 1, Len(d))) BY <1>2, <2>1, <3>1
    <3> QED BY <3>1, <3>2 DEF Covers
  <2> QED BY <2>2, <2>3
<1>4. ASSUME Covers(r, d) PROVE r \in Patterns(d)
  <2>1. CASE r = d
    <3>1. 1 \in 1..L BY <1>1
    <3> QED BY <1>2, <2>1, <3>1 DEF Patterns
  <2>2. ASSUME NEW n \in 1..(Len(d) - 1), n <= MaxLabels - 1,
               r = Wildcard(SubSeq(d, Len(d) - n + 1, Len(d)))
        PROVE  r \in Patterns(d)
    <3>1. L - n + 1 \in 2..L /\ L - (L - n + 1) + 1 = n /\ L - n + 1 \in 1..L BY <1>1, <2>2
    <3>2. generatePatterns(d)[L - n + 1] = r BY <1>2, <2>2, <3>1
    <3> QED BY <1>2, <3>1, <3>2 DEF Patterns
  <2> QED BY <1>4, <2>1, <2>2 DEF Covers
<1> QED BY <1>2, <1>3, <1>4

(* A name and the same name with the root's dot or in another case are one  *)
(* name to the rules and the cache, for labels of any kind.                 *)
THEOREM SpellingsAreOne ==
    \A d \in Names : d[Len(d)] # RootLabel =>
        /\ Normalize(Append(d, RootLabel)) = Normalize(d)
        /\ Normalize([i \in 1..Len(d) |-> Lower[d[i]]]) = Normalize(d)
<1> SUFFICES ASSUME NEW d \in Names, d[Len(d)] # RootLabel
             PROVE  /\ Normalize(Append(d, RootLabel)) = Normalize(d)
                    /\ Normalize([i \in 1..Len(d) |-> Lower[d[i]]]) = Normalize(d)
  OBVIOUS
<1>1. d \in Seq(Labels) /\ Len(d) \in Nat /\ Len(d) >= 1 /\ \A i \in 1..Len(d) : d[i] \in Labels
  BY NameType
<1>2. TrimDot(d) = d BY DEF TrimDot
<1>3. TrimDot(Append(d, RootLabel)) = d
  <2> DEFINE e == Append(d, RootLabel)
  <2>1. RootLabel \in Labels BY PatternsAssumption
  <2>2. /\ e \in Seq(Labels) /\ Len(e) = Len(d) + 1 /\ e[Len(e)] = RootLabel
        /\ \A i \in 1..Len(d) : e[i] = d[i]
    BY <1>1, <2>1
  <2> HIDE DEF e
  <2>3. TrimDot(e) = SubSeq(e, 1, Len(d)) BY <1>1, <2>2 DEF TrimDot
  <2>4. /\ SubSeq(e, 1, Len(d)) \in Seq(Labels) /\ Len(SubSeq(e, 1, Len(d))) = Len(d)
        /\ \A i \in 1..Len(d) : SubSeq(e, 1, Len(d))[i] = d[i]
    BY <1>1, <2>2
  <2>5. SubSeq(e, 1, Len(d)) = d BY <1>1, <2>4
  <2> QED BY <2>3, <2>5 DEF e
<1> DEFINE low == [i \in 1..Len(d) |-> Lower[d[i]]]
<1>4. \A l \in Labels : Lower[l] \in Labels /\ Lower[Lower[l]] = Lower[l] /\ (Lower[l] = RootLabel => l = RootLabel)
  BY PatternsAssumption
<1>5. low \in Seq(Labels) /\ Len(low) = Len(d) /\ \A i \in 1..Len(d) : low[i] = Lower[d[i]]
  BY <1>1, <1>4
<1> HIDE DEF low
<1>6. low[Len(low)] # RootLabel BY <1>1, <1>4, <1>5
<1>7. TrimDot(low) = low BY <1>6 DEF TrimDot
<1>8. Normalize(low) = [i \in 1..Len(d) |-> Lower[low[i]]] BY <1>5, <1>7 DEF Normalize
<1>9. \A i \in 1..Len(d) : Lower[low[i]] = Lower[d[i]] BY <1>1, <1>4, <1>5
<1>10. Normalize(low) = Normalize(d) BY <1>2, <1>8, <1>9 DEF Normalize
<1> QED BY <1>2, <1>3, <1>10 DEF Normalize, low

(* The built-in list cannot be escaped by a longer name: whatever is put in *)
(* front of a blocked name, the name stays blocked.                         *)
THEOREM SubdomainsBlocked ==
    \A d \in Names, l \in Labels : fallbackCheck(d) => fallbackCheck(<<l>> \o d)
<1> SUFFICES ASSUME NEW d \in Names, NEW l \in Labels, fallbackCheck(d)
             PROVE  fallbackCheck(<<l>> \o d)
  OBVIOUS
<1> DEFINE e == <<l>> \o d
<1>1. PICK b \in Fallback : d = b \/ HasParent(d, b) BY DEF fallbackCheck
<1>2. b \in Names BY PatternsAssumption
<1>3. d \in Seq(Labels) /\ Len(d) \in Nat /\ b \in Seq(Labels) /\ Len(b) \in Nat /\ Len(b) >= 1
  BY <1>2, NameType
<1>4. e \in Seq(Labels) /\ Len(e) = Len(d) + 1 /\ \A i \in 1..Len(d) : e[i + 1] = d[i]
  BY <1>3
<1> HIDE DEF e
<1>5. Len(b) <= Len(d) /\ \A i \in 1..Len(b) : d[Len(d) - Len(b) + i] = b[i]
  <2>1. CASE d = b
    <3>1. \A i \in 1..Len(b) : Len(d) - Len(b) + i = i BY <1>3, <2>1
    <3> QED BY <1>3, <2>1, <3>1
  <2>2. CASE HasParent(d, b)
    <3> DEFINE m == Len(d) - Len(b) + 1
    <3>1. m \in Nat /\ m >= 1 /\ m <= Len(d) /\ SubSeq(d, m, Len(d)) = b BY <1>3, <2>2 DEF HasParent
    <3> HIDE DEF m
    <3>2. m \in Int /\ Len(d) \in Int /\ \A i \in m..Len(d) : d[i] \in Labels BY <1>3, <3>1
    <3>3. \A i \in 1..(Len(d) - m + 1) : SubSeq(d, m, Len(d))[i] = d[m + i - 1]
      BY <3>1, <3>2, SubSeqProperties
    <3>4. Len(d) - m + 1 = Len(b) /\ \A i \in 1..Len(b) : m + i - 1 = Len(d) - Len(b) + i
      BY <1>3 DEF m
    <3>5. Len(b) <= Len(d) BY <1>3, <2>2 DEF HasParent
    <3>6. \A i \in 1..Len(b) : b[i] = d[m + i - 1] BY <3>1, <3>3, <3>4
    <3> QED BY <3>4, <3>5, <3>6
  <2> QED BY <1>1, <2>1, <2>2
<1> DEFINE k == Len(e) - Len(b) + 1
<1>6. k \in Nat /\ k >= 2 /\ k <= Len(e) /\ Len(e) - k + 1 = Len(b) BY <1>3, <1>4, <1>5
<1>7. \A i \in 1..Len(b) : e[k + i - 1] = b[i]
  <2> SUFFICES ASSUME NEW i \in 1..Len(b) PROVE e[k + i - 1] = b[i] OBVIOUS
  <2>1. Len(d) - Len(b) + i \in 1..Len(d) /\ k + i - 1 = (Len(d) - Len(b) + i) + 1
    BY <1>3, <1>4, <1>5
  <2>2. e[(Len(d) - Len(b) + i) + 1] = d[Len(d) - Len(b) + i] BY <1>4, <2>1
  <2> HIDE DEF k
  <2> QED BY <1>5, <2>1, <2>2
<1> HIDE DEF k
<1>8. /\ SubSeq(e, k, Len(e)) \in Seq(Labels) /\ Len(SubSeq(e, k, Len(e))) = Len(b)
      /\ \A i \in 1..Len(b) : SubSeq(e, k, Len(e))[i] = e[k + i - 1]
  BY <1>4, <1>6
<1>9. SubSeq(e, k, Len(e)) = b
  <2> DEFINE s == SubSeq(e, k, Len(e))
  <2>1. s \in Seq(Labels) /\ Len(s) = Len(b) /\ \A i \in 1..Len(b) : s[i] = b[i] BY <1>7, <1>8
  <2> HIDE DEF s
  <2>2. s = b BY <1>3, <2>1
  <2> QED BY <2>2 DEF s
<1>10. HasParent(e, b) BY <1>3, <1>4, <1>5, <1>9 DEF HasParent, k
<1> QED BY <1>10 DEF fallbackCheck, e

-----------------------------------------------------------------------------
StoreOK ==
    /\ redisUp \in BOOLEAN /\ enabled \in BOOLEAN
    /\ blocked \in [Users -> SUBSET BlockRules]
    /\ redirects \in [Users -> [RedirectRules -> Targets]]

CacheOK == cache \in [Keys -> Entries] /\ clearing \subseteq Keys /\ deleting \subseteq Keys

CallOK == call \in [Procs -> Calls]

CheckerOK == StoreOK /\ CacheOK /\ CallOK

-----------------------------------------------------------------------------
(* There is a key, so the idle call is a call. *)
LEMMA IdleType == Idle \in Calls
<1>1. PICK u \in Users : TRUE BY CheckerAssumption
<1>2. PICK q \in Queries : TRUE BY CheckerAssumption
<1>3. [kind |-> "rule", user |-> u, dom |-> Normalize(q)] \in Keys BY <1>1, <1>2 DEF Keys, Doms
<1>4. (CHOOSE k \in Keys : TRUE) \in Keys BY <1>3
<1>5. NoIP \in Verdicts \cup Targets BY DEF Targets
<1>6. 0 \in 0..MaxLag /\ 1 \in Nat BY CheckerAssumption
<1> QED BY <1>4, <1>5, <1>6 DEF Idle, Calls

(* A Redis command of a lookup leaves its key and its delay alone, and does *)
(* not end it.                                                              *)
LEMMA CommandStep ==
    ASSUME CallOK, NEW p \in Procs, CheckQuery(p) \/ HGet(p)
    PROVE  /\ call[p].pc = "query" /\ call'[p].pc \in {"query", "fill"}
           /\ call'[p].key = call[p].key /\ call'[p].lag = call[p].lag
<1>1. call \in [Procs -> Calls] BY DEF CallOK
<1>2. PICK c \in Calls : c = call[p] BY <1>1
<1>3. CASE CheckQuery(p)
  <2>1. PICK v : call' = [call EXCEPT ![p].pc = "fill", ![p].val = v] BY <1>3 DEF CheckQuery
  <2>2. call'[p] = [c EXCEPT !.pc = "fill", !.val = v] BY <1>1, <1>2, <2>1
  <2>3. call[p].pc = "query" BY <1>3 DEF CheckQuery
  <2> QED BY <1>2, <2>2, <2>3 DEF Calls
<1>4. CASE HGet(p)
  <2>1. call[p].pc = "query" BY <1>4 DEF HGet
  <2>2. PICK v :
               \/ call' = [call EXCEPT ![p] = [call[p] EXCEPT !.pc = "fill", !.val = v]]
               \/ call' = [call EXCEPT ![p] = [call[p] EXCEPT !.pc = "fill"]]
               \/ call' = [call EXCEPT ![p] = [call[p] EXCEPT !.idx = @ + 1]]
    BY <1>4 DEF HGet
  <2>3. CASE call' = [call EXCEPT ![p] = [call[p] EXCEPT !.pc = "fill", !.val = v]]
    <3>1. call'[p] = [c EXCEPT !.pc = "fill", !.val = v] BY <1>1, <1>2, <2>3
    <3> QED BY <1>2, <2>1, <3>1 DEF Calls
  <2>4. CASE call' = [call EXCEPT ![p] = [call[p] EXCEPT !.pc = "fill"]]
    <3>1. call'[p] = [c EXCEPT !.pc = "fill"] BY <1>1, <1>2, <2>4
    <3> QED BY <1>2, <2>1, <3>1 DEF Calls
  <2>5. CASE call' = [call EXCEPT ![p] = [call[p] EXCEPT !.idx = @ + 1]]
    <3>1. call'[p] = [c EXCEPT !.idx = @ + 1] BY <1>1, <1>2, <2>5
    <3> QED BY <1>2, <2>1, <3>1 DEF Calls
  <2> QED BY <2>2, <2>3, <2>4, <2>5
<1> QED BY <1>3, <1>4

(* No entry is an entry. *)
LEMMA NoEntryType == NoEntry \in Entries
  BY CheckerAssumption DEF NoEntry, Entries, Targets

(* What a lookup finds is a verdict or a target. *)
LEMMA AnswerType ==
    ASSUME StoreOK, NEW u \in Users, NEW d
    PROVE  Verdict(u, d) \in Verdicts \cup Targets /\ Field(u, d) \in Targets
  BY DEF Verdict, Verdicts, Field, StoreOK, Targets

(* Every step keeps the types of the rule store. *)
LEMMA NextStore == CheckerOK /\ [Next]_checkerVars => StoreOK'
<1> SUFFICES ASSUME CheckerOK, [Next]_checkerVars PROVE StoreOK' OBVIOUS
<1> USE DEF CheckerOK, StoreOK
<1>1. CASE UNCHANGED checkerVars BY <1>1 DEF checkerVars
<1>2. CASE LookupNext
  BY <1>2 DEF LookupNext, Lookup, CheckQuery, HGet, RedirectUnavailable, Fill, Return, storeVars
<1>3. CASE \E u \in Users : ClearUserCache(u) BY <1>3 DEF ClearUserCache, storeVars
<1>4. CASE \E k \in clearing : ClearKey(k) BY <1>4 DEF ClearKey, storeVars
<1>5. ASSUME NEW u \in Users, NEW q, NEW ip \in Targets, SetRedirect(u, q, ip) PROVE StoreOK'
  BY <1>5 DEF SetRedirect
<1>6. CASE \E u \in Users, q \in Queries, ip \in IPs : SetRedirect(u, q, ip)
  BY <1>6, <1>5 DEF Targets
<1>7. CASE \E u \in Users, q \in Queries : RemoveRedirect(u, q)
  BY <1>7, <1>5 DEF RemoveRedirect, Targets
<1>8. CASE \E k \in deleting : DeleteKey(k) BY <1>8 DEF DeleteKey, storeVars
<1>9. CASE \E u \in Users, r \in BlockRules : AddRules(u, {r}) BY <1>9 DEF AddRules
<1>10. CASE \E u \in Users, r \in BlockRules : RemoveRule(u, r) BY <1>10 DEF RemoveRule
<1>11. CASE \E u \in Users, r \in RedirectRules, ip \in Targets : PutRedirect(u, r, ip)
  BY <1>11 DEF PutRedirect
<1>12. CASE RedisFails BY <1>12 DEF RedisFails, storeVars
<1>13. CASE Tick BY <1>13 DEF Tick, storeVars
<1> QED BY <1>1, <1>2, <1>3, <1>4, <1>6, <1>7, <1>8, <1>9, <1>10, <1>11, <1>12, <1>13
        DEF Next, EvictNext, StoreNext

(* Every step keeps the types of the cache and of the evictions. *)
LEMMA NextCache == CheckerOK /\ [Next]_checkerVars => CacheOK'
<1> SUFFICES ASSUME CheckerOK, [Next]_checkerVars PROVE CacheOK' OBVIOUS
<1> USE DEF CheckerOK, CacheOK
<1>1. CASE UNCHANGED checkerVars BY <1>1 DEF checkerVars
<1>2. ASSUME NEW p \in Procs,
             (\E u \in Users, q \in Queries : Lookup(p, u, q)) \/ CheckQuery(p) \/ HGet(p)
             \/ RedirectUnavailable(p) \/ Return(p)
      PROVE CacheOK'
  BY <1>2 DEF Lookup, CheckQuery, HGet, RedirectUnavailable, Return, evictVars
<1>3. ASSUME NEW p \in Procs, Fill(p) PROVE CacheOK'
  <2>1. call[p] \in Calls BY DEF CallOK
  <2>2. TTL \in 0..TTL BY CheckerAssumption
  <2>3. [val |-> call[p].val, ttl |-> TTL] \in Entries BY <2>1, <2>2 DEF Calls, Entries
  <2> QED BY <1>3, <2>3 DEF Fill, SetEntry, evictVars
<1>4. CASE LookupNext BY <1>4, <1>2, <1>3 DEF LookupNext
<1>5. CASE \E u \in Users : ClearUserCache(u) BY <1>5 DEF ClearUserCache, KeysOf
<1>6. CASE \E k \in clearing : ClearKey(k) BY <1>6, NoEntryType DEF ClearKey, Drop
<1>7. CASE \E u \in Users, q \in Queries, ip \in IPs : SetRedirect(u, q, ip)
  BY <1>7 DEF SetRedirect
<1>8. CASE \E u \in Users, q \in Queries : RemoveRedirect(u, q)
  BY <1>8 DEF RemoveRedirect, SetRedirect
<1>9. CASE \E k \in deleting : DeleteKey(k) BY <1>9, NoEntryType DEF DeleteKey, Drop
<1>10. CASE StoreNext
  BY <1>10 DEF StoreNext, AddRules, RemoveRule, PutRedirect, RedisFails, evictVars
<1>11. CASE Tick
  <2>1. ASSUME NEW e \in Entries PROVE Aged(e) \in Entries
    BY CheckerAssumption, NoEntryType DEF Aged, Entries
  <2> QED BY <1>11, <2>1 DEF Tick, evictVars
<1> QED BY <1>1, <1>4, <1>5, <1>6, <1>7, <1>8, <1>9, <1>10, <1>11 DEF Next, EvictNext

(* Every step keeps the types of the lookups. *)
LEMMA NextCall == CheckerOK /\ [Next]_checkerVars => CallOK'
<1> SUFFICES ASSUME CheckerOK, [Next]_checkerVars PROVE CallOK' OBVIOUS
<1> USE DEF CheckerOK, CallOK
<1>0. \A p \in Procs : call[p] \in Calls OBVIOUS
<1>1. CASE UNCHANGED checkerVars BY <1>1 DEF checkerVars
<1>2. ASSUME NEW p \in Procs, NEW c \in Calls, call' = [call EXCEPT ![p] = c] PROVE CallOK'
  BY <1>2
<1>3. ASSUME NEW p \in Procs, NEW u \in Users, NEW q \in Queries, Lookup(p, u, q) PROVE CallOK'
  <2>1. PICK kind \in Kinds : Lookup(p, u, q)!(kind) BY <1>3 DEF Lookup
  <2> DEFINE k == [kind |-> kind, user |-> u, dom |-> Normalize(q)]
  <2>2. k \in Keys BY <1>3, CheckerAssumption DEF Keys, Doms
  <2>3. 0 \in 0..MaxLag /\ 1 \in Nat BY CheckerAssumption
  <2>4. cache[k].val \in Verdicts \cup Targets BY <2>2 DEF CacheOK, Entries
  <2>5. NoIP \in Verdicts \cup Targets BY DEF Targets
  <2>6. [pc |-> "return", key |-> k, idx |-> 1, val |-> cache[k].val, ok |-> TRUE, lag |-> 0] \in Calls
    BY <2>2, <2>3, <2>4 DEF Calls
  <2>7. [pc |-> "query", key |-> k, idx |-> 1, val |-> NoIP, ok |-> FALSE, lag |-> 0] \in Calls
    BY <2>2, <2>3, <2>5 DEF Calls
  <2>8. CASE Live(k) BY <2>1, <2>6, <2>8, <1>2
  <2>9. CASE ~Live(k) BY <2>1, <2>7, <2>9, <1>2
  <2> QED BY <2>8, <2>9
<1>4. ASSUME NEW p \in Procs, CheckQuery(p) PROVE CallOK'
  <2>1. call[p].key.user \in Users BY <1>0 DEF Calls, Keys
  <2>2. Verdict(call[p].key.user, call[p].key.dom) \in Verdicts \cup Targets BY <2>1, AnswerType
  <2>3. [call[p] EXCEPT !.pc = "fill", !.val = Verdict(call[p].key.user, call[p].key.dom)] \in Calls
    BY <1>0, <2>2 DEF Calls
  <2> QED BY <1>4, <2>3, <1>2 DEF CheckQuery
<1>5. ASSUME NEW p \in Procs, HGet(p) PROVE CallOK'
  <2> DEFINE c == call[p]
             ps == generatePatterns(c.key.dom)
             ip == Field(c.key.user, ps[c.idx])
  <2>1. c \in Calls BY <1>0
  <2>2. ip \in Verdicts \cup Targets BY <2>1, AnswerType DEF Calls, Keys
  <2>3. [c EXCEPT !.pc = "fill", !.val = ip] \in Calls BY <2>1, <2>2 DEF Calls
  <2>4. [c EXCEPT !.pc = "fill"] \in Calls BY <2>1 DEF Calls
  <2>5. [c EXCEPT !.idx = @ + 1] \in Calls BY <2>1 DEF Calls
  <2>6. call' = [call EXCEPT ![p] =
               CASE ip # NoIP -> [c EXCEPT !.pc = "fill", !.val = ip]
                 [] ip = NoIP /\ c.idx = Len(ps) -> [c EXCEPT !.pc = "fill"]
                 [] OTHER -> [c EXCEPT !.idx = @ + 1]]
    BY <1>5 DEF HGet
  <2> HIDE DEF c, ps, ip
  <2>7. CASE ip # NoIP BY <2>7, <2>6, <2>3, <1>2
  <2>8. CASE ip = NoIP /\ c.idx = Len(ps) BY <2>8, <2>6, <2>4, <1>2
  <2>9. CASE ip = NoIP /\ c.idx # Len(ps) BY <2>9, <2>6, <2>5, <1>2
  <2> QED BY <2>7, <2>8, <2>9
<1>6. ASSUME NEW p \in Procs, RedirectUnavailable(p) PROVE CallOK'
  <2>1. [call[p] EXCEPT !.pc = "return"] \in Calls BY <1>0 DEF Calls
  <2> QED BY <1>6, <2>1, <1>2 DEF RedirectUnavailable
<1>7. ASSUME NEW p \in Procs, Fill(p) PROVE CallOK'
  <2>1. [call[p] EXCEPT !.pc = "return", !.ok = (call[p].val # NoIP)] \in Calls BY <1>0 DEF Calls
  <2> QED BY <1>7, <2>1, <1>2 DEF Fill
<1>8. ASSUME NEW p \in Procs, Return(p) PROVE CallOK'
  BY <1>8, <1>2, IdleType DEF Return
<1>9. CASE LookupNext BY <1>9, <1>3, <1>4, <1>5, <1>6, <1>7, <1>8 DEF LookupNext
<1>10. CASE EvictNext
  BY <1>10 DEF EvictNext, ClearUserCache, ClearKey, SetRedirect, RemoveRedirect, DeleteKey
<1>11. CASE StoreNext
  BY <1>11 DEF StoreNext, AddRules, RemoveRule, PutRedirect, RedisFails
<1>12. CASE Tick
  <2>1. ASSUME NEW p \in Procs PROVE (IF Busy(p) THEN [call[p] EXCEPT !.lag = @ + 1] ELSE call[p]) \in Calls
    <3>1. CASE Busy(p)
      <4>1. call[p].lag < MaxLag BY <1>12, <3>1 DEF Tick
      <4>2. call[p].lag + 1 \in 0..MaxLag BY <4>1, <1>0, CheckerAssumption DEF Calls
      <4> QED BY <3>1, <4>2, <1>0 DEF Calls
    <3>2. CASE ~Busy(p) BY <3>2, <1>0
    <3> QED BY <3>1, <3>2
  <2> QED BY <1>12, <2>1 DEF Tick
<1> QED BY <1>1, <1>9, <1>10, <1>11, <1>12 DEF Next

LEMMA InitChecker == Init => CheckerOK
<1> SUFFICES ASSUME Init PROVE CheckerOK OBVIOUS
<1>1. StoreOK BY DEF Init, StoreOK, Targets
<1>2. CacheOK BY NoEntryType DEF Init, CacheOK
<1>3. CallOK BY IdleType DEF Init, CallOK
<1> QED BY <1>1, <1>2, <1>3 DEF CheckerOK

(* The types of the Checker's state are kept, whatever rules change,        *)
(* however often Redis fails and however lookups and evictions interleave.  *)
LEMMA NextChecker == CheckerOK /\ [Next]_checkerVars => CheckerOK'
  BY NextStore, NextCache, NextCall DEF CheckerOK

-----------------------------------------------------------------------------
(* Rule lookups have verdicts, redirect lookups have targets. *)
KindOK(k, v) == v \in IF k.kind = "rule" THEN Verdicts ELSE Targets

(* A lookup asks for one of its patterns, and has what its kind answers. *)
CallFits(p) ==
    /\ call[p].pc = "query" =>
          call[p].val = NoIP /\ call[p].idx \in 1..Len(generatePatterns(call[p].key.dom))
    /\ call[p].pc \in {"fill", "return"} => KindOK(call[p].key, call[p].val)

EntryFits(k) == Live(k) => KindOK(k, cache[k].val)

Fits == (\A p \in Procs : CallFits(p)) /\ (\A k \in Keys : EntryFits(k))

LEMMA InitFits == Init => Fits
  BY CheckerAssumption DEF Init, Fits, CallFits, EntryFits, Idle, Live, NoEntry

LEMMA NextCallFits == CheckerOK /\ Fits /\ [Next]_checkerVars => \A p \in Procs : CallFits(p)'
<1> SUFFICES ASSUME CheckerOK, Fits, [Next]_checkerVars, NEW p \in Procs PROVE CallFits(p)' OBVIOUS
<1>1. call \in [Procs -> Calls] /\ call[p] \in Calls /\ CallFits(p)
  BY DEF CheckerOK, CallOK, Fits
<1>2. ASSUME call'[p] = call[p] PROVE CallFits(p)' BY <1>1, <1>2 DEF CallFits
<1>3. CASE UNCHANGED checkerVars BY <1>2, <1>3 DEF checkerVars
<1>4. CASE EvictNext \/ StoreNext
  BY <1>2, <1>4 DEF EvictNext, ClearUserCache, ClearKey, SetRedirect, RemoveRedirect, DeleteKey,
                    StoreNext, AddRules, RemoveRule, PutRedirect, RedisFails
<1>5. CASE Tick
  <2>1. /\ call'[p].pc = call[p].pc /\ call'[p].key = call[p].key /\ call'[p].val = call[p].val
        /\ call'[p].idx = call[p].idx
    BY <1>1, <1>5 DEF Tick, Calls
  <2> QED BY <1>1, <2>1 DEF CallFits
<1>6. CASE LookupNext
  <2>1. PICK x \in Procs : LookupNext!(x) BY <1>6 DEF LookupNext
  <2>2. CASE x # p
    <3>1. \E c : call' = [call EXCEPT ![x] = c]
      BY <2>1 DEF Lookup, CheckQuery, HGet, RedirectUnavailable, Fill, Return
    <3> QED BY <1>1, <1>2, <2>2, <3>1
  <2>3. ASSUME NEW u \in Users, NEW q \in Queries, Lookup(p, u, q) PROVE CallFits(p)'
    <3>1. PICK kind \in Kinds : Lookup(p, u, q)!(kind) BY <2>3 DEF Lookup
    <3>2. PICK k \in Keys : k = [kind |-> kind, user |-> u, dom |-> Normalize(q)]
      BY CheckerAssumption DEF Keys, Doms
    <3>3. CASE Live(k)
      <4>1. call'[p].pc = "return" /\ call'[p].key = k /\ call'[p].val = cache[k].val
        BY <1>1, <3>1, <3>2, <3>3
      <4> QED BY <3>3, <4>1 DEF CallFits, Fits, EntryFits
    <3>4. CASE ~Live(k)
      <4>1. call'[p].pc = "query" /\ call'[p].key = k /\ call'[p].val = NoIP /\ call'[p].idx = 1
        BY <1>1, <3>1, <3>2, <3>4
      <4>2. q \in Names BY CheckerAssumption
      <4>3. k.dom \in Names BY <3>2, <4>2, NormalizeType
      <4>4. Len(generatePatterns(k.dom)) \in Nat /\ Len(generatePatterns(k.dom)) >= 1
        BY <4>3, PatternsSpelled
      <4> QED BY <4>1, <4>4 DEF CallFits
    <3> QED BY <3>3, <3>4
  <2>4. CASE CheckQuery(p)
    <3>1. call'[p].pc = "fill" /\ call'[p].key = call[p].key /\ call[p].key.kind = "rule"
          /\ call'[p].val = Verdict(call[p].key.user, call[p].key.dom)
      BY <1>1, <2>4 DEF CheckQuery, Calls
    <3>2. \A u, d : Verdict(u, d) \in Verdicts BY DEF Verdict, Verdicts
    <3> QED BY <3>1, <3>2 DEF CallFits, KindOK
  <2>5. CASE HGet(p)
    <3> DEFINE c == call[p]
               ps == generatePatterns(c.key.dom)
               ip == Field(c.key.user, ps[c.idx])
    <3>1. c.pc = "query" /\ c.key.kind = "redirect" BY <2>5 DEF HGet
    <3>2. c.val = NoIP /\ c.idx \in 1..Len(ps) BY <1>1, <3>1 DEF CallFits
    <3>3. ip \in Targets /\ NoIP \in Targets
      BY <1>1, AnswerType DEF CheckerOK, Calls, Keys, Targets
    <3>4. call'[p] = CASE ip # NoIP -> [c EXCEPT !.pc = "fill", !.val = ip]
                       [] ip = NoIP /\ c.idx = Len(ps) -> [c EXCEPT !.pc = "fill"]
                       [] OTHER -> [c EXCEPT !.idx = @ + 1]
      BY <1>1, <2>5 DEF HGet
    <3>5. c \in Calls BY <1>1
    <3>6. CallFits(p)' <=>
            /\ call'[p].pc = "query" =>
                  call'[p].val = NoIP /\ call'[p].idx \in 1..Len(generatePatterns(call'[p].key.dom))
            /\ call'[p].pc \in {"fill", "return"} => KindOK(call'[p].key, call'[p].val)
      BY DEF CallFits, KindOK
    <3> HIDE DEF c, ip
    <3>7. CASE ip # NoIP
      <4>1. call'[p] = [c EXCEPT !.pc = "fill", !.val = ip] BY <3>4, <3>7
      <4>2. call'[p].pc = "fill" /\ call'[p].key = c.key /\ call'[p].val = ip BY <3>5, <4>1 DEF Calls
      <4> QED BY <3>1, <3>3, <3>6, <4>2 DEF KindOK
    <3>8. CASE ip = NoIP /\ c.idx = Len(ps)
      <4>1. call'[p] = [c EXCEPT !.pc = "fill"] BY <3>4, <3>8
      <4>2. call'[p].pc = "fill" /\ call'[p].key = c.key /\ call'[p].val = NoIP
        BY <3>2, <3>5, <4>1 DEF Calls
      <4> QED BY <3>1, <3>3, <3>6, <4>2 DEF KindOK
    <3>9. CASE ip = NoIP /\ c.idx # Len(ps)
      <4>1. call'[p] = [c EXCEPT !.idx = @ + 1] BY <3>4, <3>9
      <4>2. call'[p].pc = "query" /\ call'[p].key = c.key /\ call'[p].val = NoIP /\ call'[p].idx = c.idx + 1
        BY <3>1, <3>2, <3>5, <4>1 DEF Calls
      <4>3. c.idx + 1 \in 1..Len(ps) BY <3>2, <3>9
      <4> QED BY <3>6, <4>2, <4>3
    <3> QED BY <3>7, <3>8, <3>9
  <2>6. CASE RedirectUnavailable(p)
    <3>1. call'[p].pc = "return" /\ call'[p].key = call[p].key /\ call'[p].val = call[p].val
          /\ call[p].key.kind = "redirect" /\ call[p].pc = "query"
      BY <1>1, <2>6 DEF RedirectUnavailable, Calls
    <3>2. call[p].val \in Targets BY <1>1, <3>1 DEF CallFits, Targets
    <3> QED BY <3>1, <3>2 DEF CallFits, KindOK
  <2>7. CASE Fill(p)
    <3>1. call'[p].pc = "return" /\ call'[p].key = call[p].key /\ call'[p].val = call[p].val
          /\ call[p].pc = "fill"
      BY <1>1, <2>7 DEF Fill, Calls
    <3> QED BY <1>1, <3>1 DEF CallFits
  <2>8. CASE Return(p)
    <3>1. call'[p].pc = "idle" BY <1>1, <2>8 DEF Return, Idle
    <3> QED BY <3>1 DEF CallFits
  <2> QED BY <2>1, <2>2, <2>3, <2>4, <2>5, <2>6, <2>7, <2>8
<1> QED BY <1>3, <1>4, <1>5, <1>6 DEF Next

LEMMA NextEntryFits == CheckerOK /\ Fits /\ [Next]_checkerVars => \A k \in Keys : EntryFits(k)'
<1> SUFFICES ASSUME CheckerOK, Fits, [Next]_checkerVars, NEW k \in Keys, Live(k)'
             PROVE  KindOK(k, cache'[k].val)
  BY DEF EntryFits, KindOK
<1>1. cache \in [Keys -> Entries] /\ EntryFits(k) BY DEF CheckerOK, CacheOK, Fits
<1>2. ASSUME cache'[k] = cache[k] PROVE KindOK(k, cache'[k].val) BY <1>1, <1>2 DEF EntryFits, Live
<1>3. CASE UNCHANGED checkerVars BY <1>2, <1>3 DEF checkerVars
<1>4. CASE LookupNext
  <2>1. ASSUME NEW p \in Procs, Fill(p) PROVE KindOK(k, cache'[k].val)
    <3>1. CASE call[p].key = k
      <4>1. cache'[k].val = call[p].val BY <1>1, <2>1, <3>1 DEF Fill, SetEntry
      <4> QED BY <2>1, <3>1, <4>1 DEF Fill, Fits, CallFits
    <3>2. CASE call[p].key # k
      <4>1. cache'[k] = cache[k] BY <1>1, <2>1, <3>2 DEF Fill, SetEntry
      <4> QED BY <1>2, <4>1
    <3> QED BY <3>1, <3>2
  <2> QED BY <1>2, <1>4, <2>1 DEF LookupNext, Lookup, CheckQuery, HGet, RedirectUnavailable, Return
<1>5. CASE EvictNext
  <2>1. cache' = cache \/ \E K : Drop(K)
    BY <1>5 DEF EvictNext, ClearUserCache, ClearKey, SetRedirect, RemoveRedirect, DeleteKey
  <2>2. cache'[k] = cache[k] \/ cache'[k] = NoEntry BY <2>1 DEF Drop
  <2>3. cache'[k] # NoEntry BY DEF Live, NoEntry
  <2> QED BY <1>2, <2>2, <2>3
<1>6. CASE StoreNext BY <1>2, <1>6 DEF StoreNext, AddRules, RemoveRule, PutRedirect, RedisFails
<1>7. CASE Tick
  <2>1. cache'[k] = Aged(cache[k]) /\ cache[k] \in Entries BY <1>1, <1>7 DEF Tick
  <2>2. cache[k].ttl > 0 /\ cache'[k].val = cache[k].val
    BY <2>1, CheckerAssumption DEF Live, Aged, NoEntry, Entries
  <2> QED BY <1>1, <2>2 DEF EntryFits, Live
<1> QED BY <1>3, <1>4, <1>5, <1>6, <1>7 DEF Next

LEMMA NextFits == CheckerOK /\ Fits /\ [Next]_checkerVars => Fits'
  BY NextCallFits, NextEntryFits DEF Fits

-----------------------------------------------------------------------------
CachedBlock ==
    \A k \in Keys : k.kind = "rule" /\ Live(k) /\ fallbackCheck(k.dom) => cache[k].val = "blocked"

AnsweredBlock ==
    \A p \in Procs : call[p].key.kind = "rule" /\ call[p].pc \in {"fill", "return"}
                     /\ fallbackCheck(call[p].key.dom) => call[p].val = "blocked"

(* No step puts another verdict for a name on the built-in list in the cache. *)
LEMMA NextCachedBlock ==
    CheckerOK /\ CachedBlock /\ AnsweredBlock /\ [Next]_checkerVars => CachedBlock'
<1> SUFFICES ASSUME CheckerOK, CachedBlock, AnsweredBlock, [Next]_checkerVars,
                    NEW k \in Keys, k.kind = "rule", Live(k)', fallbackCheck(k.dom)
             PROVE  cache'[k].val = "blocked"
  BY DEF CachedBlock
<1> USE DEF CheckerOK, CacheOK, CallOK, CachedBlock, Live
<1>1. CASE cache'[k] = cache[k] BY <1>1
<1>2. ASSUME cache' = cache PROVE cache'[k].val = "blocked" BY <1>2, <1>1
<1>3. ASSUME NEW p \in Procs, Fill(p) PROVE cache'[k].val = "blocked"
  <2>1. CASE call[p].key = k BY <1>3, <2>1 DEF Fill, SetEntry, AnsweredBlock
  <2>2. CASE call[p].key # k
    <3>1. cache'[k] = cache[k] BY <1>3, <2>2 DEF Fill, SetEntry
    <3> QED BY <3>1, <1>1
  <2> QED BY <2>1, <2>2
<1>4. ASSUME NEW K, Drop(K) PROVE cache'[k].val = "blocked"
  <2>1. CASE k \in K BY <1>4, <2>1 DEF Drop, NoEntry
  <2>2. CASE k \notin K
    <3>1. cache'[k] = cache[k] BY <1>4, <2>2 DEF Drop
    <3> QED BY <3>1, <1>1
  <2> QED BY <2>1, <2>2
<1>5. CASE UNCHANGED checkerVars BY <1>5, <1>2 DEF checkerVars
<1>6. CASE LookupNext
  BY <1>6, <1>2, <1>3 DEF LookupNext, Lookup, CheckQuery, HGet, RedirectUnavailable, Return
<1>7. CASE EvictNext
  BY <1>7, <1>2, <1>4 DEF EvictNext, ClearUserCache, ClearKey, SetRedirect, RemoveRedirect, DeleteKey
<1>8. CASE StoreNext
  BY <1>8, <1>2 DEF StoreNext, AddRules, RemoveRule, PutRedirect, RedisFails
<1>9. CASE Tick
  <2>1. cache[k] \in Entries OBVIOUS
  <2>2. cache'[k] = Aged(cache[k]) BY <1>9 DEF Tick
  <2>3. cache[k].ttl > 1 BY <1>9, <2>1, <2>2, CheckerAssumption DEF Aged, NoEntry, Entries
  <2>4. cache'[k].val = cache[k].val BY <2>1, <2>2, <2>3, CheckerAssumption DEF Aged, Entries
  <2>5. cache[k].ttl > 0 BY <2>1, <2>3, CheckerAssumption DEF Entries
  <2>6. cache[k].val = "blocked" BY <2>5
  <2> QED BY <2>4, <2>6
<1> QED BY <1>5, <1>6, <1>7, <1>8, <1>9 DEF Next

(* No lookup ends with another verdict for such a name. *)
LEMMA NextAnsweredBlock ==
    CheckerOK /\ CachedBlock /\ AnsweredBlock /\ [Next]_checkerVars => AnsweredBlock'
<1> SUFFICES ASSUME CheckerOK, CachedBlock, AnsweredBlock, [Next]_checkerVars,
                    NEW p \in Procs, call'[p].key.kind = "rule", call'[p].pc \in {"fill", "return"},
                    fallbackCheck(call'[p].key.dom)
             PROVE  call'[p].val = "blocked"
  BY DEF AnsweredBlock
<1> USE DEF CheckerOK, CallOK
<1>0. \A x \in Procs : call[x] \in Calls OBVIOUS
<1>1. ASSUME call'[p] = call[p] PROVE call'[p].val = "blocked" BY <1>1 DEF AnsweredBlock
<1>2. ASSUME NEW x \in Procs, NEW c, call' = [call EXCEPT ![x] = c],
             x = p => call'[p].val = "blocked"
      PROVE  call'[p].val = "blocked"
  BY <1>1, <1>2
<1>3. ASSUME NEW x \in Procs, NEW u \in Users, NEW q \in Queries, Lookup(x, u, q)
      PROVE  call'[p].val = "blocked"
  <2>1. PICK kind \in Kinds : Lookup(x, u, q)!(kind) BY <1>3 DEF Lookup
  <2> DEFINE k == [kind |-> kind, user |-> u, dom |-> Normalize(q)]
  <2>2. k \in Keys BY <1>3, CheckerAssumption DEF Keys, Doms
  <2>3. CASE x = p /\ Live(k) BY <2>1, <2>2, <2>3 DEF CachedBlock
  <2>4. CASE x = p /\ ~Live(k) BY <2>1, <2>4
  <2>5. CASE x # p BY <2>1, <2>5, <1>1
  <2> QED BY <2>3, <2>4, <2>5
<1>4. ASSUME NEW x \in Procs, CheckQuery(x) PROVE call'[p].val = "blocked"
  <2>1. CASE x = p BY <1>4, <2>1, <1>0 DEF CheckQuery, Verdict, Calls
  <2>2. CASE x # p BY <1>4, <2>2, <1>1 DEF CheckQuery
  <2> QED BY <2>1, <2>2
<1>5. ASSUME NEW x \in Procs, HGet(x) PROVE call'[p].val = "blocked"
  <2>1. x # p BY <1>5, <1>0 DEF HGet, Calls
  <2> QED BY <1>5, <2>1, <1>1 DEF HGet
<1>6. ASSUME NEW x \in Procs, RedirectUnavailable(x) PROVE call'[p].val = "blocked"
  <2>1. x # p BY <1>6, <1>0 DEF RedirectUnavailable, Calls
  <2> QED BY <1>6, <2>1, <1>1 DEF RedirectUnavailable
<1>7. ASSUME NEW x \in Procs, Fill(x) PROVE call'[p].val = "blocked"
  <2>1. CASE x = p BY <1>7, <2>1, <1>0 DEF Fill, Calls, AnsweredBlock
  <2>2. CASE x # p BY <1>7, <2>2, <1>1 DEF Fill
  <2> QED BY <2>1, <2>2
<1>8. ASSUME NEW x \in Procs, Return(x) PROVE call'[p].val = "blocked"
  <2>1. x # p BY <1>8 DEF Return, Idle
  <2> QED BY <1>8, <2>1, <1>1 DEF Return
<1>9. CASE LookupNext BY <1>9, <1>3, <1>4, <1>5, <1>6, <1>7, <1>8 DEF LookupNext
<1>10. CASE UNCHANGED checkerVars BY <1>10, <1>1 DEF checkerVars
<1>11. CASE EvictNext
  BY <1>11, <1>1 DEF EvictNext, ClearUserCache, ClearKey, SetRedirect, RemoveRedirect, DeleteKey
<1>12. CASE StoreNext
  BY <1>12, <1>1 DEF StoreNext, AddRules, RemoveRule, PutRedirect, RedisFails
<1>13. CASE Tick
  <2>1. call'[p] = IF Busy(p) THEN [call[p] EXCEPT !.lag = @ + 1] ELSE call[p] BY <1>13 DEF Tick
  <2>2. /\ call'[p].pc = call[p].pc /\ call'[p].key = call[p].key
        /\ call'[p].val = call[p].val
    BY <2>1, <1>0 DEF Calls
  <2> QED BY <2>2 DEF AnsweredBlock
<1> QED BY <1>9, <1>10, <1>11, <1>12, <1>13 DEF Next

=============================================================================
