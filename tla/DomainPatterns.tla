--------------------------- MODULE DomainPatterns ---------------------------
(***************************************************************************)
(* internal/rule/checker.go: how a domain is matched against rules.        *)
(*                                                                         *)
(* A domain string is the sequence of its labels, as strings.Split(d, ".") *)
(* gives it: "a.b" is <<"a", "b">>, a trailing dot is a last label "", the *)
(* wildcard rule "*.b" is <<"*", "b">>.                                    *)
(***************************************************************************)
EXTENDS Integers, Sequences

CONSTANTS
    Labels,      \* the labels names are made of
    Lower,       \* strings.ToLower on a label
    MaxLabels,   \* generatePatterns keeps the last 10 labels
    Fallback     \* the built-in blocklist of NewChecker

(* What strings.Split finds behind a trailing dot. *)
RootLabel == ""

Names == Seq(Labels) \ {<<>>}

ASSUME PatternsAssumption ==
    /\ {RootLabel, "*"} \subseteq Labels
    /\ Lower \in [Labels -> Labels]
    /\ \A l \in Labels : Lower[Lower[l]] = Lower[l] /\ (Lower[l] = RootLabel => l = RootLabel)
    /\ MaxLabels \in Nat \ {0}
    /\ \A b \in Fallback : b \in Names

-----------------------------------------------------------------------------
\* A mistake: the dot stays.
TrimDotNever(d) == d

(* strings.TrimSuffix(domain, "."): one trailing dot goes, and no more. *)
TrimDot(d) ==
    IF Len(d) > 1 /\ d[Len(d)] = RootLabel THEN SubSeq(d, 1, Len(d) - 1) ELSE d

(* What Check, GetRedirect, SetRedirect and RemoveRedirect do to a domain. *)
Normalize(d) == [i \in 1..Len(TrimDot(d)) |-> Lower[TrimDot(d)[i]]]

(* labels[len(labels)-10:] *)
LastLabels(d) ==
    IF Len(d) > MaxLabels THEN SubSeq(d, Len(d) - MaxLabels + 1, Len(d)) ELSE d

Wildcard(s) == <<"*">> \o s

\* A mistake: wildcards from the whole name on.
generatePatternsFromApex(d) ==
    LET labels == LastLabels(d)
    IN  <<d>> \o [i \in 1..Len(labels) |-> Wildcard(SubSeq(labels, i, Len(labels)))]

(* The domain itself, then a wildcard for each parent, nearest parent first. *)
generatePatterns(d) ==
    LET labels == LastLabels(d)
    IN  <<d>> \o [i \in 1..(Len(labels) - 1) |-> Wildcard(SubSeq(labels, i + 1, Len(labels)))]

Patterns(d) == {generatePatterns(d)[i] : i \in 1..Len(generatePatterns(d))}

(* strings.HasSuffix(domain, "." + b) *)
HasParent(d, b) == Len(d) > Len(b) /\ SubSeq(d, Len(d) - Len(b) + 1, Len(d)) = b

\* A mistake: a listed name blocks only the names one label below it.
fallbackCheckParentOnly(d) == \E b \in Fallback : Len(d) = Len(b) + 1 /\ HasParent(d, b)

fallbackCheck(d) == \E b \in Fallback : d = b \/ HasParent(d, b)

-----------------------------------------------------------------------------
(* The reference: which rules a name is subject to.  A rule covers the name *)
(* it spells, and "*.s" covers the names strictly under s; a parent longer  *)
(* than MaxLabels - 1 labels is out of the matcher's reach.                 *)
Covers(rule, d) ==
    \/ rule = d
    \/ \E n \in 1..(Len(d) - 1) :
          /\ n <= MaxLabels - 1
          /\ rule = Wildcard(SubSeq(d, Len(d) - n + 1, Len(d)))
=============================================================================
