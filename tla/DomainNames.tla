---------------------------- MODULE DomainNames ----------------------------
(* What the matcher promises of a name, and a state machine that runs       *)
(* through the names: the state is one name, and a step puts a label in     *)
(* front of it, as a subdomain does.                                        *)
EXTENDS DomainPatterns

CONSTANT MaxLength   \* bound: labels in a name

VARIABLE name

ShortNames == UNION {[1..n -> Labels] : n \in 1..MaxLength}

NameInit == name \in {<<l>> : l \in Labels}

Subdomain(l) == Len(name) < MaxLength /\ name' = <<l>> \o name

NameNext == \E l \in Labels : Subdomain(l)

NameSpec == NameInit /\ [][NameNext]_name

-----------------------------------------------------------------------------
(* generatePatterns yields the rules that cover the name and no other: no   *)
(* parent is missed, and the apex is not taken for one of its subdomains.   *)
(* The more specific rule comes first, as redisGetRedirect returns the      *)
(* first pattern that has a redirect: an exact one beats a wildcard, and a  *)
(* near parent a far one.                                                   *)
PatternsMatchReference ==
    LET ps == generatePatterns(name)
    IN  /\ \A r \in ShortNames : r \in Patterns(name) <=> Covers(r, name)
        /\ ps[1] = name
        /\ \A i, j \in 2..Len(ps) : i < j => Len(ps[i]) > Len(ps[j])

(* A name under a blocked built-in domain is blocked too: fallbackCheck     *)
(* never lets a subdomain of a blocked name through.                        *)
SubdomainsStayBlocked == [][fallbackCheck(name) => fallbackCheck(name')]_name

(* Queries differing in case or by the root's dot are one name to the rules *)
(* and the cache: normalising a name and its dotted, upper-case form agree. *)
SpellingsAgree ==
    name[Len(name)] # RootLabel =>
        /\ Normalize(Append(name, RootLabel)) = Normalize(name)
        /\ Normalize([i \in 1..Len(name) |-> Lower[name[i]]]) = Normalize(name)
=============================================================================
