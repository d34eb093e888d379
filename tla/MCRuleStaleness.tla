-------------------------- MODULE MCRuleStaleness --------------------------
(* The Checker with one user, instantiated for TLC.  Domain "a.x" can be    *)
(* reached by an exact rule and by a wildcard, "f.x" is on the built-in     *)
(* list; queries arrive in different spellings.                             *)
EXTENDS RuleStaleness, TLC

MCLower == [l \in Labels |-> IF l = "A" THEN "a" ELSE l]
MCFallback == {<<"f", "x">>}
MCQueries == {<<"A", "x", "">>, <<"f", "x">>}
MCBlockRules == {<<"a", "x">>, <<"*", "x">>}
MCRedirectQueries == {<<"A", "x", "">>}

\* Goroutines are alike.
ProcSymmetry == Permutations(Procs)
=============================================================================
