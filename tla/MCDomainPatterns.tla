-------------------------- MODULE MCDomainPatterns --------------------------
(* The matcher over every name of up to MaxLength labels.                   *)
EXTENDS DomainNames

MCLower == [l \in Labels |-> IF l = "A" THEN "a" ELSE l]
MCFallback == {<<"b">>, <<"a", "b">>, <<"a", "a">>}
=============================================================================
