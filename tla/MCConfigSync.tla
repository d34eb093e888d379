---------------------------- MODULE MCConfigSync ----------------------------
(* The eviction path with one user and one domain, instantiated for TLC.    *)
EXTENDS ConfigSyncProps

MCLower == [l \in Labels |-> l]
MCQueries == {<<"a", "x">>}
MCRules == {<<"a", "x">>}
MCWildcard == {<<"*", "x">>}
=============================================================================
