--------------------------- MODULE MCQueryHandler ---------------------------
(* The handler for TLC: one name that can be blocked and redirected by      *)
(* rule, one on the built-in list.                                          *)
EXTENDS QueryHandlerProps

MCLower == [l \in Labels |-> IF l = "A" THEN "a" ELSE l]
MCFallback == {<<"f">>}
MCBlockedQueries == {<<"A", "">>, <<"b", "f">>}
MCRules == {<<"a">>}
MCServerNames == {<<"alice", "dns">>, <<"dns">>}
MCPaths == {<<"alice", "dns-query">>, <<"">>}
=============================================================================
