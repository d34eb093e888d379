--------------------------- MODULE MCRateLimiter ---------------------------
(* The limiter with two or three concurrent calls, instantiated for TLC.    *)
EXTENDS RateLimiter, TLC

CONSTANTS c1, c2, c3, r1, r2

OneReplica == [c \in Callers |-> r1]
TwoReplicas == [c \in Callers |-> IF c = c1 THEN r1 ELSE r2]
=============================================================================
