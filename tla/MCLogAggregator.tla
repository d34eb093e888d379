-------------------------- MODULE MCLogAggregator --------------------------
(* The analytics queue, instantiated for TLC.                               *)
EXTENDS LogAggregatorProps
=============================================================================
