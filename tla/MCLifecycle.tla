---------------------------- MODULE MCLifecycle ----------------------------
(* A process for TLC, with one DoT connection and one other query at a time. *)
EXTENDS LifecycleProps
=============================================================================
