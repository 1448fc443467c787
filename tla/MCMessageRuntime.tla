-------------------------- MODULE MCMessageRuntime --------------------------
(* TLC instances of MessageRuntime. *)
EXTENDS MessageRuntime
=============================================================================
