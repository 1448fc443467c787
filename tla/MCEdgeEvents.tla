---------------------------- MODULE MCEdgeEvents ----------------------------
(* TLC instances of EdgeEvents. *)
EXTENDS EdgeEvents
=============================================================================
