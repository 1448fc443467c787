----------------------------- MODULE MCChatQueue -----------------------------
(* TLC instances of ChatQueue. *)
EXTENDS ChatQueue, TLC
=============================================================================
