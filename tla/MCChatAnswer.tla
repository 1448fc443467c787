---------------------------- MODULE MCChatAnswer ----------------------------
(* TLC instances of ChatAnswer. *)
EXTENDS ChatAnswer, TLC
=============================================================================
