-------------------------- MODULE MCChatAttachment --------------------------
(* TLC instances of ChatAttachment. *)
EXTENDS ChatAttachment, TLC
=============================================================================
