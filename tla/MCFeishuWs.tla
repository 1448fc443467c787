----------------------------- MODULE MCFeishuWs -----------------------------
(* TLC instances of FeishuWs. *)
EXTENDS FeishuWs, TLC
\* One event in two parts.
JustTwo == <<2>>
=============================================================================
