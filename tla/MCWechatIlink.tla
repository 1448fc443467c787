--------------------------- MODULE MCWechatIlink ---------------------------
(* TLC instances of WechatIlink. *)
EXTENDS WechatIlink, TLC
CONSTANTS u1, u2
\* Two messages of one user around one of another and the account's own.
FourMessages == <<u1, Self, u2, u1>>
=============================================================================
