--------------------------- MODULE MCIframeBridge ---------------------------
(* TLC instances of IframeBridge. *)
EXTENDS IframeBridge, TLC
=============================================================================
