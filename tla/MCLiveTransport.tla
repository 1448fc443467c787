--------------------------- MODULE MCLiveTransport ---------------------------
(* TLC instances of LiveTransport. *)
EXTENDS LiveTransport, TLC
=============================================================================
