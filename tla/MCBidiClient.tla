---------------------------- MODULE MCBidiClient ----------------------------
(* Model values for BidiClient. *)
EXTENDS BidiClient
CONSTANTS c1, c2
=============================================================================
