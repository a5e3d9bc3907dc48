------------------------- MODULE MCClientTransport -------------------------
(* ClientTransport for TLC.                                                 *)
EXTENDS ClientTransport
=============================================================================
