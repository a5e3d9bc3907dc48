--------------------------- MODULE MCDaemonServer ---------------------------
(* Model values for DaemonServer: two tool calls and a daemon/shutdown. *)
EXTENDS DaemonServer
CONSTANTS t1, t2, s1
=============================================================================
