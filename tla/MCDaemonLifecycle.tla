-------------------------- MODULE MCDaemonLifecycle --------------------------
(* Model values for DaemonLifecycle. *)
EXTENDS DaemonLifecycle
CONSTANTS p1, p2, p3, c1, c2, c3, s1
=============================================================================
