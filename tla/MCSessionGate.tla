---------------------------- MODULE MCSessionGate ----------------------------
(* A session with two commands, a model operation and two recordings. *)
EXTENDS SessionGate
CONSTANTS click, eval, dismiss, tool, start, restart, stop, group, model, teardown, nobody
=============================================================================
