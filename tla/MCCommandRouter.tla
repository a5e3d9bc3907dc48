-------------------------- MODULE MCCommandRouter --------------------------
(* CommandRouter for TLC: one handler, h1. *)
EXTENDS CommandRouter
CONSTANT h1
=============================================================================
