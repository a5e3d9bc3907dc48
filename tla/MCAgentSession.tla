--------------------------- MODULE MCAgentSession ---------------------------
(* Two launches, three pages and frames, one event of the browser. *)
EXTENDS AgentSession
=============================================================================
