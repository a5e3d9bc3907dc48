--------------------------- MODULE MCPageCommands ---------------------------
(* Every handler and every tool against a page of two elements and three spots. *)
EXTENDS AgentTools
MCPrograms == HandlerPrograms \cup ToolPrograms
MCScreen(s) == IF s = 2 THEN 2 ELSE 1
=============================================================================
