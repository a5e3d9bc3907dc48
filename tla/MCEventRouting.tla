--------------------------- MODULE MCEventRouting ---------------------------
(* EventRouting with three prompts, two navigations, one download. *)
EXTENDS EventRouting
CONSTANTS dialogCapture, loadCapture, file
=============================================================================
