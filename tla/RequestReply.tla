---------------------------- MODULE RequestReply ----------------------------
(***************************************************************************)
(* What a session promises its client, with nothing of how: a command that *)
(* was asked is answered at most once, nothing else is answered, and a     *)
(* client that hung up, or was hung up on, hears nothing more.             *)
(***************************************************************************)
CONSTANT Commands

VARIABLES status,   \* of each command: "unasked", "pending" or "answered"
          up        \* the client still listens

vars == <<status, up>>

Init == status = [x \in Commands |-> "unasked"] /\ up = TRUE

Ask(x) ==
    /\ up /\ status[x] = "unasked"
    /\ status' = [status EXCEPT ![x] = "pending"]
    /\ UNCHANGED up

Answer(x) ==
    /\ up /\ status[x] = "pending"
    /\ status' = [status EXCEPT ![x] = "answered"]
    /\ UNCHANGED up

\* A command that finds no session is answered as it is asked.
Refuse(x) ==
    /\ up /\ status[x] = "unasked"
    /\ status' = [status EXCEPT ![x] = "answered"]
    /\ UNCHANGED up

HangUp == up /\ up' = FALSE /\ UNCHANGED status

Next == (\E x \in Commands : Ask(x) \/ Answer(x) \/ Refuse(x)) \/ HangUp

Spec == Init /\ [][Next]_vars
=============================================================================
