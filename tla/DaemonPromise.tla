---------------------------- MODULE DaemonPromise ----------------------------
(***************************************************************************)
(* What a daemon process owes when it exits: its clients an answer, and    *)
(* the machine a closed browser (clicker/internal/daemon: Shutdown).  It   *)
(* names the part of the state of DaemonServer that this is about.         *)
(***************************************************************************)
CONSTANTS Tools,   \* connections that call a tool
          Stops    \* connections that send daemon/shutdown

Conns == Tools \cup Stops

VARIABLES
    run,       \* Run: "start", "accept", "spawn", "draining", "exited"
    conn,      \* connection -> phase of its goroutine
    browser,   \* handlers has a browser
    timedOut,  \* the 10 s for in-flight handlers passed
    late       \* connections whose goroutine started when Shutdown had waited

\* d.wg counts the goroutines that were started and have not ended.
Handling == {c \in Conns : conn[c] \in {"touch", "read", "lock", "tool", "reply"}}

\* "Wait for in-flight handlers to finish (with timeout)": when the process ends,
\* every request that was read is answered, unless the 10 s passed or its goroutine
\* started when the waiting was over.
RequestsAreFinished ==
    run = "exited" /\ ~timedOut => Handling \subseteq late

\* Unless handlers outlast the wait, the browser is closed when the process ends.
BrowserIsClosed ==
    run = "exited" /\ ~timedOut /\ late = {} => ~browser
=============================================================================
