---------------------------- MODULE DaemonServer ----------------------------
(***************************************************************************)
(* Inside one daemon process (clicker/internal/daemon: daemon.go,          *)
(* router.go): the accept loop of Run, one goroutine per connection, the   *)
(* idle watcher, and Shutdown.  DaemonLifecycle has the processes around   *)
(* it.                                                                     *)
(*                                                                         *)
(* A connection carries one request: a tool call, which needs the browser  *)
(* and holds d.mu while it runs, or daemon/shutdown.  Every connection     *)
(* takes d.mu for a moment first, to touch lastActivity.                   *)
(***************************************************************************)
EXTENDS DaemonPromise

None  == "none"
Free  == "free"

ASSUME ServerAssumption ==
    Tools \cap Stops = {} /\ Conns \cap {None, Free, "shutdown"} = {}

VARIABLES
    hand,      \* the connection Accept returned and nobody handles yet
    listening, \* the listener is open
    mu,        \* who holds d.mu: a connection, "shutdown" or Free
    notify,    \* handlers.launchNotify: the connection it writes to
    notices,   \* <<to, of>>: who was told that whose tool launches the browser
    asked,     \* somebody called Shutdown
    spc,       \* Shutdown: "none", "stop", "wait", "lock", "close", "files", "done"
    stale      \* lastActivity is older than the idle timeout

server == <<run, hand, listening>>
tools  == <<mu, notify, notices, browser>>
stop   == <<asked, spc, timedOut>>
vars   == <<server, conn, tools, stop, stale, late>>

Init ==
    /\ run = "start" /\ hand = None /\ listening = FALSE
    /\ conn = [c \in Conns |-> "new"]
    /\ mu = Free /\ notify = None /\ notices = {} /\ browser = FALSE
    /\ asked = FALSE /\ spc = "none" /\ timedOut = FALSE
    /\ stale = FALSE /\ late = {}

Up == run # "exited"
Goto(c, s) == conn' = [conn EXCEPT ![c] = s]

Waited == spc \in {"lock", "close", "files", "done"}

----------------------------------------------------------------------------
(* Run.                                                                    *)

\* Listen, and write the PID file.
Listen ==
    /\ run = "start"
    /\ run' = "accept" /\ listening' = TRUE
    /\ UNCHANGED <<hand, conn, tools, stop, stale, late>>

\* A client connects: it waits in the backlog until Accept takes it.
Connect(c) ==
    /\ conn[c] = "new" /\ listening /\ Up
    /\ Goto(c, "backlog")
    /\ UNCHANGED <<server, tools, stop, stale, late>>

Accept(c) ==
    /\ run = "accept" /\ listening /\ conn[c] = "backlog"
    /\ run' = "spawn" /\ hand' = c
    /\ UNCHANGED <<listening, conn, tools, stop, stale, late>>

\* d.wg.Add(1) and the goroutine, whatever Shutdown did since Accept.
StartHandler ==
    /\ run = "spawn"
    /\ Goto(hand, "touch")
    /\ late' = IF Waited THEN late \cup {hand} ELSE late
    /\ run' = "accept" /\ hand' = None
    /\ UNCHANGED <<listening, tools, stop, stale>>

\* The closed listener's Accept fails; d.done is closed, so wait for shutdownDone.
AcceptFails ==
    /\ run = "accept" /\ ~listening /\ spc # "none"
    /\ run' = "draining"
    /\ UNCHANGED <<hand, listening, conn, tools, stop, stale, late>>

\* Run returns and the process ends, with all its goroutines.
Exit ==
    /\ run = "draining" /\ spc = "done"
    /\ run' = "exited"
    /\ UNCHANGED <<hand, listening, conn, tools, stop, stale, late>>

----------------------------------------------------------------------------
(* handleConnection.                                                       *)

TouchActivity(c) ==
    /\ conn[c] = "touch" /\ mu = Free /\ Up
    /\ stale' = FALSE /\ Goto(c, "read")
    /\ UNCHANGED <<server, tools, stop, late>>

\* The request is read and routed; daemon/shutdown starts Shutdown in a goroutine
\* of its own, so that the answer can still be sent.
ReadRequest(c) ==
    /\ conn[c] = "read" /\ Up
    /\ Goto(c, IF c \in Tools THEN "lock" ELSE "reply")
    /\ asked' = (asked \/ c \in Stops)
    /\ UNCHANGED <<server, tools, spc, timedOut, stale, late>>

\* The client sends nothing for 60 s, or hangs up.
ReadFails(c) ==
    /\ conn[c] = "read" /\ Up
    /\ Goto(c, "gone")
    /\ UNCHANGED <<server, tools, stop, stale, late>>

CanLock == mu = Free

\* Under d.mu the notice of a launch is directed at this connection.
LockForTool(c) ==
    /\ conn[c] = "lock" /\ CanLock /\ Up
    /\ mu' = c /\ notify' = c /\ Goto(c, "tool")
    /\ UNCHANGED <<server, notices, browser, stop, stale, late>>

\* Lazy launch: a tool that finds no browser says so and starts one.
LaunchBrowser(c) ==
    /\ conn[c] = "tool" /\ ~browser /\ Up
    /\ notices' = notices \cup {<<notify, c>>} /\ browser' = TRUE
    /\ UNCHANGED <<server, conn, mu, notify, stop, stale, late>>

\* Mutant: the lock is kept.
MuAfterTool_Held == mu
MuAfterTool == Free

\* The call of the tool returns.  It need not: a send to a frozen browser has no deadline,
\* nor has the download of an engine.
FinishTool(c) ==
    /\ conn[c] = "tool" /\ Up
    /\ notify' = None /\ mu' = MuAfterTool /\ Goto(c, "reply")
    /\ UNCHANGED <<server, notices, browser, stop, stale, late>>

SendReply(c) ==
    /\ conn[c] = "reply" /\ Up
    /\ Goto(c, "answered")
    /\ UNCHANGED <<server, tools, stop, stale, late>>

----------------------------------------------------------------------------
(* Who calls Shutdown, besides the request.                                *)

\* The signal handler, installed before Run; it takes one signal only.
Signal ==
    /\ ~asked /\ Up
    /\ asked' = TRUE
    /\ UNCHANGED <<server, conn, tools, spc, timedOut, stale, late>>

TimePasses ==
    /\ ~stale /\ Up /\ stale' = TRUE
    /\ UNCHANGED <<server, conn, tools, stop, late>>

\* watchIdle looks at lastActivity under d.mu, so never while a tool runs.
IdleTimeout ==
    /\ run # "start" /\ spc = "none" /\ ~asked /\ stale /\ mu = Free
    /\ asked' = TRUE
    /\ UNCHANGED <<server, conn, tools, spc, timedOut, stale, late>>

----------------------------------------------------------------------------
(* Shutdown, once.                                                         *)

BeginShutdown ==
    /\ asked /\ spc = "none" /\ Up
    /\ spc' = "stop"
    /\ UNCHANGED <<server, conn, tools, asked, timedOut, stale, late>>

\* Mutant: the listener stays open.
ListeningAfter_Open == listening
ListeningAfter == FALSE

\* d.listener is nil until Run has set it.
CloseListener ==
    /\ spc = "stop"
    /\ listening' = ListeningAfter
    /\ spc' = "wait"
    /\ UNCHANGED <<run, hand, conn, tools, asked, timedOut, stale, late>>

\* Mutant: nobody waits for the handlers.
WaitOver_AtOnce == TRUE
WaitOver == Handling = {}

\* d.wg.Wait returns ...
HandlersDone ==
    /\ spc = "wait" /\ WaitOver
    /\ spc' = "lock"
    /\ UNCHANGED <<server, conn, tools, asked, timedOut, stale, late>>

\* ... or 10 s pass.
WaitTimesOut ==
    /\ spc = "wait" /\ Handling # {}
    /\ spc' = "lock" /\ timedOut' = TRUE
    /\ UNCHANGED <<server, conn, tools, asked, stale, late>>

LockForClose ==
    /\ spc = "lock" /\ mu = Free
    /\ mu' = "shutdown" /\ spc' = "close"
    /\ UNCHANGED <<server, conn, notify, notices, browser, asked, timedOut, stale, late>>

\* Mutant: the browser is left to the operating system.
BrowserAfterClose_Left == browser
BrowserAfterClose == FALSE

\* handlers.Close returns, which a send to a frozen browser can keep it from.
CloseBrowser ==
    /\ spc = "close"
    /\ browser' = BrowserAfterClose /\ mu' = Free /\ spc' = "files"
    /\ UNCHANGED <<server, conn, notify, notices, asked, timedOut, stale, late>>

\* The socket and PID files go, and shutdownDone is closed.
RemoveFiles ==
    /\ spc = "files" /\ Up
    /\ spc' = "done"
    /\ UNCHANGED <<server, conn, tools, asked, timedOut, stale, late>>

----------------------------------------------------------------------------
HandlerStep(c) ==
    TouchActivity(c) \/ ReadRequest(c) \/ ReadFails(c) \/ LockForTool(c) \/ SendReply(c)
RunStep == Listen \/ StartHandler \/ AcceptFails \/ Exit
ShutdownStep ==
    \/ BeginShutdown \/ CloseListener \/ HandlersDone \/ WaitTimesOut
    \/ LockForClose \/ RemoveFiles
Next ==
    \/ \E c \in Conns :
          Connect(c) \/ Accept(c) \/ HandlerStep(c) \/ LaunchBrowser(c) \/ FinishTool(c)
    \/ RunStep \/ ShutdownStep \/ CloseBrowser
    \/ Signal \/ TimePasses \/ IdleTimeout

Spec == Init /\ [][Next]_vars

\* Goroutines run.  Every connection takes d.mu twice at most, so nobody waits for ever
\* for a d.mu that is released each time.  That tools end is not assumed.
Fairness ==
    /\ WF_vars(RunStep) /\ WF_vars(ShutdownStep)
    /\ \A c \in Conns : WF_vars(HandlerStep(c))
FairSpec == Spec /\ Fairness

----------------------------------------------------------------------------
(* Properties.                                                             *)

\* Every variable keeps its type, and d.mu is with the tool that runs or with the
\* closing of the browser.
TypeOK ==
    /\ run \in {"start", "accept", "spawn", "draining", "exited"}
    /\ hand \in Conns \cup {None} /\ (run = "spawn" <=> hand # None)
    /\ {listening, browser, asked, stale, timedOut} \subseteq BOOLEAN
    /\ conn \in [Conns -> {"new", "backlog", "touch", "read", "lock", "tool", "reply",
                           "answered", "gone"}]
    /\ notify \in Conns \cup {None} /\ notices \subseteq Conns \X Conns
    /\ late \subseteq Conns
    /\ spc \in {"none", "stop", "wait", "lock", "close", "files", "done"}
    /\ run = "spawn" => conn[hand] = "backlog"
    /\ mu \in {Free, "shutdown"} \/ (mu \in Conns /\ conn[mu] = "tool")
    /\ mu = "shutdown" <=> spc = "close"

\* "The launch callback targets this request's connection" (router.go): only the
\* client whose tool launches the browser is told to wait longer.
NoticeGoesToLauncher == \A n \in notices : n[1] = n[2]

(* What makes these hold; the proofs show it inductive. *)

\* The tool that runs has d.mu, and notices of a launch go to its client.
LockInv == \A c \in Conns : conn[c] = "tool" => mu = c /\ notify = c

\* Once Shutdown has waited, only handlers that started later are in flight.
WaitInv ==
    /\ run = "exited" => spc = "done"
    /\ Waited /\ ~timedOut => Handling \subseteq late

\* With nobody in flight, nobody launches a browser after it was closed.
ClosedInv == spc \in {"files", "done"} /\ ~timedOut /\ late = {} => ~browser

\* "Wait for full shutdown (browser cleanup)" (daemon.go): a daemon that ended left
\* no browser behind.
ExitClosesBrowser == run = "exited" => ~browser

\* A hypothesis: whoever calls into handlers with d.mu comes back.  The browser takes what
\* is sent to it, and an engine's download ends.
HandlersReturn ==
    /\ \A c \in Tools : []<>(conn[c] # "tool" \/ run = "exited")
    /\ []<>(spc # "close")

\* Shutdown ends the process, whoever has d.mu when its 10 s are over, if that one gives
\* d.mu back, and if Run had its listener when Shutdown began.  (Before that d.listener is
\* nil; the listener opened later is never closed, and shutdownOnce makes every later
\* Shutdown return at once.)
ShutdownEnds == HandlersReturn => (spc = "stop" /\ listening) ~> (run = "exited")

\* Every accepted connection is done with, or its process is: those that wait for d.mu
\* too, if those that have it give it back.
RequestsEnd == HandlersReturn =>
    \A c \in Conns : (conn[c] = "touch") ~> (conn[c] \in {"answered", "gone"} \/ run = "exited")
=============================================================================
