-------------------------- MODULE DaemonLifecycle --------------------------
(***************************************************************************)
(* The CLI processes and daemon processes of one session on one host, and  *)
(* the two files through which they find each other: the PID file and the  *)
(* socket (clicker/internal/daemon: daemon.go, pidfile.go, status.go;      *)
(* clicker/cmd/clicker: daemon_client.go, daemon_cmd.go).  A step is one   *)
(* system call that reads or changes a file, a socket or a process.        *)
(*                                                                         *)
(* A caller sends one command and starts the daemon when none answers; a   *)
(* stopper is `vibium daemon stop`.  PIDs are not reused.  Unix sockets:   *)
(* closing a listener unlinks its path, whoever the file belongs to.       *)
(*                                                                         *)
(* A stopper waits 10 s and gives up then.  The other time-outs are long   *)
(* enough: a daemon starts within the 5 s a caller polls, and in-flight    *)
(* commands end within the 10 s a shutdown waits for them and within the   *)
(* 60 s their callers do.  (DaemonServer looks at the shutdown's 10 s.)    *)
(***************************************************************************)
EXTENDS Naturals, FiniteSets

CONSTANTS Daemons,      \* daemon processes, by PID
          Callers,      \* CLI processes that call the daemon
          Stoppers,     \* CLI processes that stop it
          Sequential,   \* TRUE: a CLI process starts after the others ended
          IdleTimeout,  \* TRUE: a daemon may reach its idle timeout
          MaxCrashes    \* bound: daemons killed

Clients == Callers \cup Stoppers
None == "none"

ASSUME DaemonAssumption ==
    /\ Callers \cap Stoppers = {} /\ Daemons \cap (Clients \cup {None}) = {}
    /\ {Sequential, IdleTimeout} \subseteq BOOLEAN /\ MaxCrashes \in Nat

VARIABLES pidFile,  \* the PID in the PID file, or None
          sock,     \* the daemon whose listener made the socket file, or None
          pc,       \* control of every process
          to,       \* the daemon a client is connected to, or waits for
          asked,    \* daemons that got daemon/shutdown
          crashes,
          hit       \* clients that were running when a daemon was killed

files == <<pidFile, sock>>
vars == <<pidFile, sock, pc, to, asked, crashes, hit>>

Ended == {"ok", "failed", "gaveup"}
Init ==
    /\ pidFile = None /\ sock = None
    /\ pc = [q \in Daemons \cup Clients |-> IF q \in Daemons THEN "unborn" ELSE "idle"]
    /\ to = [c \in Clients |-> None]
    /\ asked = {} /\ crashes = 0 /\ hit = {}

ProcessExists(p) == p # None /\ pc[p] \notin {"unborn", "exited", "crashed"}
Listening(p) == pc[p] \in {"writepid", "serve"}
Starting(p) == pc[p] \in {"clean", "unpid", "unsock", "check", "dial", "remove", "listen"}
Running(c) == pc[c] \notin Ended \cup {"idle"}

\* A dial succeeds once the listener exists, before anything is accepted.
Connectable == sock # None /\ Listening(sock)

Goto(q, s) == pc' = [pc EXCEPT ![q] = s]

----------------------------------------------------------------------------
(* CleanStale, run by a caller before it starts a daemon, and by a daemon.  *)

IsStale == pidFile # None /\ ~ProcessExists(pidFile)

AfterClean(q) == IF q \in Callers THEN "spawn" ELSE "check"

CleanRead(q) ==
    /\ pc[q] = "clean"
    /\ Goto(q, IF IsStale THEN "unpid" ELSE AfterClean(q))
    /\ UNCHANGED <<files, to, asked, crashes, hit>>

CleanPid(q) ==
    /\ pc[q] = "unpid" /\ pidFile' = None /\ Goto(q, "unsock")
    /\ UNCHANGED <<sock, to, asked, crashes, hit>>

CleanSocket(q) ==
    /\ pc[q] = "unsock" /\ sock' = None /\ Goto(q, AfterClean(q))
    /\ UNCHANGED <<pidFile, to, asked, crashes, hit>>

----------------------------------------------------------------------------
(* A daemon: runDaemonForeground, Run, Shutdown.                            *)

\* IsRunning: the PID file names a live process ...
CheckPid(q) ==
    /\ pc[q] = "check"
    /\ Goto(q, IF ProcessExists(pidFile) THEN "dial"
               ELSE IF q \in Daemons THEN "remove" ELSE "ok")
    /\ UNCHANGED <<files, to, asked, crashes, hit>>

\* ... and the socket can be dialled.  A second daemon gives up, a stopper goes on.
CheckSocket(q) ==
    /\ pc[q] = "dial"
    /\ Goto(q, IF q \in Daemons THEN IF Connectable THEN "exited" ELSE "remove"
               ELSE IF Connectable THEN "readpid" ELSE "ok")
    /\ UNCHANGED <<files, to, asked, crashes, hit>>

\* Mutant: a leftover socket file is not removed.
SocketAfterRemove_Left == sock
SocketAfterRemove == None

RemoveOldSocket(p) ==
    /\ pc[p] = "remove" /\ sock' = SocketAfterRemove /\ Goto(p, "listen")
    /\ UNCHANGED <<pidFile, to, asked, crashes, hit>>

\* A path that exists cannot be bound.
Listen(p) ==
    /\ pc[p] = "listen"
    /\ IF sock = None THEN sock' = p /\ Goto(p, "writepid")
                      ELSE UNCHANGED sock /\ Goto(p, "exited")
    /\ UNCHANGED <<pidFile, to, asked, crashes, hit>>

WritePID(p) ==
    /\ pc[p] = "writepid" /\ pidFile' = p /\ Goto(p, "serve")
    /\ UNCHANGED <<sock, to, asked, crashes, hit>>

Accept(p) ==
    /\ pc[p] = "serve"
    /\ \E c \in Callers : pc[c] = "sent" /\ to[c] = p /\ Goto(c, "accepted")
    /\ UNCHANGED <<files, to, asked, crashes, hit>>

\* Shutdown: the listener is closed, and its path unlinked.
ShutdownListener(p) ==
    /\ pc[p] = "serve" /\ (p \in asked \/ IdleTimeout)
    /\ sock' = None /\ Goto(p, "closing")
    /\ UNCHANGED <<pidFile, to, asked, crashes, hit>>

\* In-flight commands finish; then the browser is closed.
InFlight(p) == \E c \in Callers : pc[c] = "accepted" /\ to[c] = p
ShutdownBrowser(p) ==
    /\ pc[p] = "closing" /\ ~InFlight(p)
    /\ Goto(p, "closed")
    /\ UNCHANGED <<files, to, asked, crashes, hit>>

ShutdownSocket(p) ==
    /\ pc[p] = "closed" /\ sock' = None /\ Goto(p, "unlinked")
    /\ UNCHANGED <<pidFile, to, asked, crashes, hit>>

\* RemovePID, after which Run returns and the process ends.
ShutdownPid(p) ==
    /\ pc[p] = "unlinked" /\ pidFile' = None /\ Goto(p, "exited")
    /\ UNCHANGED <<sock, to, asked, crashes, hit>>

----------------------------------------------------------------------------
(* A caller: callDaemonWithAutoStart.                                       *)

Begin(c) ==
    /\ pc[c] = "idle"
    /\ Sequential => \A d \in Clients : ~Running(d)
    /\ Goto(c, IF c \in Callers THEN "call" ELSE "check")
    /\ UNCHANGED <<files, to, asked, crashes, hit>>

\* daemon.Call: only a failed dial is a connection error, and only of the first
\* attempt.
Call(c) ==
    /\ pc[c] \in {"call", "retry"}
    /\ IF Connectable
          THEN to' = [to EXCEPT ![c] = sock] /\ Goto(c, "sent")
          ELSE /\ Goto(c, IF pc[c] = "call" THEN "clean" ELSE "failed")
               /\ UNCHANGED to
    /\ UNCHANGED <<files, asked, crashes, hit>>

\* autoStartDaemon: the new process begins with CleanStale.
Spawn(c) ==
    /\ pc[c] = "spawn"
    /\ \E p \in Daemons : /\ pc[p] = "unborn"
                          /\ pc' = [pc EXCEPT ![p] = "clean", ![c] = "poll"]
    /\ UNCHANGED <<files, to, asked, crashes, hit>>

\* Mutant: polling never ends.
PollExpires_Never == FALSE
PollExpires == \A p \in Daemons : ~Starting(p)

\* waitForSocket gives up when no daemon is on its way any more.
Poll(c) ==
    /\ pc[c] = "poll"
    /\ \/ Connectable /\ Goto(c, "retry")
       \/ ~Connectable /\ PollExpires /\ Goto(c, "failed")
    /\ UNCHANGED <<files, to, asked, crashes, hit>>

\* The command's answer; or the connection goes away with the listener that never
\* accepted it, or with the process.
Answer(c) ==
    /\ pc[c] = "accepted" /\ ProcessExists(to[c]) /\ Goto(c, "ok")
    /\ UNCHANGED <<files, to, asked, crashes, hit>>

Reset(c) ==
    /\ \/ pc[c] = "sent" /\ ~Listening(to[c])
       \/ pc[c] = "accepted" /\ ~ProcessExists(to[c])
    /\ Goto(c, "failed")
    /\ UNCHANGED <<files, to, asked, crashes, hit>>

----------------------------------------------------------------------------
(* A stopper: shutdownDaemonAndWait, after IsRunning (CheckPid, CheckSocket). *)

StopReadPid(c) ==
    /\ pc[c] = "readpid"
    /\ to' = [to EXCEPT ![c] = pidFile] /\ Goto(c, "ask")
    /\ UNCHANGED <<files, asked, crashes, hit>>

\* daemon/shutdown is answered before the shutdown has begun.
StopAsk(c) ==
    /\ pc[c] = "ask"
    /\ \/ /\ Connectable /\ pc[sock] = "serve"
          /\ asked' = asked \cup {sock} /\ Goto(c, "wait")
       \/ ~Connectable /\ Goto(c, "failed") /\ UNCHANGED asked
    /\ UNCHANGED <<files, to, crashes, hit>>

\* It waits for the process whose PID it read ...
\* Mutant: the command does not wait for the process to end.
StopMayReturn_AtOnce(c) == TRUE
StopMayReturn(c) == ~ProcessExists(to[c])

StopReturn(c) ==
    /\ pc[c] = "wait" /\ StopMayReturn(c) /\ Goto(c, "ok")
    /\ UNCHANGED <<files, to, asked, crashes, hit>>

\* ... until the deadline.  The command ends without an error then, too.
StopGivesUp(c) ==
    /\ pc[c] = "wait" /\ ~StopMayReturn(c) /\ Goto(c, "gaveup")
    /\ UNCHANGED <<files, to, asked, crashes, hit>>

----------------------------------------------------------------------------
\* A daemon is killed: its files stay.
Crash(p) ==
    /\ ProcessExists(p) /\ crashes < MaxCrashes
    /\ Goto(p, "crashed") /\ crashes' = crashes + 1
    /\ hit' = hit \cup {c \in Clients : Running(c)}
    /\ UNCHANGED <<files, to, asked>>

CleanStep(q) == CleanRead(q) \/ CleanPid(q) \/ CleanSocket(q)
DaemonStep(p) ==
    \/ CleanStep(p) \/ CheckPid(p) \/ CheckSocket(p)
    \/ RemoveOldSocket(p) \/ Listen(p) \/ WritePID(p) \/ Accept(p)
    \/ ShutdownBrowser(p) \/ ShutdownSocket(p) \/ ShutdownPid(p)
CallerStep(c) ==
    \/ CleanStep(c) \/ Call(c) \/ Spawn(c) \/ Poll(c) \/ Answer(c) \/ Reset(c)
StopperStep(c) ==
    \/ CheckPid(c) \/ CheckSocket(c)
    \/ StopReadPid(c) \/ StopAsk(c) \/ StopReturn(c) \/ StopGivesUp(c)

Next ==
    \/ \E p \in Daemons : DaemonStep(p) \/ ShutdownListener(p) \/ Crash(p)
    \/ \E c \in Clients : Begin(c)
    \/ \E c \in Callers : CallerStep(c)
    \/ \E c \in Stoppers : StopperStep(c)

Spec == Init /\ [][Next]_vars

\* Every process runs, and a daemon that was asked to shut down does.
Fairness ==
    /\ \A p \in Daemons : WF_vars(DaemonStep(p))
                          /\ WF_vars(p \in asked /\ ShutdownListener(p))
    /\ \A c \in Callers : WF_vars(CallerStep(c))
    /\ \A c \in Stoppers : WF_vars(StopperStep(c))
FairSpec == Spec /\ Fairness

----------------------------------------------------------------------------
(* Properties.                                                             *)

DaemonPhases == {"unborn", "clean", "unpid", "unsock", "check", "dial", "remove",
    "listen", "writepid", "serve", "closing", "closed", "unlinked", "exited", "crashed"}
ClientPhases == {"idle", "call", "clean", "unpid", "unsock", "spawn", "poll", "retry",
    "sent", "accepted", "check", "dial", "readpid", "ask", "wait", "ok",
    "failed", "gaveup"}

\* Every variable keeps its type; files name daemons that were born.
TypeOK ==
    /\ \A f \in {pidFile, sock} : f = None \/ (f \in Daemons /\ pc[f] # "unborn")
    /\ pc \in [Daemons \cup Clients -> DaemonPhases \cup ClientPhases]
    /\ \A p \in Daemons : pc[p] \in DaemonPhases
    /\ \A c \in Clients : pc[c] \in ClientPhases
    /\ to \in [Clients -> Daemons \cup {None}]
    /\ asked \subseteq Daemons /\ hit \subseteq Clients /\ crashes \in 0 .. MaxCrashes

\* No stopper has reported success over a daemon that was still there.  After one has,
\* the old daemon removes the files of its successor, as in ShutdownSocket and ShutdownPid.
NobodyGaveUp == \A c \in Stoppers : pc[c] # "gaveup"

\* "All commands on a host share one daemon and one browser" (SKILL.md): no two
\* daemons take commands at once, as long as no stopper gave up on one.
OneDaemon == NobodyGaveUp => \A p, q \in Daemons : Listening(p) /\ Listening(q) => p = q

\* "accessible via a Unix socket" (daemon.go): a daemon that takes commands can be
\* found by the next command, and stopped, as long as no stopper gave up on another.
ServingIsReachable ==
    NobodyGaveUp => \A p \in Daemons : pc[p] = "serve" => sock = p /\ pidFile = p

\* Whatever a killed daemon left behind, the next command gets its answer: one fails
\* only if a daemon is killed while it runs, or a stopper gave up on one.
FailsOnlyByCrash == NobodyGaveUp => \A c \in Callers : pc[c] = "failed" => c \in hit

\* `vibium daemon stop` waits for the daemon it asked, although it reads the PID and dials
\* the socket one after the other, and what it waited for is gone when it returns before
\* its deadline: the process and, unless that was killed, its files.  At the deadline it
\* returns just so with the daemon still there, which then was asked to go.
StopIsComplete == \A c \in Stoppers :
    /\ pc[c] = "wait" /\ NobodyGaveUp => to[c] \in asked
    /\ pc[c] = "gaveup" /\ (\A d \in Stoppers \ {c} : pc[d] # "gaveup") => to[c] \in asked
    /\ pc[c] = "ok" /\ to[c] # None =>
          /\ ~ProcessExists(to[c])
          /\ pc[to[c]] = "exited" => to[c] \notin {pidFile, sock}

\* Every command ends, with an answer or an error.
CommandsEnd == \A c \in Clients : Running(c) ~> ~Running(c)

(* What makes the safety properties hold while commands run one after another, no daemon   *)
(* goes by itself and no stopper gives up; the proofs show it inductive.                   *)

\* There is one daemon, and one command.
OneAtATime ==
    /\ \A p, q \in Daemons : ProcessExists(p) /\ ProcessExists(q) => p = q
    /\ \A c, d \in Clients : Running(c) /\ Running(d) => c = d

\* A daemon that does not serve yet has a caller waiting for it, one that does no more
\* a stopper; and while a caller cleans up what a dead one left there is none.
Attended ==
    /\ \A p \in Daemons :
          /\ Starting(p) => \E c \in Callers : pc[c] = "poll"
          /\ pc[p] = "writepid" =>
                \E c \in Callers : pc[c] \in {"poll", "retry"} \/ (pc[c] = "sent" /\ to[c] = p)
          /\ pc[p] \in {"closing", "closed", "unlinked"} => p \in asked
          /\ p \in asked => pc[p] # "unborn"
          /\ p \in asked /\ ProcessExists(p) => \E c \in Stoppers : pc[c] = "wait" /\ to[c] = p
    /\ \A c \in Callers :
          pc[c] \in {"clean", "unpid", "unsock", "spawn"} => \A p \in Daemons : ~ProcessExists(p)

\* Whose files they are; with none of its own a daemon finds no other that lives.
FilesInv ==
    \A p \in Daemons :
        /\ pc[p] = "serve" => sock = p /\ pidFile = p
        /\ pc[p] = "writepid" => sock = p
        /\ Starting(p) \/ pc[p] = "writepid" => pidFile # p
        /\ pc[p] = "listen" => sock = None
        /\ pc[p] \in {"closing", "closed", "unlinked"} => sock # p
        /\ pc[p] = "exited" => p \notin {pidFile, sock}
        /\ pc[p] # "dial"

\* What a caller waits for is there, or was killed.
CallerInv ==
    \A c \in Callers :
        /\ pc[c] = "failed" => c \in hit
        /\ pc[c] = "poll" => c \in hit \/ \E p \in Daemons : Starting(p) \/ Listening(p)
        /\ pc[c] = "retry" => c \in hit \/ \E p \in Daemons : Listening(p)
        /\ pc[c] = "sent" => to[c] # None /\ (c \in hit \/ Listening(to[c]))
        /\ pc[c] = "accepted" => to[c] # None /\ (c \in hit \/ pc[to[c]] = "serve")

\* A stopper waits for the daemon it asked.
StopperInv ==
    \A c \in Stoppers :
        /\ to[c] # None => pc[to[c]] # "unborn"
        /\ pc[c] \in {"idle", "check", "dial", "readpid"} => to[c] = None
        /\ pc[c] = "ask" => to[c] = pidFile
        /\ pc[c] = "wait" => to[c] \in asked
        /\ pc[c] = "ok" /\ to[c] # None => ~ProcessExists(to[c])

SequentialInv == OneAtATime /\ Attended /\ FilesInv /\ CallerInv /\ StopperInv

\* What is left of that when stoppers have given up: whose files a daemon has not, and
\* what stoppers that ended know of their daemon.
StopInv ==
    /\ \A p \in Daemons :
          /\ Starting(p) => p \notin {pidFile, sock}
          /\ pc[p] = "writepid" => pidFile # p
          /\ pc[p] \in {"closing", "closed", "unlinked"} => sock # p
          /\ pc[p] = "exited" => p \notin {pidFile, sock}
    /\ \A c \in Clients : to[c] # None => pc[to[c]] # "unborn"
    /\ \A c \in Stoppers :
          /\ pc[c] \in {"idle", "check", "dial"} => to[c] = None
          /\ pc[c] = "ok" /\ to[c] # None => ~ProcessExists(to[c])
          /\ pc[c] = "gaveup" /\ (\A d \in Stoppers \ {c} : pc[d] # "gaveup") =>
                to[c] \in asked
=============================================================================
