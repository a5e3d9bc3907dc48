--------------------------- MODULE CommandRouter ---------------------------
(***************************************************************************)
(* One browser session of api.Router (clicker/internal/api/router.go): the *)
(* goroutines that share the BiDi connection and how a browser reply finds *)
(* the goroutine, or the client, that is waiting for it.                   *)
(*                                                                         *)
(*   reader   the transport goroutine that runs OnClientMessage            *)
(*   loop     the goroutine running routeBrowserToClient                   *)
(*   handlers one goroutine per vibium: command, each issuing internal     *)
(*            commands with sendInternalCommandWithTimeout                 *)
(*   closers  OnClientDisconnect and CloseAll, both running closeSession;  *)
(*            the loop itself runs it when the browser connection dies     *)
(*                                                                         *)
(* A message is [id, from]: the id on the wire and, for the properties     *)
(* only, the actor whose command it belongs to.  The browser answers in    *)
(* any order, may never answer, and may die.                               *)
(***************************************************************************)
EXTENDS Naturals, FiniteSets

CONSTANTS Handlers,        \* vibium: commands of the client, one goroutine each
          Closers,         \* who may run closeSession, of "OnClientDisconnect", "CloseAll"
          RawIds,          \* ids of the client's plain BiDi commands
          FirstInternalID, \* 1000000 in the code
          MaxInternal,     \* bound: internal ids handed out
          MaxCommands,     \* bound: internal commands of one handler
          MaxBegun         \* bound: client commands, and CloseAll, in a behaviour

Callers == Handlers \cup Closers
Client  == "client"
InternalIDs == FirstInternalID .. (FirstInternalID + MaxInternal - 1)

ASSUME RouterAssumption ==
    /\ FirstInternalID \in Nat /\ MaxInternal \in Nat /\ MaxCommands \in Nat
    /\ MaxBegun \in Nat
    /\ FirstInternalID > 0
    /\ RawIds \subseteq Nat \ {0}
    /\ Closers \subseteq {"OnClientDisconnect", "CloseAll"}
    /\ Handlers \cap (Closers \cup {Client} \cup Nat) = {}

NoId  == 0                            \* ids on the wire are positive
NoMsg == [id |-> NoId, from |-> Client]
Msg   == [id : RawIds \cup InternalIDs, from : Callers \cup {Client}]
Commands == Handlers \cup RawIds      \* everything the client can ask

VARIABLES
    inMap,             \* Router.sessions still holds the session
    closed,            \* BrowserSession.closed
    stops,             \* how often stopChan was closed (Go panics at 2)
    connClosed,        \* BidiConn.Close was called
    browserUp,         \* the browser end of the connection is alive
    clientClosed,      \* the client transport refuses Send
    nextInternalID, internalCmds, abandonedInternal,
    buffered,          \* messages lying in the one-slot reply channels
    atBrowser,         \* commands the browser has not answered yet
    pc, cmd, got, calls,  \* per caller: control, current id, last reply, count
    lpc, held,         \* routing goroutine: control and message in hand
    rpc, rcmd,         \* reader goroutine: control and command in hand
    asked,             \* client commands the reader has taken
    answers,           \* client command -> replies delivered to the client
    stray              \* internal replies delivered to the client

session == <<inMap, closed, stops, connClosed>>
table   == <<nextInternalID, internalCmds, abandonedInternal>>
caller  == <<pc, cmd, got, calls>>
loop    == <<lpc, held>>
reader  == <<rpc, rcmd, asked>>
client  == <<clientClosed, answers, stray>>
vars == <<session, table, caller, loop, reader, client, buffered, atBrowser, browserUp>>

Init ==
    /\ inMap = TRUE /\ closed = FALSE /\ stops = 0
    /\ connClosed = FALSE /\ browserUp = TRUE /\ clientClosed = FALSE
    /\ nextInternalID = FirstInternalID
    /\ internalCmds = {} /\ abandonedInternal = {}
    /\ buffered = {} /\ atBrowser = {}
    /\ pc = [c \in Callers |-> "idle"]
    /\ cmd = [c \in Callers |-> NoId]
    /\ got = [c \in Callers |-> NoMsg]
    /\ calls = [c \in Callers |-> 0]
    /\ lpc = "top" /\ held = NoMsg
    /\ rpc = "idle" /\ rcmd = NoId /\ asked = {}
    /\ answers = [x \in Commands |-> 0]
    /\ stray = {}

Stopped == stops > 0

MayBegin ==
    Cardinality(asked) + Cardinality({k \in Closers : pc[k] # "idle"}) < MaxBegun

\* BidiConn.Send writes under Connection.mu, without a deadline: it may take for ever
\* (SendsEnd), and so may Close, which writes too.  A send that ends succeeds unless the
\* connection is closed here; on a dead browser it may still succeed, and the command is
\* lost.
SendTo(m) ==
    atBrowser' = IF browserUp /\ ~connClosed THEN atBrowser \cup {m} ELSE atBrowser
SendMayFail == connClosed \/ ~browserUp

\* Client.Send of the reply to command x; a closed transport refuses it.
Reply(x) ==
    answers' = IF clientClosed THEN answers ELSE [answers EXCEPT ![x] = @ + 1]

----------------------------------------------------------------------------
(* The reader: OnClientMessage.                                            *)

\* The session is looked up in the map; without one the command is answered
\* with "invalid session id".
ReaderLoad(x) ==
    /\ rpc = "idle" /\ x \notin asked /\ ~clientClosed /\ MayBegin
    /\ asked' = asked \cup {x}
    /\ IF inMap THEN rpc' = "loaded" /\ rcmd' = x /\ UNCHANGED answers
                ELSE Reply(x) /\ UNCHANGED <<rpc, rcmd>>
    /\ UNCHANGED <<session, table, caller, loop, clientClosed, stray, buffered,
                   atBrowser, browserUp>>

\* A session that is closing swallows the command.
ReaderCheckClosed ==
    /\ rpc = "loaded"
    /\ IF closed THEN rpc' = "idle" /\ rcmd' = NoId
                 ELSE rpc' = "open" /\ UNCHANGED rcmd
    /\ UNCHANGED <<session, table, caller, loop, asked, client, buffered,
                   atBrowser, browserUp>>

\* vibium: commands get a goroutine, everything else goes to the browser.
ReaderPass ==
    /\ rpc = "open"
    /\ \/ /\ rcmd \in Handlers
          /\ pc' = [pc EXCEPT ![rcmd] = "work"]
          /\ UNCHANGED atBrowser
       \/ /\ rcmd \in RawIds
          /\ SendTo([id |-> rcmd, from |-> Client])
          /\ UNCHANGED pc
    /\ rpc' = "idle" /\ rcmd' = NoId
    /\ UNCHANGED <<session, table, cmd, got, calls, loop, asked, client, buffered,
                   browserUp>>

----------------------------------------------------------------------------
(* sendInternalCommandWithTimeout, run by handlers and closers.            *)

\* Mutant: ids are handed out without advancing the counter.
NextID_Reused == nextInternalID
NextID == nextInternalID + 1

\* Under internalCmdsMu: take the next id and register its reply channel.
Register(c) ==
    /\ \/ c \in Handlers /\ pc[c] = "work" /\ calls[c] < MaxCommands
       \/ c \in Closers /\ pc[c] \in {"probe", "end"}
    /\ nextInternalID \in InternalIDs
    /\ cmd' = [cmd EXCEPT ![c] = nextInternalID]
    /\ internalCmds' = internalCmds \cup {nextInternalID}
    /\ nextInternalID' = NextID
    /\ calls' = [calls EXCEPT ![c] = @ + 1]
    /\ got' = [got EXCEPT ![c] = NoMsg]
    /\ pc' = [pc EXCEPT ![c] = "send"]
    /\ UNCHANGED <<session, abandonedInternal, loop, reader, client, buffered,
                   atBrowser, browserUp>>

SendInternal(c) ==
    /\ pc[c] = "send"
    /\ \/ /\ SendTo([id |-> cmd[c], from |-> c])
          /\ ~connClosed
          /\ pc' = [pc EXCEPT ![c] = "wait"]
       \/ /\ SendMayFail
          /\ pc' = [pc EXCEPT ![c] = "unregister"]
          /\ UNCHANGED atBrowser
    /\ UNCHANGED <<session, table, cmd, got, calls, loop, reader, client, buffered,
                   browserUp>>

\* case resp := <-ch
TakeReply(c) ==
    /\ pc[c] = "wait"
    /\ \E m \in buffered :
          /\ m.id = cmd[c]
          /\ buffered' = buffered \ {m}
          /\ got' = [got EXCEPT ![c] = m]
    /\ pc' = [pc EXCEPT ![c] = "unregister"]
    /\ UNCHANGED <<session, table, cmd, calls, loop, reader, client, atBrowser,
                   browserUp>>

\* Mutant: a command given up on is forgotten.
Abandon_Forgets(id) == abandonedInternal
Abandon(id) == abandonedInternal \cup {id}


\* case <-time.After(timeout) and case <-modelCtx.Done(): remember the id so
\* that its late reply is dropped.
GiveUp(c) ==
    /\ pc[c] = "wait"
    /\ abandonedInternal' = Abandon(cmd[c])
    /\ pc' = [pc EXCEPT ![c] = "unregister"]
    /\ UNCHANGED <<session, nextInternalID, internalCmds, cmd, got, calls, loop,
                   reader, client, buffered, atBrowser, browserUp>>

\* case <-session.stopChan: "session closed"
SessionClosed(c) ==
    /\ pc[c] = "wait" /\ Stopped
    /\ pc' = [pc EXCEPT ![c] = "unregister"]
    /\ UNCHANGED <<session, table, cmd, got, calls, loop, reader, client, buffered,
                   atBrowser, browserUp>>

\* Where a caller continues after the call: a handler with its next command, a
\* closer after its probe, or after session.end.
Resume(c) ==
    CASE c \in Handlers -> "work"
      [] c \in Closers /\ calls[c] = 1 -> "probed"
      [] OTHER -> "disconnect"

\* The deferred delete(session.internalCmds, id).
Unregister(c) ==
    /\ pc[c] = "unregister"
    /\ internalCmds' = internalCmds \ {cmd[c]}
    /\ pc' = [pc EXCEPT ![c] = Resume(c)]
    /\ UNCHANGED <<session, nextInternalID, abandonedInternal, cmd, got, calls, loop,
                   reader, client, buffered, atBrowser, browserUp>>

\* Mutant: the handler does not return after answering.
HandlerAnswer_NoReturn(h) ==
    /\ h \in Handlers /\ pc[h] = "work" /\ answers[h] < 3
    /\ Reply(h)
    /\ UNCHANGED <<session, table, caller, loop, reader, clientClosed, stray, buffered,
                   atBrowser, browserUp>>

\* sendSuccess or sendError ends the handler.
HandlerAnswer(h) ==
    /\ h \in Handlers /\ pc[h] = "work"
    /\ Reply(h)
    /\ pc' = [pc EXCEPT ![h] = "done"]
    /\ cmd' = [cmd EXCEPT ![h] = NoId] /\ got' = [got EXCEPT ![h] = NoMsg]
    /\ UNCHANGED <<session, table, calls, loop, reader, clientClosed, stray, buffered,
                   atBrowser, browserUp>>

----------------------------------------------------------------------------
(* routeBrowserToClient.                                                   *)

LoopTop ==
    /\ lpc = "top"
    /\ lpc' = IF Stopped THEN "done" ELSE "recv"
    /\ UNCHANGED <<session, table, caller, held, reader, client, buffered, atBrowser,
                   browserUp>>

\* A reply may still be read after the browser died, when it was on the wire.
LoopReceive ==
    /\ lpc = "recv" /\ ~connClosed
    /\ \E m \in atBrowser : atBrowser' = atBrowser \ {m} /\ held' = m
    /\ lpc' = "lookup"
    /\ UNCHANGED <<session, table, caller, reader, client, buffered, browserUp>>

LoopLookup ==
    /\ lpc = "lookup"
    /\ lpc' = IF held.id \in internalCmds THEN "deliver" ELSE "late"
    /\ UNCHANGED <<session, table, caller, held, reader, client, buffered, atBrowser,
                   browserUp>>

ChannelFull(m) == \E b \in buffered : b.id = m.id

\* ch <- msg blocks while the slot is taken.
LoopDeliver ==
    /\ lpc = "deliver" /\ ~ChannelFull(held)
    /\ buffered' = buffered \cup {held}
    /\ lpc' = "top" /\ held' = NoMsg
    /\ UNCHANGED <<session, table, caller, reader, client, atBrowser, browserUp>>

LoopLate ==
    /\ lpc = "late"
    /\ abandonedInternal' = abandonedInternal \ {held.id}
    /\ IF held.id \in abandonedInternal
          THEN lpc' = "top" /\ held' = NoMsg
          ELSE lpc' = "forward" /\ UNCHANGED held
    /\ UNCHANGED <<session, nextInternalID, internalCmds, caller, reader, client,
                   buffered, atBrowser, browserUp>>

\* Client.Send(msg); an error ends the goroutine without closing the session.
LoopForward ==
    /\ lpc = "forward"
    /\ IF clientClosed
          THEN lpc' = "done" /\ UNCHANGED <<answers, stray>>
          ELSE /\ lpc' = "top"
               /\ IF held.from = Client
                     THEN Reply(held.id) /\ UNCHANGED stray
                     ELSE stray' = stray \cup {held} /\ UNCHANGED answers
    /\ held' = NoMsg
    /\ UNCHANGED <<session, table, caller, reader, clientClosed, buffered, atBrowser,
                   browserUp>>

\* Mutant: the goroutine just ends when the connection fails.
AfterReceiveError_Ends == "done"
AfterReceiveError == IF closed THEN "done" ELSE "forget"

\* Receive failed: unless someone else is closing the session, close it here.
LoopReceiveError ==
    /\ lpc = "recv" /\ (connClosed \/ ~browserUp)
    /\ lpc' = AfterReceiveError
    /\ UNCHANGED <<session, table, caller, held, reader, client, buffered, atBrowser,
                   browserUp>>

\* sessions.Delete comes first, so a later command is answered.
LoopForget ==
    /\ lpc = "forget"
    /\ inMap' = FALSE /\ lpc' = "claim"
    /\ UNCHANGED <<closed, stops, connClosed, table, caller, held, reader, client,
                   buffered, atBrowser, browserUp>>

\* Mutant: the check of closed is missing.
AlreadyClosed_Unchecked == FALSE
AlreadyClosed == closed

AfterLoopClaim == IF AlreadyClosed THEN "hangup" ELSE "teardown"

\* closeSession(session, true), under mu: the first closer wins.
LoopClaim ==
    /\ lpc = "claim"
    /\ closed' = TRUE
    /\ lpc' = AfterLoopClaim
    /\ UNCHANGED <<inMap, stops, connClosed, table, caller, held, reader, client, buffered,
                   atBrowser, browserUp>>

\* The browser is known to be dead, so stopChan closes without a probe.
LoopStop ==
    /\ lpc = "teardown"
    /\ stops' = stops + 1
    /\ lpc' = "disconnect"
    /\ UNCHANGED <<inMap, closed, connClosed, table, caller, held, reader, client,
                   buffered, atBrowser, browserUp>>

\* session.end, when this router created the session (ownsRemote), uses up an id
\* and returns at once: nobody answers and stopChan is closed.  Then the connection
\* is closed.
LoopDisconnect ==
    /\ lpc = "disconnect"
    /\ \/ UNCHANGED nextInternalID
       \/ nextInternalID \in InternalIDs /\ nextInternalID' = NextID
    /\ connClosed' = TRUE
    /\ lpc' = "hangup"
    /\ UNCHANGED <<inMap, closed, stops, internalCmds, abandonedInternal, caller, held,
                   reader, client, buffered, atBrowser, browserUp>>

\* Client.Close: the client sees the disconnect.
LoopHangup ==
    /\ lpc = "hangup"
    /\ clientClosed' = TRUE /\ lpc' = "done"
    /\ UNCHANGED <<session, table, caller, held, reader, answers, stray, buffered,
                   atBrowser, browserUp>>

----------------------------------------------------------------------------
(* closeSession, run by OnClientDisconnect and CloseAll.                   *)

\* OnClientDisconnect removes the session from the map first (LoadAndDelete);
\* CloseAll finds it there and deletes it afterwards.  A WebSocket client is
\* gone by then, a pipe client may still be listening.
CloserStart(k) ==
    /\ pc[k] = "idle"
    /\ MayBegin \/ (k = "OnClientDisconnect" /\ clientClosed)
    /\ pc' = [pc EXCEPT ![k] = IF inMap THEN "claim" ELSE "done"]
    /\ inMap' = IF k = "OnClientDisconnect" THEN FALSE ELSE inMap
    /\ clientClosed' \in IF k = "OnClientDisconnect" THEN {clientClosed, TRUE}
                                                     ELSE {clientClosed}
    /\ UNCHANGED <<closed, stops, connClosed, table, cmd, got, calls, loop, reader,
                   answers, stray, buffered, atBrowser, browserUp>>

\* Only CloseAll has something left to do after closeSession.
Ending(k) == IF k = "CloseAll" THEN "leave" ELSE "done"

\* Under mu: the first closer wins.
CloserClaim(k) ==
    /\ pc[k] = "claim"
    /\ closed' = TRUE
    /\ pc' = [pc EXCEPT ![k] = IF AlreadyClosed THEN Ending(k) ELSE "probe"]
    /\ UNCHANGED <<inMap, stops, connClosed, table, cmd, got, calls, loop, reader,
                   client, buffered, atBrowser, browserUp>>

CloseStopChan == stops + 1

\* After probeBrowser, alive or not, stopChan is closed; a live session that
\* this router created is then ended (ownsRemote).  Recording finalization,
\* which comes between the two when the browser is alive, is not modelled here.
CloserStop(k) ==
    /\ pc[k] = "probed"
    /\ stops' = CloseStopChan
    /\ pc' \in {[pc EXCEPT ![k] = s] : s \in {"end", "disconnect"}}
    /\ UNCHANGED <<inMap, closed, connClosed, table, cmd, got, calls, loop, reader,
                   client, buffered, atBrowser, browserUp>>

CloserDisconnect(k) ==
    /\ pc[k] = "disconnect"
    /\ connClosed' = TRUE
    /\ pc' = [pc EXCEPT ![k] = Ending(k)]
    /\ cmd' = [cmd EXCEPT ![k] = NoId] /\ got' = [got EXCEPT ![k] = NoMsg]
    /\ UNCHANGED <<inMap, closed, stops, table, calls, loop, reader, client,
                   buffered, atBrowser, browserUp>>

CloserLeave(k) ==
    /\ pc[k] = "leave"
    /\ inMap' = FALSE
    /\ pc' = [pc EXCEPT ![k] = "done"]
    /\ UNCHANGED <<closed, stops, connClosed, table, cmd, got, calls, loop, reader,
                   client, buffered, atBrowser, browserUp>>

----------------------------------------------------------------------------
(* The environment.                                                        *)

BrowserDies ==
    /\ browserUp /\ browserUp' = FALSE
    /\ UNCHANGED <<session, table, caller, loop, reader, client, buffered, atBrowser>>

\* The transport's writer failed: Send is refused from now on.
ClientGone ==
    /\ ~clientClosed /\ clientClosed' = TRUE
    /\ UNCHANGED <<session, table, caller, loop, reader, answers, stray, buffered,
                   atBrowser, browserUp>>

CallerStep(c) ==
    \/ Register(c) \/ SendInternal(c) \/ TakeReply(c) \/ GiveUp(c)
    \/ SessionClosed(c) \/ Unregister(c) \/ HandlerAnswer(c)
CloserStep(k) ==
    \/ CloserClaim(k) \/ CloserStop(k) \/ CloserDisconnect(k) \/ CloserLeave(k)
ReaderStep == ReaderCheckClosed \/ ReaderPass
LoopOwnStep ==
    \/ LoopTop \/ LoopLookup \/ LoopDeliver \/ LoopLate \/ LoopForward
    \/ LoopReceiveError \/ LoopForget \/ LoopClaim
    \/ LoopStop \/ LoopDisconnect \/ LoopHangup

Next ==
    \/ \E x \in Commands : ReaderLoad(x)
    \/ ReaderStep
    \/ \E c \in Callers : CallerStep(c)
    \/ \E k \in Closers : CloserStart(k) \/ CloserStep(k)
    \/ LoopOwnStep \/ LoopReceive
    \/ BrowserDies \/ ClientGone

Spec == Init /\ [][Next]_vars

\* Goroutines run and timers fire, but nobody makes the browser answer: LoopReceive has
\* no fairness.  Nor does anybody make it read: a send, and the close frame, have none
\* either, and no timer runs yet for a command that is being sent.  A transport whose
\* writer failed is noticed by its reader, which disconnects.
GoroutineStep ==
    \/ ReaderStep /\ (rpc = "open" => rcmd \in Handlers)
    \/ LoopOwnStep /\ lpc # "disconnect"
    \/ \E c \in Callers : CallerStep(c) /\ pc[c] # "send"
    \/ \E k \in Closers : CloserStep(k) /\ pc[k] # "disconnect"
    \/ "OnClientDisconnect" \in Closers /\ clientClosed /\ CloserStart("OnClientDisconnect")
Fairness == WF_vars(GoroutineStep)

FairSpec == Spec /\ Fairness
----------------------------------------------------------------------------
(* Properties.                                                             *)

Phases == {"idle", "claim", "work", "probe", "send", "wait", "unregister",
           "probed", "end", "disconnect", "leave", "done"}

InCall(c) == pc[c] \in {"send", "wait", "unregister"}

FlagsOK ==
    /\ inMap \in BOOLEAN /\ closed \in BOOLEAN /\ connClosed \in BOOLEAN
    /\ browserUp \in BOOLEAN /\ clientClosed \in BOOLEAN /\ stops \in Nat

MessagesOK ==
    /\ buffered \subseteq Msg /\ atBrowser \subseteq Msg /\ stray \subseteq Msg
    /\ held \in Msg \cup {NoMsg}
    /\ lpc \in {"lookup", "deliver", "late", "forward"} => held \in Msg
    /\ lpc \in {"top", "recv", "lookup", "deliver", "late", "forward", "forget",
                "claim", "teardown", "disconnect", "hangup", "done"}

CallersOK ==
    /\ pc \in [Callers -> Phases]
    /\ cmd \in [Callers -> InternalIDs \cup {NoId}]
    /\ got \in [Callers -> Msg \cup {NoMsg}]
    /\ calls \in [Callers -> Nat]

ClientOK ==
    /\ rpc \in {"idle", "loaded", "open"}
    /\ rcmd \in Commands \cup {NoId}
    /\ rpc # "idle" => rcmd \in asked
    /\ asked \subseteq Commands
    /\ answers \in [Commands -> Nat]
    /\ \A h \in Handlers : h \notin asked \/ h = rcmd => pc[h] = "idle"

\* internalCmds holds the ids of exactly the callers that are inside
\* sendInternalCommandWithTimeout; ids are not reused and not shared.
TableOK ==
    /\ \A c \in Callers : cmd[c] < nextInternalID
    /\ \A c, d \in Callers : c # d /\ cmd[c] # NoId => cmd[c] # cmd[d]
    /\ nextInternalID \in FirstInternalID .. (FirstInternalID + MaxInternal)
    /\ internalCmds \subseteq InternalIDs /\ abandonedInternal \subseteq InternalIDs
    /\ \A id \in internalCmds : \E c \in Callers : InCall(c) /\ cmd[c] = id
    /\ \A c \in Callers : InCall(c) => cmd[c] \in internalCmds

\* Every variable keeps its type, and the command table matches its callers.
TypeOK == FlagsOK /\ MessagesOK /\ CallersOK /\ ClientOK /\ TableOK

\* The client's ids stay clear of those the router hands out.  Nothing in the
\* code enforces it; see RepliesReachTheirCaller.
IdsDisjoint == RawIds \cap InternalIDs = {}

\* sendInternalCommandWithTimeout never returns another command's response:
\* what a caller got carries its id and answers its own command.
RepliesReachTheirCaller ==
    \A c \in Callers : got[c] # NoMsg => got[c] = [id |-> cmd[c], from |-> c]

\* "a reply to an internal command that already timed out must not reach the
\* client" (router_test.go): as long as stopChan is open, whatever the client
\* receives answers a command of the client.
InternalRepliesStayInside == stray # {} => Stopped

\* The routing goroutine is the only reader of the browser connection, so it
\* may never block on the one-slot channel of a caller that has gone.
LoopNeverBlocksOnCaller == lpc = "deliver" => ~ChannelFull(held)

\* Three goroutines run closeSession, one closes stopChan: closing it twice panics.  And
\* the BiDi connection outlives stopChan: no caller loses its reply to a closed connection
\* without having been told the session is closing.
TeardownInOrder == stops <= 1 /\ (connClosed => Stopped)

\* The sends to the browser, and the closing of its connection, come to an end: what
\* BidiClient says of a browser that does not stop reading for ever, and of no other.
SendsEnd ==
    /\ \A c \in Callers : []<>(pc[c] \notin {"send", "disconnect"})
    /\ []<>(rpc # "open") /\ []<>(lpc # "disconnect")

\* If its sends end, whatever else the browser does, every handler goroutine ends: it
\* gets its replies, its timers fire or stopChan releases it; and a dead browser ends the
\* session: stopChan is closed and the connection too, and so, if nobody else closes the
\* session, is the client's transport.
SessionSettles == SendsEnd =>
    <>[](/\ \A h \in Handlers : pc[h] \in {"idle", "done"}
         /\ ~browserUp => Stopped /\ connClosed
         /\ ~browserUp /\ (\A k \in Closers : pc[k] = "idle") => clientClosed)

\* The session keeps the promise of RequestReply: no command is answered twice,
\* whoever answers it (the reader, its handler or the browser), none is answered
\* that was not asked, and nothing is sent once the transport is closed.
StatusOf(x) == CASE answers[x] = 1 -> "answered"
                 [] answers[x] = 0 /\ x \in asked -> "pending"
                 [] answers[x] = 0 /\ x \notin asked -> "unasked"
                 [] OTHER -> "answered again"
Promise == INSTANCE RequestReply WITH
               status <- [x \in Commands |-> StatusOf(x)],
               up <- ~clientClosed
KeepsPromise == Promise!Spec

(* What makes these hold; the proofs show it inductive. *)

\* The messages between the browser's taking their command and somebody's
\* taking the reply.
Travelling == atBrowser \cup buffered \cup {held}

\* A travelling reply answers the client's command of that id, or an internal
\* command whose id nobody but its caller has.
MessageOwned(m) ==
    IF m.from = Client THEN m.id \in RawIds \cup {NoId}
    ELSE /\ m.id \in InternalIDs /\ m.id < nextInternalID
         /\ \A c \in Callers : m.id = cmd[c] => m.from = c

\* Only internal replies reach a reply channel, and each finds its caller.
CorrelationInv ==
    /\ \A m \in Travelling : MessageOwned(m)
    /\ \A m \in buffered : m.id \in InternalIDs
    /\ lpc = "deliver" => held.id \in InternalIDs
    /\ RepliesReachTheirCaller

\* There is one reply per internal command and it is in one place; before the
\* command is sent it is nowhere, and a caller that returned left none behind
\* unless it gave up or the session is closing.
SingleReplyInv ==
    /\ \A m, n \in Travelling :
          m.from # Client /\ n.from # Client /\ m.id = n.id => m = n
    /\ held.from # Client => held \notin atBrowser \cup buffered
    /\ atBrowser \cap buffered = {}
    /\ \A c \in Callers : pc[c] = "send" =>
          \A m \in Travelling : m.from # Client => m.id # cmd[c]
    /\ \A c \in Callers :
          pc[c] = "unregister" /\ ~Stopped /\ cmd[c] \notin abandonedInternal =>
              \A m \in atBrowser \cup {held} : m.from # Client => m.id # cmd[c]

\* Until stopChan is closed, an internal command whose reply is still out is
\* registered or remembered as abandoned, so the loop cannot take it for the
\* client's.
LateReplyInv ==
    ~Stopped =>
        /\ stray = {}
        /\ \A m \in atBrowser \cup {held} :
              m.from # Client => m.id \in internalCmds \cup abandonedInternal
        /\ lpc = "late" /\ held.from # Client => held.id \notin internalCmds
        /\ lpc = "forward" => held.from = Client

\* A closer that won the claim: what it does before it closes stopChan, and after.
BeforeStop(k) ==
    \/ pc[k] = "probe" /\ calls[k] = 0
    \/ calls[k] = 1 /\ (InCall(k) \/ pc[k] = "probed")
AfterStop(k) ==
    \/ pc[k] = "end" /\ calls[k] = 1
    \/ pc[k] = "disconnect"
    \/ calls[k] = 2 /\ InCall(k)
Owns(k) == BeforeStop(k) \/ AfterStop(k)

\* One goroutine, a closer or the loop, owns the teardown: it closes stopChan
\* when nobody has, and the connection after that.
CloserPhaseInv == \A k \in Closers :
    /\ pc[k] \in {"idle", "claim", "leave", "done"} \/ Owns(k)
    /\ pc[k] \in {"idle", "claim"} => calls[k] = 0
    /\ BeforeStop(k) => ~Stopped
    /\ AfterStop(k) => Stopped
    /\ Owns(k) => closed /\ lpc \notin {"teardown", "disconnect"}
    /\ \A j \in Closers : Owns(j) /\ Owns(k) => j = k
StopInv ==
    /\ stops <= 1
    /\ Stopped => closed
    /\ connClosed => Stopped
    /\ lpc = "teardown" => closed /\ ~Stopped
    /\ lpc = "disconnect" => Stopped
CloseInv == CloserPhaseInv /\ StopInv

\* A command that somebody is still to answer has been asked and has no answer: it is in
\* the reader's hands, its handler's, the browser's or the loop's, and in no two of them.
Unanswered(x) == x \in asked /\ answers[x] = 0
Reading(x) == rpc # "idle" /\ rcmd = x
AtWork(h) == pc[h] \in {"work", "send", "wait", "unregister"}
ToAnswer(m) == m.from = Client /\ m # NoMsg
AnswerInv ==
    /\ \A x \in Commands : answers[x] <= 1 /\ (x \notin asked => answers[x] = 0)
    /\ \A x \in Commands : Reading(x) => Unanswered(x)
    /\ \A h \in Handlers : AtWork(h) => Unanswered(h)
    /\ \A m \in atBrowser \cup {held} :
          ToAnswer(m) => m.id \in RawIds /\ Unanswered(m.id) /\ ~Reading(m.id)
    /\ ToAnswer(held) => held \notin atBrowser
=============================================================================
