----------------------------- MODULE BidiClient -----------------------------
(***************************************************************************)
(* bidi.Client over bidi.Connection (clicker/internal/bidi/session.go and  *)
(* connection.go): callers of SendCommandWithTimeout, the reader goroutine *)
(* that routes responses and queues events, the goroutine that hands the   *)
(* events to the handler, and Client.Close.                                *)
(*                                                                         *)
(* Command ids come from one atomic counter, so a command is identified    *)
(* with its caller.  Connection.mu is held while a frame is written, and a *)
(* write to a browser that stopped reading blocks: it has no deadline.     *)
(***************************************************************************)
EXTENDS Naturals, Sequences

CONSTANTS Callers,     \* goroutines, each with one command
          EventBuffer, \* eventBufferSize: 256 in the code
          MaxEvents    \* bound: events the browser sends

ASSUME ClientAssumption ==
    /\ EventBuffer \in Nat \ {0} /\ MaxEvents \in Nat
    /\ Callers \cap {"reader", "closer", "free"} = {}

Writers == Callers \cup {"reader", "closer"}   \* who takes Connection.mu

VARIABLES
    pc,         \* caller -> control
    result,     \* caller -> how its call ended
    pending,    \* commands registered for a response
    delivered,  \* commands whose response lies in their channel
    routed,     \* commands whose response the reader ever put there
    atBrowser,  \* commands the browser has not answered
    rpc, held,  \* reader: control, and the response in its hand
    readerDone,
    kpc,        \* Client.Close: control
    connClosed, \* Connection.closed
    dones,      \* how often Connection.done was closed (Go panics at 2)
    rawClosed,  \* the WebSocket itself is closed
    mu,         \* who holds Connection.mu, or "free"
    peer,       \* the browser: "up", "frozen" or "gone"
    eventCount, \* events read so far; an event is its number
    queue,      \* the events channel
    handled, dropped

callers == <<pc, result>>
reader == <<rpc, held, readerDone>>
conn == <<connClosed, dones, rawClosed, mu, peer>>
events == <<eventCount, queue, handled, dropped>>
vars == <<callers, pending, delivered, routed, atBrowser, reader, kpc, conn, events>>

None == "none"

Init ==
    /\ pc = [c \in Callers |-> "idle"] /\ result = [c \in Callers |-> None]
    /\ pending = {} /\ delivered = {} /\ routed = {} /\ atBrowser = {}
    /\ rpc = "top" /\ held = None /\ readerDone = FALSE /\ kpc = "idle"
    /\ connClosed = FALSE /\ dones = 0 /\ rawClosed = FALSE /\ mu = "free" /\ peer = "up"
    /\ eventCount = 0 /\ queue = <<>> /\ handled = <<>> /\ dropped = {}

----------------------------------------------------------------------------
(* A caller: SendCommandWithTimeout.                                       *)

\* Under Client.mu: refused when the reader has gone, else registered.
Register(c) ==
    /\ pc[c] = "idle"
    /\ IF readerDone
          THEN /\ pc' = [pc EXCEPT ![c] = "done"]
               /\ result' = [result EXCEPT ![c] = "refused"]
               /\ UNCHANGED pending
          ELSE /\ pc' = [pc EXCEPT ![c] = "lock"]
               /\ pending' = pending \cup {c}
               /\ UNCHANGED result
    /\ UNCHANGED <<delivered, routed, atBrowser, reader, kpc, conn, events>>

End(c, r) ==
    /\ pc' = [pc EXCEPT ![c] = "unregister"]
    /\ result' = [result EXCEPT ![c] = r]

\* Connection.Send: under mu, the closed flag is checked and then written.
LockForSend(c) ==
    /\ pc[c] = "lock" /\ mu = "free"
    /\ IF connClosed THEN End(c, "sendfail") /\ UNCHANGED mu
                     ELSE /\ pc' = [pc EXCEPT ![c] = "writing"] /\ mu' = c
                          /\ UNCHANGED result
    /\ UNCHANGED <<pending, delivered, routed, atBrowser, reader, kpc, connClosed, dones,
                   rawClosed, peer, events>>

\* Into the send buffer: to a frozen or dead browser it may still succeed.
SendOK(c) ==
    /\ pc[c] = "writing" /\ ~rawClosed
    /\ atBrowser' = IF peer = "gone" THEN atBrowser ELSE atBrowser \cup {c}
    /\ mu' = "free" /\ pc' = [pc EXCEPT ![c] = "select"]
    /\ UNCHANGED <<result, pending, delivered, routed, reader, kpc, connClosed, dones,
                   rawClosed, peer, events>>

SendFails(c) ==
    /\ pc[c] = "writing" /\ (rawClosed \/ peer = "gone")
    /\ mu' = "free" /\ End(c, "sendfail")
    /\ UNCHANGED <<pending, delivered, routed, atBrowser, reader, kpc, connClosed, dones,
                   rawClosed, peer, events>>

TakeReply(c) ==
    /\ pc[c] \in {"select", "dying"} /\ c \in delivered
    /\ delivered' = delivered \ {c} /\ End(c, "reply")
    /\ UNCHANGED <<pending, routed, atBrowser, reader, kpc, conn, events>>

\* Mutant: the wait has no timeout.
Expires_Never(c) == FALSE
Expires(c) == pc[c] = "select"

\* The timer, or the command context.
GiveUp(c) ==
    /\ Expires(c) /\ End(c, "timeout")
    /\ UNCHANGED <<pending, delivered, routed, atBrowser, reader, kpc, conn, events>>

NoticeDeath(c) ==
    /\ pc[c] = "select" /\ readerDone
    /\ pc' = [pc EXCEPT ![c] = "dying"]
    /\ UNCHANGED <<result, pending, delivered, routed, atBrowser, reader, kpc, conn,
                   events>>

\* Mutant: the response routed just before the reader died is not looked for.
NothingRouted_Unchecked(c) == TRUE
NothingRouted(c) == c \notin delivered

ConnectionLost(c) ==
    /\ pc[c] = "dying" /\ NothingRouted(c) /\ End(c, "lost")
    /\ UNCHANGED <<pending, delivered, routed, atBrowser, reader, kpc, conn, events>>

\* Mutant: a call that ends leaves its entry behind.
PendingAfter_Kept(c) == pending
PendingAfter(c) == pending \ {c}

\* The deferred delete; the channel goes away with its caller.
Unregister(c) ==
    /\ pc[c] = "unregister"
    /\ pending' = PendingAfter(c) /\ delivered' = delivered \ {c}
    /\ pc' = [pc EXCEPT ![c] = "done"]
    /\ UNCHANGED <<result, routed, atBrowser, reader, kpc, conn, events>>

----------------------------------------------------------------------------
(* The reader: readLoop.                                                   *)

Fail == readerDone' = TRUE /\ rpc' = "close"

\* Receive checks the closed flag before it reads.
ReceiveStart ==
    /\ rpc = "top"
    /\ IF connClosed THEN Fail ELSE rpc' = "reading" /\ UNCHANGED readerDone
    /\ UNCHANGED <<callers, pending, delivered, routed, atBrowser, held, kpc, conn,
                   events>>

\* Mutant: no read deadline, and a connection that ends silently.
DeathSeen_Never == FALSE
DeathSeen == peer # "up"

\* ReadMessage fails: closed here, gone there, or nothing heard for 120 s.
ReceiveFails ==
    /\ rpc = "reading" /\ (rawClosed \/ DeathSeen)
    /\ Fail
    /\ UNCHANGED <<callers, pending, delivered, routed, atBrowser, held, kpc, conn,
                   events>>

\* What the browser sent before it went away can still be read.
Readable == rpc = "reading" /\ ~rawClosed /\ peer # "frozen"

\* A response arrives and its entry is taken out of pending.
ReceiveResponse ==
    /\ Readable
    /\ \E c \in atBrowser :
          /\ atBrowser' = atBrowser \ {c}
          /\ IF c \in pending THEN rpc' = "give" /\ held' = c
                              ELSE rpc' = "top" /\ UNCHANGED held  \* nobody waits
          /\ pending' = pending \ {c}
    /\ UNCHANGED <<callers, delivered, routed, readerDone, kpc, conn, events>>

\* ch <- msg: the caller may have gone since.
GiveResponse ==
    /\ rpc = "give"
    /\ delivered' = IF pc[held] \in {"unregister", "done"} THEN delivered
                                                           ELSE delivered \cup {held}
    /\ routed' = routed \cup {held}
    /\ rpc' = "top" /\ held' = None
    /\ UNCHANGED <<callers, pending, atBrowser, readerDone, kpc, conn, events>>

HasRoom == Len(queue) < EventBuffer

Dropping(e) == dropped \cup {e}

\* An event arrives: queued, or dropped when the channel is full.
ReceiveEvent ==
    /\ Readable /\ eventCount < MaxEvents
    /\ eventCount' = eventCount + 1
    /\ IF HasRoom THEN queue' = Append(queue, eventCount + 1) /\ UNCHANGED dropped
                  ELSE dropped' = Dropping(eventCount + 1) /\ UNCHANGED queue
    /\ rpc' = "top"
    /\ UNCHANGED <<callers, pending, delivered, routed, atBrowser, held, readerDone, kpc,
                   conn, handled>>

----------------------------------------------------------------------------
(* Connection.Close, run by the exiting reader and by Client.Close.        *)

CloserOf(w) == IF w = "reader" THEN rpc ELSE kpc
Goto(w, s) ==
    IF w = "reader" THEN rpc' = s /\ UNCHANGED kpc ELSE kpc' = s /\ UNCHANGED rpc

FirstToClose == ~connClosed

\* CompareAndSwap: the second closer returns at once; for Client.Close that means
\* waiting for the reader.
CloseFlag(w) ==
    /\ CloserOf(w) = "close"
    /\ connClosed' = TRUE
    /\ IF FirstToClose THEN Goto(w, "lock") /\ dones' = dones + 1
                       ELSE Goto(w, "await") /\ UNCHANGED dones
    /\ UNCHANGED <<callers, pending, delivered, routed, atBrowser, held, readerDone,
                   rawClosed, mu, peer, events>>

CloseLock(w) ==
    /\ CloserOf(w) = "lock" /\ mu = "free"
    /\ mu' = w /\ Goto(w, "frame")
    /\ UNCHANGED <<callers, pending, delivered, routed, atBrowser, held, readerDone,
                   connClosed, dones, rawClosed, peer, events>>

\* The close frame is written, or fails; into a full buffer it may block.
CloseFrame(w) ==
    /\ CloserOf(w) = "frame"
    /\ mu' = "free" /\ Goto(w, "raw")
    /\ UNCHANGED <<callers, pending, delivered, routed, atBrowser, held, readerDone,
                   connClosed, dones, rawClosed, peer, events>>

\* Mutant: the WebSocket stays open.
RawAfterClose_Open == rawClosed
RawAfterClose == TRUE

CloseRaw(w) ==
    /\ CloserOf(w) = "raw"
    /\ rawClosed' = RawAfterClose /\ Goto(w, "await")
    /\ UNCHANGED <<callers, pending, delivered, routed, atBrowser, held, readerDone,
                   connClosed, dones, mu, peer, events>>

ClientClose ==
    /\ kpc = "idle" /\ kpc' = "close"
    /\ UNCHANGED <<callers, pending, delivered, routed, atBrowser, reader, conn, events>>

\* <-c.readerDone
ClientClosed ==
    /\ kpc = "await" /\ readerDone /\ kpc' = "done"
    /\ UNCHANGED <<callers, pending, delivered, routed, atBrowser, reader, conn, events>>

----------------------------------------------------------------------------
\* dispatchEvents hands the oldest event to the handler.
DispatchEvent ==
    /\ queue # <<>>
    /\ handled' = Append(handled, Head(queue)) /\ queue' = Tail(queue)
    /\ UNCHANGED <<callers, pending, delivered, routed, atBrowser, reader, kpc, conn,
                   eventCount, dropped>>

BrowserChanges ==
    /\ peer # "gone"
    /\ peer' \in {"up", "frozen", "gone"} \ {peer}
    /\ UNCHANGED <<callers, pending, delivered, routed, atBrowser, reader, kpc,
                   connClosed, dones, rawClosed, mu, events>>

CallerStep(c) ==
    \/ LockForSend(c) \/ SendFails(c) \/ TakeReply(c) \/ GiveUp(c)
    \/ NoticeDeath(c) \/ ConnectionLost(c) \/ Unregister(c)
CloserStep(w) == CloseFlag(w) \/ CloseLock(w) \/ CloseRaw(w)
Next ==
    \/ \E c \in Callers : Register(c) \/ SendOK(c) \/ CallerStep(c)
    \/ ReceiveStart \/ ReceiveFails \/ ReceiveResponse \/ GiveResponse \/ ReceiveEvent
    \/ \E w \in {"reader", "closer"} : CloserStep(w) \/ CloseFrame(w)
    \/ ClientClose \/ ClientClosed \/ DispatchEvent \/ BrowserChanges

Spec == Init /\ [][Next]_vars

\* Goroutines run, mutexes are fair and timers fire.  A write ends unless the
\* browser is frozen and the WebSocket open; nothing makes the browser answer.
WriteEnds == peer # "frozen" \/ rawClosed
Fairness ==
    /\ \A c \in Callers : /\ WF_vars(CallerStep(c)) /\ SF_vars(LockForSend(c))
                          /\ SF_vars(WriteEnds /\ SendOK(c))
    /\ WF_vars(ReceiveStart) /\ WF_vars(ReceiveFails) /\ WF_vars(GiveResponse)
    /\ \A w \in {"reader", "closer"} : /\ WF_vars(CloserStep(w)) /\ SF_vars(CloseLock(w))
                                       /\ SF_vars(WriteEnds /\ CloseFrame(w))
    /\ WF_vars(ClientClosed)

FairSpec == Spec /\ Fairness

----------------------------------------------------------------------------
(* Properties.                                                             *)

InCall(c) == pc[c] \in {"lock", "writing", "select", "dying", "unregister"}

\* Every variable keeps its type; mu is with whoever is writing a frame.
TypeOK ==
    /\ pc \in [Callers -> {"idle", "lock", "writing", "select", "dying", "unregister", "done"}]
    /\ result \in [Callers -> {None, "reply", "timeout", "lost", "refused", "sendfail"}]
    /\ \A s \in {pending, delivered, routed, atBrowser} : s \subseteq Callers
    /\ rpc \in {"top", "reading", "give", "close", "lock", "frame", "raw", "await"}
    /\ kpc \in {"idle", "close", "lock", "frame", "raw", "await", "done"}
    /\ held \in Callers \cup {None} /\ (rpc = "give" => held \in Callers)
    /\ peer \in {"up", "frozen", "gone"}
    /\ {readerDone, connClosed, rawClosed} \subseteq BOOLEAN /\ dones \in Nat
    /\ eventCount \in 0 .. MaxEvents /\ dropped \subseteq Nat
    /\ queue \in Seq(Nat) /\ handled \in Seq(Nat) /\ Len(queue) <= EventBuffer
    /\ mu \in Writers \cup {"free"}
    /\ \A c \in Callers : pc[c] = "writing" <=> mu = c
    /\ rpc = "frame" <=> mu = "reader"
    /\ kpc = "frame" <=> mu = "closer"

\* "The response may have been routed just before the reader died": a call reports a
\* lost connection only if its response was never put in its channel.
RoutedIsReturned == \A c \in Callers : result[c] = "lost" => c \notin routed

\* "Unregister on every exit path": what has returned leaves no entry and no message
\* behind, however its timeout, its response and the reader's death interleave.
NothingLeaks == \A c \in pending \cup delivered : InCall(c)

(* What makes these hold; the proofs show it inductive. *)

\* A response on its way has a caller that sent its command; once in the channel it
\* stays there until that caller takes it.
ResponseInv ==
    /\ rpc = "give" => pc[held] # "idle"
    /\ \A c \in routed :
          /\ pc[c] # "idle"
          /\ pc[c] \in {"lock", "writing", "select", "dying"} => c \in delivered

\* The reader that has gone routes nothing; who saw it gone is right.
ReaderInv ==
    /\ readerDone => rpc \in {"close", "lock", "frame", "raw", "await"}
    /\ \A c \in Callers : pc[c] = "dying" \/ result[c] = "lost" => readerDone

\* The first to set the flag closes done, and nobody else.
CloseInv == dones = IF connClosed THEN 1 ELSE 0

\* The reader's exit and Client.Close both close the connection, which closes a
\* channel: twice would panic.
DoneClosedOnce == dones <= 1

\* "Delivers events in arrival order" (session.go): what was handled, followed by what
\* waits for the handler, is every event that arrived, in order and once, but for those
\* that were dropped.
Stream == handled \o queue
EventsInOrder ==
    /\ dropped \subseteq 1 .. eventCount
    /\ \A i \in 1 .. Len(Stream) : Stream[i] \in (1 .. eventCount) \ dropped
    /\ \A i, j \in 1 .. Len(Stream) : i < j => Stream[i] < Stream[j]
    /\ \A e \in (1 .. eventCount) \ dropped : \E i \in 1 .. Len(Stream) : Stream[i] = e

\* A browser that stops reading does not stay that way for ever.
Thaws == []<>(peer # "frozen")

\* A call to a browser that thaws ends: with its response, its timeout, or the death
\* of the reader.
CallsEnd == Thaws => \A c \in Callers : (pc[c] = "lock") ~> (pc[c] = "done")

\* Client.Close then returns, whoever closes the connection first.
CloseReturns == Thaws => ((kpc = "close") ~> (kpc = "done"))

\* A browser that went away is noticed, so that Dead says so.
DeathIsNoticed == (peer = "gone") ~> readerDone

\* "closing it ... makes later sends fail instead of hang" (session.go): when the
\* reader has gone, a call about to send does not hang.
SendsFailWhenReaderGone ==
    \A c \in Callers : (readerDone /\ pc[c] = "lock") ~> (pc[c] # "lock")
=============================================================================
