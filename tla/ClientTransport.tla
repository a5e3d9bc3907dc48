-------------------------- MODULE ClientTransport --------------------------
(***************************************************************************)
(* The two client transports of the api package, PipeClientConn (pipe.go)  *)
(* and ClientConn (server.go): an unbounded queue filled by Send and       *)
(* drained by one writeLoop goroutine that writes with the lock released.  *)
(* A step is one critical section of mu, one write, or one wait.           *)
(*                                                                         *)
(* Close may be called by several goroutines: the router's after the       *)
(* browser died, Server.Stop's, and, for a WebSocket, the connection's own *)
(* reader (handleClient), which then reports the disconnect with onClose.  *)
(* A WebSocket write has a deadline, a pipe write has none.                *)
(***************************************************************************)
EXTENDS Naturals, Sequences

CONSTANTS Messages,     \* what Send is called with
          OtherClosers, \* goroutines other than the reader that call Close
          WebSocket,    \* TRUE for ClientConn, FALSE for PipeClientConn
          MaxSends      \* bound: messages accepted

ASSUME TransportAssumption ==
    /\ WebSocket \in BOOLEAN /\ MaxSends \in Nat
    /\ "reader" \notin OtherClosers

Closers == OtherClosers \cup (IF WebSocket THEN {"reader"} ELSE {})

VARIABLES queue, closed,   \* guarded by mu
          batch,           \* what writeLoop took and has not written yet
          wpc,             \* writeLoop: "wait", "write", "drop", "done"
          socketOpen,      \* conn.Close was not called
          peer,            \* the client: "reading", "stalled" or "gone"
          cpc,             \* Close callers: "idle", "waiting", "returned"
          waited,          \* the callers that waited for done
          reported,        \* handleClient called onClose
          accepted, sent,  \* all messages taken by Send, all received by the client
          broken           \* a write failed

vars == <<queue, closed, batch, wpc, socketOpen, peer, cpc, waited, reported,
          accepted, sent, broken>>

Init ==
    /\ queue = <<>> /\ closed = FALSE /\ batch = <<>> /\ wpc = "wait"
    /\ socketOpen = TRUE /\ peer = "reading"
    /\ cpc = [k \in Closers |-> "idle"] /\ waited = {} /\ reported = FALSE
    /\ accepted = <<>> /\ sent = <<>> /\ broken = FALSE

\* Send: appends under mu and never waits for the client.
Send(m) ==
    /\ ~closed /\ Len(accepted) < MaxSends
    /\ queue' = Append(queue, m)
    /\ accepted' = Append(accepted, m)
    /\ UNCHANGED <<closed, batch, wpc, socketOpen, peer, cpc, waited, reported, sent,
                   broken>>

\* Mutant: the batch is taken without emptying the queue.
QueueAfterTake_Kept == queue
QueueAfterTake == <<>>

\* writeLoop wakes up with messages queued, closed or not.
WriterTake ==
    /\ wpc = "wait" /\ queue # <<>>
    /\ batch' = queue /\ queue' = QueueAfterTake
    /\ wpc' = "write"
    /\ UNCHANGED <<closed, socketOpen, peer, cpc, waited, reported, accepted, sent,
                   broken>>

\* Mutant: a closed transport ends its writer with messages still queued.
WriterMayEnd_Undrained == closed
WriterMayEnd == queue = <<>> /\ closed

WriterEnd ==
    /\ wpc = "wait" /\ WriterMayEnd
    /\ wpc' = "done"
    /\ UNCHANGED <<queue, closed, batch, socketOpen, peer, cpc, waited, reported,
                   accepted, sent, broken>>

\* One message of the batch reaches the client.
WriterWrite ==
    /\ wpc = "write" /\ batch # <<>> /\ socketOpen /\ peer = "reading"
    /\ sent' = Append(sent, Head(batch)) /\ batch' = Tail(batch)
    /\ UNCHANGED <<queue, closed, wpc, socketOpen, peer, cpc, waited, reported,
                   accepted, broken>>

WriterFlushed ==
    /\ wpc = "write" /\ batch = <<>>
    /\ wpc' = "wait"
    /\ UNCHANGED <<queue, closed, batch, socketOpen, peer, cpc, waited, reported,
                   accepted, sent, broken>>

\* Mutant: no write deadline.
WriteFails_NoDeadline == peer = "gone" \/ ~socketOpen
WriteFails == peer = "gone" \/ ~socketOpen \/ (WebSocket /\ peer = "stalled")

\* A failed write: stop accepting, and forget the rest of the batch.
WriterFail ==
    /\ wpc = "write" /\ batch # <<>> /\ WriteFails
    /\ closed' = TRUE /\ broken' = TRUE /\ batch' = <<>>
    /\ wpc' = IF WebSocket THEN "drop" ELSE "done"
    /\ UNCHANGED <<queue, socketOpen, peer, cpc, waited, reported, accepted, sent>>

\* Mutant: the failed connection is left open.
SocketAfterDrop_Open == socketOpen
SocketAfterDrop == FALSE

\* ClientConn.writeLoop closes the connection so that its reader notices.
WriterDrop ==
    /\ wpc = "drop"
    /\ socketOpen' = SocketAfterDrop /\ wpc' = "done"
    /\ UNCHANGED <<queue, closed, batch, peer, cpc, waited, reported, accepted, sent,
                   broken>>

\* Close: the first caller marks the transport closed and waits; for the others
\* there is nothing to do.  The reader calls it when ReadMessage fails: after its
\* deadline, or because the connection or the client is gone.
CloseCall(k) ==
    /\ cpc[k] = "idle"
    /\ closed' = TRUE
    /\ cpc' = [cpc EXCEPT ![k] = IF closed THEN "returned" ELSE "waiting"]
    /\ waited' = IF closed THEN waited ELSE waited \cup {k}
    /\ UNCHANGED <<queue, batch, wpc, socketOpen, peer, reported, accepted, sent,
                   broken>>

DrainedFor == wpc = "done"

\* <-done, then, for a WebSocket, the close frame and conn.Close.
CloseReturn(k) ==
    /\ cpc[k] = "waiting" /\ DrainedFor
    /\ cpc' = [cpc EXCEPT ![k] = "returned"]
    /\ socketOpen' = IF WebSocket THEN FALSE ELSE socketOpen
    /\ UNCHANGED <<queue, closed, batch, wpc, peer, waited, reported, accepted, sent,
                   broken>>

\* handleClient's deferred onClose, after its Close returned.
Report ==
    /\ WebSocket /\ cpc["reader"] = "returned" /\ ~reported
    /\ reported' = TRUE
    /\ UNCHANGED <<queue, closed, batch, wpc, socketOpen, peer, cpc, waited, accepted,
                   sent, broken>>

\* The client stops reading, resumes, or goes away.
PeerChanges ==
    /\ peer # "gone"
    /\ peer' \in {"reading", "stalled", "gone"} \ {peer}
    /\ UNCHANGED <<queue, closed, batch, wpc, socketOpen, cpc, waited, reported,
                   accepted, sent, broken>>

WriterStep ==
    WriterTake \/ WriterEnd \/ WriterWrite \/ WriterFlushed \/ WriterFail \/ WriterDrop

Next ==
    \/ \E m \in Messages : Send(m)
    \/ WriterStep
    \/ \E k \in Closers : CloseCall(k) \/ CloseReturn(k)
    \/ Report \/ PeerChanges

Spec == Init /\ [][Next]_vars

\* The goroutines run.  The reader notices a connection that was closed under
\* it; nothing makes a stalled client read, or other goroutines call Close.
ReaderNotices == WebSocket /\ ~socketOpen /\ CloseCall("reader")
Fairness ==
    /\ WF_vars(WriterStep)
    /\ \A k \in Closers : WF_vars(CloseReturn(k))
    /\ WF_vars(ReaderNotices) /\ WF_vars(Report)

FairSpec == Spec /\ Fairness

----------------------------------------------------------------------------
(* Properties.                                                             *)

\* Every variable keeps its type, and no message is held twice.
TypeOK ==
    /\ queue \in Seq(Messages) /\ batch \in Seq(Messages)
    /\ accepted \in Seq(Messages) /\ sent \in Seq(Messages)
    /\ closed \in BOOLEAN /\ socketOpen \in BOOLEAN /\ broken \in BOOLEAN
    /\ reported \in BOOLEAN
    /\ wpc \in {"wait", "write", "drop", "done"}
    /\ peer \in {"reading", "stalled", "gone"}
    /\ cpc \in [Closers -> {"idle", "waiting", "returned"}]
    /\ waited \subseteq Closers
    /\ Len(sent) + Len(batch) + Len(queue) <= Len(accepted)
    /\ wpc # "write" => batch = <<>>

\* "Send never blocks and never drops": what the client has is what Send took, in
\* that order, and the rest is on its way until a write fails.
NothingDropped == ~broken => accepted = sent \o batch \o queue

\* "Close stops accepting messages, waits for the queue to drain, then closes the
\* socket": when the caller that waited returns, every message was delivered,
\* unless the connection failed first.
CloseDrains == \A k \in waited :
    cpc[k] = "returned" => broken \/ sent = accepted

\* The socket is only closed under the writer when its own write failed.
SocketOutlivesWriter == ~socketOpen => wpc = "done"

\* What the writer still owes when it may not fail any more: nothing.
WriterInv ==
    /\ wpc = "done" => closed /\ (broken \/ queue = <<>>)
    /\ wpc = "drop" => broken
    /\ broken => closed
CloserInv == \A k \in waited :
    /\ closed /\ cpc[k] # "idle"
    /\ cpc[k] = "returned" => wpc = "done"
DrainInv == NothingDropped /\ WriterInv /\ CloserInv

\* The transport is an ordered delivery.
Promise == INSTANCE FifoDelivery
Delivers == Promise!Spec

\* Close returns even when the client stopped reading: the write deadline ends the
\* writer.  (Not so for a pipe, which has no deadline.)
CloseReturns == \A k \in Closers : (cpc[k] = "waiting") ~> (cpc[k] = "returned")

\* A client that cannot be written to is reported as disconnected, so that the
\* router closes its session.
FailureIsReported == broken ~> reported
=============================================================================
