-------------------------- MODULE BidiClientProofs --------------------------
(***************************************************************************)
(* TLAPS proofs about BidiClient, for any number of calls, any event       *)
(* buffer and any browser: a routed response is returned, a call that      *)
(* returned leaves nothing behind, done is closed once, and events keep    *)
(* their order.                                                            *)
(***************************************************************************)
EXTENDS BidiClient, SequenceTheorems, TLAPS

\* Init establishes the types.
LEMMA InitTypeOK == Init => TypeOK
  <1> SUFFICES ASSUME Init PROVE TypeOK
    OBVIOUS
  <1> USE ClientAssumption DEF Init, None
  <1>1. queue \in Seq(Nat) /\ handled \in Seq(Nat) /\ Len(queue) <= EventBuffer
    OBVIOUS
  <1>2. \A c \in Callers : pc[c] = "writing" <=> mu = c
    OBVIOUS
  <1>3. /\ pc \in [Callers -> {"idle", "lock", "writing", "select", "dying", "unregister", "done"}]
        /\ result \in [Callers -> {"none", "reply", "timeout", "lost", "refused", "sendfail"}]
    OBVIOUS
  <1>4. /\ \A s \in {pending, delivered, routed, atBrowser} : s \subseteq Callers
        /\ {readerDone, connClosed, rawClosed} \subseteq BOOLEAN /\ dropped \subseteq Nat
    OBVIOUS
  <1>5. eventCount \in 0 .. MaxEvents /\ dones \in Nat /\ mu \in Writers \cup {"free"}
    BY DEF Writers
  <1> QED BY <1>1, <1>2, <1>3, <1>4, <1>5 DEF TypeOK

\* Every step keeps the types, and mu with its writer.
LEMMA StepTypeOK == TypeOK /\ [Next]_vars => TypeOK'
  <1> SUFFICES ASSUME TypeOK, [Next]_vars PROVE TypeOK'
    OBVIOUS
  <1> USE ClientAssumption DEF TypeOK, Writers, None, callers, reader, conn, events
  <1>1. ASSUME NEW c \in Callers, Register(c) PROVE TypeOK'
    <2>1. pc[c] = "idle" /\ mu' = mu
      BY <1>1 DEF Register
    <2>2. /\ pc' \in [Callers -> {"idle", "lock", "writing", "select", "dying", "unregister", "done"}]
          /\ result' \in [Callers -> {"none", "reply", "timeout", "lost", "refused", "sendfail"}]
          /\ pending' \subseteq Callers
      BY <1>1 DEF Register
    <2>3. \A x \in Callers : pc'[x] = "writing" <=> mu' = x
      BY <1>1, <2>1 DEF Register
    <2> QED BY <1>1, <2>1, <2>2, <2>3 DEF Register
  <1>2. ASSUME NEW c \in Callers, LockForSend(c) PROVE TypeOK'
    BY <1>2 DEF LockForSend, End
  <1>3. ASSUME NEW c \in Callers, SendOK(c) PROVE TypeOK'
    BY <1>3 DEF SendOK
  <1>4. ASSUME NEW c \in Callers, SendFails(c) PROVE TypeOK'
    BY <1>4 DEF SendFails, End
  <1>5. ASSUME NEW c \in Callers, TakeReply(c) PROVE TypeOK'
    BY <1>5 DEF TakeReply, End
  <1>6. ASSUME NEW c \in Callers, GiveUp(c) PROVE TypeOK'
    BY <1>6 DEF GiveUp, End, Expires
  <1>7. ASSUME NEW c \in Callers, NoticeDeath(c) PROVE TypeOK'
    BY <1>7 DEF NoticeDeath
  <1>8. ASSUME NEW c \in Callers, ConnectionLost(c) PROVE TypeOK'
    BY <1>8 DEF ConnectionLost, End, NothingRouted
  <1>9. ASSUME NEW c \in Callers, Unregister(c) PROVE TypeOK'
    BY <1>9 DEF Unregister, PendingAfter
  <1>10. CASE ReceiveStart
    BY <1>10 DEF ReceiveStart, Fail
  <1>11. CASE ReceiveFails
    BY <1>11 DEF ReceiveFails, Fail
  <1>12. CASE ReceiveResponse
    BY <1>12 DEF ReceiveResponse, Readable
  <1>13. CASE GiveResponse
    <2>1. held \in Callers
      BY <1>13 DEF GiveResponse
    <2>2. delivered' \subseteq Callers /\ routed' \subseteq Callers
      BY <1>13, <2>1 DEF GiveResponse
    <2> QED BY <1>13, <2>1, <2>2 DEF GiveResponse
  <1>14. CASE ReceiveEvent
    <2>1. eventCount' \in 0 .. MaxEvents /\ eventCount + 1 \in Nat
      BY <1>14 DEF ReceiveEvent
    <2>2. queue' \in Seq(Nat) /\ Len(queue') <= EventBuffer
      <3>1. CASE HasRoom
        <4>1. queue' = Append(queue, eventCount + 1) /\ Len(queue) < EventBuffer
          BY <1>14, <3>1 DEF ReceiveEvent, HasRoom
        <4>2. queue \in Seq(Nat) /\ Len(queue) \in Nat /\ EventBuffer \in Nat
          OBVIOUS
        <4>3. queue' \in Seq(Nat) /\ Len(queue') = Len(queue) + 1
          BY <2>1, <4>1, <4>2, AppendProperties
        <4> QED BY <4>1, <4>2, <4>3
      <3>2. CASE ~HasRoom
        BY <1>14, <3>2 DEF ReceiveEvent
      <3> QED BY <3>1, <3>2
    <2>3. dropped' \subseteq Nat
      BY <1>14, <2>1 DEF ReceiveEvent, Dropping
    <2>4. rpc # "frame" /\ rpc' = "top" /\ mu' = mu
      BY <1>14 DEF ReceiveEvent, Readable
    <2> QED BY <1>14, <2>1, <2>2, <2>3, <2>4 DEF ReceiveEvent
  <1>15. ASSUME NEW w \in {"reader", "closer"}, CloseFlag(w) PROVE TypeOK'
    BY <1>15 DEF CloseFlag, Goto, CloserOf, FirstToClose
  <1>16. ASSUME NEW w \in {"reader", "closer"}, CloseLock(w) PROVE TypeOK'
    BY <1>16 DEF CloseLock, Goto, CloserOf
  <1>17. ASSUME NEW w \in {"reader", "closer"}, CloseFrame(w) PROVE TypeOK'
    BY <1>17 DEF CloseFrame, Goto, CloserOf
  <1>18. ASSUME NEW w \in {"reader", "closer"}, CloseRaw(w) PROVE TypeOK'
    BY <1>18 DEF CloseRaw, Goto, CloserOf, RawAfterClose
  <1>19. CASE ClientClose
    BY <1>19 DEF ClientClose
  <1>20. CASE ClientClosed
    BY <1>20 DEF ClientClosed
  <1>21. CASE DispatchEvent
    BY <1>21 DEF DispatchEvent
  <1>22. CASE BrowserChanges
    BY <1>22 DEF BrowserChanges
  <1>23. CASE UNCHANGED vars
    BY <1>23 DEF vars
  <1> QED
    BY <1>1, <1>2, <1>3, <1>4, <1>5, <1>6, <1>7, <1>8, <1>9, <1>10, <1>11, <1>12,
       <1>13, <1>14, <1>15, <1>16, <1>17, <1>18, <1>19, <1>20, <1>21, <1>22, <1>23
       DEF Next, CallerStep, CloserStep

\* Every variable keeps its type, whatever the browser does.
THEOREM TypeCorrect == Spec => []TypeOK
  <1>1. Init => TypeOK
    BY InitTypeOK
  <1>2. TypeOK /\ [Next]_vars => TypeOK'
    BY StepTypeOK
  <1> QED BY <1>1, <1>2, PTL DEF Spec

\* No step leaves an entry or a message of a call that is over.
LEMMA StepNothingLeaks == TypeOK /\ ResponseInv /\ NothingLeaks /\ [Next]_vars => NothingLeaks'
  <1> SUFFICES ASSUME TypeOK, ResponseInv, NothingLeaks, [Next]_vars PROVE NothingLeaks'
    OBVIOUS
  <1> USE ClientAssumption DEF NothingLeaks, InCall, ResponseInv, TypeOK, callers, reader,
     conn, events
  <1>1. ASSUME NEW c \in Callers, Register(c) PROVE NothingLeaks'
    BY <1>1 DEF Register
  <1>2. ASSUME NEW c \in Callers, LockForSend(c) PROVE NothingLeaks'
    BY <1>2 DEF LockForSend, End
  <1>3. ASSUME NEW c \in Callers, SendOK(c) PROVE NothingLeaks'
    BY <1>3 DEF SendOK
  <1>4. ASSUME NEW c \in Callers, SendFails(c) PROVE NothingLeaks'
    BY <1>4 DEF SendFails, End
  <1>5. ASSUME NEW c \in Callers, TakeReply(c) PROVE NothingLeaks'
    BY <1>5 DEF TakeReply, End
  <1>6. ASSUME NEW c \in Callers, GiveUp(c) PROVE NothingLeaks'
    BY <1>6 DEF GiveUp, End, Expires
  <1>7. ASSUME NEW c \in Callers, NoticeDeath(c) PROVE NothingLeaks'
    BY <1>7 DEF NoticeDeath
  <1>8. ASSUME NEW c \in Callers, ConnectionLost(c) PROVE NothingLeaks'
    BY <1>8 DEF ConnectionLost, End, NothingRouted
  <1>9. ASSUME NEW c \in Callers, Unregister(c) PROVE NothingLeaks'
    BY <1>9 DEF Unregister, PendingAfter
  <1>10. CASE ReceiveStart
    BY <1>10 DEF ReceiveStart, Fail
  <1>11. CASE ReceiveFails
    BY <1>11 DEF ReceiveFails, Fail
  <1>12. CASE ReceiveResponse
    BY <1>12 DEF ReceiveResponse, Readable
  <1>13. CASE GiveResponse
    BY <1>13 DEF GiveResponse
  <1>14. CASE ReceiveEvent
    BY <1>14 DEF ReceiveEvent, Readable, HasRoom, Dropping
  <1>15. ASSUME NEW w \in {"reader", "closer"}, CloseFlag(w) PROVE NothingLeaks'
    BY <1>15 DEF CloseFlag, Goto, CloserOf, FirstToClose
  <1>16. ASSUME NEW w \in {"reader", "closer"}, CloseLock(w) PROVE NothingLeaks'
    BY <1>16 DEF CloseLock, Goto, CloserOf
  <1>17. ASSUME NEW w \in {"reader", "closer"}, CloseFrame(w) PROVE NothingLeaks'
    BY <1>17 DEF CloseFrame, Goto, CloserOf
  <1>18. ASSUME NEW w \in {"reader", "closer"}, CloseRaw(w) PROVE NothingLeaks'
    BY <1>18 DEF CloseRaw, Goto, CloserOf, RawAfterClose
  <1>19. CASE ClientClose
    BY <1>19 DEF ClientClose
  <1>20. CASE ClientClosed
    BY <1>20 DEF ClientClosed
  <1>21. CASE DispatchEvent
    BY <1>21 DEF DispatchEvent
  <1>22. CASE BrowserChanges
    BY <1>22 DEF BrowserChanges
  <1>23. CASE UNCHANGED vars
    BY <1>23 DEF vars
  <1> QED
    BY <1>1, <1>2, <1>3, <1>4, <1>5, <1>6, <1>7, <1>8, <1>9, <1>10, <1>11, <1>12,
       <1>13, <1>14, <1>15, <1>16, <1>17, <1>18, <1>19, <1>20, <1>21, <1>22, <1>23
       DEF Next, CallerStep, CloserStep

\* Responses stay with their callers.
LEMMA StepResponseInv == TypeOK /\ ResponseInv /\ NothingLeaks /\ [Next]_vars => ResponseInv'
  <1> SUFFICES ASSUME TypeOK, ResponseInv, NothingLeaks, [Next]_vars PROVE ResponseInv'
    OBVIOUS
  <1> USE ClientAssumption DEF ResponseInv, NothingLeaks, InCall, TypeOK, callers, reader,
     conn, events
  <1>1. ASSUME NEW c \in Callers, Register(c) PROVE ResponseInv'
    BY <1>1 DEF Register
  <1>2. ASSUME NEW c \in Callers, LockForSend(c) PROVE ResponseInv'
    BY <1>2 DEF LockForSend, End
  <1>3. ASSUME NEW c \in Callers, SendOK(c) PROVE ResponseInv'
    BY <1>3 DEF SendOK
  <1>4. ASSUME NEW c \in Callers, SendFails(c) PROVE ResponseInv'
    BY <1>4 DEF SendFails, End
  <1>5. ASSUME NEW c \in Callers, TakeReply(c) PROVE ResponseInv'
    BY <1>5 DEF TakeReply, End
  <1>6. ASSUME NEW c \in Callers, GiveUp(c) PROVE ResponseInv'
    BY <1>6 DEF GiveUp, End, Expires
  <1>7. ASSUME NEW c \in Callers, NoticeDeath(c) PROVE ResponseInv'
    BY <1>7 DEF NoticeDeath
  <1>8. ASSUME NEW c \in Callers, ConnectionLost(c) PROVE ResponseInv'
    BY <1>8 DEF ConnectionLost, End, NothingRouted
  <1>9. ASSUME NEW c \in Callers, Unregister(c) PROVE ResponseInv'
    BY <1>9 DEF Unregister, PendingAfter
  <1>10. CASE ReceiveStart
    BY <1>10 DEF ReceiveStart, Fail
  <1>11. CASE ReceiveFails
    BY <1>11 DEF ReceiveFails, Fail
  <1>12. CASE ReceiveResponse
    BY <1>12 DEF ReceiveResponse, Readable
  <1>13. CASE GiveResponse
    BY <1>13 DEF GiveResponse
  <1>14. CASE ReceiveEvent
    BY <1>14 DEF ReceiveEvent, Readable, HasRoom, Dropping
  <1>15. ASSUME NEW w \in {"reader", "closer"}, CloseFlag(w) PROVE ResponseInv'
    BY <1>15 DEF CloseFlag, Goto, CloserOf, FirstToClose
  <1>16. ASSUME NEW w \in {"reader", "closer"}, CloseLock(w) PROVE ResponseInv'
    BY <1>16 DEF CloseLock, Goto, CloserOf
  <1>17. ASSUME NEW w \in {"reader", "closer"}, CloseFrame(w) PROVE ResponseInv'
    BY <1>17 DEF CloseFrame, Goto, CloserOf
  <1>18. ASSUME NEW w \in {"reader", "closer"}, CloseRaw(w) PROVE ResponseInv'
    BY <1>18 DEF CloseRaw, Goto, CloserOf, RawAfterClose
  <1>19. CASE ClientClose
    BY <1>19 DEF ClientClose
  <1>20. CASE ClientClosed
    BY <1>20 DEF ClientClosed
  <1>21. CASE DispatchEvent
    BY <1>21 DEF DispatchEvent
  <1>22. CASE BrowserChanges
    BY <1>22 DEF BrowserChanges
  <1>23. CASE UNCHANGED vars
    BY <1>23 DEF vars
  <1> QED
    BY <1>1, <1>2, <1>3, <1>4, <1>5, <1>6, <1>7, <1>8, <1>9, <1>10, <1>11, <1>12,
       <1>13, <1>14, <1>15, <1>16, <1>17, <1>18, <1>19, <1>20, <1>21, <1>22, <1>23
       DEF Next, CallerStep, CloserStep

\* The reader that has gone does not come back.
LEMMA StepReaderInv == TypeOK /\ ReaderInv /\ [Next]_vars => ReaderInv'
  <1> SUFFICES ASSUME TypeOK, ReaderInv, [Next]_vars PROVE ReaderInv'
    OBVIOUS
  <1> USE ClientAssumption DEF ReaderInv, TypeOK, callers, reader, conn, events
  <1>1. ASSUME NEW c \in Callers, Register(c) PROVE ReaderInv'
    BY <1>1 DEF Register
  <1>2. ASSUME NEW c \in Callers, LockForSend(c) PROVE ReaderInv'
    BY <1>2 DEF LockForSend, End
  <1>3. ASSUME NEW c \in Callers, SendOK(c) PROVE ReaderInv'
    BY <1>3 DEF SendOK
  <1>4. ASSUME NEW c \in Callers, SendFails(c) PROVE ReaderInv'
    BY <1>4 DEF SendFails, End
  <1>5. ASSUME NEW c \in Callers, TakeReply(c) PROVE ReaderInv'
    BY <1>5 DEF TakeReply, End
  <1>6. ASSUME NEW c \in Callers, GiveUp(c) PROVE ReaderInv'
    BY <1>6 DEF GiveUp, End, Expires
  <1>7. ASSUME NEW c \in Callers, NoticeDeath(c) PROVE ReaderInv'
    BY <1>7 DEF NoticeDeath
  <1>8. ASSUME NEW c \in Callers, ConnectionLost(c) PROVE ReaderInv'
    BY <1>8 DEF ConnectionLost, End, NothingRouted
  <1>9. ASSUME NEW c \in Callers, Unregister(c) PROVE ReaderInv'
    BY <1>9 DEF Unregister, PendingAfter
  <1>10. CASE ReceiveStart
    BY <1>10 DEF ReceiveStart, Fail
  <1>11. CASE ReceiveFails
    BY <1>11 DEF ReceiveFails, Fail
  <1>12. CASE ReceiveResponse
    BY <1>12 DEF ReceiveResponse, Readable
  <1>13. CASE GiveResponse
    BY <1>13 DEF GiveResponse
  <1>14. CASE ReceiveEvent
    BY <1>14 DEF ReceiveEvent, Readable, HasRoom, Dropping
  <1>15. ASSUME NEW w \in {"reader", "closer"}, CloseFlag(w) PROVE ReaderInv'
    BY <1>15 DEF CloseFlag, Goto, CloserOf, FirstToClose
  <1>16. ASSUME NEW w \in {"reader", "closer"}, CloseLock(w) PROVE ReaderInv'
    BY <1>16 DEF CloseLock, Goto, CloserOf
  <1>17. ASSUME NEW w \in {"reader", "closer"}, CloseFrame(w) PROVE ReaderInv'
    BY <1>17 DEF CloseFrame, Goto, CloserOf
  <1>18. ASSUME NEW w \in {"reader", "closer"}, CloseRaw(w) PROVE ReaderInv'
    BY <1>18 DEF CloseRaw, Goto, CloserOf, RawAfterClose
  <1>19. CASE ClientClose
    BY <1>19 DEF ClientClose
  <1>20. CASE ClientClosed
    BY <1>20 DEF ClientClosed
  <1>21. CASE DispatchEvent
    BY <1>21 DEF DispatchEvent
  <1>22. CASE BrowserChanges
    BY <1>22 DEF BrowserChanges
  <1>23. CASE UNCHANGED vars
    BY <1>23 DEF vars
  <1> QED
    BY <1>1, <1>2, <1>3, <1>4, <1>5, <1>6, <1>7, <1>8, <1>9, <1>10, <1>11, <1>12,
       <1>13, <1>14, <1>15, <1>16, <1>17, <1>18, <1>19, <1>20, <1>21, <1>22, <1>23
       DEF Next, CallerStep, CloserStep

\* A call reports a lost connection only when nothing was routed to it.
LEMMA StepRouted == TypeOK /\ ResponseInv /\ ReaderInv /\ RoutedIsReturned /\ [Next]_vars => RoutedIsReturned'
  <1> SUFFICES ASSUME TypeOK, ResponseInv, ReaderInv, RoutedIsReturned, [Next]_vars PROVE RoutedIsReturned'
    OBVIOUS
  <1> USE ClientAssumption DEF RoutedIsReturned, ReaderInv, ResponseInv, TypeOK, callers,
     reader, conn, events
  <1>1. ASSUME NEW c \in Callers, Register(c) PROVE RoutedIsReturned'
    BY <1>1 DEF Register
  <1>2. ASSUME NEW c \in Callers, LockForSend(c) PROVE RoutedIsReturned'
    BY <1>2 DEF LockForSend, End
  <1>3. ASSUME NEW c \in Callers, SendOK(c) PROVE RoutedIsReturned'
    BY <1>3 DEF SendOK
  <1>4. ASSUME NEW c \in Callers, SendFails(c) PROVE RoutedIsReturned'
    BY <1>4 DEF SendFails, End
  <1>5. ASSUME NEW c \in Callers, TakeReply(c) PROVE RoutedIsReturned'
    BY <1>5 DEF TakeReply, End
  <1>6. ASSUME NEW c \in Callers, GiveUp(c) PROVE RoutedIsReturned'
    BY <1>6 DEF GiveUp, End, Expires
  <1>7. ASSUME NEW c \in Callers, NoticeDeath(c) PROVE RoutedIsReturned'
    BY <1>7 DEF NoticeDeath
  <1>8. ASSUME NEW c \in Callers, ConnectionLost(c) PROVE RoutedIsReturned'
    BY <1>8 DEF ConnectionLost, End, NothingRouted
  <1>9. ASSUME NEW c \in Callers, Unregister(c) PROVE RoutedIsReturned'
    BY <1>9 DEF Unregister, PendingAfter
  <1>10. CASE ReceiveStart
    BY <1>10 DEF ReceiveStart, Fail
  <1>11. CASE ReceiveFails
    BY <1>11 DEF ReceiveFails, Fail
  <1>12. CASE ReceiveResponse
    BY <1>12 DEF ReceiveResponse, Readable
  <1>13. CASE GiveResponse
    BY <1>13 DEF GiveResponse
  <1>14. CASE ReceiveEvent
    BY <1>14 DEF ReceiveEvent, Readable, HasRoom, Dropping
  <1>15. ASSUME NEW w \in {"reader", "closer"}, CloseFlag(w) PROVE RoutedIsReturned'
    BY <1>15 DEF CloseFlag, Goto, CloserOf, FirstToClose
  <1>16. ASSUME NEW w \in {"reader", "closer"}, CloseLock(w) PROVE RoutedIsReturned'
    BY <1>16 DEF CloseLock, Goto, CloserOf
  <1>17. ASSUME NEW w \in {"reader", "closer"}, CloseFrame(w) PROVE RoutedIsReturned'
    BY <1>17 DEF CloseFrame, Goto, CloserOf
  <1>18. ASSUME NEW w \in {"reader", "closer"}, CloseRaw(w) PROVE RoutedIsReturned'
    BY <1>18 DEF CloseRaw, Goto, CloserOf, RawAfterClose
  <1>19. CASE ClientClose
    BY <1>19 DEF ClientClose
  <1>20. CASE ClientClosed
    BY <1>20 DEF ClientClosed
  <1>21. CASE DispatchEvent
    BY <1>21 DEF DispatchEvent
  <1>22. CASE BrowserChanges
    BY <1>22 DEF BrowserChanges
  <1>23. CASE UNCHANGED vars
    BY <1>23 DEF vars
  <1> QED
    BY <1>1, <1>2, <1>3, <1>4, <1>5, <1>6, <1>7, <1>8, <1>9, <1>10, <1>11, <1>12,
       <1>13, <1>14, <1>15, <1>16, <1>17, <1>18, <1>19, <1>20, <1>21, <1>22, <1>23
       DEF Next, CallerStep, CloserStep

\* The flag of Connection.Close is set once.
LEMMA StepCloseInv == TypeOK /\ CloseInv /\ [Next]_vars => CloseInv'
  <1> SUFFICES ASSUME TypeOK, CloseInv, [Next]_vars PROVE CloseInv'
    OBVIOUS
  <1> USE ClientAssumption DEF CloseInv, TypeOK, callers, reader, conn, events
  <1>1. ASSUME NEW c \in Callers, Register(c) PROVE CloseInv'
    BY <1>1 DEF Register
  <1>2. ASSUME NEW c \in Callers, LockForSend(c) PROVE CloseInv'
    BY <1>2 DEF LockForSend, End
  <1>3. ASSUME NEW c \in Callers, SendOK(c) PROVE CloseInv'
    BY <1>3 DEF SendOK
  <1>4. ASSUME NEW c \in Callers, SendFails(c) PROVE CloseInv'
    BY <1>4 DEF SendFails, End
  <1>5. ASSUME NEW c \in Callers, TakeReply(c) PROVE CloseInv'
    BY <1>5 DEF TakeReply, End
  <1>6. ASSUME NEW c \in Callers, GiveUp(c) PROVE CloseInv'
    BY <1>6 DEF GiveUp, End, Expires
  <1>7. ASSUME NEW c \in Callers, NoticeDeath(c) PROVE CloseInv'
    BY <1>7 DEF NoticeDeath
  <1>8. ASSUME NEW c \in Callers, ConnectionLost(c) PROVE CloseInv'
    BY <1>8 DEF ConnectionLost, End, NothingRouted
  <1>9. ASSUME NEW c \in Callers, Unregister(c) PROVE CloseInv'
    BY <1>9 DEF Unregister, PendingAfter
  <1>10. CASE ReceiveStart
    BY <1>10 DEF ReceiveStart, Fail
  <1>11. CASE ReceiveFails
    BY <1>11 DEF ReceiveFails, Fail
  <1>12. CASE ReceiveResponse
    BY <1>12 DEF ReceiveResponse, Readable
  <1>13. CASE GiveResponse
    BY <1>13 DEF GiveResponse
  <1>14. CASE ReceiveEvent
    BY <1>14 DEF ReceiveEvent, Readable, HasRoom, Dropping
  <1>15. ASSUME NEW w \in {"reader", "closer"}, CloseFlag(w) PROVE CloseInv'
    BY <1>15 DEF CloseFlag, Goto, CloserOf, FirstToClose
  <1>16. ASSUME NEW w \in {"reader", "closer"}, CloseLock(w) PROVE CloseInv'
    BY <1>16 DEF CloseLock, Goto, CloserOf
  <1>17. ASSUME NEW w \in {"reader", "closer"}, CloseFrame(w) PROVE CloseInv'
    BY <1>17 DEF CloseFrame, Goto, CloserOf
  <1>18. ASSUME NEW w \in {"reader", "closer"}, CloseRaw(w) PROVE CloseInv'
    BY <1>18 DEF CloseRaw, Goto, CloserOf, RawAfterClose
  <1>19. CASE ClientClose
    BY <1>19 DEF ClientClose
  <1>20. CASE ClientClosed
    BY <1>20 DEF ClientClosed
  <1>21. CASE DispatchEvent
    BY <1>21 DEF DispatchEvent
  <1>22. CASE BrowserChanges
    BY <1>22 DEF BrowserChanges
  <1>23. CASE UNCHANGED vars
    BY <1>23 DEF vars
  <1> QED
    BY <1>1, <1>2, <1>3, <1>4, <1>5, <1>6, <1>7, <1>8, <1>9, <1>10, <1>11, <1>12,
       <1>13, <1>14, <1>15, <1>16, <1>17, <1>18, <1>19, <1>20, <1>21, <1>22, <1>23
       DEF Next, CallerStep, CloserStep

\* The inductive invariant: what has returned holds nothing, responses are with their
\* callers, and nobody thinks the reader gone that is not.
THEOREM ClientInvariant ==
    Spec => [](TypeOK /\ NothingLeaks /\ ResponseInv /\ ReaderInv /\ RoutedIsReturned)
  <1> DEFINE Inv == TypeOK /\ NothingLeaks /\ ResponseInv /\ ReaderInv /\ RoutedIsReturned
  <1>1. Init => Inv
    <2> SUFFICES ASSUME Init PROVE NothingLeaks /\ ResponseInv /\ ReaderInv /\ RoutedIsReturned
      BY InitTypeOK
    <2> QED BY DEF Init, NothingLeaks, ResponseInv, ReaderInv, RoutedIsReturned, None
  <1>2. Inv /\ [Next]_vars => Inv'
    BY StepTypeOK, StepNothingLeaks, StepResponseInv, StepReaderInv, StepRouted
  <1> QED BY <1>1, <1>2, PTL DEF Spec

\* A call reports a lost connection only if its response was never put in its channel.
THEOREM RoutedResponsesAreReturned == Spec => []RoutedIsReturned
  BY ClientInvariant, PTL

\* A call that returned has no entry in pending and no message in its channel.
THEOREM CallsLeaveNothing == Spec => []NothingLeaks
  BY ClientInvariant, PTL

\* The reader's exit and Client.Close close done once between them.
THEOREM DoneIsClosedOnce == Spec => []DoneClosedOnce
  <1>1. Init => CloseInv
    BY DEF Init, CloseInv
  <1>2. TypeOK /\ CloseInv /\ [Next]_vars => CloseInv'
    BY StepCloseInv
  <1>3. CloseInv => DoneClosedOnce
    BY DEF CloseInv, DoneClosedOnce
  <1> QED BY <1>1, <1>2, <1>3, TypeCorrect, PTL DEF Spec

----------------------------------------------------------------------------
(* The events.                                                             *)

\* The stream is a sequence of numbers.
LEMMA StreamIsSeq == TypeOK => Stream \in Seq(Nat) /\ Len(Stream) \in Nat
  BY ConcatProperties DEF TypeOK, Stream

\* An event that is queued goes to the end of the stream.
LEMMA QueuedIsLast ==
    ASSUME TypeOK, NEW e \in Nat, queue' = Append(queue, e), handled' = handled
    PROVE  Stream' = Append(Stream, e)
  <1>1. queue \in Seq(Nat) /\ handled \in Seq(Nat) /\ <<e>> \in Seq(Nat)
    BY DEF TypeOK
  <1>2. queue' = queue \o <<e>>
    BY <1>1, AppendIsConcat
  <1>3. Stream' = Stream \o <<e>>
    BY <1>1, <1>2, ConcatAssociative DEF Stream
  <1>4. Append(Stream, e) = Stream \o <<e>>
    BY StreamIsSeq, AppendIsConcat
  <1> QED BY <1>3, <1>4

\* Handing the oldest event to the handler does not change the stream.
LEMMA HandedStaysInStream == TypeOK /\ DispatchEvent => Stream' = Stream
  <1> SUFFICES ASSUME TypeOK, DispatchEvent PROVE Stream' = Stream
    OBVIOUS
  <1>1. handled \o queue = Append(handled, Head(queue)) \o Tail(queue)
    BY DEF DispatchEvent, TypeOK
  <1> QED BY <1>1 DEF DispatchEvent, Stream

\* What arrives is appended or dropped, and nothing in the stream changes.
LEMMA StepEventsInOrder == TypeOK /\ EventsInOrder /\ [Next]_vars => EventsInOrder'
  <1> SUFFICES ASSUME TypeOK, EventsInOrder, [Next]_vars PROVE EventsInOrder'
    OBVIOUS
  <1>a. Stream' = Stream /\ UNCHANGED <<eventCount, dropped>> => EventsInOrder'
    <2> SUFFICES ASSUME Stream' = Stream, UNCHANGED <<eventCount, dropped>>
                 PROVE  EventsInOrder'
      OBVIOUS
    <2> QED BY DEF EventsInOrder
  <1>b. UNCHANGED events => EventsInOrder'
    BY <1>a DEF events, Stream
  <1>1. CASE ReceiveEvent
    <2> DEFINE n == eventCount + 1
    <2>1. /\ n \in Nat /\ eventCount' = n /\ n \notin dropped /\ handled' = handled
          /\ \A x \in 1 .. n : x = n \/ x \in 1 .. eventCount
          /\ 1 .. eventCount \subseteq 1 .. n /\ n \in 1 .. n /\ dropped \subseteq 1 .. n
      BY <1>1 DEF ReceiveEvent, TypeOK, EventsInOrder
    <2>2. CASE HasRoom
      <3>1. queue' = Append(queue, n) /\ dropped' = dropped
        BY <1>1, <2>2 DEF ReceiveEvent
      <3>2. Stream' = Append(Stream, n)
        BY <2>1, <3>1, QueuedIsLast
      <3> DEFINE k == Len(Stream)
      <3>3. /\ Stream \in Seq(Nat) /\ k \in Nat /\ Len(Stream') = k + 1
            /\ \A i \in 1 .. k : Stream'[i] = Stream[i]
            /\ Stream'[k + 1] = n
        BY <2>1, <3>2, StreamIsSeq, AppendProperties
      <3>4. \A i \in 1 .. k : Stream[i] \in (1 .. eventCount) \ dropped /\ Stream[i] < n
        BY <3>3 DEF EventsInOrder, TypeOK
      <3>5. \A i \in 1 .. k + 1 : i \in 1 .. k \/ i = k + 1
        BY <3>3
      <3>6. dropped' \subseteq 1 .. eventCount'
        BY <2>1, <3>1 DEF EventsInOrder
      <3>7. \A i \in 1 .. Len(Stream') : Stream'[i] \in (1 .. eventCount') \ dropped'
        <4>1. n \in (1 .. n) \ dropped /\ (1 .. eventCount) \ dropped \subseteq (1 .. n) \ dropped
          BY <2>1
        <4>2. \A i \in 1 .. k : Stream'[i] \in (1 .. n) \ dropped
          BY <3>3, <3>4, <4>1
        <4>3. Stream'[k + 1] \in (1 .. n) \ dropped
          BY <3>3, <4>1
        <4> HIDE DEF n, k
        <4> QED BY <2>1, <3>1, <3>3, <3>5, <4>2, <4>3
      <3>8. \A i, j \in 1 .. Len(Stream') : i < j => Stream'[i] < Stream'[j]
        <4>1. \A i, j \in 1 .. k : i < j => Stream'[i] < Stream'[j]
          BY <3>3 DEF EventsInOrder
        <4>2. \A i \in 1 .. k : Stream'[i] < Stream'[k + 1]
          BY <3>3, <3>4
        <4>3. \A i \in 1 .. k : ~(k + 1 < i)
          BY <3>3
        <4> HIDE DEF n, k
        <4> QED BY <3>3, <3>5, <4>1, <4>2, <4>3
      <3>9. \A e \in (1 .. eventCount') \ dropped' :
              \E i \in 1 .. Len(Stream') : Stream'[i] = e
        <4> SUFFICES ASSUME NEW e \in (1 .. n) \ dropped
                     PROVE  \E i \in 1 .. Len(Stream') : Stream'[i] = e
          BY <2>1, <3>1
        <4>1. CASE e = n
          BY <3>3, <4>1
        <4>2. CASE e \in 1 .. eventCount
          <5>1. PICK i \in 1 .. k : Stream[i] = e
            BY <4>2 DEF EventsInOrder
          <5> QED BY <3>3, <5>1
        <4> QED BY <2>1, <4>1, <4>2
      <3> QED BY <3>6, <3>7, <3>8, <3>9 DEF EventsInOrder
    <2>3. CASE ~HasRoom
      <3>1. dropped' = dropped \cup {n} /\ Stream' = Stream
        BY <1>1, <2>1, <2>3 DEF ReceiveEvent, Dropping, Stream
      <3>2. \A i \in 1 .. Len(Stream) : Stream[i] # n
        BY <2>1 DEF EventsInOrder, TypeOK
      <3>3. dropped' \subseteq 1 .. eventCount'
        BY <2>1, <3>1
      <3>4. \A i \in 1 .. Len(Stream) :
              /\ Stream[i] \in 1 .. eventCount /\ Stream[i] \notin dropped
              /\ Stream[i] \in (1 .. n) \ (dropped \cup {n})
        BY <2>1, <3>2 DEF EventsInOrder
      <3>5. \A e \in (1 .. n) \ (dropped \cup {n}) : e \in (1 .. eventCount) \ dropped
        BY <2>1
      <3> HIDE DEF n
      <3> QED BY <2>1, <3>1, <3>3, <3>4, <3>5 DEF EventsInOrder
    <2> QED BY <2>2, <2>3
  <1>2. CASE DispatchEvent
    BY <1>2, <1>a, HandedStaysInStream DEF DispatchEvent
  <1>3. ASSUME NEW c \in Callers, Register(c) \/ SendOK(c) \/ CallerStep(c)
        PROVE  EventsInOrder'
    BY <1>3, <1>b DEF Register, SendOK, CallerStep, LockForSend, SendFails, TakeReply,
       GiveUp, NoticeDeath, ConnectionLost, Unregister
  <1>4. ASSUME NEW w \in {"reader", "closer"}, CloserStep(w) \/ CloseFrame(w)
        PROVE  EventsInOrder'
    BY <1>4, <1>b DEF CloserStep, CloseFlag, CloseLock, CloseRaw, CloseFrame
  <1>5. CASE ReceiveStart \/ ReceiveFails \/ ReceiveResponse \/ GiveResponse
    BY <1>5, <1>b DEF ReceiveStart, ReceiveFails, ReceiveResponse, GiveResponse
  <1>6. CASE ClientClose \/ ClientClosed \/ BrowserChanges \/ UNCHANGED vars
    BY <1>6, <1>b DEF ClientClose, ClientClosed, BrowserChanges, vars
  <1> QED BY <1>1, <1>2, <1>3, <1>4, <1>5, <1>6 DEF Next

\* Every event that arrived reaches the handler in order and once, or waits for it, or
\* was dropped.
THEOREM EventsAreInOrder == Spec => []EventsInOrder
  <1>1. Init => EventsInOrder
    BY DEF Init, EventsInOrder, Stream
  <1>2. TypeOK /\ EventsInOrder /\ [Next]_vars => EventsInOrder'
    BY StepEventsInOrder
  <1> QED BY <1>1, <1>2, TypeCorrect, PTL DEF Spec
=============================================================================
