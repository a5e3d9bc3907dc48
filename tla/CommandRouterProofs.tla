------------------------ MODULE CommandRouterProofs ------------------------
(***************************************************************************)
(* TLAPS proofs about CommandRouter.  As long as the client's ids stay     *)
(* clear of the router's (IdsDisjoint), the reply an internal caller gets  *)
(* is the reply to its own command, for any number of handlers, closers    *)
(* and commands.                                                           *)
(***************************************************************************)
EXTENDS CommandRouter, TLAPS

USE DEF Client, NoId, NoMsg, Callers, Commands, InternalIDs, Msg

\* Init establishes the types.
LEMMA InitTypeOK == Init => TypeOK
  <1> SUFFICES ASSUME Init PROVE TypeOK
    OBVIOUS
  <1>1. FlagsOK /\ MessagesOK
    BY DEF Init, FlagsOK, MessagesOK
  <1>2. CallersOK /\ \A c \in Callers : ~InCall(c)
    BY DEF Init, CallersOK, Phases, InCall
  <1>3. ClientOK
    BY DEF Init, ClientOK
  <1>4. TableOK
    BY <1>2, RouterAssumption DEF Init, TableOK
  <1> QED BY <1>1, <1>2, <1>3, <1>4 DEF TypeOK

LEMMA StepFlagsOK == TypeOK /\ [Next]_vars => FlagsOK'
  <1> SUFFICES ASSUME TypeOK, [Next]_vars PROVE FlagsOK'
    OBVIOUS
  <1> USE RouterAssumption DEF TypeOK, FlagsOK, session, table, caller, loop,
     reader, client
  <1>1. CASE LoopForget
    BY <1>1 DEF LoopForget
  <1>2. CASE LoopClaim
    BY <1>2 DEF LoopClaim, AfterLoopClaim, AlreadyClosed
  <1>3. CASE LoopStop
    BY <1>3 DEF LoopStop
  <1>3a. CASE LoopDisconnect
    BY <1>3a DEF LoopDisconnect, NextID
  <1>4. CASE LoopHangup
    BY <1>4 DEF LoopHangup
  <1>5. ASSUME NEW k \in Closers, CloserStart(k) PROVE FlagsOK'
    BY <1>5 DEF CloserStart
  <1>6. ASSUME NEW k \in Closers, CloserClaim(k) PROVE FlagsOK'
    BY <1>6 DEF CloserClaim, Ending, AlreadyClosed
  <1>7. ASSUME NEW k \in Closers, CloserStop(k) PROVE FlagsOK'
    BY <1>7 DEF CloserStop, CloseStopChan
  <1>8. ASSUME NEW k \in Closers, CloserDisconnect(k) PROVE FlagsOK'
    BY <1>8 DEF CloserDisconnect, Ending
  <1>9. ASSUME NEW k \in Closers, CloserLeave(k) PROVE FlagsOK'
    BY <1>9 DEF CloserLeave
  <1>10. CASE BrowserDies
    BY <1>10 DEF BrowserDies
  <1>11. CASE ClientGone
    BY <1>11 DEF ClientGone
  <1>12. CASE UNCHANGED <<inMap, closed, connClosed, browserUp, clientClosed, stops>>
    BY <1>12
  <1> QED
    BY <1>1, <1>2, <1>3, <1>3a, <1>4, <1>5, <1>6, <1>7, <1>8, <1>9, <1>10, <1>11,
       <1>12
    DEF vars, Next, ReaderStep, CallerStep, CloserStep, LoopOwnStep,
       ReaderLoad, ReaderCheckClosed, ReaderPass, Register, SendInternal,
       TakeReply, GiveUp, SessionClosed, Unregister, HandlerAnswer, LoopTop,
       LoopReceive, LoopLookup, LoopDeliver, LoopLate, LoopForward,
       LoopReceiveError

LEMMA StepMessagesOK == TypeOK /\ [Next]_vars => MessagesOK'
  <1> SUFFICES ASSUME TypeOK, [Next]_vars PROVE MessagesOK'
    OBVIOUS
  <1> USE RouterAssumption DEF TypeOK, MessagesOK, session, table, caller,
     loop, reader, client, CallersOK, ClientOK, TableOK, InCall
  <1>1. CASE ReaderPass
    <2>1. rcmd \in RawIds => [id |-> rcmd, from |-> Client] \in Msg
      OBVIOUS
    <2> QED BY <1>1, <2>1 DEF ReaderPass, SendTo
  <1>2. ASSUME NEW c \in Callers, SendInternal(c) PROVE MessagesOK'
    BY <1>2 DEF SendInternal, SendTo, SendMayFail
  <1>3. ASSUME NEW c \in Callers, TakeReply(c) PROVE MessagesOK'
    BY <1>3 DEF TakeReply
  <1>4. CASE LoopTop
    BY <1>4 DEF LoopTop
  <1>5. CASE LoopReceive
    BY <1>5 DEF LoopReceive
  <1>6. CASE LoopLookup
    BY <1>6 DEF LoopLookup
  <1>7. CASE LoopDeliver
    BY <1>7 DEF LoopDeliver
  <1>8. CASE LoopLate
    BY <1>8 DEF LoopLate
  <1>9. CASE LoopForward
    BY <1>9 DEF LoopForward, Reply
  <1>10. CASE LoopReceiveError
    BY <1>10 DEF LoopReceiveError, AfterReceiveError
  <1>11. CASE LoopForget
    BY <1>11 DEF LoopForget
  <1>12. CASE LoopClaim
    BY <1>12 DEF LoopClaim, AfterLoopClaim, AlreadyClosed
  <1>13. CASE LoopStop
    BY <1>13 DEF LoopStop
  <1>13a. CASE LoopDisconnect
    BY <1>13a DEF LoopDisconnect, NextID
  <1>14. CASE LoopHangup
    BY <1>14 DEF LoopHangup
  <1>15. CASE UNCHANGED <<buffered, atBrowser, stray, held, lpc>>
    BY <1>15
  <1> QED
    BY <1>1, <1>2, <1>3, <1>4, <1>5, <1>6, <1>7, <1>8, <1>9, <1>10, <1>11,
       <1>12, <1>13, <1>13a, <1>14, <1>15
    DEF vars, Next, ReaderStep, CallerStep, CloserStep, LoopOwnStep,
       ReaderLoad, ReaderCheckClosed, Register, GiveUp, SessionClosed,
       Unregister, HandlerAnswer, CloserStart, CloserClaim, CloserStop,
       CloserDisconnect, CloserLeave, BrowserDies, ClientGone

LEMMA StepCallersOK == TypeOK /\ [Next]_vars => CallersOK'
  <1> SUFFICES ASSUME TypeOK, [Next]_vars PROVE CallersOK'
    OBVIOUS
  <1> USE RouterAssumption DEF TypeOK, CallersOK, session, table, caller,
     loop, reader, client, Phases, MessagesOK
  <1>1. CASE ReaderPass
    BY <1>1 DEF ReaderPass, SendTo
  <1>2. ASSUME NEW c \in Callers, Register(c) PROVE CallersOK'
    BY <1>2 DEF Register, NextID
  <1>3. ASSUME NEW c \in Callers, SendInternal(c) PROVE CallersOK'
    BY <1>3 DEF SendInternal, SendTo, SendMayFail
  <1>4. ASSUME NEW c \in Callers, TakeReply(c) PROVE CallersOK'
    <2>1. PICK m \in buffered : got' = [got EXCEPT ![c] = m]
      BY <1>4 DEF TakeReply
    <2>2. m \in Msg
      OBVIOUS
    <2> QED BY <1>4, <2>1, <2>2 DEF TakeReply
  <1>5. ASSUME NEW c \in Callers, GiveUp(c) PROVE CallersOK'
    BY <1>5 DEF GiveUp, Abandon
  <1>6. ASSUME NEW c \in Callers, SessionClosed(c) PROVE CallersOK'
    BY <1>6 DEF SessionClosed
  <1>7. ASSUME NEW c \in Callers, Unregister(c) PROVE CallersOK'
    BY <1>7 DEF Unregister, Resume
  <1>8. ASSUME NEW c \in Callers, HandlerAnswer(c) PROVE CallersOK'
    BY <1>8 DEF HandlerAnswer, Reply
  <1>9. ASSUME NEW k \in Closers, CloserStart(k) PROVE CallersOK'
    BY <1>9 DEF CloserStart
  <1>10. ASSUME NEW k \in Closers, CloserClaim(k) PROVE CallersOK'
    BY <1>10 DEF CloserClaim, Ending, AlreadyClosed
  <1>11. ASSUME NEW k \in Closers, CloserStop(k) PROVE CallersOK'
    BY <1>11 DEF CloserStop, CloseStopChan
  <1>12. ASSUME NEW k \in Closers, CloserDisconnect(k) PROVE CallersOK'
    BY <1>12 DEF CloserDisconnect, Ending
  <1>13. ASSUME NEW k \in Closers, CloserLeave(k) PROVE CallersOK'
    BY <1>13 DEF CloserLeave
  <1>14. CASE UNCHANGED <<pc, cmd, got, calls>>
    BY <1>14
  <1> QED
    BY <1>1, <1>2, <1>3, <1>4, <1>5, <1>6, <1>7, <1>8, <1>9, <1>10, <1>11,
       <1>12, <1>13, <1>14
    DEF vars, Next, ReaderStep, CallerStep, CloserStep, LoopOwnStep,
       ReaderLoad, ReaderCheckClosed, LoopTop, LoopReceive, LoopLookup,
       LoopDeliver, LoopLate, LoopForward, LoopReceiveError, LoopForget,
       LoopClaim, LoopStop, LoopDisconnect, LoopHangup, BrowserDies, ClientGone

LEMMA StepClientOK == TypeOK /\ [Next]_vars => ClientOK'
  <1> SUFFICES ASSUME TypeOK, [Next]_vars PROVE ClientOK'
    OBVIOUS
  <1> USE RouterAssumption DEF TypeOK, ClientOK, session, table, caller, loop,
     reader, client, MessagesOK, CallersOK
  <1>1. ASSUME NEW x \in Commands, ReaderLoad(x) PROVE ClientOK'
    BY <1>1 DEF ReaderLoad, Reply
  <1>2. CASE ReaderCheckClosed
    BY <1>2 DEF ReaderCheckClosed
  <1>3. CASE ReaderPass
    BY <1>3 DEF ReaderPass, SendTo
  <1>4. ASSUME NEW c \in Callers, Register(c) PROVE ClientOK'
    BY <1>4 DEF Register, NextID
  <1>5. ASSUME NEW c \in Callers, SendInternal(c) PROVE ClientOK'
    BY <1>5 DEF SendInternal, SendTo, SendMayFail
  <1>6. ASSUME NEW c \in Callers, TakeReply(c) PROVE ClientOK'
    BY <1>6 DEF TakeReply
  <1>7. ASSUME NEW c \in Callers, GiveUp(c) PROVE ClientOK'
    BY <1>7 DEF GiveUp, Abandon
  <1>8. ASSUME NEW c \in Callers, SessionClosed(c) PROVE ClientOK'
    BY <1>8 DEF SessionClosed
  <1>9. ASSUME NEW c \in Callers, Unregister(c) PROVE ClientOK'
    BY <1>9 DEF Unregister, Resume
  <1>10. ASSUME NEW c \in Callers, HandlerAnswer(c) PROVE ClientOK'
    BY <1>10 DEF HandlerAnswer, Reply
  <1>11. CASE LoopForward
    BY <1>11 DEF LoopForward, Reply
  <1>12. ASSUME NEW k \in Closers, CloserStart(k) PROVE ClientOK'
    BY <1>12 DEF CloserStart
  <1>13. ASSUME NEW k \in Closers, CloserClaim(k) PROVE ClientOK'
    BY <1>13 DEF CloserClaim, Ending, AlreadyClosed
  <1>14. ASSUME NEW k \in Closers, CloserStop(k) PROVE ClientOK'
    BY <1>14 DEF CloserStop, CloseStopChan
  <1>15. ASSUME NEW k \in Closers, CloserDisconnect(k) PROVE ClientOK'
    BY <1>15 DEF CloserDisconnect, Ending
  <1>16. ASSUME NEW k \in Closers, CloserLeave(k) PROVE ClientOK'
    BY <1>16 DEF CloserLeave
  <1>17. CASE UNCHANGED <<rpc, rcmd, asked, answers, pc>>
    BY <1>17
  <1> QED
    BY <1>1, <1>2, <1>3, <1>4, <1>5, <1>6, <1>7, <1>8, <1>9, <1>10, <1>11,
       <1>12, <1>13, <1>14, <1>15, <1>16, <1>17
    DEF vars, Next, ReaderStep, CallerStep, CloserStep, LoopOwnStep, LoopTop,
       LoopReceive, LoopLookup, LoopDeliver, LoopLate, LoopReceiveError,
       LoopForget, LoopClaim, LoopStop, LoopDisconnect, LoopHangup, BrowserDies,
       ClientGone

LEMMA StepTableOK == TypeOK /\ [Next]_vars => TableOK'
  <1> SUFFICES ASSUME TypeOK, [Next]_vars PROVE TableOK'
    OBVIOUS
  <1> USE RouterAssumption DEF TypeOK, TableOK, session, table, caller, loop,
     reader, client, InCall, CallersOK, ClientOK, Phases
  <1>1. CASE ReaderPass
    BY <1>1 DEF ReaderPass, SendTo
  <1>2. ASSUME NEW c \in Callers, Register(c) PROVE TableOK'
    BY <1>2 DEF Register, NextID
  <1>3. ASSUME NEW c \in Callers, SendInternal(c) PROVE TableOK'
    BY <1>3 DEF SendInternal, SendTo, SendMayFail
  <1>4. ASSUME NEW c \in Callers, TakeReply(c) PROVE TableOK'
    BY <1>4 DEF TakeReply
  <1>5. ASSUME NEW c \in Callers, GiveUp(c) PROVE TableOK'
    <2>0. cmd[c] \in InternalIDs
      BY <1>5 DEF GiveUp
    <2>1. abandonedInternal' \subseteq InternalIDs
      BY <1>5, <2>0 DEF GiveUp, Abandon
    <2>2. \A d \in Callers : InCall(d)' <=> InCall(d)
      BY <1>5 DEF GiveUp
    <2> QED BY <1>5, <2>1, <2>2 DEF GiveUp
  <1>6. ASSUME NEW c \in Callers, SessionClosed(c) PROVE TableOK'
    BY <1>6 DEF SessionClosed
  <1>7. ASSUME NEW c \in Callers, Unregister(c) PROVE TableOK'
    BY <1>7 DEF Unregister, Resume
  <1>8. ASSUME NEW c \in Callers, HandlerAnswer(c) PROVE TableOK'
    BY <1>8 DEF HandlerAnswer, Reply
  <1>9. CASE LoopLate
    BY <1>9 DEF LoopLate
  <1>10. ASSUME NEW k \in Closers, CloserStart(k) PROVE TableOK'
    BY <1>10 DEF CloserStart
  <1>11. ASSUME NEW k \in Closers, CloserClaim(k) PROVE TableOK'
    BY <1>11 DEF CloserClaim, Ending, AlreadyClosed
  <1>12. ASSUME NEW k \in Closers, CloserStop(k) PROVE TableOK'
    BY <1>12 DEF CloserStop, CloseStopChan
  <1>13. ASSUME NEW k \in Closers, CloserDisconnect(k) PROVE TableOK'
    BY <1>13 DEF CloserDisconnect, Ending
  <1>14. ASSUME NEW k \in Closers, CloserLeave(k) PROVE TableOK'
    BY <1>14 DEF CloserLeave
  <1>14a. CASE LoopDisconnect
    BY <1>14a DEF LoopDisconnect, NextID
  <1>15. CASE UNCHANGED <<table, pc, cmd>>
    BY <1>15
  <1> QED
    BY <1>1, <1>2, <1>3, <1>4, <1>5, <1>6, <1>7, <1>8, <1>9, <1>10, <1>11,
       <1>12, <1>13, <1>14, <1>14a, <1>15
    DEF vars, Next, ReaderStep, CallerStep, CloserStep, LoopOwnStep,
       ReaderLoad, ReaderCheckClosed, LoopTop, LoopReceive, LoopLookup,
       LoopDeliver, LoopForward, LoopReceiveError, LoopForget, LoopClaim,
       LoopStop, LoopHangup, BrowserDies, ClientGone

----------------------------------------------------------------------------
(* The inductive invariant.                                                 *)

RouterInv == TypeOK /\ CorrelationInv /\ SingleReplyInv /\ LateReplyInv

LEMMA StepCorrelationInv ==
    ASSUME IdsDisjoint, RouterInv, [Next]_vars PROVE CorrelationInv'
  <1> USE RouterAssumption DEF RouterInv, IdsDisjoint, TypeOK, CorrelationInv,
     session, table, caller, loop, reader, client, Travelling, MessageOwned,
     RepliesReachTheirCaller, MessagesOK, CallersOK, TableOK, InCall
  <1>1. CASE ReaderPass
    BY <1>1 DEF ReaderPass, SendTo
  <1>2. ASSUME NEW c \in Callers, Register(c) PROVE CorrelationInv'
    BY <1>2 DEF Register, NextID
  <1>3. ASSUME NEW c \in Callers, SendInternal(c) PROVE CorrelationInv'
    BY <1>3 DEF SendInternal, SendTo, SendMayFail
  <1>4. ASSUME NEW c \in Callers, TakeReply(c) PROVE CorrelationInv'
    BY <1>4 DEF TakeReply
  <1>5. ASSUME NEW c \in Callers, HandlerAnswer(c) PROVE CorrelationInv'
    BY <1>5 DEF HandlerAnswer, Reply
  <1>6. CASE LoopTop
    BY <1>6 DEF LoopTop
  <1>7. CASE LoopReceive
    BY <1>7 DEF LoopReceive
  <1>8. CASE LoopLookup
    BY <1>8 DEF LoopLookup
  <1>9. CASE LoopDeliver
    BY <1>9 DEF LoopDeliver
  <1>10. CASE LoopLate
    BY <1>10 DEF LoopLate
  <1>11. CASE LoopForward
    BY <1>11 DEF LoopForward, Reply
  <1>12. CASE LoopReceiveError
    BY <1>12 DEF LoopReceiveError, AfterReceiveError
  <1>13. CASE LoopForget
    BY <1>13 DEF LoopForget
  <1>14. CASE LoopClaim
    BY <1>14 DEF LoopClaim, AfterLoopClaim, AlreadyClosed
  <1>15. CASE LoopStop
    BY <1>15 DEF LoopStop
  <1>15a. CASE LoopDisconnect
    BY <1>15a DEF LoopDisconnect, NextID
  <1>16. CASE LoopHangup
    BY <1>16 DEF LoopHangup
  <1>17. ASSUME NEW k \in Closers, CloserDisconnect(k) PROVE CorrelationInv'
    BY <1>17 DEF CloserDisconnect, Ending
  <1>18. CASE UNCHANGED <<atBrowser, buffered, held, lpc, cmd, got, nextInternalID>>
    BY <1>18
  <1> QED
    BY <1>1, <1>2, <1>3, <1>4, <1>5, <1>6, <1>7, <1>8, <1>9, <1>10, <1>11,
       <1>12, <1>13, <1>14, <1>15, <1>15a, <1>16, <1>17, <1>18
    DEF vars, Next, ReaderStep, CallerStep, CloserStep, LoopOwnStep,
       ReaderLoad, ReaderCheckClosed, GiveUp, SessionClosed, Unregister,
       CloserStart, CloserClaim, CloserStop, CloserLeave, BrowserDies,
       ClientGone

LEMMA StepSingleReplyInv ==
    ASSUME IdsDisjoint, RouterInv, [Next]_vars PROVE SingleReplyInv'
  <1> USE RouterAssumption DEF RouterInv, IdsDisjoint, TypeOK, SingleReplyInv,
     session, table, caller, loop, reader, client, Travelling, Stopped,
     CorrelationInv, MessageOwned, FlagsOK, MessagesOK, CallersOK, TableOK,
     InCall
  <1>1. CASE ReaderPass
    BY <1>1 DEF ReaderPass, SendTo
  <1>2. ASSUME NEW c \in Callers, Register(c) PROVE SingleReplyInv'
    BY <1>2 DEF Register, NextID
  <1>3. ASSUME NEW c \in Callers, SendInternal(c) PROVE SingleReplyInv'
    BY <1>3 DEF SendInternal, SendTo, SendMayFail
  <1>4. ASSUME NEW c \in Callers, TakeReply(c) PROVE SingleReplyInv'
    BY <1>4 DEF TakeReply
  <1>5. ASSUME NEW c \in Callers, GiveUp(c) PROVE SingleReplyInv'
    BY <1>5 DEF GiveUp, Abandon
  <1>6. ASSUME NEW c \in Callers, SessionClosed(c) PROVE SingleReplyInv'
    BY <1>6 DEF SessionClosed
  <1>7. ASSUME NEW c \in Callers, Unregister(c) PROVE SingleReplyInv'
    BY <1>7 DEF Unregister, Resume
  <1>8. ASSUME NEW c \in Callers, HandlerAnswer(c) PROVE SingleReplyInv'
    BY <1>8 DEF HandlerAnswer, Reply
  <1>9. CASE LoopTop
    BY <1>9 DEF LoopTop
  <1>10. CASE LoopReceive
    BY <1>10 DEF LoopReceive
  <1>11. CASE LoopLookup
    BY <1>11 DEF LoopLookup
  <1>12. CASE LoopDeliver
    BY <1>12 DEF LoopDeliver
  <1>13. CASE LoopLate
    BY <1>13 DEF LoopLate
  <1>14. CASE LoopForward
    BY <1>14 DEF LoopForward, Reply
  <1>15. CASE LoopReceiveError
    BY <1>15 DEF LoopReceiveError, AfterReceiveError
  <1>16. CASE LoopForget
    BY <1>16 DEF LoopForget
  <1>17. CASE LoopClaim
    BY <1>17 DEF LoopClaim, AfterLoopClaim, AlreadyClosed
  <1>18. CASE LoopStop
    BY <1>18 DEF LoopStop
  <1>18a. CASE LoopDisconnect
    BY <1>18a DEF LoopDisconnect, NextID
  <1>19. CASE LoopHangup
    BY <1>19 DEF LoopHangup
  <1>20. ASSUME NEW k \in Closers, CloserStart(k) PROVE SingleReplyInv'
    BY <1>20 DEF CloserStart
  <1>21. ASSUME NEW k \in Closers, CloserClaim(k) PROVE SingleReplyInv'
    BY <1>21 DEF CloserClaim, Ending, AlreadyClosed
  <1>22. ASSUME NEW k \in Closers, CloserStop(k) PROVE SingleReplyInv'
    BY <1>22 DEF CloserStop, CloseStopChan
  <1>23. ASSUME NEW k \in Closers, CloserDisconnect(k) PROVE SingleReplyInv'
    BY <1>23 DEF CloserDisconnect, Ending
  <1>24. ASSUME NEW k \in Closers, CloserLeave(k) PROVE SingleReplyInv'
    BY <1>24 DEF CloserLeave
  <1>25. CASE UNCHANGED <<atBrowser, buffered, held, pc, cmd, abandonedInternal, stops>>
    BY <1>25
  <1> QED
    BY <1>1, <1>2, <1>3, <1>4, <1>5, <1>6, <1>7, <1>8, <1>9, <1>10, <1>11,
       <1>12, <1>13, <1>14, <1>15, <1>16, <1>17, <1>18, <1>18a, <1>19, <1>20, <1>21,
       <1>22, <1>23, <1>24, <1>25
    DEF vars, Next, ReaderStep, CallerStep, CloserStep, LoopOwnStep,
       ReaderLoad, ReaderCheckClosed, BrowserDies, ClientGone

LEMMA StepLateReplyInv ==
    ASSUME IdsDisjoint, RouterInv, [Next]_vars PROVE LateReplyInv'
  <1> USE RouterAssumption DEF RouterInv, IdsDisjoint, TypeOK, LateReplyInv,
     session, table, caller, loop, reader, client, Travelling, Stopped,
     CorrelationInv, SingleReplyInv, MessageOwned, FlagsOK, MessagesOK,
     CallersOK, TableOK, InCall
  <1>1. CASE ReaderPass
    BY <1>1 DEF ReaderPass, SendTo
  <1>2. ASSUME NEW c \in Callers, Register(c) PROVE LateReplyInv'
    BY <1>2 DEF Register, NextID
  <1>3. ASSUME NEW c \in Callers, SendInternal(c) PROVE LateReplyInv'
    BY <1>3 DEF SendInternal, SendTo, SendMayFail
  <1>4. ASSUME NEW c \in Callers, GiveUp(c) PROVE LateReplyInv'
    BY <1>4 DEF GiveUp, Abandon
  <1>5. ASSUME NEW c \in Callers, Unregister(c) PROVE LateReplyInv'
    BY <1>5 DEF Unregister, Resume
  <1>6. CASE LoopTop
    BY <1>6 DEF LoopTop
  <1>7. CASE LoopReceive
    BY <1>7 DEF LoopReceive
  <1>8. CASE LoopLookup
    BY <1>8 DEF LoopLookup
  <1>9. CASE LoopDeliver
    BY <1>9 DEF LoopDeliver
  <1>10. CASE LoopLate
    BY <1>10 DEF LoopLate
  <1>11. CASE LoopForward
    BY <1>11 DEF LoopForward, Reply
  <1>12. CASE LoopReceiveError
    BY <1>12 DEF LoopReceiveError, AfterReceiveError
  <1>13. CASE LoopForget
    BY <1>13 DEF LoopForget
  <1>14. CASE LoopClaim
    BY <1>14 DEF LoopClaim, AfterLoopClaim, AlreadyClosed
  <1>15. CASE LoopStop
    BY <1>15 DEF LoopStop
  <1>15a. CASE LoopDisconnect
    BY <1>15a DEF LoopDisconnect, NextID
  <1>16. CASE LoopHangup
    BY <1>16 DEF LoopHangup
  <1>17. ASSUME NEW k \in Closers, CloserStop(k) PROVE LateReplyInv'
    BY <1>17 DEF CloserStop, CloseStopChan
  <1>18. CASE UNCHANGED <<atBrowser, held, lpc, stops, stray, internalCmds, abandonedInternal>>
    BY <1>18
  <1> QED
    BY <1>1, <1>2, <1>3, <1>4, <1>5, <1>6, <1>7, <1>8, <1>9, <1>10, <1>11,
       <1>12, <1>13, <1>14, <1>15, <1>15a, <1>16, <1>17, <1>18
    DEF vars, Next, ReaderStep, CallerStep, CloserStep, LoopOwnStep,
       ReaderLoad, ReaderCheckClosed, TakeReply, SessionClosed, HandlerAnswer,
       CloserStart, CloserClaim, CloserDisconnect, CloserLeave, BrowserDies,
       ClientGone

LEMMA InitRouterInv == ASSUME IdsDisjoint, Init PROVE RouterInv
  <1>1. TypeOK
    BY InitTypeOK
  <1>2. Travelling = {NoMsg} /\ buffered = {} /\ ~Stopped
    BY DEF Init, Travelling, Stopped
  <1>3. \A c \in Callers : cmd[c] = NoId /\ got[c] = NoMsg /\ pc[c] = "idle"
    BY DEF Init
  <1>4. lpc = "top" /\ held = NoMsg /\ stray = {} /\ atBrowser = {}
    BY DEF Init
  <1>5. CorrelationInv
    BY <1>2, <1>3, <1>4 DEF CorrelationInv, MessageOwned, RepliesReachTheirCaller
  <1>6. SingleReplyInv
    BY <1>2, <1>3, <1>4 DEF SingleReplyInv
  <1>7. LateReplyInv
    BY <1>4 DEF LateReplyInv
  <1> QED BY <1>1, <1>5, <1>6, <1>7 DEF RouterInv

\* Type correctness, which needs nothing of the ids.
THEOREM TypeCorrect == Spec => []TypeOK
  <1>1. TypeOK /\ [Next]_vars => TypeOK'
    BY StepFlagsOK, StepMessagesOK, StepCallersOK, StepClientOK, StepTableOK DEF TypeOK
  <1> QED BY <1>1, InitTypeOK, PTL DEF Spec

\* The invariant is inductive whenever the ids are disjoint.
THEOREM RouterInvariant == ASSUME IdsDisjoint PROVE Spec => []RouterInv
  <1>1. RouterInv /\ [Next]_vars => RouterInv'
    <2> SUFFICES ASSUME RouterInv, [Next]_vars PROVE RouterInv'
      OBVIOUS
    <2>1. TypeOK'
      BY StepFlagsOK, StepMessagesOK, StepCallersOK, StepClientOK, StepTableOK
         DEF RouterInv, TypeOK
    <2> QED BY <2>1, StepCorrelationInv, StepSingleReplyInv, StepLateReplyInv DEF RouterInv
  <1>2. Init => RouterInv
    BY InitRouterInv
  <1> QED BY <1>1, <1>2, PTL DEF Spec

\* sendInternalCommandWithTimeout returns the reply to its own command or none.
THEOREM RepliesAreOwn == ASSUME IdsDisjoint PROVE Spec => []RepliesReachTheirCaller
  <1>1. RouterInv => RepliesReachTheirCaller
    BY DEF RouterInv, CorrelationInv
  <1> QED BY <1>1, RouterInvariant, PTL

\* The client never receives the reply to an internal command before stopChan is
\* closed, however late the reply is.
THEOREM LateRepliesAreDropped == ASSUME IdsDisjoint PROVE Spec => []InternalRepliesStayInside
  <1>1. RouterInv => InternalRepliesStayInside
    BY DEF RouterInv, LateReplyInv, InternalRepliesStayInside
  <1> QED BY <1>1, RouterInvariant, PTL

\* The routing goroutine never waits for a caller to empty its channel.
THEOREM LoopNeverBlocks == ASSUME IdsDisjoint PROVE Spec => []LoopNeverBlocksOnCaller
  <1>1. RouterInv => LoopNeverBlocksOnCaller
    <2> SUFFICES ASSUME RouterInv, lpc = "deliver",
                        NEW b \in buffered, b.id = held.id
                 PROVE FALSE
      BY DEF LoopNeverBlocksOnCaller, ChannelFull
    <2>1. held.from # Client /\ b.from # Client
      BY RouterAssumption
         DEF RouterInv, CorrelationInv, MessageOwned, Travelling, IdsDisjoint
    <2>2. b = held
      BY <2>1 DEF RouterInv, SingleReplyInv, Travelling
    <2> QED BY <2>1, <2>2 DEF RouterInv, SingleReplyInv
  <1> QED BY <1>1, RouterInvariant, PTL
----------------------------------------------------------------------------
(* One goroutine tears the session down.                                    *)

LEMMA StepCloserPhaseInv ==
    ASSUME TypeOK, CloseInv, [Next]_vars PROVE CloserPhaseInv'
  <1> USE RouterAssumption DEF TypeOK, CloseInv, CloserPhaseInv, StopInv, Owns,
     BeforeStop, AfterStop, InCall, Stopped, session, table, caller, loop, reader,
     client, CallersOK, FlagsOK
  <1>1. ASSUME NEW c \in Callers, Register(c) PROVE CloserPhaseInv'
    <2>1. /\ pc' = [pc EXCEPT ![c] = "send"] /\ calls' = [calls EXCEPT ![c] = @ + 1]
          /\ UNCHANGED <<stops, closed, lpc>>
      BY <1>1 DEF Register
    <2>2. CASE c \in Handlers
      <3>1. \A k \in Closers : pc'[k] = pc[k] /\ calls'[k] = calls[k]
        BY <2>1, <2>2
      <3> QED BY <2>1, <3>1
    <2>3. CASE c \in Closers
      <3>1. (pc[c] = "probe" /\ calls[c] = 0) \/ (pc[c] = "end" /\ calls[c] = 1)
        BY <1>1, <2>3 DEF Register
      <3>2. pc'[c] = "send" /\ calls'[c] = calls[c] + 1
        BY <2>1
      <3>3. \A k \in Closers : k # c => pc'[k] = pc[k] /\ calls'[k] = calls[k]
        BY <2>1
      <3>4. (BeforeStop(c)' <=> BeforeStop(c)) /\ (AfterStop(c)' <=> AfterStop(c))
        BY <3>1, <3>2
      <3>5. \A k \in Closers : (BeforeStop(k)' <=> BeforeStop(k)) /\ (AfterStop(k)' <=> AfterStop(k))
        BY <3>3, <3>4
      <3> QED BY <2>1, <3>1, <3>2, <3>3, <3>5
    <2> QED BY <2>2, <2>3
  <1>2. ASSUME NEW c \in Callers, SendInternal(c) PROVE CloserPhaseInv'
    BY <1>2 DEF SendInternal, SendTo, SendMayFail
  <1>3. ASSUME NEW c \in Callers, TakeReply(c) PROVE CloserPhaseInv'
    BY <1>3 DEF TakeReply
  <1>4. ASSUME NEW c \in Callers, GiveUp(c) PROVE CloserPhaseInv'
    BY <1>4 DEF GiveUp, Abandon
  <1>5. ASSUME NEW c \in Callers, SessionClosed(c) PROVE CloserPhaseInv'
    BY <1>5 DEF SessionClosed
  <1>6. ASSUME NEW c \in Callers, Unregister(c) PROVE CloserPhaseInv'
    BY <1>6 DEF Unregister, Resume
  <1>7. ASSUME NEW c \in Callers, HandlerAnswer(c) PROVE CloserPhaseInv'
    BY <1>7 DEF HandlerAnswer, Reply
  <1>8. ASSUME NEW k \in Closers, CloserStart(k) PROVE CloserPhaseInv'
    BY <1>8 DEF CloserStart
  <1>9. ASSUME NEW k \in Closers, CloserClaim(k) PROVE CloserPhaseInv'
    BY <1>9 DEF CloserClaim, Ending, AlreadyClosed
  <1>10. ASSUME NEW k \in Closers, CloserStop(k) PROVE CloserPhaseInv'
    <2>1. /\ stops' = stops + 1 /\ UNCHANGED <<calls, closed, lpc>>
          /\ pc[k] = "probed" /\ pc'[k] \in {"end", "disconnect"}
      BY <1>10 DEF CloserStop, CloseStopChan
    <2>2. calls[k] = 1 /\ BeforeStop(k) /\ AfterStop(k)' /\ ~BeforeStop(k)' /\ stops' > 0
      BY <2>1
    <2>3. \A j \in Closers : j # k => ~Owns(j) /\ pc'[j] = pc[j]
      BY <1>10, <2>2 DEF CloserStop
    <2>4. \A j \in Closers : j # k => ~BeforeStop(j)' /\ ~AfterStop(j)'
      BY <2>1, <2>3
    <2> QED BY <2>1, <2>2, <2>3, <2>4
  <1>11. ASSUME NEW k \in Closers, CloserDisconnect(k) PROVE CloserPhaseInv'
    BY <1>11 DEF CloserDisconnect, Ending
  <1>12. ASSUME NEW k \in Closers, CloserLeave(k) PROVE CloserPhaseInv'
    BY <1>12 DEF CloserLeave
  <1>13. CASE ReaderPass
    BY <1>13 DEF ReaderPass, SendTo
  <1>14. CASE LoopTop
    BY <1>14 DEF LoopTop
  <1>15. CASE LoopReceive
    BY <1>15 DEF LoopReceive
  <1>16. CASE LoopLookup
    BY <1>16 DEF LoopLookup
  <1>17. CASE LoopDeliver
    BY <1>17 DEF LoopDeliver
  <1>18. CASE LoopLate
    BY <1>18 DEF LoopLate
  <1>19. CASE LoopForward
    BY <1>19 DEF LoopForward, Reply
  <1>20. CASE LoopReceiveError
    BY <1>20 DEF LoopReceiveError, AfterReceiveError
  <1>21. CASE LoopForget
    BY <1>21 DEF LoopForget
  <1>22. CASE LoopClaim
    BY <1>22 DEF LoopClaim, AfterLoopClaim, AlreadyClosed
  <1>23. CASE LoopStop
    BY <1>23 DEF LoopStop
  <1>24. CASE LoopDisconnect
    BY <1>24 DEF LoopDisconnect, NextID
  <1>25. CASE LoopHangup
    BY <1>25 DEF LoopHangup
  <1>26. CASE UNCHANGED <<pc, calls, stops, closed, lpc>>
    BY <1>26
  <1> QED
    BY <1>1, <1>2, <1>3, <1>4, <1>5, <1>6, <1>7, <1>8, <1>9, <1>10, <1>11, <1>12, <1>13,
       <1>14, <1>15, <1>16, <1>17, <1>18, <1>19, <1>20, <1>21, <1>22, <1>23, <1>24, <1>25,
       <1>26
    DEF vars, Next, ReaderStep, CallerStep, CloserStep, LoopOwnStep, ReaderLoad,
       ReaderCheckClosed, BrowserDies, ClientGone

\* stopChan is closed once, by the owner of the teardown, before the connection.
LEMMA StepStopInv ==
    ASSUME TypeOK, CloseInv, [Next]_vars PROVE StopInv'
  <1> USE RouterAssumption DEF TypeOK, CloseInv, CloserPhaseInv, StopInv, Owns,
     BeforeStop, AfterStop, InCall, Stopped, session, table, caller, loop, reader,
     client, CallersOK, FlagsOK
  <1>1. ASSUME NEW k \in Closers, CloserStart(k) PROVE StopInv'
    BY <1>1 DEF CloserStart
  <1>2. ASSUME NEW k \in Closers, CloserClaim(k) PROVE StopInv'
    BY <1>2 DEF CloserClaim, Ending, AlreadyClosed
  <1>3. ASSUME NEW k \in Closers, CloserStop(k) PROVE StopInv'
    BY <1>3 DEF CloserStop, CloseStopChan
  <1>4. ASSUME NEW k \in Closers, CloserDisconnect(k) PROVE StopInv'
    BY <1>4 DEF CloserDisconnect, Ending
  <1>5. ASSUME NEW k \in Closers, CloserLeave(k) PROVE StopInv'
    BY <1>5 DEF CloserLeave
  <1>6. CASE LoopTop
    BY <1>6 DEF LoopTop
  <1>7. CASE LoopReceive
    BY <1>7 DEF LoopReceive
  <1>8. CASE LoopLookup
    BY <1>8 DEF LoopLookup
  <1>9. CASE LoopDeliver
    BY <1>9 DEF LoopDeliver
  <1>10. CASE LoopLate
    BY <1>10 DEF LoopLate
  <1>11. CASE LoopForward
    BY <1>11 DEF LoopForward, Reply
  <1>12. CASE LoopReceiveError
    BY <1>12 DEF LoopReceiveError, AfterReceiveError
  <1>13. CASE LoopForget
    BY <1>13 DEF LoopForget
  <1>14. CASE LoopClaim
    BY <1>14 DEF LoopClaim, AfterLoopClaim, AlreadyClosed
  <1>15. CASE LoopStop
    BY <1>15 DEF LoopStop
  <1>16. CASE LoopDisconnect
    BY <1>16 DEF LoopDisconnect, NextID
  <1>17. CASE LoopHangup
    BY <1>17 DEF LoopHangup
  <1>18. CASE UNCHANGED <<stops, closed, connClosed, lpc>>
    BY <1>18
  <1> QED
    BY <1>1, <1>2, <1>3, <1>4, <1>5, <1>6, <1>7, <1>8, <1>9, <1>10, <1>11, <1>12, <1>13,
       <1>14, <1>15, <1>16, <1>17, <1>18
    DEF vars, Next, ReaderStep, CallerStep, CloserStep, LoopOwnStep, ReaderLoad,
       ReaderCheckClosed, ReaderPass, BrowserDies, ClientGone, Register, SendInternal,
       TakeReply, GiveUp, SessionClosed, Unregister, HandlerAnswer

\* However many goroutines run closeSession at once, one tears the session down.
THEOREM TeardownInvariant == Spec => []CloseInv
  <1>1. Init => CloseInv
    BY RouterAssumption DEF Init, CloseInv, CloserPhaseInv, StopInv, Owns, BeforeStop,
       AfterStop, InCall, Stopped
  <1>2. TypeOK /\ CloseInv /\ [Next]_vars => CloseInv'
    BY StepCloserPhaseInv, StepStopInv DEF CloseInv
  <1> QED BY <1>1, <1>2, TypeCorrect, PTL DEF Spec

\* stopChan is never closed twice, so closeSession does not panic, and no caller loses
\* its connection without having been told to stop.
THEOREM TeardownIsOrdered == Spec => []TeardownInOrder
  <1>1. CloseInv => TeardownInOrder
    BY DEF CloseInv, StopInv, TeardownInOrder
  <1> QED BY <1>1, TeardownInvariant, PTL

\* Who takes a command over has not answered it, and nobody else has it.
LEMMA StepAnswerInv ==
    ASSUME TypeOK, AnswerInv, [Next]_vars PROVE AnswerInv'
  <1> USE RouterAssumption DEF TypeOK, CallersOK, ClientOK, MessagesOK, AnswerInv, Unanswered,
     Reading, AtWork, ToAnswer, Callers, Commands, Client, Msg, NoMsg, NoId, session, table,
     caller, loop, reader, client
  <1>1. ASSUME NEW x \in Commands, ReaderLoad(x) PROVE AnswerInv'
    BY <1>1 DEF ReaderLoad, Reply
  <1>2. CASE ReaderCheckClosed
    BY <1>2 DEF ReaderCheckClosed
  <1>3. CASE ReaderPass
    BY <1>3 DEF ReaderPass, SendTo
  <1>4. ASSUME NEW c \in Callers, Register(c) PROVE AnswerInv'
    BY <1>4 DEF Register
  <1>5. ASSUME NEW c \in Callers, SendInternal(c) PROVE AnswerInv'
    BY <1>5 DEF SendInternal, SendTo
  <1>6. ASSUME NEW c \in Callers, TakeReply(c) \/ GiveUp(c) \/ SessionClosed(c)
        PROVE AnswerInv'
    BY <1>6 DEF TakeReply, GiveUp, SessionClosed
  <1>7. ASSUME NEW c \in Callers, Unregister(c) PROVE AnswerInv'
    BY <1>7 DEF Unregister, Resume
  <1>8. ASSUME NEW c \in Callers, HandlerAnswer(c) PROVE AnswerInv'
    <2>1. /\ c \in Handlers /\ Unanswered(c) /\ ~Reading(c) /\ c \notin RawIds
          /\ pc' = [pc EXCEPT ![c] = "done"]
          /\ UNCHANGED <<asked, rpc, rcmd, held, atBrowser>>
      BY <1>8 DEF HandlerAnswer
    <2>2. answers' \in {answers, [answers EXCEPT ![c] = 1]}
      BY <1>8, <2>1 DEF HandlerAnswer, Reply
    <2>3. \A x \in Commands \ {c} : Unanswered(x)' <=> Unanswered(x)
      BY <2>1, <2>2
    <2>4. \A x \in Commands : answers'[x] <= 1 /\ (x \notin asked' => answers'[x] = 0)
      BY <2>1, <2>2
    <2>5. \A x \in Commands : Reading(x)' => Unanswered(x)'
      BY <2>1, <2>3
    <2>6. \A h \in Handlers : AtWork(h)' => Unanswered(h)'
      BY <2>1, <2>3
    <2>7. \A m \in atBrowser \cup {held} :
             ToAnswer(m) => m.id \in RawIds /\ Unanswered(m.id)' /\ ~Reading(m.id)'
      BY <2>1, <2>3
    <2> QED BY <2>1, <2>4, <2>5, <2>6, <2>7
  <1>9. ASSUME NEW k \in Closers, CloserStart(k) \/ CloserStep(k) PROVE AnswerInv'
    <2>1. UNCHANGED <<answers, asked, rpc, rcmd, held, atBrowser>>
      BY <1>9 DEF CloserStart, CloserStep, CloserClaim, CloserStop, CloserDisconnect,
         CloserLeave
    <2>2. \E s : pc' = [pc EXCEPT ![k] = s]
      <3>1. CASE CloserStart(k)
        BY <3>1 DEF CloserStart
      <3>2. CASE CloserClaim(k)
        BY <3>2 DEF CloserClaim
      <3>3. CASE CloserStop(k)
        BY <3>3 DEF CloserStop
      <3>4. CASE CloserDisconnect(k)
        BY <3>4 DEF CloserDisconnect
      <3>5. CASE CloserLeave(k)
        BY <3>5 DEF CloserLeave
      <3> QED BY <1>9, <3>1, <3>2, <3>3, <3>4, <3>5 DEF CloserStep
    <2>3. \A h \in Handlers : UNCHANGED pc[h]
      BY <2>2
    <2> QED BY <2>1, <2>3
  <1>10. CASE LoopReceive
    BY <1>10 DEF LoopReceive
  <1>11. CASE LoopDeliver \/ LoopLate
    BY <1>11 DEF LoopDeliver, LoopLate
  <1>12. CASE LoopForward
    <2>1. /\ UNCHANGED <<asked, rpc, rcmd, pc, atBrowser>> /\ held' = NoMsg
          /\ UNCHANGED answers \/ (held.from = Client /\ Reply(held.id))
      BY <1>12, Zenon DEF LoopForward
    <2>2. CASE UNCHANGED answers
      BY <2>1, <2>2
    <2>3. CASE held.from = Client /\ held # NoMsg /\ answers' = [answers EXCEPT ![held.id] = @ + 1]
      <3>1. held.id \in RawIds /\ Unanswered(held.id) /\ ~Reading(held.id)
        BY <2>3
      <3>2. answers' = [answers EXCEPT ![held.id] = 1] /\ held.id \in Commands
        BY <2>3, <3>1
      <3>3. \A x \in Commands \ {held.id} : Unanswered(x)' <=> Unanswered(x)
        BY <2>1, <3>2
      <3>4. \A x \in Commands : answers'[x] <= 1 /\ (x \notin asked' => answers'[x] = 0)
        BY <2>1, <3>1, <3>2
      <3>5. \A x \in Commands : Reading(x)' => Unanswered(x)'
        BY <2>1, <3>1, <3>3
      <3>6. \A h \in Handlers : AtWork(h)' => Unanswered(h)'
        <4>0. held.id \in Nat
          BY <3>1
        <4>1. held.id \notin Handlers
          <5>1. Handlers \cap (Closers \cup {Client} \cup Nat) = {}
            BY RouterAssumption
          <5> HIDE DEF Client
          <5> QED BY <4>0, <5>1, Zenon
        <4> QED BY <2>1, <3>3, <4>1
      <3>7. \A m \in atBrowser : ToAnswer(m) => m.id # held.id
        BY <2>3
      <3>8. \A m \in atBrowser :
               ToAnswer(m) => m.id \in RawIds /\ Unanswered(m.id)' /\ ~Reading(m.id)'
        BY <2>1, <3>3, <3>7
      <3> QED BY <2>1, <3>4, <3>5, <3>6, <3>8
    <2> QED BY <1>12, <2>1, <2>2, <2>3 DEF Reply, LoopForward
  <1>13. CASE UNCHANGED <<answers, asked, rpc, rcmd, pc, held, atBrowser>>
    BY <1>13 DEF NoMsg
  <1> QED
    BY <1>1, <1>2, <1>3, <1>4, <1>5, <1>6, <1>7, <1>8, <1>9, <1>10, <1>11, <1>12, <1>13
    DEF vars, Next, ReaderStep, CallerStep, LoopOwnStep, LoopTop, LoopLookup, LoopReceiveError,
       LoopForget, LoopClaim, LoopStop, LoopDisconnect, LoopHangup, BrowserDies, ClientGone

\* Whoever answers, the client sees what RequestReply promises, for any commands, callers
\* and ids: the ids need not be disjoint.
THEOREM PromiseIsKept == Spec => KeepsPromise
  <1> USE RouterAssumption DEF Commands
  <1>1. Init => Promise!Init
    BY DEF Init, Promise!Init, StatusOf
  <1>2. Init => AnswerInv
    BY DEF Init, AnswerInv, Unanswered, Reading, AtWork, ToAnswer, NoMsg, Callers
  <1>3. TypeOK /\ AnswerInv /\ [Next]_vars => [Promise!Next]_(Promise!vars)
    <2> SUFFICES ASSUME TypeOK, AnswerInv, [Next]_vars
                 PROVE  Promise!Next \/ UNCHANGED Promise!vars
      OBVIOUS
    <2> DEFINE status == [x \in Commands |-> StatusOf(x)]
               still == UNCHANGED <<answers, asked, clientClosed>>
    <2>1. still => UNCHANGED Promise!vars
      BY DEF Promise!vars, StatusOf
    <2>2. ASSUME NEW x \in Commands, ReaderLoad(x) PROVE Promise!Next
      <3>1. /\ x \notin asked /\ ~clientClosed /\ UNCHANGED clientClosed
            /\ asked' = asked \cup {x}
            /\ UNCHANGED answers \/ Reply(x)
        BY <2>2 DEF ReaderLoad
      <3>2. answers[x] = 0 /\ answers' \in {answers, [answers EXCEPT ![x] = 1]}
        BY <3>1 DEF AnswerInv, Reply, TypeOK, ClientOK
      <3>3. StatusOf(x) = "unasked" /\ StatusOf(x)' \in {"pending", "answered"}
        BY <3>1, <3>2 DEF StatusOf, TypeOK, ClientOK
      <3>4. \A y \in Commands \ {x} : StatusOf(y)' = StatusOf(y)
        BY <3>1, <3>2 DEF StatusOf, TypeOK, ClientOK
      <3>5. status' = [status EXCEPT ![x] = StatusOf(x)']
        BY <3>4
      <3>6. status[x] = "unasked"
        BY <3>3
      <3> HIDE DEF status
      <3> QED BY <3>1, <3>3, <3>5, <3>6
          DEF Promise!Next, Promise!Ask, Promise!Refuse, status
    <2>3. ASSUME NEW x \in Commands, Unanswered(x), ~clientClosed, UNCHANGED asked,
                 answers' = [answers EXCEPT ![x] = 1], UNCHANGED clientClosed
          PROVE  Promise!Next
      <3>1. StatusOf(x) = "pending" /\ StatusOf(x)' = "answered"
        BY <2>3 DEF StatusOf, Unanswered, TypeOK, ClientOK
      <3>2. \A y \in Commands \ {x} : StatusOf(y)' = StatusOf(y)
        BY <2>3 DEF StatusOf, TypeOK, ClientOK
      <3>3. status' = [status EXCEPT ![x] = "answered"] /\ status[x] = "pending"
        BY <3>1, <3>2
      <3> QED BY <2>3, <3>3 DEF Promise!Next, Promise!Answer
    <2>4. ASSUME NEW c \in Callers, HandlerAnswer(c)
          PROVE  Promise!Next \/ UNCHANGED Promise!vars
      <3>1. c \in Commands /\ Unanswered(c) /\ UNCHANGED <<asked, clientClosed>>
        BY <2>4 DEF HandlerAnswer, reader, AnswerInv, AtWork
      <3>2. UNCHANGED answers \/ (~clientClosed /\ answers' = [answers EXCEPT ![c] = 1])
        BY <2>4, <3>1 DEF HandlerAnswer, Reply, Unanswered, TypeOK, ClientOK
      <3> QED BY <2>1, <2>3, <3>1, <3>2
    <2>5. CASE LoopForward
      <3>1. UNCHANGED <<asked, clientClosed>>
        BY <2>5 DEF LoopForward, reader
      <3>2. still \/ (held.from = Client /\ Reply(held.id))
        BY <2>5, <3>1 DEF LoopForward
      <3>3. CASE held.from = Client /\ Reply(held.id)
        <4>1. held \in Msg
          BY <2>5 DEF LoopForward, TypeOK, MessagesOK
        <4>2. held.id \in Commands /\ Unanswered(held.id)
          BY <3>3, <4>1 DEF AnswerInv, ToAnswer, Msg, NoMsg, NoId, InternalIDs
        <4>3. UNCHANGED answers
              \/ (~clientClosed /\ answers' = [answers EXCEPT ![held.id] = 1])
          BY <3>3, <4>2 DEF Reply, Unanswered, TypeOK, ClientOK
        <4> QED BY <2>1, <2>3, <3>1, <4>2, <4>3
      <3> QED BY <2>1, <3>2, <3>3
    <2>6. ASSUME UNCHANGED <<answers, asked>>, clientClosed' = TRUE
          PROVE  Promise!Next \/ UNCHANGED Promise!vars
      <3>1. UNCHANGED status
        BY <2>6 DEF StatusOf
      <3>2. CASE clientClosed
        BY <2>6, <3>1, <3>2 DEF Promise!vars, TypeOK, FlagsOK
      <3>3. CASE ~clientClosed
        BY <2>6, <3>1, <3>3 DEF Promise!Next, Promise!HangUp
      <3> QED BY <3>2, <3>3
    <2>7. ASSUME NEW k \in Closers, CloserStart(k)
          PROVE  Promise!Next \/ UNCHANGED Promise!vars
      <3>1. UNCHANGED <<answers, asked>> /\ (UNCHANGED clientClosed \/ clientClosed' = TRUE)
        BY <2>7 DEF CloserStart, reader
      <3> QED BY <3>1, <2>1, <2>6
    <2>8. CASE LoopHangup \/ ClientGone
      BY <2>6, <2>8 DEF LoopHangup, ClientGone, reader
    <2>9. ASSUME \/ ReaderStep \/ LoopReceive \/ BrowserDies \/ UNCHANGED vars
                 \/ LoopOwnStep /\ ~LoopForward /\ ~LoopHangup
                 \/ \E c \in Callers : CallerStep(c) /\ ~HandlerAnswer(c)
                 \/ \E k \in Closers : CloserStep(k)
          PROVE  still
      <3> USE DEF reader, client
      <3>1. CASE ReaderStep \/ LoopReceive \/ BrowserDies \/ UNCHANGED vars
        BY <3>1 DEF ReaderStep, ReaderCheckClosed, ReaderPass, LoopReceive, BrowserDies, vars
      <3>2. CASE LoopOwnStep /\ ~LoopForward /\ ~LoopHangup
        BY <3>2 DEF LoopOwnStep, LoopTop, LoopLookup, LoopDeliver, LoopLate, LoopReceiveError,
           LoopForget, LoopClaim, LoopStop, LoopDisconnect
      <3>3. ASSUME NEW c \in Callers, CallerStep(c), ~HandlerAnswer(c) PROVE still
        BY <3>3 DEF CallerStep, Register, SendInternal, TakeReply, GiveUp, SessionClosed,
           Unregister
      <3>4. ASSUME NEW k \in Closers, CloserStep(k) PROVE still
        BY <3>4 DEF CloserStep, CloserClaim, CloserStop, CloserDisconnect, CloserLeave
      <3> QED BY <2>9, <3>1, <3>2, <3>3, <3>4
    <2> QED BY <2>1, <2>2, <2>4, <2>5, <2>7, <2>8, <2>9 DEF Next, CallerStep, LoopOwnStep
  <1> QED BY <1>1, <1>2, <1>3, StepAnswerInv, TypeCorrect, PTL
       DEF Spec, KeepsPromise, Promise!Spec
=============================================================================
