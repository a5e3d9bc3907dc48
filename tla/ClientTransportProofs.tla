----------------------- MODULE ClientTransportProofs -----------------------
(***************************************************************************)
(* TLAPS proofs about ClientTransport: for any messages, closers and kind  *)
(* of transport, Send drops nothing while the connection works, and the    *)
(* caller of Close that waits leaves nothing behind.                       *)
(***************************************************************************)
EXTENDS ClientTransport, SequenceTheorems, TLAPS

\* Appending to a concatenation appends to its last part.
LEMMA AppendToLast ==
    \A s, t \in Seq(Messages), m \in Messages : Append(s \o t, m) = s \o Append(t, m)
  <1> SUFFICES ASSUME NEW s \in Seq(Messages), NEW t \in Seq(Messages), NEW m \in Messages
               PROVE  Append(s \o t, m) = s \o Append(t, m)
    OBVIOUS
  <1>1. s \o t \in Seq(Messages) /\ <<m>> \in Seq(Messages)
    BY ConcatProperties
  <1>2. Append(s \o t, m) = (s \o t) \o <<m>>
    BY <1>1, AppendIsConcat
  <1>3. Append(t, m) = t \o <<m>>
    BY AppendIsConcat
  <1> QED BY <1>1, <1>2, <1>3, ConcatAssociative

\* Init establishes the types.
LEMMA InitTypeOK == Init => TypeOK
  <1> SUFFICES ASSUME Init PROVE TypeOK
    OBVIOUS
  <1>1. queue \in Seq(Messages) /\ batch \in Seq(Messages)
    BY DEF Init
  <1>2. accepted \in Seq(Messages) /\ sent \in Seq(Messages)
    BY DEF Init
  <1>3. Len(sent) + Len(batch) + Len(queue) <= Len(accepted)
    BY DEF Init
  <1> QED BY <1>1, <1>2, <1>3 DEF Init, TypeOK

\* Every step keeps the types.
LEMMA StepTypeOK == TypeOK /\ [Next]_vars => TypeOK'
  <1> SUFFICES ASSUME TypeOK, [Next]_vars PROVE TypeOK'
    OBVIOUS
  <1> USE TransportAssumption DEF TypeOK
  <1>1. ASSUME NEW m \in Messages, Send(m) PROVE TypeOK'
    BY <1>1 DEF Send
  <1>2. CASE WriterTake
    BY <1>2 DEF WriterTake, QueueAfterTake
  <1>3. CASE WriterEnd
    BY <1>3 DEF WriterEnd
  <1>4. CASE WriterWrite
    BY <1>4 DEF WriterWrite
  <1>5. CASE WriterFlushed
    BY <1>5 DEF WriterFlushed
  <1>6. CASE WriterFail
    BY <1>6 DEF WriterFail
  <1>7. CASE WriterDrop
    BY <1>7 DEF WriterDrop, SocketAfterDrop
  <1>8. ASSUME NEW k \in Closers, CloseCall(k) PROVE TypeOK'
    BY <1>8 DEF CloseCall
  <1>9. ASSUME NEW k \in Closers, CloseReturn(k) PROVE TypeOK'
    BY <1>9 DEF CloseReturn
  <1>10. CASE Report
    BY <1>10 DEF Report
  <1>11. CASE PeerChanges
    BY <1>11 DEF PeerChanges
  <1>12. CASE UNCHANGED vars
    BY <1>12 DEF vars
  <1> QED
    BY <1>1, <1>2, <1>3, <1>4, <1>5, <1>6, <1>7, <1>8, <1>9, <1>10, <1>11, <1>12
       DEF Next, WriterStep

\* No step loses a message while the connection works.
LEMMA StepNothingDropped == TypeOK /\ NothingDropped /\ [Next]_vars => NothingDropped'
  <1> SUFFICES ASSUME TypeOK, NothingDropped, [Next]_vars PROVE NothingDropped'
    OBVIOUS
  <1> USE DEF NothingDropped
  <1>1. ASSUME NEW m \in Messages, Send(m) PROVE NothingDropped'
    <2> DEFINE out == sent \o batch
    <2>1. out \in Seq(Messages) /\ queue \in Seq(Messages)
      BY ConcatProperties DEF TypeOK
    <2>2. ~broken => accepted = out \o queue
      OBVIOUS
    <2>3. queue' = Append(queue, m) /\ accepted' = Append(accepted, m)
      BY <1>1 DEF Send
    <2>4. UNCHANGED <<sent, batch, broken>>
      BY <1>1 DEF Send
    <2> HIDE DEF out
    <2>5. Append(out \o queue, m) = out \o Append(queue, m)
      BY <2>1, AppendToLast, Zenon
    <2>6. ~broken => accepted' = out \o queue'
      BY <2>2, <2>3, <2>5
    <2> QED BY <2>4, <2>6 DEF out
  <1>2. CASE WriterTake
    <2>1. batch = <<>>
      BY <1>2 DEF WriterTake, TypeOK
    <2>2. sent \o batch \o queue = sent \o queue \o <<>>
      BY <2>1, ConcatEmptySeq, ConcatProperties DEF TypeOK
    <2> QED BY <1>2, <2>2 DEF WriterTake, QueueAfterTake
  <1>3. CASE WriterEnd
    BY <1>3 DEF WriterEnd, WriterMayEnd
  <1>4. CASE WriterWrite
    <2>1. sent \o batch = Append(sent, Head(batch)) \o Tail(batch)
      BY <1>4 DEF WriterWrite, TypeOK
    <2> QED BY <1>4, <2>1 DEF WriterWrite
  <1>5. CASE WriterFlushed
    BY <1>5 DEF WriterFlushed
  <1>6. CASE WriterFail
    BY <1>6 DEF WriterFail
  <1>7. CASE WriterDrop
    BY <1>7 DEF WriterDrop
  <1>8. ASSUME NEW k \in Closers, CloseCall(k) PROVE NothingDropped'
    BY <1>8 DEF CloseCall
  <1>9. ASSUME NEW k \in Closers, CloseReturn(k) PROVE NothingDropped'
    BY <1>9 DEF CloseReturn, DrainedFor
  <1>10. CASE Report
    BY <1>10 DEF Report
  <1>11. CASE PeerChanges
    BY <1>11 DEF PeerChanges
  <1>12. CASE UNCHANGED vars
    BY <1>12 DEF vars
  <1> QED
    BY <1>1, <1>2, <1>3, <1>4, <1>5, <1>6, <1>7, <1>8, <1>9, <1>10, <1>11, <1>12
       DEF Next, WriterStep

\* The writer only ends when it owes nothing, or its connection broke.
LEMMA StepWriterInv == TypeOK /\ WriterInv /\ [Next]_vars => WriterInv'
  <1> SUFFICES ASSUME TypeOK, WriterInv, [Next]_vars PROVE WriterInv'
    OBVIOUS
  <1> USE DEF WriterInv
  <1>1. ASSUME NEW m \in Messages, Send(m) PROVE WriterInv'
    BY <1>1 DEF Send
  <1>2. CASE WriterTake
    BY <1>2 DEF WriterTake, QueueAfterTake
  <1>3. CASE WriterEnd
    BY <1>3 DEF WriterEnd, WriterMayEnd
  <1>4. CASE WriterWrite
    BY <1>4 DEF WriterWrite
  <1>5. CASE WriterFlushed
    BY <1>5 DEF WriterFlushed
  <1>6. CASE WriterFail
    BY <1>6 DEF WriterFail
  <1>7. CASE WriterDrop
    BY <1>7 DEF WriterDrop
  <1>8. ASSUME NEW k \in Closers, CloseCall(k) PROVE WriterInv'
    BY <1>8 DEF CloseCall
  <1>9. ASSUME NEW k \in Closers, CloseReturn(k) PROVE WriterInv'
    BY <1>9 DEF CloseReturn, DrainedFor
  <1>10. CASE Report
    BY <1>10 DEF Report
  <1>11. CASE PeerChanges
    BY <1>11 DEF PeerChanges
  <1>12. CASE UNCHANGED vars
    BY <1>12 DEF vars
  <1> QED
    BY <1>1, <1>2, <1>3, <1>4, <1>5, <1>6, <1>7, <1>8, <1>9, <1>10, <1>11, <1>12
       DEF Next, WriterStep

\* Who waited in Close returns only after the writer ended.
LEMMA StepCloserInv == TypeOK /\ CloserInv /\ [Next]_vars => CloserInv'
  <1> SUFFICES ASSUME TypeOK, CloserInv, [Next]_vars PROVE CloserInv'
    OBVIOUS
  <1> USE DEF CloserInv
  <1>1. ASSUME NEW m \in Messages, Send(m) PROVE CloserInv'
    BY <1>1 DEF Send
  <1>2. CASE WriterTake
    BY <1>2 DEF WriterTake, QueueAfterTake
  <1>3. CASE WriterEnd
    BY <1>3 DEF WriterEnd, WriterMayEnd
  <1>4. CASE WriterWrite
    BY <1>4 DEF WriterWrite
  <1>5. CASE WriterFlushed
    BY <1>5 DEF WriterFlushed
  <1>6. CASE WriterFail
    BY <1>6 DEF WriterFail
  <1>7. CASE WriterDrop
    BY <1>7 DEF WriterDrop
  <1>8. ASSUME NEW k \in Closers, CloseCall(k) PROVE CloserInv'
    <2>1. cpc \in [Closers -> {"idle", "waiting", "returned"}] /\ waited \subseteq Closers
      BY DEF TypeOK
    <2> QED BY <1>8, <2>1 DEF CloseCall
  <1>9. ASSUME NEW k \in Closers, CloseReturn(k) PROVE CloserInv'
    <2>1. cpc \in [Closers -> {"idle", "waiting", "returned"}] /\ waited \subseteq Closers
      BY DEF TypeOK
    <2> QED BY <1>9, <2>1 DEF CloseReturn, DrainedFor
  <1>10. CASE Report
    BY <1>10 DEF Report
  <1>11. CASE PeerChanges
    BY <1>11 DEF PeerChanges
  <1>12. CASE UNCHANGED vars
    BY <1>12 DEF vars
  <1> QED
    BY <1>1, <1>2, <1>3, <1>4, <1>5, <1>6, <1>7, <1>8, <1>9, <1>10, <1>11, <1>12
       DEF Next, WriterStep

\* Type correctness, for every set of messages and closers.
THEOREM TypeCorrect == Spec => []TypeOK
  BY InitTypeOK, StepTypeOK, PTL DEF Spec

\* The drain invariant is inductive together with the types.
THEOREM DrainInvariant == Spec => [](TypeOK /\ DrainInv)
  <1>1. Init => DrainInv
    BY DEF Init, DrainInv, NothingDropped, WriterInv, CloserInv
  <1>2. TypeOK /\ DrainInv /\ [Next]_vars => DrainInv'
    BY StepNothingDropped, StepWriterInv, StepCloserInv DEF DrainInv
  <1> QED BY <1>1, <1>2, InitTypeOK, StepTypeOK, PTL DEF Spec

\* "Send never drops": what Send took is sent, or in the writer's hands, or
\* queued, in that order, until a write fails.
THEOREM SendNeverDrops == Spec => []NothingDropped
  <1>1. DrainInv => NothingDropped
    BY DEF DrainInv
  <1> QED BY <1>1, DrainInvariant, PTL

\* The caller of Close that waits returns with every accepted message delivered.
THEOREM CloseDrainsQueue == Spec => []CloseDrains
  <1>1. TypeOK /\ DrainInv => CloseDrains
    <2> SUFFICES ASSUME TypeOK, DrainInv, NEW k \in waited, cpc[k] = "returned", ~broken
                 PROVE  sent = accepted
      BY DEF CloseDrains
    <2>1. wpc = "done"
      BY DEF DrainInv, CloserInv
    <2>2. queue = <<>> /\ batch = <<>>
      BY <2>1 DEF DrainInv, WriterInv, TypeOK
    <2>3. accepted = sent \o batch \o queue
      BY DEF DrainInv, NothingDropped
    <2> QED BY <2>2, <2>3, ConcatEmptySeq DEF TypeOK
  <1> QED BY <1>1, DrainInvariant, PTL

\* The connection is closed after the writer ended, or by the writer itself.
THEOREM SocketClosesLast == Spec => []SocketOutlivesWriter
  <1>1. Init => SocketOutlivesWriter
    BY DEF Init, SocketOutlivesWriter
  <1>2. SocketOutlivesWriter /\ [Next]_vars => SocketOutlivesWriter'
    BY DEF SocketOutlivesWriter, vars, Next, WriterStep, Send, WriterTake, WriterEnd,
       WriterWrite,
       WriterFlushed, WriterFail, WriteFails, WriterDrop, CloseCall, CloseReturn, DrainedFor,
       Report, PeerChanges
  <1> QED BY <1>1, <1>2, PTL DEF Spec

\* A writer whose write failed does not write again.
WriterStops == broken => wpc \in {"drop", "done"}
LEMMA WriterStopsInvariant == Spec => []WriterStops
  <1>1. Init => WriterStops
    BY DEF Init, WriterStops
  <1>2. WriterStops /\ [Next]_vars => WriterStops'
    BY DEF WriterStops, vars, Next, WriterStep, Send, WriterTake, WriterEnd, WriterWrite,
       WriterFlushed, WriterFail, WriterDrop, CloseCall, CloseReturn, Report, PeerChanges
  <1> QED BY <1>1, <1>2, PTL DEF Spec

\* What the writer writes is the first message the client has not got.
LEMMA NextToDeliver ==
    ASSUME TypeOK, NothingDropped, ~broken, batch # <<>>
    PROVE  Len(sent) < Len(accepted) /\ accepted[Len(sent) + 1] = Head(batch)
  <1>1. sent \in Seq(Messages) /\ batch \in Seq(Messages) /\ queue \in Seq(Messages)
    BY DEF TypeOK
  <1>2. accepted = (sent \o batch) \o queue
    BY DEF NothingDropped
  <1>3. /\ sent \o batch \in Seq(Messages) /\ Len(sent \o batch) = Len(sent) + Len(batch)
        /\ (sent \o batch)[Len(sent) + 1] = batch[1]
    BY <1>1
  <1>4. /\ Len((sent \o batch) \o queue) = Len(sent \o batch) + Len(queue)
        /\ ((sent \o batch) \o queue)[Len(sent) + 1] = (sent \o batch)[Len(sent) + 1]
    BY <1>1, <1>3
  <1> QED BY <1>1, <1>2, <1>3, <1>4

\* The queue, the writer and Close together are an ordered delivery.
THEOREM TransportDelivers == Spec => Delivers
  <1>1. Init => Promise!Init
    BY DEF Init, Promise!Init
  <1>2. TypeOK /\ DrainInv /\ WriterStops /\ [Next]_vars => [Promise!Next]_(Promise!vars)
    <2> SUFFICES ASSUME TypeOK, DrainInv, WriterStops, [Next]_vars
                 PROVE  Promise!Next \/ UNCHANGED Promise!vars
      OBVIOUS
    <2>1. ASSUME NEW m \in Messages, Send(m) PROVE Promise!Next
      BY <2>1 DEF Send, Promise!Next, Promise!Take
    <2>2. CASE WriterWrite
      <3>1. ~broken
        BY <2>2 DEF WriterWrite, WriterStops
      <3>2. Len(sent) < Len(accepted) /\ accepted[Len(sent) + 1] = Head(batch)
        BY <2>2, <3>1, NextToDeliver DEF WriterWrite, DrainInv
      <3> QED BY <2>2, <3>1, <3>2 DEF WriterWrite, Promise!Next, Promise!Deliver
    <2>3. CASE WriterFail
      BY <2>3 DEF WriterFail, WriterStops, Promise!Next, Promise!Break
    <2>4. ASSUME NEW k \in Closers, CloseCall(k) PROVE Promise!Next \/ UNCHANGED Promise!vars
      BY <2>4 DEF CloseCall, TypeOK, Promise!Next, Promise!Close, Promise!vars
    <2>5. ASSUME \/ WriterTake \/ WriterEnd \/ WriterFlushed \/ WriterDrop \/ Report
                 \/ PeerChanges \/ (\E k \in Closers : CloseReturn(k)) \/ UNCHANGED vars
          PROVE  UNCHANGED Promise!vars
      BY <2>5 DEF WriterTake, WriterEnd, WriterFlushed, WriterDrop, Report, PeerChanges,
         CloseReturn, vars, Promise!vars
    <2> QED BY <2>1, <2>2, <2>3, <2>4, <2>5 DEF Next, WriterStep
  <1> QED BY <1>1, <1>2, DrainInvariant, WriterStopsInvariant, PTL
       DEF Spec, Delivers, Promise!Spec
=============================================================================
