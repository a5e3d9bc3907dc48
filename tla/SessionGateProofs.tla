-------------------------- MODULE SessionGateProofs --------------------------
(* Theorems about SessionGate, for any commands, tools, recordings and bounds. *)
EXTENDS SessionGate, FiniteSetTheorems, SequenceTheorems, TLAPS

\* Everybody is somebody else.
LEMMA ProcFacts ==
    /\ Commands \cup Unblockers \cup Tools \cup Starts \cup Stops \cup Edits \subseteq Procs
    /\ Model \in Procs /\ Teardown \in Procs /\ Model # Teardown /\ NoOne \notin Procs
    /\ Dispatched = Commands \cup Unblockers \cup Tools
    /\ \A c \in Dispatched : c \notin {Model, Teardown} \cup Starts \cup Stops \cup Edits
    /\ \A p \in Starts \cup Stops \cup Edits : p \notin {Model, Teardown}
    /\ \A s \in Starts : s \notin Stops \cup Edits
    /\ \A p \in Stops : p \notin Edits
    /\ \A c \in Commands : c \notin Unblockers \cup Tools
    /\ \A u \in Unblockers : u \notin Tools
  BY GateAssumption DEF Procs, Dispatched, Recorders, Others

\* The locks and what goes with them belong to goroutines.
LEMMA StepLocksOK == TypeOK /\ [Next]_vars => LocksOK'
  <1> SUFFICES ASSUME TypeOK, [Next]_vars PROVE LocksOK'
    OBVIOUS
  <1> USE ProcFacts DEF Go, locks, recordings, browser, ending, TypeOK, LocksOK
  <1>1. ASSUME NEW c \in Dispatched, Dispatch(c) PROVE LocksOK'
    BY <1>1 DEF Dispatch, Gate, ReadRecorder, CheckRecording, Order, NoteAction, Handle,
       EndAction, RecordAction, RecordActionEnd, Unblocking
  <1>2. CASE ModelStep
    BY <1>2 DEF ModelStep, ModelLocks, ModelOrders, ModelBegins, ModelEnds, StartGroup,
       StopGroup
  <1>3. ASSUME NEW s \in Starts, Start(s) PROVE LocksOK'
    BY <1>3 DEF Start, BeginRecording, StartRecorder, StartRecordingVideo,
       InstallRecorder, Unlock, StartRecording, RemoveEngineFile
  <1>4. ASSUME NEW p \in Stops, Stop(p) PROVE LocksOK'
    BY <1>4 DEF Stop, AwaitActions, BeginRecording, ReadForStop, StopRecordingVideo,
       StopRecorder, ClearRecorder, Unlock, StopFilm, StopRecording, Quiet
  <1>5. ASSUME NEW e \in Edits, Edit(e) PROVE LocksOK'
    BY <1>5 DEF Edit, AwaitActions, EditRecording, Unlock, StartChunk, StopChunk,
       StartGroup, StopGroup, Quiet
  <1>6. CASE CloseSession \/ Probe \/ LockRecording \/ Finalize
    BY <1>6 DEF CloseSession, Probe, LockRecording, Finalize, FinalizeRecordingOnClose,
       FinalizeRecordingOffline, StopFilm, RemoveEngineFile, Drained
  <1>7. ASSUME \/ Begins \/ \E u \in Unblockers : BeginUnblocking(u)
               \/ (\E c \in Dispatched : OpenPrompt(c)) \/ \E k \in Tools : Execute(k)
        PROVE LocksOK'
    BY <1>7 DEF Begins, Begin, BeginUnblocking, OpenPrompt, Execute
  <1>8. CASE BrowserDies \/ UNCHANGED vars
    BY <1>8 DEF BrowserDies, vars
  <1> QED BY <1>1, <1>2, <1>3, <1>4, <1>5, <1>6, <1>7, <1>8 DEF Next, GoroutineStep

\* The writer of modelMu excludes its readers.
LEMMA StepGateInv == TypeOK /\ GateInv /\ [Next]_vars => GateInv'
  <1> SUFFICES ASSUME TypeOK /\ GateInv, [Next]_vars PROVE GateInv'
    OBVIOUS
  <1> USE ProcFacts DEF Go, locks, recordings, browser, ending, TypeOK, ControlOK, States,
     GateInv, ModelWorks, Working, MayRead, ToolsEnded
  <1>1. ASSUME NEW c \in Dispatched, Dispatch(c) PROVE GateInv'
    BY <1>1 DEF Dispatch, Gate, ReadRecorder, CheckRecording, Order, NoteAction, Handle,
       EndAction, RecordAction, RecordActionEnd, Unblocking
  <1>2. CASE ModelStep
    BY <1>2 DEF ModelStep, ModelLocks, ModelOrders, ModelBegins, ModelEnds, StartGroup,
       StopGroup
  <1>3. ASSUME NEW s \in Starts, Start(s) PROVE GateInv'
    BY <1>3 DEF Start, BeginRecording, StartRecorder, StartRecordingVideo,
       InstallRecorder, Unlock, StartRecording, RemoveEngineFile
  <1>4. ASSUME NEW p \in Stops, Stop(p) PROVE GateInv'
    BY <1>4 DEF Stop, AwaitActions, BeginRecording, ReadForStop, StopRecordingVideo,
       StopRecorder, ClearRecorder, Unlock, StopFilm, StopRecording, Quiet
  <1>5. ASSUME NEW e \in Edits, Edit(e) PROVE GateInv'
    BY <1>5 DEF Edit, AwaitActions, EditRecording, Unlock, StartChunk, StopChunk,
       StartGroup, StopGroup, Quiet
  <1>6. CASE CloseSession \/ Probe \/ LockRecording \/ Finalize
    BY <1>6 DEF CloseSession, Probe, LockRecording, Finalize, FinalizeRecordingOnClose,
       FinalizeRecordingOffline, StopFilm, RemoveEngineFile, Drained
  <1>7. ASSUME \/ Begins \/ \E u \in Unblockers : BeginUnblocking(u)
               \/ (\E c \in Dispatched : OpenPrompt(c)) \/ \E k \in Tools : Execute(k)
        PROVE GateInv'
    BY <1>7 DEF Begins, Begin, BeginUnblocking, OpenPrompt, Execute
  <1>8. CASE BrowserDies \/ UNCHANGED vars
    BY <1>8 DEF BrowserDies, vars
  <1> QED BY <1>1, <1>2, <1>3, <1>4, <1>5, <1>6, <1>7, <1>8 DEF Next, GoroutineStep

\* Everybody is somewhere.
LEMMA StepControlOK == TypeOK /\ [Next]_vars => ControlOK'
  <1> SUFFICES ASSUME TypeOK, [Next]_vars PROVE ControlOK'
    OBVIOUS
  <1> USE ProcFacts DEF Go, locks, recordings, browser, ending, TypeOK, ControlOK, States
  <1>1. ASSUME NEW c \in Dispatched, Dispatch(c) PROVE ControlOK'
    BY <1>1 DEF Dispatch, Gate, ReadRecorder, CheckRecording, Order, NoteAction, Handle,
       EndAction, RecordAction, RecordActionEnd, Unblocking
  <1>2. CASE ModelStep
    BY <1>2 DEF ModelStep, ModelLocks, ModelOrders, ModelBegins, ModelEnds, StartGroup,
       StopGroup
  <1>3. ASSUME NEW s \in Starts, Start(s) PROVE ControlOK'
    BY <1>3 DEF Start, BeginRecording, StartRecorder, StartRecordingVideo,
       InstallRecorder, Unlock, StartRecording, RemoveEngineFile
  <1>4. ASSUME NEW p \in Stops, Stop(p) PROVE ControlOK'
    BY <1>4 DEF Stop, AwaitActions, BeginRecording, ReadForStop, StopRecordingVideo,
       StopRecorder, ClearRecorder, Unlock, StopFilm, StopRecording, Quiet
  <1>5. ASSUME NEW e \in Edits, Edit(e) PROVE ControlOK'
    BY <1>5 DEF Edit, AwaitActions, EditRecording, Unlock, StartChunk, StopChunk,
       StartGroup, StopGroup, Quiet
  <1>6. CASE CloseSession \/ Probe \/ LockRecording \/ Finalize
    BY <1>6 DEF CloseSession, Probe, LockRecording, Finalize, FinalizeRecordingOnClose,
       FinalizeRecordingOffline, StopFilm, RemoveEngineFile, Drained
  <1>7. ASSUME \/ Begins \/ \E u \in Unblockers : BeginUnblocking(u)
               \/ (\E c \in Dispatched : OpenPrompt(c)) \/ \E k \in Tools : Execute(k)
        PROVE ControlOK'
    BY <1>7 DEF Begins, Begin, BeginUnblocking, OpenPrompt, Execute
  <1>8. CASE BrowserDies \/ UNCHANGED vars
    BY <1>8 DEF BrowserDies, vars
  <1> QED BY <1>1, <1>2, <1>3, <1>4, <1>5, <1>6, <1>7, <1>8 DEF Next, GoroutineStep

\* The flags.
LEMMA StepFlagsOK == TypeOK /\ [Next]_vars => FlagsOK'
  <1> SUFFICES ASSUME TypeOK, [Next]_vars PROVE FlagsOK'
    OBVIOUS
  <1> USE ProcFacts DEF Go, locks, recordings, browser, ending, TypeOK, FlagsOK
  <1>1. ASSUME NEW c \in Dispatched, Dispatch(c) PROVE FlagsOK'
    BY <1>1 DEF Dispatch, Gate, ReadRecorder, CheckRecording, Order, NoteAction, Handle,
       EndAction, RecordAction, RecordActionEnd, Unblocking
  <1>2. CASE ModelStep
    BY <1>2 DEF ModelStep, ModelLocks, ModelOrders, ModelBegins, ModelEnds, StartGroup,
       StopGroup
  <1>3. ASSUME NEW s \in Starts, Start(s) PROVE FlagsOK'
    BY <1>3 DEF Start, BeginRecording, StartRecorder, StartRecordingVideo,
       InstallRecorder, Unlock, StartRecording, RemoveEngineFile
  <1>4. ASSUME NEW p \in Stops, Stop(p) PROVE FlagsOK'
    BY <1>4 DEF Stop, AwaitActions, BeginRecording, ReadForStop, StopRecordingVideo,
       StopRecorder, ClearRecorder, Unlock, StopFilm, StopRecording, Quiet
  <1>5. ASSUME NEW e \in Edits, Edit(e) PROVE FlagsOK'
    BY <1>5 DEF Edit, AwaitActions, EditRecording, Unlock, StartChunk, StopChunk,
       StartGroup, StopGroup, Quiet
  <1>6. CASE CloseSession \/ Probe \/ LockRecording \/ Finalize
    BY <1>6 DEF CloseSession, Probe, LockRecording, Finalize, FinalizeRecordingOnClose,
       FinalizeRecordingOffline, StopFilm, RemoveEngineFile, Drained
  <1>7. ASSUME \/ Begins \/ \E u \in Unblockers : BeginUnblocking(u)
               \/ (\E c \in Dispatched : OpenPrompt(c)) \/ \E k \in Tools : Execute(k)
        PROVE FlagsOK'
    BY <1>7 DEF Begins, Begin, BeginUnblocking, OpenPrompt, Execute
  <1>8. CASE BrowserDies \/ UNCHANGED vars
    BY <1>8 DEF BrowserDies, vars
  <1> QED BY <1>1, <1>2, <1>3, <1>4, <1>5, <1>6, <1>7, <1>8 DEF Next, GoroutineStep

\* Who has read a recorder has read one that was made.
LEMMA StepReadOK == TypeOK /\ [Next]_vars => ReadOK'
  <1> SUFFICES ASSUME TypeOK, [Next]_vars PROVE ReadOK'
    OBVIOUS
  <1> USE ProcFacts DEF Go, locks, recordings, browser, ending, TypeOK, ReadOK, MadeOK,
     RecorderOK
  <1>1. ASSUME NEW c \in Dispatched, Dispatch(c) PROVE ReadOK'
    <2>1. UNCHANGED made /\ (UNCHANGED rec \/ \E n \in {0, recorder} : rec' = [rec EXCEPT ![c] = n])
      BY <1>1 DEF Dispatch, Gate, ReadRecorder, CheckRecording, Order, NoteAction, Handle,
         EndAction, RecordAction, RecordActionEnd, Unblocking
    <2> QED BY <2>1
  <1>2. CASE ModelStep
    BY <1>2 DEF ModelStep, ModelLocks, ModelOrders, ModelBegins, ModelEnds, StartGroup,
       StopGroup
  <1>3. ASSUME NEW s \in Starts, Start(s) PROVE ReadOK'
    BY <1>3 DEF Start, BeginRecording, StartRecorder, StartRecordingVideo,
       InstallRecorder, Unlock, StartRecording, RemoveEngineFile
  <1>4. ASSUME NEW p \in Stops, Stop(p) PROVE ReadOK'
    BY <1>4 DEF Stop, AwaitActions, BeginRecording, ReadForStop, StopRecordingVideo,
       StopRecorder, ClearRecorder, Unlock, StopFilm, StopRecording, Quiet
  <1>5. ASSUME NEW e \in Edits, Edit(e) PROVE ReadOK'
    <2>1. UNCHANGED made /\ (UNCHANGED rec \/ rec' = [rec EXCEPT ![e] = 0])
      BY <1>5 DEF Edit, AwaitActions, EditRecording, Unlock, StartChunk, StopChunk,
         StartGroup, StopGroup, Quiet
    <2> QED BY <2>1
  <1>6. CASE CloseSession \/ Probe \/ LockRecording \/ Finalize
    BY <1>6 DEF CloseSession, Probe, LockRecording, Finalize, FinalizeRecordingOnClose,
       FinalizeRecordingOffline, StopFilm, RemoveEngineFile, Drained
  <1>7. ASSUME \/ Begins \/ \E u \in Unblockers : BeginUnblocking(u)
               \/ (\E c \in Dispatched : OpenPrompt(c)) \/ \E k \in Tools : Execute(k)
        PROVE ReadOK'
    BY <1>7 DEF Begins, Begin, BeginUnblocking, OpenPrompt, Execute
  <1>8. CASE BrowserDies \/ UNCHANGED vars
    BY <1>8 DEF BrowserDies, vars
  <1> QED BY <1>1, <1>2, <1>3, <1>4, <1>5, <1>6, <1>7, <1>8 DEF Next, GoroutineStep

\* A start that makes a recording has not made one before.
LEMMA StepMadeOK == TypeOK /\ [Next]_vars => MadeOK'
  <1> SUFFICES ASSUME TypeOK, [Next]_vars PROVE MadeOK'
    OBVIOUS
  <1> DEFINE Makers == {s \in Starts : pc[s] \notin {"idle", "recording", "make"}}
  <1> USE ProcFacts DEF Go, locks, recordings, browser, ending, TypeOK
  <1>0. /\ IsFiniteSet(Makers) /\ Cardinality(Makers) \in Nat
        /\ IsFiniteSet(Makers') /\ Cardinality(Makers') \in Nat
    BY GateAssumption, FS_Subset, FS_CardinalityType
  <1>1. ASSUME UNCHANGED made, Makers \subseteq Makers' PROVE MadeOK'
    BY <1>0, <1>1, FS_Subset DEF MadeOK
  <1>2. ASSUME UNCHANGED made, \A s \in Starts : pc'[s] = pc[s] PROVE MadeOK'
    BY <1>1, <1>2
  <1>3. ASSUME NEW c \in Dispatched, Dispatch(c) PROVE MadeOK'
    <2>1. UNCHANGED made /\ \A s \in Starts : pc'[s] = pc[s]
      BY <1>3 DEF ControlOK, Dispatch, Gate, ReadRecorder, CheckRecording, Order, NoteAction,
         Handle, EndAction, RecordAction, RecordActionEnd, Unblocking
    <2> QED BY <2>1, <1>2
  <1>4. CASE ModelStep
    <2>1. UNCHANGED made /\ \A s \in Starts : pc'[s] = pc[s]
      BY <1>4 DEF ControlOK, ModelStep, ModelLocks, ModelOrders, ModelBegins, ModelEnds,
         StartGroup,
         StopGroup
    <2> QED BY <2>1, <1>2
  <1>5. ASSUME NEW s \in Starts, Start(s) PROVE MadeOK'
    <2>1. CASE StartRecorder(s) /\ made' = made + 1
      <3>1. s \notin Makers /\ Makers' = Makers \cup {s}
        BY <2>1 DEF StartRecorder, ControlOK
      <3>2. Cardinality(Makers') = Cardinality(Makers) + 1
        BY <3>1, <1>0, FS_AddElement
      <3> QED BY <2>1, <3>2, <1>0 DEF MadeOK
    <2>2. CASE UNCHANGED made
      <3>1. Makers \subseteq Makers'
        BY <1>5 DEF Start, BeginRecording, StartRecorder, StartRecordingVideo, InstallRecorder,
           Unlock, ControlOK
      <3> QED BY <2>2, <3>1, <1>1
    <2> QED BY <2>1, <2>2, <1>5 DEF Start, BeginRecording, StartRecorder, StartRecordingVideo,
           InstallRecorder
  <1>6. ASSUME NEW p \in Stops \cup Edits, Stop(p) \/ Edit(p) PROVE MadeOK'
    <2>1. UNCHANGED made /\ \A s \in Starts : pc'[s] = pc[s]
      BY <1>6 DEF Stop, Edit, AwaitActions, BeginRecording, ReadForStop, StopRecordingVideo,
         StopRecorder, ClearRecorder, EditRecording, Unlock, ControlOK
    <2> QED BY <2>1, <1>2
  <1>7. CASE CloseSession \/ Probe \/ LockRecording \/ Finalize
    <2>1. UNCHANGED made /\ \A s \in Starts : pc'[s] = pc[s]
      BY <1>7 DEF CloseSession, Probe, LockRecording, Finalize, ControlOK
    <2> QED BY <2>1, <1>2
  <1>8. ASSUME \/ Begins \/ \E u \in Unblockers : BeginUnblocking(u)
               \/ (\E c \in Dispatched : OpenPrompt(c)) \/ \E k \in Tools : Execute(k)
        PROVE MadeOK'
    <2>1. UNCHANGED made /\ Makers \subseteq Makers'
      BY <1>8 DEF Begins, Begin, BeginUnblocking, OpenPrompt, Execute, ControlOK
    <2> QED BY <2>1, <1>1
  <1>9. CASE BrowserDies \/ UNCHANGED vars
    BY <1>9, <1>2 DEF BrowserDies, vars
  <1> QED BY <1>3, <1>4, <1>5, <1>6, <1>7, <1>8, <1>9 DEF Next, GoroutineStep

\* The session's recorder was made.
LEMMA StepRecorderOK == TypeOK /\ [Next]_vars => RecorderOK'
  <1> SUFFICES ASSUME TypeOK, [Next]_vars PROVE RecorderOK'
    OBVIOUS
  <1> USE ProcFacts DEF Go, locks, recordings, browser, ending, TypeOK, RecorderOK,
     MadeOK, ReadOK
  <1>1. ASSUME NEW c \in Dispatched, Dispatch(c) PROVE RecorderOK'
    BY <1>1 DEF Dispatch, Gate, ReadRecorder, CheckRecording, Order, NoteAction, Handle,
       EndAction, RecordAction, RecordActionEnd, Unblocking
  <1>2. CASE ModelStep
    BY <1>2 DEF ModelStep, ModelLocks, ModelOrders, ModelBegins, ModelEnds, StartGroup,
       StopGroup
  <1>3. ASSUME NEW s \in Starts, Start(s) PROVE RecorderOK'
    BY <1>3 DEF Start, BeginRecording, StartRecorder, StartRecordingVideo,
       InstallRecorder, Unlock, StartRecording, RemoveEngineFile
  <1>4. ASSUME NEW p \in Stops, Stop(p) PROVE RecorderOK'
    BY <1>4 DEF Stop, AwaitActions, BeginRecording, ReadForStop, StopRecordingVideo,
       StopRecorder, ClearRecorder, Unlock, StopFilm, StopRecording, Quiet
  <1>5. ASSUME NEW e \in Edits, Edit(e) PROVE RecorderOK'
    BY <1>5 DEF Edit, AwaitActions, EditRecording, Unlock, StartChunk, StopChunk,
       StartGroup, StopGroup, Quiet
  <1>6. CASE CloseSession \/ Probe \/ LockRecording \/ Finalize
    BY <1>6 DEF CloseSession, Probe, LockRecording, Finalize, FinalizeRecordingOnClose,
       FinalizeRecordingOffline, StopFilm, RemoveEngineFile, Drained
  <1>7. ASSUME \/ Begins \/ \E u \in Unblockers : BeginUnblocking(u)
               \/ (\E c \in Dispatched : OpenPrompt(c)) \/ \E k \in Tools : Execute(k)
        PROVE RecorderOK'
    BY <1>7 DEF Begins, Begin, BeginUnblocking, OpenPrompt, Execute
  <1>8. CASE BrowserDies \/ UNCHANGED vars
    BY <1>8 DEF BrowserDies, vars
  <1> QED BY <1>1, <1>2, <1>3, <1>4, <1>5, <1>6, <1>7, <1>8 DEF Next, GoroutineStep

\* Whether a recording runs, and its video.
LEMMA StepTapesOK == TypeOK /\ [Next]_vars => TapesOK'
  <1> SUFFICES ASSUME TypeOK, [Next]_vars PROVE TapesOK'
    OBVIOUS
  <1> USE ProcFacts DEF Go, locks, recordings, browser, ending, TypeOK, TapesOK
  <1>1. ASSUME NEW c \in Dispatched, Dispatch(c) PROVE TapesOK'
    BY <1>1 DEF Dispatch, Gate, ReadRecorder, CheckRecording, Order, NoteAction, Handle,
       EndAction, RecordAction, RecordActionEnd, Unblocking
  <1>2. CASE ModelStep
    BY <1>2 DEF ModelStep, ModelLocks, ModelOrders, ModelBegins, ModelEnds, StartGroup,
       StopGroup
  <1>3. ASSUME NEW s \in Starts, Start(s) PROVE TapesOK'
    BY <1>3 DEF Start, BeginRecording, StartRecorder, StartRecordingVideo,
       InstallRecorder, Unlock, StartRecording, RemoveEngineFile
  <1>4. ASSUME NEW p \in Stops, Stop(p) PROVE TapesOK'
    BY <1>4 DEF Stop, AwaitActions, BeginRecording, ReadForStop, StopRecordingVideo,
       StopRecorder, ClearRecorder, Unlock, StopFilm, StopRecording, Quiet
  <1>5. ASSUME NEW e \in Edits, Edit(e) PROVE TapesOK'
    BY <1>5 DEF Edit, AwaitActions, EditRecording, Unlock, StartChunk, StopChunk,
       StartGroup, StopGroup, Quiet
  <1>6. CASE CloseSession \/ Probe \/ LockRecording \/ Finalize
    BY <1>6 DEF CloseSession, Probe, LockRecording, Finalize, FinalizeRecordingOnClose,
       FinalizeRecordingOffline, StopFilm, RemoveEngineFile, Drained
  <1>7. ASSUME \/ Begins \/ \E u \in Unblockers : BeginUnblocking(u)
               \/ (\E c \in Dispatched : OpenPrompt(c)) \/ \E k \in Tools : Execute(k)
        PROVE TapesOK'
    BY <1>7 DEF Begins, Begin, BeginUnblocking, OpenPrompt, Execute
  <1>8. CASE BrowserDies \/ UNCHANGED vars
    BY <1>8 DEF BrowserDies, vars
  <1> QED BY <1>1, <1>2, <1>3, <1>4, <1>5, <1>6, <1>7, <1>8 DEF Next, GoroutineStep

\* A group begins at the end of the stack, and the innermost ends.
LEMMA GroupTypes ==
    ASSUME groups \in [Recordings -> Seq(Procs)], NEW n, NEW p \in Procs,
           StartGroup(n, p) \/ StopGroup(n)
    PROVE  groups' \in [Recordings -> Seq(Procs)]
  <1>1. ASSUME NEW g \in Seq(Procs) PROVE Append(g, p) \in Seq(Procs)
    OBVIOUS
  <1>2. ASSUME NEW g \in Seq(Procs), g # <<>> PROVE SubSeq(g, 1, Len(g) - 1) \in Seq(Procs)
    BY <1>2
  <1>3. CASE StartGroup(n, p)
    BY <1>1, <1>3 DEF StartGroup
  <1>4. CASE StopGroup(n)
    BY <1>2, <1>4 DEF StopGroup
  <1> QED BY <1>3, <1>4

\* What is in a recording.
LEMMA StepContentsOK == TypeOK /\ [Next]_vars => ContentsOK'
  <1> SUFFICES ASSUME TypeOK, [Next]_vars PROVE ContentsOK'
    OBVIOUS
  <1> USE ProcFacts DEF Go, locks, recordings, browser, ending, TypeOK, ContentsOK
  <1>1. ASSUME NEW c \in Dispatched, Dispatch(c) PROVE ContentsOK'
    <2>1. UNCHANGED groups /\ (UNCHANGED open \/ RecordAction(rec[c], c)
                                              \/ RecordActionEnd(rec[c], c))
      BY <1>1 DEF Dispatch, Gate, ReadRecorder, CheckRecording, Order, NoteAction, Handle, EndAction
    <2> QED BY <2>1 DEF RecordAction, RecordActionEnd
  <1>2. CASE ModelStep
    <2>1. /\ UNCHANGED open
          /\ UNCHANGED groups \/ StartGroup(rec[Model], Model) \/ StopGroup(rec[Model])
      BY <1>2 DEF ModelStep, ModelLocks, ModelOrders, ModelBegins, ModelEnds
    <2> QED BY <2>1, GroupTypes
  <1>3. ASSUME NEW s \in Starts, Start(s) PROVE ContentsOK'
    BY <1>3 DEF Start, BeginRecording, StartRecorder, StartRecordingVideo,
       InstallRecorder, Unlock, StartRecording, RemoveEngineFile
  <1>4. ASSUME NEW p \in Stops, Stop(p) PROVE ContentsOK'
    BY <1>4 DEF Stop, AwaitActions, BeginRecording, ReadForStop, StopRecordingVideo,
       StopRecorder, ClearRecorder, Unlock, StopFilm, StopRecording, Quiet
  <1>5. ASSUME NEW e \in Edits, Edit(e) PROVE ContentsOK'
    <2>1. /\ UNCHANGED open \/ open' = [open EXCEPT ![recorder] = {}]
          /\ UNCHANGED groups \/ StartGroup(recorder, e) \/ StopGroup(recorder)
      BY <1>5 DEF Edit, AwaitActions, EditRecording, StartChunk, StopChunk
    <2> QED BY <2>1, GroupTypes
  <1>6. CASE CloseSession \/ Probe \/ LockRecording \/ Finalize
    BY <1>6 DEF CloseSession, Probe, LockRecording, Finalize, FinalizeRecordingOnClose,
       FinalizeRecordingOffline, StopFilm, RemoveEngineFile, Drained
  <1>7. ASSUME \/ Begins \/ \E u \in Unblockers : BeginUnblocking(u)
               \/ (\E c \in Dispatched : OpenPrompt(c)) \/ \E k \in Tools : Execute(k)
        PROVE ContentsOK'
    BY <1>7 DEF Begins, Begin, BeginUnblocking, OpenPrompt, Execute
  <1>8. CASE BrowserDies \/ UNCHANGED vars
    BY <1>8 DEF BrowserDies, vars
  <1> QED BY <1>1, <1>2, <1>3, <1>4, <1>5, <1>6, <1>7, <1>8 DEF Next, GoroutineStep

\* Every variable keeps its type.
THEOREM TypeCorrect == Spec => []TypeOK
  <1>1. Init => TypeOK
    <2> SUFFICES ASSUME Init PROVE TypeOK
      OBVIOUS
    <2>1. LocksOK
      BY DEF Init, LocksOK
    <2>2. FlagsOK
      BY DEF Init, FlagsOK
    <2>3. ControlOK
      BY DEF Init, ControlOK, States
    <2>4. MadeOK
      <3>1. IsFiniteSet({s \in Starts : pc[s] \notin {"idle", "recording", "make"}})
        BY GateAssumption, FS_Subset
      <3>2. Cardinality({s \in Starts : pc[s] \notin {"idle", "recording", "make"}}) \in Nat
        BY <3>1, FS_CardinalityType
      <3> QED BY <3>2 DEF Init, MadeOK
    <2>5. RecorderOK
      BY DEF Init, RecorderOK
    <2>6. ReadOK
      BY DEF Init, ReadOK
    <2>7. TapesOK
      BY DEF Init, TapesOK
    <2>8. ContentsOK
      BY DEF Init, ContentsOK
    <2> QED BY <2>1, <2>2, <2>3, <2>4, <2>5, <2>6, <2>7, <2>8 DEF TypeOK
  <1>2. TypeOK /\ [Next]_vars => TypeOK'
    BY StepLocksOK, StepFlagsOK, StepControlOK, StepMadeOK, StepRecorderOK, StepReadOK,
       StepTapesOK, StepContentsOK DEF TypeOK
  <1> QED BY <1>1, <1>2, PTL DEF Spec

\* Whose turn it is.
LEMMA StepOrderInv == TypeOK /\ OrderInv /\ [Next]_vars => OrderInv'
  <1> SUFFICES ASSUME TypeOK /\ OrderInv, [Next]_vars PROVE OrderInv'
    OBVIOUS
  <1> USE ProcFacts DEF Go, locks, recordings, browser, ending, TypeOK, ControlOK, States,
     LocksOK, OrderInv, ModelWorks, Working
  <1>1. ASSUME NEW c \in Dispatched, Dispatch(c) PROVE OrderInv'
    BY <1>1 DEF Dispatch, Gate, ReadRecorder, CheckRecording, Order, NoteAction, Handle,
       EndAction, RecordAction, RecordActionEnd, Unblocking
  <1>2. CASE ModelStep
    <2>1. CASE ModelLocks
      BY <2>1 DEF ModelLocks, StartGroup, StopGroup, ToolsEnded
    <2>2. CASE ModelOrders
      BY <2>2 DEF ModelOrders, StartGroup, StopGroup, ToolsEnded
    <2>3. CASE ModelBegins
      BY <2>3 DEF ModelBegins, StartGroup, StopGroup, ToolsEnded
    <2>4. CASE ModelEnds
      BY <2>4 DEF ModelEnds, StartGroup, StopGroup, ToolsEnded
    <2> QED BY <1>2, <2>1, <2>2, <2>3, <2>4 DEF ModelStep
  <1>3. ASSUME NEW s \in Starts, Start(s) PROVE OrderInv'
    BY <1>3 DEF Start, BeginRecording, StartRecorder, StartRecordingVideo,
       InstallRecorder, Unlock, StartRecording, RemoveEngineFile
  <1>4. ASSUME NEW p \in Stops, Stop(p) PROVE OrderInv'
    BY <1>4 DEF Stop, AwaitActions, BeginRecording, ReadForStop, StopRecordingVideo,
       StopRecorder, ClearRecorder, Unlock, StopFilm, StopRecording, Quiet
  <1>5. ASSUME NEW e \in Edits, Edit(e) PROVE OrderInv'
    BY <1>5 DEF Edit, AwaitActions, EditRecording, Unlock, StartChunk, StopChunk,
       StartGroup, StopGroup, Quiet
  <1>6. CASE CloseSession \/ Probe \/ LockRecording \/ Finalize
    BY <1>6 DEF CloseSession, Probe, LockRecording, Finalize, FinalizeRecordingOnClose,
       FinalizeRecordingOffline, StopFilm, RemoveEngineFile, Drained
  <1>7. ASSUME \/ Begins \/ \E u \in Unblockers : BeginUnblocking(u)
               \/ (\E c \in Dispatched : OpenPrompt(c)) \/ \E k \in Tools : Execute(k)
        PROVE OrderInv'
    <2>1. CASE Begins
      BY <2>1 DEF Begins, Begin
    <2>2. CASE \E u \in Unblockers : BeginUnblocking(u)
      BY <2>2 DEF BeginUnblocking
    <2>3. CASE \E c \in Dispatched : OpenPrompt(c)
      BY <2>3 DEF OpenPrompt
    <2>4. CASE \E k \in Tools : Execute(k)
      BY <2>4 DEF Execute, ToolsEnded
    <2> QED BY <1>7, <2>1, <2>2, <2>3, <2>4
  <1>8. CASE BrowserDies \/ UNCHANGED vars
    BY <1>8 DEF BrowserDies, vars
  <1> QED BY <1>1, <1>2, <1>3, <1>4, <1>5, <1>6, <1>7, <1>8 DEF Next, GoroutineStep

\* There are no more recordings than starts.
LEMMA MadePlaces ==
    ASSUME NEW m \in Nat, NEW at,
           m <= Cardinality({s \in Starts : at[s] \notin {"idle", "recording", "make"}})
    PROVE  \A n \in 1 .. m : n \in Recordings
  <1> DEFINE Makers == {s \in Starts : at[s] \notin {"idle", "recording", "make"}}
  <1>1. Cardinality(Makers) <= Cardinality(Starts)
    BY GateAssumption, FS_Subset, FS_CardinalityType
  <1>2. Cardinality(Starts) \in Nat /\ Cardinality(Makers) \in Nat
    BY GateAssumption, FS_Subset, FS_CardinalityType
  <1>3. m <= Cardinality(Makers)
    OBVIOUS
  <1> HIDE DEF Makers
  <1> QED BY <1>1, <1>2, <1>3 DEF Recordings
LEMMA MadeOnes == TypeOK => \A n \in 1 .. made : n \in Recordings
  BY MadePlaces DEF TypeOK, MadeOK

\* The group of a model operation stays the innermost.
LEMMA StepGroupInv == TypeOK /\ OrderInv /\ GroupInv /\ [Next]_vars => GroupInv'
  <1> SUFFICES ASSUME TypeOK /\ OrderInv /\ GroupInv, [Next]_vars PROVE GroupInv'
    OBVIOUS
  <1> USE ProcFacts DEF Go, locks, recordings, browser, ending, TypeOK, ControlOK, States,
     LocksOK, OrderInv, GroupInv, ModelWorks, ContentsOK, ReadOK
  <1>1. ASSUME NEW c \in Dispatched, Dispatch(c) PROVE GroupInv'
    BY <1>1 DEF Dispatch, Gate, ReadRecorder, CheckRecording, Order, NoteAction, Handle,
       EndAction, RecordAction, RecordActionEnd, Unblocking
  <1>2. CASE ModelStep
    <2>1. CASE ModelLocks
      BY <2>1 DEF ModelLocks
    <2>2. CASE ModelOrders
      BY <2>2 DEF ModelOrders
    <2>3. CASE ModelBegins
      <3> SUFFICES ASSUME StartGroup(rec[Model], Model), IsRecording(rec[Model]), UNCHANGED rec
                   PROVE  GroupInv'
        BY <2>3 DEF ModelBegins
      <3>1. rec[Model] \in Recordings
        BY MadeOnes DEF IsRecording, MadeOK
      <3>2. \A g \in Seq(Procs) : LET h == Append(g, Model) IN h # <<>> /\ h[Len(h)] = Model
        BY AppendProperties
      <3> QED BY <3>1, <3>2 DEF StartGroup
    <2>4. CASE ModelEnds
      BY <2>4 DEF ModelEnds
    <2> QED BY <1>2, <2>1, <2>2, <2>3, <2>4 DEF ModelStep
  <1>3. ASSUME NEW s \in Starts, Start(s) PROVE GroupInv'
    BY <1>3 DEF Start, BeginRecording, StartRecorder, StartRecordingVideo,
       InstallRecorder, Unlock, StartRecording, RemoveEngineFile
  <1>4. ASSUME NEW p \in Stops, Stop(p) PROVE GroupInv'
    BY <1>4 DEF Stop, AwaitActions, BeginRecording, ReadForStop, StopRecordingVideo,
       StopRecorder, ClearRecorder, Unlock, StopFilm, StopRecording, Quiet
  <1>5. ASSUME NEW e \in Edits, Edit(e) PROVE GroupInv'
    BY <1>5 DEF Edit, AwaitActions, EditRecording, Unlock, StartChunk, StopChunk,
       StartGroup, StopGroup, Quiet
  <1>6. CASE CloseSession \/ Probe \/ LockRecording \/ Finalize
    BY <1>6 DEF CloseSession, Probe, LockRecording, Finalize, FinalizeRecordingOnClose,
       FinalizeRecordingOffline, StopFilm, RemoveEngineFile, Drained
  <1>7. ASSUME \/ Begins \/ \E u \in Unblockers : BeginUnblocking(u)
               \/ (\E c \in Dispatched : OpenPrompt(c)) \/ \E k \in Tools : Execute(k)
        PROVE GroupInv'
    <2>1. CASE Begins
      BY <2>1 DEF Begins, Begin
    <2>2. CASE \E u \in Unblockers : BeginUnblocking(u)
      BY <2>2 DEF BeginUnblocking
    <2>3. CASE \E c \in Dispatched : OpenPrompt(c)
      BY <2>3 DEF OpenPrompt
    <2>4. CASE \E k \in Tools : Execute(k)
      BY <2>4 DEF Execute, ToolsEnded
    <2> QED BY <1>7, <2>1, <2>2, <2>3, <2>4
  <1>8. CASE BrowserDies \/ UNCHANGED vars
    BY <1>8 DEF BrowserDies, vars
  <1> QED BY <1>1, <1>2, <1>3, <1>4, <1>5, <1>6, <1>7, <1>8 DEF Next, GoroutineStep

\* What is delivered is whole.
LEMMA StepClean == TypeOK /\ OrderInv /\ GroupInv /\ clean /\ [Next]_vars => clean'
  <1> SUFFICES ASSUME TypeOK /\ OrderInv /\ GroupInv /\ clean, [Next]_vars PROVE clean'
    OBVIOUS
  <1> USE ProcFacts DEF Go, locks, recordings, browser, ending, TypeOK, LocksOK, FlagsOK,
     OrderInv, GroupInv
  <1>1. ASSUME NEW c \in Dispatched, Dispatch(c) PROVE clean'
    <2>1. CASE EndAction(c)
      <3>1. c \in serial /\ lastBox \in serial => lastBox = c
        <4> SUFFICES ASSUME c \in serial, lastBox \in serial PROVE lastBox = c
          OBVIOUS
        <4>1. CASE c \in Tools
          BY <4>1
        <4>2. CASE c \in Commands
          BY <4>2
        <4> QED BY <4>1, <4>2
      <3> QED BY <2>1, <3>1 DEF EndAction
    <2>2. CASE ~EndAction(c)
      BY <1>1, <2>2 DEF Dispatch, Gate, ReadRecorder, CheckRecording, Order, NoteAction, Handle
    <2> QED BY <2>1, <2>2
  <1>2. CASE ModelStep
    BY <1>2 DEF ModelStep, ModelLocks, ModelOrders, ModelBegins, ModelEnds, StartGroup,
       StopGroup
  <1>3. ASSUME NEW s \in Starts, Start(s) PROVE clean'
    BY <1>3 DEF Start, BeginRecording, StartRecorder, StartRecordingVideo,
       InstallRecorder, Unlock, StartRecording, RemoveEngineFile
  <1>4. ASSUME NEW p \in Stops, Stop(p) PROVE clean'
    <2>1. CASE StopRecorder(p)
      <3>1. dispatchMu = p
        BY <2>1 DEF StopRecorder
      <3>2. serial = {}
        BY <3>1
      <3>3. \A n : Whole(n)
        BY <3>2 DEF Whole
      <3>4. UNCHANGED clean \/ StopRecording(rec[p], FALSE) \/ StopRecording(rec[p], TRUE)
        BY <2>1, Zenon DEF StopRecorder
      <3> QED BY <3>3, <3>4 DEF StopRecording
    <2>2. CASE ~StopRecorder(p)
      BY <1>4, <2>2 DEF Stop, AwaitActions, BeginRecording, ReadForStop, StopRecordingVideo,
         ClearRecorder
    <2> QED BY <2>1, <2>2
  <1>5. ASSUME NEW e \in Edits, Edit(e) PROVE clean'
    <2>1. CASE EditRecording(e)
      <3>1. dispatchMu = e
        BY <2>1 DEF EditRecording
      <3>2. serial = {}
        BY <3>1
      <3> QED BY <2>1, <3>2 DEF EditRecording, StartChunk, StopChunk, Whole
    <2>2. CASE AwaitActions(e, "edit")
      BY <2>2 DEF AwaitActions
    <2> QED BY <1>5, <2>1, <2>2 DEF Edit
  <1>6. CASE CloseSession \/ Probe \/ LockRecording \/ Finalize
    BY <1>6 DEF CloseSession, Probe, LockRecording, Finalize, FinalizeRecordingOnClose,
       FinalizeRecordingOffline, StopFilm, RemoveEngineFile, Drained
  <1>7. ASSUME \/ Begins \/ \E u \in Unblockers : BeginUnblocking(u)
               \/ (\E c \in Dispatched : OpenPrompt(c)) \/ \E k \in Tools : Execute(k)
        PROVE clean'
    BY <1>7 DEF Begins, Begin, BeginUnblocking, OpenPrompt, Execute
  <1>8. CASE BrowserDies \/ UNCHANGED vars
    BY <1>8 DEF BrowserDies, vars
  <1> QED BY <1>1, <1>2, <1>3, <1>4, <1>5, <1>6, <1>7, <1>8 DEF Next, GoroutineStep

\* What the client stops has the end of every action and of every group in it.
THEOREM RecordingsStayWhole == Spec => []RecordingsAreWhole
  <1>1. Init => OrderInv /\ GroupInv /\ clean
    BY ProcFacts DEF Init, OrderInv, GroupInv, ModelWorks, Working
  <1> QED BY <1>1, StepOrderInv, StepGroupInv, StepClean, TypeCorrect, PTL
       DEF Spec, RecordingsAreWhole

\* Who is in a section of recordingMu.
LEMMA StepSectionInv == TypeOK /\ SectionInv /\ [Next]_vars => SectionInv'
  <1> SUFFICES ASSUME TypeOK /\ SectionInv, [Next]_vars PROVE SectionInv'
    OBVIOUS
  <1> USE ProcFacts DEF Go, locks, recordings, browser, ending, TypeOK, ControlOK, States,
     LocksOK, SectionInv, MayRecord
  <1>1. ASSUME NEW c \in Dispatched, Dispatch(c) PROVE SectionInv'
    BY <1>1 DEF Dispatch, Gate, ReadRecorder, CheckRecording, Order, NoteAction, Handle,
       EndAction, RecordAction, RecordActionEnd, Unblocking
  <1>2. CASE ModelStep
    BY <1>2 DEF ModelStep, ModelLocks, ModelOrders, ModelBegins, ModelEnds, StartGroup,
       StopGroup
  <1>3. ASSUME NEW s \in Starts, Start(s) PROVE SectionInv'
    BY <1>3 DEF Start, BeginRecording, StartRecorder, StartRecordingVideo,
       InstallRecorder, Unlock, StartRecording, RemoveEngineFile
  <1>4. ASSUME NEW p \in Stops, Stop(p) PROVE SectionInv'
    BY <1>4 DEF Stop, AwaitActions, BeginRecording, ReadForStop, StopRecordingVideo,
       StopRecorder, ClearRecorder, Unlock, StopFilm, StopRecording, Quiet
  <1>5. ASSUME NEW e \in Edits, Edit(e) PROVE SectionInv'
    BY <1>5 DEF Edit, AwaitActions, EditRecording, Unlock, StartChunk, StopChunk,
       StartGroup, StopGroup, Quiet
  <1>6. CASE CloseSession \/ Probe \/ LockRecording \/ Finalize
    BY <1>6 DEF CloseSession, Probe, LockRecording, Finalize, FinalizeRecordingOnClose,
       FinalizeRecordingOffline, StopFilm, RemoveEngineFile, Drained
  <1>7. ASSUME \/ Begins \/ \E u \in Unblockers : BeginUnblocking(u)
               \/ (\E c \in Dispatched : OpenPrompt(c)) \/ \E k \in Tools : Execute(k)
        PROVE SectionInv'
    BY <1>7 DEF Begins, Begin, BeginUnblocking, OpenPrompt, Execute
  <1>8. CASE BrowserDies \/ UNCHANGED vars
    BY <1>8 DEF BrowserDies, vars
  <1> QED BY <1>1, <1>2, <1>3, <1>4, <1>5, <1>6, <1>7, <1>8 DEF Next, GoroutineStep

\* The recording that a model operation records in stays where it is.
LEMMA StepRunsInv == TypeOK /\ OrderInv /\ SectionInv /\ RunsInv /\ [Next]_vars => RunsInv'
  <1> SUFFICES ASSUME TypeOK /\ OrderInv /\ SectionInv /\ RunsInv, [Next]_vars PROVE RunsInv'
    OBVIOUS
  <1> USE ProcFacts DEF Go, locks, recordings, browser, ending, TypeOK, ControlOK, States,
     ReadOK, RecorderOK, MadeOK, TapesOK, OrderInv, SectionInv, RunsInv, ModelReads,
     ModelWorks, IsRecording
  <1>1. ASSUME NEW c \in Dispatched, Dispatch(c) PROVE RunsInv'
    BY <1>1 DEF Dispatch, Gate, ReadRecorder, CheckRecording, Order, NoteAction, Handle,
       EndAction, RecordAction, RecordActionEnd, Unblocking
  <1>2. CASE ModelStep
    BY <1>2 DEF ModelStep, ModelLocks, ModelOrders, ModelBegins, ModelEnds, StartGroup,
       StopGroup, ToolsEnded
  <1>3. ASSUME NEW s \in Starts, Start(s) PROVE RunsInv'
    <2>1. CASE BeginRecording(s, "make")
      BY <2>1 DEF BeginRecording, Unlock
    <2>2. CASE StartRecorder(s)
      BY <2>2, MadeOnes DEF StartRecorder, Unlock, StartRecording
    <2>3. CASE StartRecordingVideo(s)
      BY <2>3 DEF StartRecordingVideo, Unlock
    <2>4. CASE InstallRecorder(s)
      BY <2>4 DEF InstallRecorder, Unlock
    <2> QED BY <1>3, <2>1, <2>2, <2>3, <2>4 DEF Start
  <1>4. ASSUME NEW p \in Stops, Stop(p) PROVE RunsInv'
    BY <1>4 DEF Stop, AwaitActions, BeginRecording, ReadForStop, StopRecordingVideo,
       StopRecorder, ClearRecorder, Unlock, StopFilm, StopRecording, Quiet
  <1>5. ASSUME NEW e \in Edits, Edit(e) PROVE RunsInv'
    BY <1>5 DEF Edit, AwaitActions, EditRecording, Unlock, StartChunk, StopChunk,
       StartGroup, StopGroup, Quiet
  <1>6. CASE CloseSession \/ Probe \/ LockRecording \/ Finalize
    <2>1. CASE Finalize
      <3>1. /\ UNCHANGED <<recorder, made, rec>> /\ pc' = [pc EXCEPT ![Teardown] = "done"]
            /\ \/ UNCHANGED running
               \/ recorder # 0 /\ running' = [running EXCEPT ![recorder] = FALSE]
        BY <2>1 DEF Finalize, FinalizeRecordingOnClose, FinalizeRecordingOffline
      <3>2. IsRecording(rec[Model])' => IsRecording(rec[Model])
        BY <3>1, MadeOnes
      <3>3. ~IsRecording(recorder) => ~IsRecording(recorder)'
        BY <3>1
      <3>4. /\ UNCHANGED <<recorder, pc[Model], rec[Model]>> /\ pc'[Teardown] = "done"
            /\ \A s \in Starts : UNCHANGED pc[s]
        BY <3>1
      <3> HIDE DEF IsRecording
      <3> QED BY <3>2, <3>3, <3>4
    <2>2. CASE CloseSession \/ Probe \/ LockRecording
      BY <2>2 DEF CloseSession, Probe, LockRecording
    <2> QED BY <1>6, <2>1, <2>2
  <1>7. ASSUME \/ Begins \/ \E u \in Unblockers : BeginUnblocking(u)
               \/ (\E c \in Dispatched : OpenPrompt(c)) \/ \E k \in Tools : Execute(k)
        PROVE RunsInv'
    BY <1>7 DEF Begins, Begin, BeginUnblocking, OpenPrompt, Execute, ToolsEnded
  <1>8. CASE BrowserDies \/ UNCHANGED vars
    BY <1>8 DEF BrowserDies, vars
  <1> QED BY <1>1, <1>2, <1>3, <1>4, <1>5, <1>6, <1>7, <1>8 DEF Next, GoroutineStep

\* Its tools record there.
LEMMA StepToolsInv ==
    TypeOK /\ OrderInv /\ SectionInv /\ RunsInv /\ ToolsInv /\ [Next]_vars => ToolsInv'
  <1> SUFFICES ASSUME TypeOK /\ OrderInv /\ SectionInv /\ RunsInv /\ ToolsInv, [Next]_vars
               PROVE  ToolsInv'
    OBVIOUS
  <1> USE ProcFacts DEF Go, locks, recordings, browser, ending, TypeOK, ControlOK, States,
     ReadOK, OrderInv, RunsInv, ToolsInv, ModelWorks, Working
  <1>1. ASSUME NEW c \in Dispatched, Dispatch(c) PROVE ToolsInv'
    BY <1>1 DEF Dispatch, Gate, ReadRecorder, CheckRecording, Order, NoteAction, Handle,
       EndAction, RecordAction, RecordActionEnd, Unblocking
  <1>2. CASE ModelStep
    BY <1>2 DEF ModelStep, ModelLocks, ModelOrders, ModelBegins, ModelEnds, StartGroup,
       StopGroup, ToolsEnded
  <1>3. ASSUME NEW s \in Starts, Start(s) PROVE ToolsInv'
    <2>1. /\ UNCHANGED <<pc[Model], rec[Model]>>
          /\ \A k \in Tools : UNCHANGED <<pc[k], rec[k]>>
      BY <1>3 DEF Start, BeginRecording, StartRecorder, StartRecordingVideo, InstallRecorder,
         Unlock
    <2> QED BY <2>1, StepRunsInv
  <1>4. ASSUME NEW p \in Stops, Stop(p) PROVE ToolsInv'
    BY <1>4 DEF Stop, AwaitActions, BeginRecording, ReadForStop, StopRecordingVideo,
       StopRecorder, ClearRecorder, Unlock, StopFilm, StopRecording, Quiet
  <1>5. ASSUME NEW e \in Edits, Edit(e) PROVE ToolsInv'
    BY <1>5 DEF Edit, AwaitActions, EditRecording, Unlock, StartChunk, StopChunk,
       StartGroup, StopGroup, Quiet
  <1>6. CASE CloseSession \/ Probe \/ LockRecording \/ Finalize
    BY <1>6 DEF CloseSession, Probe, LockRecording, Finalize, FinalizeRecordingOnClose,
       FinalizeRecordingOffline, StopFilm, RemoveEngineFile, Drained
  <1>7. ASSUME \/ Begins \/ \E u \in Unblockers : BeginUnblocking(u)
               \/ (\E c \in Dispatched : OpenPrompt(c)) \/ \E k \in Tools : Execute(k)
        PROVE ToolsInv'
    BY <1>7 DEF Begins, Begin, BeginUnblocking, OpenPrompt, Execute, ToolsEnded
  <1>8. CASE BrowserDies \/ UNCHANGED vars
    BY <1>8 DEF BrowserDies, vars
  <1> QED BY <1>1, <1>2, <1>3, <1>4, <1>5, <1>6, <1>7, <1>8 DEF Next, GoroutineStep

\* What is open stays under way, where nothing more is opened and none of it ends.
LEMMA OpenStays ==
    ASSUME OpenInv, UNCHANGED open,
           \A n \in Recordings : running'[n] \/ n > made' => running[n] \/ n > made,
           \A c \in Commands :
              \/ UNCHANGED <<pc[c], rec[c]>> \/ pc[c] \notin {"run", "prompted", "end"}
              \/ pc'[c] \in {"prompted", "end"} /\ UNCHANGED rec[c]
    PROVE  OpenInv'
  BY DEF OpenInv

\* What is open in a recording that runs is under way.
LEMMA StepOpenInv == TypeOK /\ OpenInv /\ [Next]_vars => OpenInv'
  <1> SUFFICES ASSUME TypeOK /\ OpenInv, [Next]_vars PROVE OpenInv'
    OBVIOUS
  <1> USE ProcFacts DEF Go, locks, recordings, browser, ending, TypeOK, ControlOK, States,
     ReadOK, MadeOK, ContentsOK, TapesOK, IsRecording
  <1> DEFINE NoneOpens == \A n \in Recordings : running'[n] \/ n > made' => running[n] \/ n > made
             NoneEnds == \A c \in Commands : UNCHANGED <<pc[c], rec[c]>>
  <1>0. ASSUME NoneOpens, NoneEnds, UNCHANGED open PROVE OpenInv'
    BY <1>0, OpenStays
  <1>1. ASSUME NEW c \in Dispatched, Dispatch(c) PROVE OpenInv'
    <2>1. CASE NoteAction(c)
      <3>1. /\ pc[c] = "note" /\ pc' = [pc EXCEPT ![c] = "run"] /\ RecordAction(rec[c], c)
            /\ UNCHANGED <<running, made, rec>>
        BY <2>1 DEF NoteAction
      <3> QED BY <3>1 DEF RecordAction, OpenInv
    <2>2. CASE EndAction(c)
      <3>1. /\ pc' = [pc EXCEPT ![c] = "done"] /\ rec' = [rec EXCEPT ![c] = 0]
            /\ RecordActionEnd(rec[c], c) /\ UNCHANGED <<running, made>>
        BY <2>2 DEF EndAction
      <3>2. ASSUME NEW n \in Recordings, running[n] \/ n > made PROVE c \notin Commands \cap open'[n]
        <4>1. CASE rec[c] = n
          <5>1. IsRecording(rec[c])
            BY <3>2, <4>1 DEF Recordings
          <5> QED BY <3>1, <4>1, <5>1 DEF RecordActionEnd
        <4>2. CASE rec[c] # n
          <5>1. c \notin Commands \cap open[n]
            BY <3>2, <4>2 DEF OpenInv
          <5>2. open'[n] = open[n]
            BY <3>1, <4>2 DEF RecordActionEnd
          <5> QED BY <5>1, <5>2
        <4> QED BY <4>1, <4>2
      <3>3. \A n \in Recordings : open'[n] \subseteq open[n]
        BY <3>1 DEF RecordActionEnd
      <3> QED BY <3>1, <3>2, <3>3 DEF OpenInv
    <2>3. CASE ~NoteAction(c) /\ ~EndAction(c)
      <3>1. /\ UNCHANGED <<open, running, made>> /\ \A d \in Procs \ {c} : UNCHANGED <<pc[d], rec[d]>>
            /\ \/ pc[c] \notin {"run", "prompted", "end"}
               \/ pc'[c] \in {"prompted", "end"} /\ UNCHANGED rec[c]
        BY <1>1, <2>3 DEF Dispatch, Gate, ReadRecorder, CheckRecording, Order, Handle
      <3> QED BY <3>1, OpenStays
    <2> QED BY <2>1, <2>2, <2>3
  <1>2. CASE ModelStep
    <2>1. UNCHANGED <<open, running, made>> /\ NoneEnds
      BY <1>2 DEF ModelStep, ModelLocks, ModelOrders, ModelBegins, ModelEnds
    <2> QED BY <2>1, <1>0
  <1>3. ASSUME NEW s \in Starts, Start(s) PROVE OpenInv'
    <2>1. UNCHANGED open /\ NoneEnds
      BY <1>3 DEF Start, BeginRecording, StartRecorder, StartRecordingVideo, InstallRecorder,
         Unlock
    <2>2. CASE StartRecorder(s)
      <3>1. \/ UNCHANGED <<running, made>>
            \/ made' = made + 1 /\ running' = [running EXCEPT ![made + 1] = TRUE]
        BY <2>2 DEF StartRecorder, StartRecording
      <3>2. ASSUME NEW n \in Recordings, running'[n] \/ n > made' PROVE running[n] \/ n > made
        <4>1. CASE UNCHANGED <<running, made>>
          BY <3>2, <4>1
        <4>2. CASE made' = made + 1 /\ running' = [running EXCEPT ![made + 1] = TRUE]
          <5>1. n \in Int /\ made \in Int
            BY DEF Recordings
          <5>2. n = made + 1 => n > made
            BY <5>1
          <5>3. n # made + 1 => running'[n] = running[n]
            BY <4>2
          <5> QED BY <3>2, <4>2, <5>1, <5>2, <5>3
        <4> QED BY <3>1, <4>1, <4>2
      <3> QED BY <2>1, <3>2, <1>0
    <2>3. CASE ~StartRecorder(s)
      <3>1. UNCHANGED <<running, made>>
        BY <1>3, <2>3 DEF Start, BeginRecording, StartRecordingVideo, InstallRecorder
      <3> QED BY <2>1, <3>1, <1>0
    <2> QED BY <2>2, <2>3
  <1>4. ASSUME NEW p \in Stops, Stop(p) PROVE OpenInv'
    <2>1. /\ UNCHANGED <<open, made>>
          /\ \E q : pc' = [pc EXCEPT ![p] = q]
          /\ \E n : UNCHANGED rec \/ rec' = [rec EXCEPT ![p] = n]
      <3>1. CASE AwaitActions(p, "recording")
        BY <3>1 DEF AwaitActions
      <3>2. CASE BeginRecording(p, "read")
        BY <3>2 DEF BeginRecording, Unlock
      <3>3. CASE ReadForStop(p)
        BY <3>3 DEF ReadForStop, Unlock
      <3>4. CASE StopRecordingVideo(p)
        BY <3>4 DEF StopRecordingVideo
      <3>5. CASE StopRecorder(p)
        BY <3>5 DEF StopRecorder, Unlock
      <3>6. CASE ClearRecorder(p)
        BY <3>6 DEF ClearRecorder, Unlock
      <3> QED BY <1>4, <3>1, <3>2, <3>3, <3>4, <3>5, <3>6 DEF Stop
    <2>3. NoneEnds
      BY <2>1
    <2>2. UNCHANGED running \/ \E n : running' = [running EXCEPT ![n] = FALSE]
      BY <1>4 DEF Stop, AwaitActions, BeginRecording, ReadForStop, StopRecordingVideo, StopRecorder,
         ClearRecorder, StopRecording
    <2> QED BY <2>1, <2>2, <2>3, <1>0
  <1>5. ASSUME NEW e \in Edits, Edit(e) PROVE OpenInv'
    <2>1. UNCHANGED <<running, made>> /\ NoneEnds
      BY <1>5 DEF Edit, AwaitActions, EditRecording, Unlock
    <2>2. UNCHANGED open \/ open' = [open EXCEPT ![recorder] = {}]
      BY <1>5 DEF Edit, AwaitActions, EditRecording, StartChunk
    <2>3. \A n \in Recordings : open'[n] \subseteq open[n]
      BY <2>2
    <2> QED BY <2>1, <2>3 DEF OpenInv
  <1>6. CASE CloseSession \/ Probe \/ LockRecording \/ Finalize
    <2>1. UNCHANGED <<open, made>> /\ NoneEnds
      BY <1>6 DEF CloseSession, Probe, LockRecording, Finalize
    <2>2. UNCHANGED running \/ \E n : running' = [running EXCEPT ![n] = FALSE]
      BY <1>6 DEF CloseSession, Probe, LockRecording, Finalize, FinalizeRecordingOnClose,
         FinalizeRecordingOffline
    <2> QED BY <2>1, <2>2, <1>0
  <1>7. ASSUME \/ Begins \/ \E u \in Unblockers : BeginUnblocking(u)
               \/ (\E c \in Dispatched : OpenPrompt(c)) \/ \E k \in Tools : Execute(k)
        PROVE OpenInv'
    <2>1. /\ UNCHANGED <<open, running, made, rec>>
          /\ \A c \in Commands : \/ UNCHANGED pc[c] \/ pc[c] = "idle"
                                 \/ pc[c] = "run" /\ pc'[c] = "prompted"
      BY <1>7 DEF Begins, Begin, BeginUnblocking, OpenPrompt, Execute
    <2> QED BY <2>1, OpenStays
  <1>8. CASE BrowserDies \/ UNCHANGED vars
    BY <1>8, <1>0 DEF BrowserDies, vars
  <1> QED BY <1>1, <1>2, <1>3, <1>4, <1>5, <1>6, <1>7, <1>8 DEF Next, GoroutineStep

\* While a model operation works, what the client sends and how the session ends do not get
\* in its way, nor into the group it records.
THEOREM ModelStaysUndisturbed == Spec => []ModelIsUndisturbed
  <1>1. Init => GateInv /\ OrderInv /\ GroupInv /\ SectionInv /\ RunsInv /\ ToolsInv /\ OpenInv
    BY ProcFacts DEF Init, GateInv, OrderInv, GroupInv, SectionInv, RunsInv, ToolsInv, OpenInv,
       ModelReads, ModelWorks, Working
  <1>2. GateInv => Excludes
    BY ProcFacts DEF GateInv, Excludes
  <1>3. GateInv /\ GroupInv /\ RunsInv /\ ToolsInv /\ OpenInv => OwnGroup
    <2> SUFFICES ASSUME GateInv, GroupInv, RunsInv, ToolsInv, OpenInv, pc[Model] = "grouped"
                 PROVE  /\ rec[Model] = recorder /\ groups[recorder] # <<>>
                        /\ groups[recorder][Len(groups[recorder])] = Model
                        /\ \A k \in Tools : pc[k] \in Working \ {"read"} => rec[k] = recorder
                        /\ IsRecording(recorder) => open[recorder] \cap Commands = {}
      BY DEF OwnGroup
    <2>1. rec[Model] = recorder /\ recorder \in Recordings
      BY DEF RunsInv, GroupInv
    <2>2. groups[recorder] # <<>> /\ groups[recorder][Len(groups[recorder])] = Model
      BY <2>1 DEF GroupInv
    <2>3. \A k \in Tools : pc[k] \in Working \ {"read"} => rec[k] = recorder
      BY DEF ToolsInv
    <2>4. IsRecording(recorder) => open[recorder] \cap Commands = {}
      BY <2>1, ProcFacts DEF OpenInv, GateInv, IsRecording, ModelWorks, Working
    <2> QED BY <2>1, <2>2, <2>3, <2>4
  <1> QED BY <1>1, <1>2, <1>3, StepGateInv, StepOrderInv, StepGroupInv, StepSectionInv, StepRunsInv,
         StepToolsInv, StepOpenInv, TypeCorrect, PTL DEF Spec, ModelIsUndisturbed

\* A recording that is made has a place.
LEMMA MadeHavePlaces == TypeOK /\ [Next]_vars => \A n \in 1 .. made' : n \in Recordings
  BY StepMadeOK, MadePlaces DEF MadeOK

\* Where neither starts, stops nor the teardown move, and the videos stay as they are.
LEMMA VideosStay ==
    ASSUME VideoInv, UNCHANGED <<video, recorder, pc[Teardown]>>,
           \A p \in Starts \cup Stops : UNCHANGED <<pc[p], rec[p]>>
    PROVE  VideoInv'
  BY DEF VideoInv, Live

\* A video has somebody to deliver or remove it.
LEMMA StepVideoInv == TypeOK /\ SectionInv /\ VideoInv /\ [Next]_vars => VideoInv'
  <1> SUFFICES ASSUME TypeOK /\ SectionInv /\ VideoInv, [Next]_vars PROVE VideoInv'
    OBVIOUS
  <1> USE ProcFacts DEF Go, locks, recordings, browser, ending, TypeOK, ControlOK, ReadOK,
     SectionInv, VideoInv, Live
  <1>1. ASSUME NEW c \in Dispatched, Dispatch(c) PROVE VideoInv'
    <2>1. /\ UNCHANGED <<video, recorder, pc[Teardown]>>
          /\ \A p \in Starts \cup Stops : UNCHANGED <<pc[p], rec[p]>>
      BY <1>1 DEF Dispatch, Gate, ReadRecorder, CheckRecording, Order, NoteAction, Handle,
         EndAction, RecordAction, RecordActionEnd, Unblocking
    <2> QED BY <2>1, VideosStay
  <1>2. CASE ModelStep
    <2>1. /\ UNCHANGED <<video, recorder, pc[Teardown]>>
          /\ \A p \in Starts \cup Stops : UNCHANGED <<pc[p], rec[p]>>
      BY <1>2 DEF ModelStep, ModelLocks, ModelOrders, ModelBegins, ModelEnds, StartGroup,
         StopGroup
    <2> QED BY <2>1, VideosStay
  <1>3. ASSUME NEW s \in Starts, Start(s) PROVE VideoInv'
    <2>1. CASE BeginRecording(s, "make")
      BY <2>1 DEF BeginRecording, Unlock
    <2>2. CASE StartRecorder(s)
      BY <2>2, MadeOnes, MadeHavePlaces DEF StartRecorder, Unlock, RemoveEngineFile,
         IsRecording, TapesOK, RecorderOK, MadeOK
    <2>3. CASE StartRecordingVideo(s)
      BY <2>3 DEF StartRecordingVideo, Unlock, TapesOK
    <2>4. CASE InstallRecorder(s)
      <3>1. /\ UNCHANGED <<video, made>> /\ recorder' = rec[s]
            /\ pc[s] = "install" /\ pc' = [pc EXCEPT ![s] = "done"]
            /\ rec' = [rec EXCEPT ![s] = 0]
        BY <2>4 DEF InstallRecorder, Unlock
      <3>2. /\ \A r \in Starts \ {s} : pc[r] \notin {"film", "install"}
            /\ \A p \in Stops : pc[p] \notin {"film", "zip", "clear"}
        BY <3>1
      <3>3. pc[Teardown] # "done" /\ \A n \in Recordings : Live(n) => n = rec[s]
        BY <3>1, <3>2 DEF Recordings
      <3> QED BY <3>1, <3>2, <3>3
    <2> QED BY <1>3, <2>1, <2>2, <2>3, <2>4 DEF Start
  <1>4. ASSUME NEW p \in Stops, Stop(p) PROVE VideoInv'
    <2>1. CASE AwaitActions(p, "recording")
      BY <2>1 DEF AwaitActions
    <2>2. CASE BeginRecording(p, "read")
      BY <2>2 DEF BeginRecording, Unlock
    <2>3. CASE ReadForStop(p)
      BY <2>3 DEF ReadForStop, Unlock
    <2>4. CASE StopRecordingVideo(p)
      BY <2>4, MadeOnes DEF StopRecordingVideo, StopFilm, TapesOK, RecorderOK
    <2>5. CASE StopRecorder(p)
      BY <2>5, MadeOnes DEF StopRecorder, Unlock, StopRecording, TapesOK, RecorderOK
    <2>6. CASE ClearRecorder(p)
      BY <2>6 DEF ClearRecorder, Unlock
    <2> QED BY <1>4, <2>1, <2>2, <2>3, <2>4, <2>5, <2>6 DEF Stop
  <1>5. ASSUME NEW e \in Edits, Edit(e) PROVE VideoInv'
    <2>1. /\ UNCHANGED <<video, recorder, pc[Teardown]>>
          /\ \A p \in Starts \cup Stops : UNCHANGED <<pc[p], rec[p]>>
      BY <1>5 DEF Edit, AwaitActions, EditRecording, Unlock, StartChunk, StopChunk,
         StartGroup, StopGroup, Quiet
    <2> QED BY <2>1, VideosStay
  <1>6. CASE CloseSession \/ Probe \/ LockRecording \/ Finalize
    <2>1. CASE CloseSession
      BY <2>1 DEF CloseSession
    <2>2. CASE Probe
      BY <2>2 DEF Probe
    <2>3. CASE LockRecording
      BY <2>3 DEF LockRecording
    <2>4. CASE Finalize
      <3>1. /\ \A s \in Starts : pc[s] \notin {"film", "install"}
            /\ \A p \in Stops : pc[p] \notin {"film", "zip", "clear"}
        BY <2>4 DEF Finalize
      <3>2. /\ UNCHANGED recorder /\ pc' = [pc EXCEPT ![Teardown] = "done"]
            /\ \/ recorder = 0 /\ UNCHANGED video
               \/ recorder # 0 /\ FinalizeRecordingOnClose(recorder)
               \/ recorder # 0 /\ FinalizeRecordingOffline(recorder)
        BY <2>4 DEF Finalize
      <3>3. \A n \in Recordings : Live(n) => n = recorder
        BY <3>1
      <3>4. \A n \in Recordings : ~Live(n)'
        <4>1. CASE recorder = 0
          BY <4>1, <3>2, <3>3 DEF Recordings
        <4>2. CASE recorder # 0
          <5>1. recorder \in Recordings
            BY <4>2, MadeOnes DEF RecorderOK, MadeOK
          <5>2. ~Live(recorder)' /\ \A n \in Recordings \ {recorder} : video'[n] = video[n]
            BY <3>2, <4>2, <5>1 DEF FinalizeRecordingOnClose, FinalizeRecordingOffline,
               StopFilm, RemoveEngineFile, TapesOK
          <5> QED BY <3>2, <3>3, <5>2
        <4> QED BY <4>1, <4>2
      <3> QED BY <3>1, <3>2, <3>4
    <2> QED BY <1>6, <2>1, <2>2, <2>3, <2>4
  <1>7. ASSUME \/ Begins \/ \E u \in Unblockers : BeginUnblocking(u)
               \/ (\E c \in Dispatched : OpenPrompt(c)) \/ \E k \in Tools : Execute(k)
        PROVE VideoInv'
    <2>1. CASE Begins
      BY <2>1 DEF Begins, Begin
    <2>2. CASE \E u \in Unblockers : BeginUnblocking(u)
      BY <2>2 DEF BeginUnblocking
    <2>3. CASE \E c \in Dispatched : OpenPrompt(c)
      BY <2>3 DEF OpenPrompt
    <2>4. CASE \E k \in Tools : Execute(k)
      BY <2>4 DEF Execute
    <2> QED BY <1>7, <2>1, <2>2, <2>3, <2>4
  <1>8. CASE BrowserDies \/ UNCHANGED vars
    BY <1>8 DEF BrowserDies, vars
  <1> QED BY <1>1, <1>2, <1>3, <1>4, <1>5, <1>6, <1>7, <1>8 DEF Next, GoroutineStep

\* When the session is closed, no video and no start is left.
THEOREM NothingStaysBehind == Spec => []NothingIsLeftBehind
  <1>1. Init => SectionInv /\ VideoInv
    BY ProcFacts DEF Init, SectionInv, VideoInv, Live
  <1>2. SectionInv /\ VideoInv => NothingIsLeftBehind
    BY DEF SectionInv, VideoInv, NothingIsLeftBehind
  <1> QED BY <1>1, <1>2, StepSectionInv, StepVideoInv, TypeCorrect, PTL DEF Spec
=============================================================================
