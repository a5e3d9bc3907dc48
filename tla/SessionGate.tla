----------------------------- MODULE SessionGate -----------------------------
(***************************************************************************)
(* Who of a session's goroutines waits for whom, and what becomes of its   *)
(* recordings (clicker/internal/api: router.go dispatch and closeSession,  *)
(* model_operations.go, handlers_recording.go, recording.go,               *)
(* recording_video.go).                                                    *)
(*                                                                         *)
(* Three locks: modelMu, a readers-writer lock, keeps commands out of a    *)
(* model operation; dispatchMu orders the actions of a recording;          *)
(* recordingMu covers start, stop and the teardown.  A prompt that a       *)
(* command opens in the page holds up every other one, but those that are  *)
(* there to close it, and so it holds up what recordings ask the browser   *)
(* under those locks (the viewport, secrets, snapshots, the screencast).   *)
(* What is held up may be refused, because the prompt is known, or run     *)
(* into its timeout, at any moment; but nothing is to depend on that.      *)
(***************************************************************************)
EXTENDS Naturals, Sequences, FiniteSets

CONSTANTS Commands,     \* dispatched commands
          Unblockers,   \* dialog.accept and the like
          Tools,        \* calls a model operation makes, one after another
          Starts, Stops, Edits, \* recording.start; stop; chunks and groups
          Model, Teardown, \* the model operation; closeSession
          NoOne,
          MaxBegun      \* bound: goroutines in a behaviour

VARIABLES
    modelMu,            \* the readers, or the writer
    dispatchMu, recordingMu, \* their owners
    recorder,           \* session.recorder: a recording, 0: none
    made,               \* recordings made
    running,            \* Recorder.recording
    video,              \* of a recording: "none", "filming", "file", "gone"
    open,               \* actions recorded whose end is not
    groups,             \* groupStack: who started them
    lastBox,            \* session.lastElementBox: whose, or NoOne
    closed, stopped,    \* session.closed; stopChan is closed
    alive, prompt,      \* the browser; the command whose prompt is open
    pc, rec,            \* where a goroutine is; the recorder it has read, while it runs
    serial,             \* it has an unlock of dispatchMu to do, itself or its model
    clean               \* ghost: what was delivered and grouped so far was whole

Dispatched == Commands \cup Unblockers \cup Tools
Procs == Dispatched \cup Starts \cup Stops \cup Edits \cup {Model, Teardown}
Recordings == 1 .. Cardinality(Starts)

Recorders == Starts \cup Stops \cup Edits
Others == {Model, Teardown}
ASSUME GateAssumption ==
    /\ IsFiniteSet(Starts) /\ MaxBegun \in Nat
    /\ NoOne \notin Procs /\ Model # Teardown
    /\ Dispatched \cap (Recorders \cup Others) = {} /\ Recorders \cap Others = {}
    /\ Commands \cap (Unblockers \cup Tools) = {} /\ Unblockers \cap Tools = {}
    /\ Starts \cap (Stops \cup Edits) = {} /\ Stops \cap Edits = {}

locks == <<modelMu, dispatchMu, recordingMu>>
recordings == <<recorder, made, running, video, open, groups, clean>>
browser == <<alive, prompt>>
ending == <<closed, stopped>>
vars == <<locks, recordings, lastBox, ending, browser, pc, rec, serial>>

Init ==
    /\ modelMu = {} /\ dispatchMu = NoOne /\ recordingMu = NoOne
    /\ recorder = 0 /\ made = 0 /\ running = [n \in Recordings |-> FALSE]
    /\ video = [n \in Recordings |-> "none"] /\ open = [n \in Recordings |-> {}]
    /\ groups = [n \in Recordings |-> <<>>] /\ lastBox = NoOne
    /\ closed = FALSE /\ stopped = FALSE /\ alive = TRUE /\ prompt = NoOne
    /\ pc = [p \in Procs |-> "idle"] /\ rec = [p \in Procs |-> 0]
    /\ serial = {} /\ clean = TRUE

Go(p, from, to) == pc[p] = from /\ pc' = [pc EXCEPT ![p] = to]
IsRecording(n) == n # 0 /\ running[n]
Begun == {p \in Procs \ (Tools \cup {Teardown}) : pc[p] # "idle"}

----------------------------------------------------------------------------
(* Recorder: each is one section of Recorder.mu.                           *)

\* What is delivered holds both ends of every action that was kept in order.
Whole(n) == open[n] \cap serial = {}

\* Start, of a new Recorder, which session.recorder does not name yet.
StartRecording(n) == running' = [running EXCEPT ![n] = TRUE]

\* RecordAction and RecordActionEnd: nothing when the recording is over.
RecordAction(n, c) ==
    open' = IF IsRecording(n) THEN [open EXCEPT ![n] = @ \cup {c}] ELSE open
RecordActionEnd(n, c) ==
    open' = IF IsRecording(n) THEN [open EXCEPT ![n] = @ \ {c}] ELSE open

StartGroup(n, p) == groups' = [groups EXCEPT ![n] = Append(@, p)]
\* It ends the innermost group.
StopGroup(n) ==
    groups' = [groups EXCEPT ![n] = IF @ = <<>> THEN @ ELSE SubSeq(@, 1, Len(@) - 1)]

\* The events of the last chunk are dropped.
StartChunk(n) == open' = [open EXCEPT ![n] = {}] /\ clean' = (clean /\ Whole(n))
\* The zip of what is recorded so far.
StopChunk(n) == IsRecording(n) /\ clean' = (clean /\ Whole(n))

\* Stop: over even if the zip cannot be made; the video moves into it.
StopRecording(n, zipped) ==
    /\ running' = [running EXCEPT ![n] = FALSE] /\ clean' = (clean /\ Whole(n))
    /\ video' = IF zipped /\ video[n] = "file" THEN [video EXCEPT ![n] = "gone"] ELSE video

RemoveEngineFile(n) ==
    IF n = 0 \/ video[n] = "none" THEN video ELSE [video EXCEPT ![n] = "gone"]

\* StopRecordingVideo: whatever the browser says, the file is the recording's.
StopFilm(n) == IF video[n] = "filming" THEN [video EXCEPT ![n] = "file"] ELSE video

\* With a path the recording is delivered, its video moved into it; else, or if that
\* fails, the video is removed.
FinalizeRecordingOnClose(n) ==
    /\ running' \in {running, [running EXCEPT ![n] = FALSE]}
    /\ video' = IF StopFilm(n)[n] = "file" THEN [video EXCEPT ![n] = "gone"] ELSE video
\* The same, and nothing is asked of the browser: the file is taken as it is.
FinalizeRecordingOffline(n) ==
    /\ running' \in {running, [running EXCEPT ![n] = FALSE]}
    /\ video' = RemoveEngineFile(n)

----------------------------------------------------------------------------
\* OnClientMessage and its check of session.closed.
Begin(p, to) ==
    /\ Go(p, "idle", to) /\ ~closed /\ Cardinality(Begun) < MaxBegun
    /\ UNCHANGED <<locks, recordings, lastBox, ending, browser, rec, serial>>

----------------------------------------------------------------------------
(* dispatch                                                                *)

\* Mutant: every command waits its turn.
Unblocking_None(c) == FALSE
Unblocking(c) == c \in Unblockers

\* modelMu.RLock: a writer that waits keeps new readers out.
MayRead == modelMu # {Model} /\ pc[Model] # "lock"
Gate(c) ==
    /\ c \notin Tools /\ Go(c, "gate", "read")
    /\ IF Unblocking(c) THEN UNCHANGED modelMu
       ELSE MayRead /\ modelMu' = modelMu \cup {c}
    /\ UNCHANGED <<dispatchMu, recordingMu, recordings, lastBox, ending, browser, rec,
                   serial>>

ReadRecorder(c) ==
    /\ Go(c, "read", "check") /\ rec' = [rec EXCEPT ![c] = recorder]
    /\ UNCHANGED <<locks, recordings, lastBox, ending, browser, serial>>

CheckRecording(c) ==
    /\ Go(c, "check", IF c \in Tools \/ Unblocking(c) \/ ~IsRecording(rec[c])
                         THEN "note" ELSE "lock")
    /\ UNCHANGED <<locks, recordings, lastBox, ending, browser, rec, serial>>

Order(c) ==
    /\ Go(c, "lock", "note") /\ dispatchMu = NoOne
    /\ dispatchMu' = c /\ serial' = serial \cup {c}
    /\ UNCHANGED <<modelMu, recordingMu, recordings, lastBox, ending, browser, rec>>

\* CaptureRecordingSecrets, NextCallId and RecordAction: nothing if the recording was
\* stopped meanwhile.
NoteAction(c) ==
    /\ Go(c, "note", "run") /\ RecordAction(rec[c], c)
    /\ UNCHANGED <<locks, recorder, made, running, video, groups, clean, lastBox, ending,
                   browser, rec, serial>>

\* The handler's commands make the page open a prompt, which then stays open.
OpenPrompt(c) ==
    /\ c \notin Unblockers /\ Go(c, "run", "prompted")
    /\ alive /\ prompt = NoOne /\ prompt' = c
    /\ UNCHANGED <<locks, recordings, lastBox, ending, alive, rec, serial>>

\* SetLastElementBox, and the answer: of the browser, or that there is none.
Handle(c) ==
    /\ Go(c, "run", "end") \/ Go(c, "prompted", "end")
    /\ prompt' = IF c \in Unblockers THEN NoOne ELSE prompt
    /\ lastBox' \in IF c \in Unblockers THEN {lastBox} ELSE {lastBox, c}
    /\ UNCHANGED <<locks, recordings, ending, alive, rec, serial>>

\* The box goes with the action; the snapshots and secrets after it; RecordActionEnd; then
\* the deferred unlocks.
EndAction(c) ==
    /\ Go(c, "end", "done") /\ RecordActionEnd(rec[c], c) /\ lastBox' = NoOne
    /\ clean' = (clean /\ (/\ c \in serial /\ IsRecording(rec[c]) /\ lastBox \in serial
                           => lastBox = c))
    /\ modelMu' = modelMu \ {c}
    /\ dispatchMu' = IF dispatchMu = c THEN NoOne ELSE dispatchMu
    /\ serial' = serial \ {c} /\ rec' = [rec EXCEPT ![c] = 0]
    /\ UNCHANGED <<recordingMu, recorder, made, running, video, groups, ending, browser>>

Dispatch(c) ==
    \/ Gate(c) \/ ReadRecorder(c) \/ CheckRecording(c) \/ Order(c) \/ NoteAction(c)
    \/ Handle(c) \/ EndAction(c)

----------------------------------------------------------------------------
(* handleModelOperation                                                    *)

\* modelMu.Lock, first announced ("lock"), then dispatchMu.Lock.
ModelLocks ==
    /\ Go(Model, "lock", "order") /\ modelMu = {} /\ modelMu' = {Model}
    /\ UNCHANGED <<dispatchMu, recordingMu, recordings, lastBox, ending, browser, rec,
                   serial>>
ModelOrders ==
    /\ Go(Model, "order", "group") /\ dispatchMu = NoOne /\ dispatchMu' = Model
    /\ rec' = [rec EXCEPT ![Model] = recorder]
    /\ UNCHANGED <<modelMu, recordingMu, recordings, lastBox, ending, browser, serial>>

\* A page that cannot be resolved is an error; StartGroup, if there is a recording.
ModelBegins ==
    /\ \/ Go(Model, "group", "failed") /\ UNCHANGED groups
       \/ ~IsRecording(rec[Model]) /\ Go(Model, "group", "tools") /\ UNCHANGED groups
       \/ /\ IsRecording(rec[Model]) /\ Go(Model, "group", "grouped")
          /\ StartGroup(rec[Model], Model)
    /\ UNCHANGED <<locks, recorder, made, running, video, open, clean, lastBox, ending,
                   browser, rec, serial>>

ToolsEnded == \A k \in Tools : pc[k] \in {"idle", "done"}
\* Execute dispatches, and waits for the goroutine before it takes the reply.
Execute(k) ==
    /\ pc[Model] \in {"grouped", "tools"} /\ ToolsEnded /\ Go(k, "idle", "read")
    /\ serial' = serial \cup {k}
    /\ UNCHANGED <<locks, recordings, lastBox, ending, browser, rec>>

\* The model has made up its mind, or its time is over: StopGroup ends the innermost
\* group; the reply; the locks.
ModelEnds ==
    /\ pc[Model] \in {"grouped", "tools", "failed"} /\ ToolsEnded
    /\ pc' = [pc EXCEPT ![Model] = "done"]
    /\ IF pc[Model] = "grouped"
          THEN /\ StopGroup(rec[Model])
               /\ LET g == groups[rec[Model]]
                  IN clean' = (clean /\ g # <<>> /\ g[Len(g)] = Model)
          ELSE UNCHANGED <<groups, clean>>
    /\ modelMu' = {} /\ dispatchMu' = NoOne /\ rec' = [rec EXCEPT ![Model] = 0]
    /\ UNCHANGED <<recordingMu, recorder, made, running, video, open, lastBox, ending, browser,
                   serial>>

ModelStep == ModelLocks \/ ModelOrders \/ ModelBegins \/ ModelEnds

----------------------------------------------------------------------------
(* recording.start, stop, chunks and groups                                *)

Unlock(p) ==
    /\ recordingMu' = IF recordingMu = p THEN NoOne ELSE recordingMu
    /\ dispatchMu' = IF dispatchMu = p THEN NoOne ELSE dispatchMu
    /\ pc' = [pc EXCEPT ![p] = "done"]
    /\ rec' = [rec EXCEPT ![p] = 0]
    /\ UNCHANGED modelMu

\* beginRecordingOperation
MayRecord == ~closed
BeginRecording(p, to) ==
    /\ pc[p] = "recording" /\ recordingMu = NoOne
    /\ \/ ~MayRecord /\ Unlock(p)
       \/ /\ MayRecord /\ Go(p, "recording", to) /\ recordingMu' = p
          /\ UNCHANGED <<modelMu, dispatchMu, rec>>
    /\ UNCHANGED <<recordings, lastBox, ending, browser, serial>>

\* A recording that was stopped and not delivered is superseded, its video removed; the
\* viewport is asked for, an answer is not needed.
StartRecorder(s) ==
    /\ pc[s] = "make"
    /\ \/ IsRecording(recorder) /\ Unlock(s) /\ UNCHANGED <<made, running, video>>
       \/ /\ ~IsRecording(recorder) /\ Go(s, "make", "film")
          /\ made' = made + 1 /\ rec' = [rec EXCEPT ![s] = made + 1]
          /\ StartRecording(made + 1) /\ video' = RemoveEngineFile(recorder)
          /\ UNCHANGED locks
    /\ UNCHANGED <<recorder, open, groups, clean, lastBox, ending, browser, serial>>

\* CaptureRecordingSecrets, and StartRecordingVideo: off; filming; unavailable, which ends
\* a start that requires it.  A screencast of which no answer tells is nobody's.
StartRecordingVideo(s) ==
    /\ pc[s] = "film"
    /\ \E v \in IF alive THEN {"none", "filming"} ELSE {"none"} :
          /\ video' = [video EXCEPT ![rec[s]] = v]
          /\ \/ Go(s, "film", "install") /\ UNCHANGED <<locks, rec>>
             \/ v = "none" /\ Unlock(s)
    /\ UNCHANGED <<recorder, made, running, open, groups, clean, lastBox, ending, browser,
                   serial>>

InstallRecorder(s) ==
    /\ pc[s] = "install" /\ recorder' = rec[s] /\ Unlock(s)
    /\ UNCHANGED <<made, running, video, open, groups, clean, lastBox, ending, browser, serial>>

\* Mutant: stop, chunks and groups do not wait for the action under way.
Quiet_Always == TRUE
Quiet == dispatchMu = NoOne
AwaitActions(p, to) ==
    /\ Go(p, "order", to) /\ Quiet /\ dispatchMu' = p
    /\ UNCHANGED <<modelMu, recordingMu, recordings, lastBox, ending, browser, rec,
                   serial>>

ReadForStop(p) ==
    /\ pc[p] = "read"
    /\ \/ recorder = 0 /\ Unlock(p)
       \/ /\ recorder # 0 /\ Go(p, "read", "film") /\ UNCHANGED locks
          /\ rec' = [rec EXCEPT ![p] = recorder]
    /\ UNCHANGED <<recordings, lastBox, ending, browser, serial>>

StopRecordingVideo(p) ==
    /\ Go(p, "film", "zip") /\ video' = StopFilm(rec[p])
    /\ UNCHANGED <<locks, recorder, made, running, open, groups, clean, lastBox, ending,
                   browser, rec, serial>>

StopRecorder(p) ==
    /\ pc[p] = "zip"
    /\ LET n == rec[p]
       IN \/ ~IsRecording(n) /\ Unlock(p) /\ UNCHANGED <<running, video, clean>>
          \/ IsRecording(n) /\ StopRecording(n, FALSE) /\ Unlock(p)
          \/ /\ IsRecording(n) /\ StopRecording(n, TRUE)
             /\ Go(p, "zip", "clear") /\ UNCHANGED <<locks, rec>>
    /\ UNCHANGED <<recorder, made, open, groups, lastBox, ending, browser, serial>>

ClearRecorder(p) ==
    /\ pc[p] = "clear" /\ recorder' = 0 /\ Unlock(p)
    /\ UNCHANGED <<made, running, video, open, groups, clean, lastBox, ending, browser, serial>>

\* The handlers of chunks, of which a new one asks for the viewport, and groups.
EditRecording(e) ==
    /\ pc[e] = "edit" /\ Unlock(e)
    /\ \/ recorder = 0 /\ UNCHANGED <<open, groups, clean>>
       \/ recorder # 0 /\ StartChunk(recorder) /\ UNCHANGED groups
       \/ recorder # 0 /\ StopChunk(recorder) /\ UNCHANGED <<open, groups>>
       \/ recorder # 0 /\ StartGroup(recorder, e) /\ UNCHANGED <<open, clean>>
       \/ recorder # 0 /\ StopGroup(recorder) /\ UNCHANGED <<open, clean>>
    /\ UNCHANGED <<recorder, made, running, video, lastBox, ending, browser, serial>>

Start(s) ==
    \/ BeginRecording(s, "make") \/ StartRecorder(s) \/ StartRecordingVideo(s)
    \/ InstallRecorder(s)
Stop(p) ==
    \/ AwaitActions(p, "recording") \/ BeginRecording(p, "read") \/ ReadForStop(p)
    \/ StopRecordingVideo(p) \/ StopRecorder(p) \/ ClearRecorder(p)
Edit(e) == AwaitActions(e, "edit") \/ EditRecording(e)

----------------------------------------------------------------------------
(* closeSession                                                            *)

CloseSession ==
    /\ Go(Teardown, "idle", "probe") /\ closed' = TRUE
    /\ UNCHANGED <<locks, recordings, lastBox, stopped, browser, rec, serial>>

\* A browser that does not answer, or not within two seconds: nothing more is asked of it,
\* and nobody waits for it.
Probe ==
    /\ \/ alive /\ Go(Teardown, "probe", "recording") /\ UNCHANGED stopped
       \/ Go(Teardown, "probe", "offline") /\ stopped' = TRUE
    /\ UNCHANGED <<locks, recordings, lastBox, closed, browser, rec, serial>>

\* It drains the recording operation under way.  Mutant: it does not wait for it.
Drained_Always == TRUE
Drained == recordingMu = NoOne
LockRecording ==
    /\ Go(Teardown, "recording", "final") \/ Go(Teardown, "offline", "final")
    /\ Drained /\ recordingMu' = Teardown
    /\ UNCHANGED <<modelMu, dispatchMu, recordings, lastBox, ending, browser, rec,
                   serial>>

\* Then stopChan is closed, the connection, the browser.
Finalize ==
    /\ Go(Teardown, "final", "done") /\ stopped' = TRUE /\ recordingMu' = NoOne
    /\ \/ recorder = 0 /\ UNCHANGED <<running, video>>
       \/ recorder # 0 /\ ~stopped /\ FinalizeRecordingOnClose(recorder)
       \/ recorder # 0 /\ stopped /\ FinalizeRecordingOffline(recorder)
    /\ UNCHANGED <<modelMu, dispatchMu, recorder, made, open, groups, clean, lastBox, closed,
                   browser, rec, serial>>

BrowserDies ==
    /\ alive /\ alive' = FALSE /\ prompt' = NoOne
    /\ UNCHANGED <<locks, recordings, lastBox, ending, pc, rec, serial>>

----------------------------------------------------------------------------
\* A client closes the prompts it is told of.
BeginUnblocking(u) ==
    /\ pc[u] \in {"idle", "done"} /\ prompt # NoOne /\ ~closed
    /\ pc' = [pc EXCEPT ![u] = "gate"]
    /\ UNCHANGED <<locks, recordings, lastBox, ending, browser, rec, serial>>

Begins ==
    \/ \E c \in Commands : Begin(c, "gate")
    \/ \E p \in Stops \cup Edits : Begin(p, "order")
    \/ \E s \in Starts : Begin(s, "recording")
    \/ Begin(Model, "lock")
\* What is not up to the client, the page or the model.
GoroutineStep ==
    \/ \E u \in Unblockers : BeginUnblocking(u)
    \/ \E c \in Dispatched : Dispatch(c)
    \/ ModelStep
    \/ \E s \in Starts : Start(s)
    \/ \E p \in Stops : Stop(p)
    \/ \E e \in Edits : Edit(e)
    \/ Probe \/ LockRecording \/ Finalize
Next ==
    \/ Begins \/ GoroutineStep
    \/ \E c \in Dispatched : OpenPrompt(c)
    \/ \E k \in Tools : Execute(k)
    \/ CloseSession \/ BrowserDies

Spec == Init /\ [][Next]_vars

\* Who has a command with the browser, here or at the end of this step, is held up by a
\* prompt (an unblocker and getTree are not) and by a browser that died, until stopChan is
\* closed.  When the teardown has found the browser alive, only the timeouts are left: the
\* client's dismissals are no longer taken.
Asking == {"note", "run", "prompted", "end", "group", "make", "film", "edit"}
PastProbe == pc[Teardown] \in {"recording", "final"}
Held(p) ==
    /\ pc[p] \in Asking /\ ~stopped /\ ~PastProbe
    /\ ~alive \/ (prompt # NoOne /\ p \notin Unblockers \cup {Model})
TimesOut == \E p \in Procs : Held(p) /\ pc'[p] # pc[p]

\* Goroutines run, but no refusal or timeout is counted on; a client closes the prompts it
\* is told of, and the routing goroutine notices a dead browser.  No goroutine can take
\* steps for ever, so that fairness to all of them together is enough.
Fairness == WF_vars(GoroutineStep /\ ~TimesOut) /\ WF_vars(CloseSession /\ ~alive)

FairSpec == Spec /\ Fairness

----------------------------------------------------------------------------
(* Properties.                                                             *)

States ==
    {"idle", "gate", "read", "check", "lock", "note", "run", "prompted", "end", "done", "order",
     "group", "grouped", "tools", "failed", "recording", "make", "film", "install", "zip",
     "clear", "edit", "probe", "offline", "final"}

LocksOK ==
    /\ modelMu \subseteq Procs /\ serial \subseteq Procs
    /\ {dispatchMu, recordingMu, lastBox, prompt} \subseteq Procs \cup {NoOne}
\* Every start makes one recording at most.
MadeOK ==
    /\ made \in Nat
    /\ made <= Cardinality({s \in Starts : pc[s] \notin {"idle", "recording", "make"}})
RecorderOK == recorder \in 0 .. made
TapesOK ==
    /\ running \in [Recordings -> BOOLEAN]
    /\ video \in [Recordings -> {"none", "filming", "file", "gone"}]
ContentsOK == open \in [Recordings -> SUBSET Procs] /\ groups \in [Recordings -> Seq(Procs)]
FlagsOK ==
    closed \in BOOLEAN /\ stopped \in BOOLEAN /\ alive \in BOOLEAN /\ clean \in BOOLEAN
ControlOK == pc \in [Procs -> States]
ReadOK == rec \in [Procs -> 0 .. made]

\* Every variable keeps its type.
TypeOK ==
    /\ LocksOK /\ FlagsOK /\ ControlOK
    /\ MadeOK /\ RecorderOK /\ ReadOK /\ TapesOK /\ ContentsOK

\* While a model operation works, no dispatched command does but its tools and those that
\* unblock one.  (What the router answers or forwards without dispatching it, and
\* recording.start, do not wait for the model.)  And the group it records is its own: until
\* it ends it, it is the innermost of session.recorder, which nobody replaces, its tools
\* record there, and no action of another command is in it, but to unblock one, whatever
\* commands, starts, stops and edits of the client come and whatever the teardown does.
Working == {"read", "check", "lock", "note", "run", "prompted", "end"}
ModelWorks == {"order", "group", "grouped", "tools", "failed"}
Excludes == pc[Model] \in ModelWorks => \A c \in Commands : pc[c] \notin Working
OwnGroup ==
    pc[Model] = "grouped" =>
        /\ rec[Model] = recorder /\ groups[recorder] # <<>>
        /\ groups[recorder][Len(groups[recorder])] = Model
        /\ \A k \in Tools : pc[k] \in Working \ {"read"} => rec[k] = recorder
        /\ IsRecording(recorder) => open[recorder] \cap Commands = {}
ModelIsUndisturbed == Excludes /\ OwnGroup

\* A recording, or a chunk of it, that the client stops has the end of every action that
\* has a beginning in it, with its own element's box, and a group of a model operation
\* ends that group; commands that unblock another, and the teardown, do not wait.
RecordingsAreWhole == clean

\* When the session is closed no video of a recording is left on disk, or being filmed,
\* for want of somebody to deliver or remove it, however a start or a stop raced with it,
\* and no start that was queued makes another recording.
Live(n) == video[n] \in {"filming", "file"}
NothingIsLeftBehind ==
    pc[Teardown] = "done" =>
        /\ \A n \in Recordings : ~Live(n)
        /\ \A s \in Starts : pc[s] \notin {"make", "film", "install"}

(* What makes these hold; the proofs show it inductive. *)

\* The writer and the readers of modelMu.
GateInv ==
    /\ pc[Model] \in ModelWorks => modelMu = {Model}
    /\ \A c \in Commands : pc[c] \in Working => c \in modelMu

\* Who holds dispatchMu: a command whose action is recorded, or the model for its one
\* tool, whose group is then the innermost, or who ends or edits the recording.
OrderInv ==
    /\ \A c \in serial : dispatchMu = IF c \in Tools THEN Model ELSE c
    /\ \A c \in Commands \cap serial : pc[c] \in {"note", "run", "prompted", "end"}
    /\ serial \subseteq Commands \cup Tools
    /\ \A c \in Dispatched : pc[c] = "lock" => c \in Commands
    /\ \A k \in Tools : k \in serial <=> pc[k] \in Working
    /\ \A k, j \in Tools \cap serial : k = j
    /\ Tools \cap serial # {} => pc[Model] \in {"grouped", "tools"}
    /\ pc[Model] \in ModelWorks \ {"order"} => dispatchMu = Model
    /\ \A p \in Stops : pc[p] \in {"recording", "read", "film", "zip", "clear"} => dispatchMu = p
    /\ \A e \in Edits : pc[e] = "edit" => dispatchMu = e
GroupInv ==
    pc[Model] = "grouped" =>
        LET g == groups[rec[Model]]
        IN rec[Model] \in Recordings /\ g # <<>> /\ g[Len(g)] = Model
WholeInv == OrderInv /\ GroupInv /\ clean

\* A recording that runs is session.recorder's when the model reads it and stays so while it
\* works, and has open what is under way; a start in progress has found none.
ModelReads == {"group", "grouped"}
RunsInv ==
    /\ \A s \in Starts : pc[s] \in {"film", "install"} => ~IsRecording(recorder)
    /\ pc[Model] \in ModelReads /\ IsRecording(rec[Model]) => rec[Model] = recorder
    /\ pc[Model] = "grouped" => IsRecording(rec[Model]) \/ pc[Teardown] = "done"
    /\ pc[Model] = "grouped" => rec[Model] = recorder
ToolsInv ==
    pc[Model] = "grouped" =>
        \A k \in Tools : pc[k] \in Working \ {"read"} => rec[k] = recorder
OpenInv ==
    \A n \in Recordings : running[n] \/ n > made =>
        \A c \in Commands \cap open[n] : pc[c] \in {"run", "prompted", "end"} /\ rec[c] = n

\* Who holds recordingMu, and no recording begins or ends when the session is closed.
SectionInv ==
    /\ \A s \in Starts : pc[s] \in {"make", "film", "install"} => recordingMu = s
    /\ \A p \in Stops : pc[p] \in {"read", "film", "zip", "clear"} => recordingMu = p
    /\ pc[Teardown] = "final" => recordingMu = Teardown
    /\ pc[Teardown] = "done" =>
          /\ \A s \in Starts : pc[s] \notin {"make", "film", "install"}
          /\ \A p \in Stops : pc[p] \notin {"read", "film", "zip", "clear"}
    /\ closed <=> pc[Teardown] # "idle"

\* A video is session.recorder's, or of the recording that is being started.
VideoInv ==
    /\ \A n \in Recordings : Live(n) =>
          \/ n = recorder /\ pc[Teardown] # "done"
          \/ \E s \in Starts : pc[s] \in {"film", "install"} /\ rec[s] = n
    /\ \A s \in Starts : pc[s] \in {"film", "install"} =>
          rec[s] \in Recordings \ {recorder} /\ (recorder # 0 => ~Live(recorder))
    /\ \A p \in Stops :
          /\ pc[p] \in {"film", "zip", "clear"} => rec[p] = recorder /\ recorder # 0
          /\ pc[p] = "zip" => video[recorder] # "filming"
          /\ pc[p] = "clear" => ~Live(recorder)
LeftInv == SectionInv /\ VideoInv

\* Nobody waits for ever: commands end, with prompts, a model operation, recordings and a
\* teardown in their way, and a dead browser ends the session.  Nor does anybody need a
\* timeout, but the teardown: its probe's two seconds, and, when the probe was answered,
\* those of what a prompt left open, or a browser that dies then, holds up.
EverythingEnds ==
    <>[](/\ \A p \in Procs \ {Teardown} : pc[p] \in {"idle", "done"}
         /\ ~alive => pc[Teardown] = "done")
=============================================================================
