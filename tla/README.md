# Vibium in TLA+

Specifications of Vibium's Go program (`clicker/`): how a browser's replies and events
find whoever asked, which goroutine of a session waits for which, how recordings,
transports and sessions end, how command line processes find, start and stop the
background daemon, how the BiDi client survives a dying browser, what the agent's tools
share, and what every page command does to a page that changes under it. TLC checks each
on a small instance; TLAPS proves the safety properties of all of them for every value of
their constants, two of them by refinement.

Paths below are relative to the repository. `PROJECT.json` maps every definition to the
lines it models and lists the hazards of the code.

## 1. The system

| Component | State it keeps | Operations | Talks to |
|---|---|---|---|
| Session router, `internal/api/router.go` | `sessions` map; per session `closed`, `stopChan`, `nextInternalID`, `internalCmds`, `abandonedInternal` | `OnClientConnect`, `OnClientMessage`, `OnClientDisconnect`, `dispatch`, `sendInternalCommandWithTimeout`, `routeBrowserToClient`, `closeSession`, `CloseAll` | a client transport, the browser's BiDi connection |
| Client transports, `internal/api/pipe.go`, `server.go` | unbounded queue, `closed`, `done` | `Send`, `writeLoop`, `Close`; `handleClient` reports disconnects | called by every goroutine of the router |
| Daemon life cycle, `internal/daemon`, `cmd/clicker/daemon_client.go`, `daemon_cmd.go` | PID file, socket file, the process | `Run`, `Shutdown`, `CleanStale`, `IsRunning`, `callDaemonWithAutoStart`, `shutdownDaemonAndWait` | other processes, through two files and a socket |
| Daemon request server, `internal/daemon/router.go` | `d.mu`, `wg`, `lastActivity`, `shutdownOnce` | accept, handle, idle watch | the agent's tools |
| BiDi client, `internal/bidi/session.go`, `connection.go` | `pending`, `readerDone`, event channel; `closed`, `mu`, `done` | `SendCommandWithTimeout`, `readLoop`, `dispatchEvents`, `Close`; `Send`, `Receive`, `Close` | the browser |
| Event routing, `prompt.go`, `navigation.go`, `capture_registry.go`, `download_registry.go`, `handlers_dialog.go`, `handlers_capture.go`, `handlers_download.go` | open prompts, navigations, pending captures, downloads, the dialog policy | `Observe`, `wantsPrompt`, `offer`, `autoDismissContext`, `Await`, `WaitForSettled`, a capture command | on the router's routing goroutine; handlers wait for it |
| Model operations, `model_operations.go` | `modelMu`, `dispatchMu`, `modelContext`, `modelReplies` | `handleModelOperation`, `apiModelTools.Execute` | issue commands of the same session |
| Recording, `recording*.go`, `handlers_recording.go` | `recordingMu`, `session.recorder`; per recorder `recording`, open actions, `groupStack`, the video | start, stop, chunks, groups, `FinalizeRecordingOnClose`, `FinalizeRecordingOffline` | commands record themselves; the teardown ends it |
| Page command handlers, `handlers_*.go`, `actionability.go`, `helpers.go` | none between commands | one handler per command, made of library steps: resolve, check, act, poll | the browser, by scripts and input |
| Network interception, `route_registry.go`, `handlers_network.go` | routes, intercept ids | add, remove, match | browser |
| Exposed functions, `handlers_expose.go`; WebSocket channels, `handlers_websocket.go` | preload ids, channels | expose, remove | browser |
| Agent and MCP server, `internal/agent` | `Handlers`: the browser, current page and frame, `pageOverride`, reference maps, owned user contexts | one tool per call, lazy launch, `Close` | BiDi client, the page library of `internal/api` |
| Verifier, `internal/verifier` | budget, trace | check loop, tool fence | a language model |
| Browser launch, `internal/browser` | temp dirs, processes | launch, kill, orphan sweep | the system |

Two programs share these parts. `vibium pipe` and `vibium serve` give a client library a
transport, and the router bridges it to a browser. `vibium <command>` calls a daemon,
which runs the agent's tools on one browser over the BiDi client.

What is hard, component by component, and what makes it correct:

- **Router.** Five kinds of goroutine share a session, and the reader of the browser
  connection serves them all. Replies are matched by number only. A reply must reach the
  caller of its own command, a late one must not reach the client, the routing goroutine
  must never block, one of several closers tears down, handlers end though the browser
  never answers, and a dead browser ends the session.
- **Transports.** Senders race a writer that works with the lock released and several
  callers of `Close`. Nothing taken is dropped or reordered, `Close` drains, a stalled
  client holds nobody up, and its loss is reported.
- **Daemon.** Processes coordinate through files without a lock; any of them may be
  killed. One daemon serves, what serves can be found, stale files cost nothing, `stop`
  means stopped, and every command ends.
- **BiDi client.** A response races its timeout and the reader's death. A response that
  was routed is returned, nothing leaks, and calls and `Close` end.
- **Event routing.** One goroutine reads what happened in the page; captures, dismissals,
  downloads and screenshots act on what it knew some steps ago. What it keeps of the page is
  what the events say, a capture gets the first event that is its own, the router dismisses
  a prompt nobody claims and none that somebody does, and every waiter returns.
- **Locks and recordings of a session.** `modelMu`, `dispatchMu` and `recordingMu` are held
  across exchanges with a browser that a prompt may block. A model operation is not
  disturbed, recordings have the end of each action they have the beginning of, no video is left, and
  nobody waits for ever.
- **Page commands.** The page changes between two steps of a command. Input lands on what
  was aimed at, "ok" means done where the code reads the outcome, waits tell the truth.
- **Agent.** What the tools remember outlives pages, frames and browsers. Calls act where
  they were told, nothing of a lost browser is remembered, everything started is held by
  somebody who is to end it.

## 2. Modules

| Module | Models | Modelled steps |
|---|---|---|
| `CommandRouter` | one session of `router.go` | one per critical section, channel operation or blocking call |
| `RequestReply` | what a session promises its client | ask, answer, refuse, hang up |
| `ClientTransport` | `pipe.go` and `server.go` (constant `WebSocket`) | one per critical section, write or wait |
| `FifoDelivery` | what `ClientTransport.Send` and `Close` promise the router | take, deliver, close, break |
| `DaemonLifecycle` | CLI and daemon processes of one session name | one per system call on a file, socket or process |
| `DaemonServer` | one daemon process: `daemon.go` and `router.go` of `internal/daemon` | one per system call, critical section or wait |
| `DaemonPromise` | what a daemon that exits owes its clients and the machine, on the part of `DaemonServer`'s state this is about | none: `DaemonServer` extends it |
| `BidiClient` | `session.go` on `connection.go` | one per critical section, channel operation or blocking call |
| `EventRouting` | the routing goroutine's work on events and whoever waits for them, for one page | one per critical section, event read or exchange with the browser |
| `SessionGate` | `dispatch`, model operations, recordings and the teardown, by the locks they take | one per lock, unlock, critical section of the recorder or exchange with the browser |
| `PageSteps` | the library of `internal/api` that page commands are made of | one per call that may find the page changed |
| `PageCommands`, `AgentTools` | the router's handlers, the agent's tools, as programs of `PageSteps` | |
| `AgentSession` | `internal/agent`: `Handlers` and `Server.Close` | one per exchange with the browser |
| `CommandRouterProofs`, `ClientTransportProofs`, `DaemonProofs`, `BidiClientProofs`, `EventRoutingProofs`, `SessionGateProofs`, `PageStepsProofs`, `AgentSessionProofs` | theorems; `DaemonProofs` has those of both daemon modules | |
| `MC...` | instances for TLC | |

The modules meet in the code at these places. A handler of `CommandRouter` is any sequence
of internal commands; `PageCommands` says which, and `SessionGate` which locks surround it.
`CommandRouter`'s loop forwards what `EventRouting`'s has looked at; both are
`routeBrowserToClient`, one for replies and one for events. `closeSession` is in
`CommandRouter` by who runs it and what it closes, in `SessionGate` by what it does to the
recordings. The router sees a client as `FifoDelivery` promises, which is what
`ClientTransport` is shown to implement. `DaemonServer`'s tool calls run the agent's tools
under `d.mu`, so `AgentSession` has one call at a time; they send through `BidiClient`.

**`CommandRouter`.** `rpc` is the control of `OnClientMessage`, `lpc` that of
`routeBrowserToClient`, `pc[c]` that of a handler goroutine or of a goroutine running
`closeSession`; a handler is any sequence of internal commands, which is what every
`vibium:` handler is to the router. A message is its id and, as a ghost, the actor whose
command it answers. `internalCmds` is the set of registered ids and `buffered` what lies
in their one-slot channels. The loop looks an id up (`LoopLookup`) and uses the result
later (`LoopDeliver`), as the code does after it unlocks. The browser answers in any
order (`LoopReceive` takes any command at the browser), or never, and may die. A handler
may read the session from the map before a teardown and go on after it
(`ReaderLoad`, `ReaderCheckClosed`, `ReaderPass`). A send, and the closing of the
connection, are steps that may never come: `Connection.Send` writes under a mutex without a
deadline, and the reply's timer starts after it. `SessionSettles` has as its hypothesis that
they do (`SendsEnd`), which is what `BidiClient` shows of a browser that does not stay frozen.

**`ClientTransport`.** `batch` is what `writeLoop` took out of the queue and writes with
the lock released. `peer` is the process at the other end; a stalled one makes a WebSocket
write fail at its deadline and blocks a pipe write, so `CloseReturns` and `FailureIsReported`
are about the WebSocket. TLC runs the WebSocket; the theorems hold for both.

**`DaemonLifecycle`.** `pc` is the control of each process between two system calls;
`pidFile` and `sock` are the two files. A socket file is identified with the listener that
made it: a dial succeeds if that process still listens. The code's
time-outs (5 s for a start, 10 s for in-flight commands, 60 s for an answer) are taken to
be long enough: they fire only when what they wait for can no longer happen. The exception
is the 10 s that `vibium daemon stop` waits for the daemon to be gone, which a browser that
closes slowly outlasts: `StopGivesUp` is that exit.

**`DaemonServer`.** `run` is the control of `Daemon.Run`, `conn[c]` that of the goroutine
that handles a connection, `spc` that of `Shutdown`, which the signal handler, the idle
watcher or a `daemon/shutdown` request starts and `shutdownOnce` runs once. `Handling` is
what `d.wg` counts. A tool call is what the code does under `d.mu` around the agent's
handlers: direct the launch notice at this connection, launch a browser if there is none,
end. `late` is a ghost: the connections whose goroutine `Run` started when `Shutdown` had
waited already. Here, unlike in `DaemonLifecycle`, the 10 s may pass at any time. Nothing
bounds how long a tool keeps `d.mu`: a send to a frozen browser has no deadline, nor has the
download of an engine. `HandlersReturn` is the hypothesis that it comes back.

**`BidiClient`.** A command is its caller, for ids come from an atomic counter.
`Connection.mu` is a variable because a frame is written under it; the browser may freeze
(read nothing) and resume, or go away.

**`EventRouting`.** `wire` is what the browser has sent of events and the loop has not read;
`lpc` says how far the loop is with one: the trackers, the dismissal (policy, then captures),
the captures. A dismissal the loop has decided on (`dismissals`) is sent by a goroutine of
its own, whenever that runs, by which time a capture may have registered; or it is not sent,
because the operation context of a model is over or the send fails (`lost`). It is then a
command that names no prompt (`commands`); the browser executes it when it will. `cap`, `pending` and `filled` are the three places a capture is
in: its command's goroutine, the registry, its one-slot channel. `shot` is the screenshot of
a recorded action, which may time out and wait for the page to settle. `due` is a ghost: the
first event a capture should get.

**`SessionGate`.** `pc[p]` is the control of the goroutine of a command, of
`handleModelOperation`, of a recording operation or of `closeSession`. `modelMu` is its set of
readers, or its writer; as in Go, a writer that waits keeps new readers out (`MayRead`). A
prompt that a command opens holds up every command but those that `unblocksAnotherCommand`
names, and what recordings ask the browser under their locks: the viewport, the screencast,
the secrets before and after an action, its snapshots. What is held up may be refused at
once, if the prompt was known, or time out, at any moment (`Held`); no fairness is assumed of
that, unless the teardown's probe was answered, for the client's dismissals are not taken any
more then. The probe's own two seconds may pass though the browser is alive. A recording is a number; `open` is the set of actions that have a beginning in its
current chunk and no end. `rec[p]` is the recorder a goroutine read and still uses, though
`session.recorder` may have changed. The video of a recording is being filmed, a file, or
gone. `clean` is a ghost: it turns false when something is delivered that lacks the end of an
action `dispatchMu` was held for, when an action takes the element box of another one whose
turn it is, or when a model operation ends a group that is not its own. Every `Finalize...` outcome is the
code's: with a path or without, zip made or not.

**`PageSteps`, `PageCommands`, `AgentTools`.** A program is a sequence of steps such as
`<<"forClick", "pointer">>`: resolve an element with the checks of a click, then send input
to the point that was sampled. An element has a spot, spots may be covered or out of view,
and `Change` moves, hides, covers, disables, toggles or replaces elements between any two
steps; `Navigate` takes the scripts' realm away for a while; `Cancel` ends the model
operation a command is part of, which ends its polls for a condition and not its waits for an
element. An element may be `Inert`: it takes neither the focus nor a value. An "inject" step
is a script whose exception is not looked at. One run executes every program of the handlers and tools.
Elements in a shadow root are found only where the code's script pierces.

**`AgentSession`.** `call` and `pc` are the tool call being handled and how far it is,
`source`, `context` and `listed` what it has read from a browser that goes on. `pageOverride`
is the page a call is pinned to. `closing` is `Server.Close`, which waits two seconds for the
call slot and then goes ahead; `Exit` ends the process, after that or, when two callers of
`Close` meet or a call goes on without a client, in the midst of it ("cut"). `endpoint` is
what a launch leads to: a process, a classic WebDriver session, or a BiDi endpoint, where
the session is ours or another's. `late` is a ghost: launches that `Close` did not wait for.
Contexts are numbered as they open, which is the order the
browser lists pages in; an index argument is any page of the list that was read. `moved`, `shaky`, `astray` and `orphan` are ghosts for the
exceptions the properties state; `dropped` is a remote session whose connection died.

## 3. Runs

Each run asks one question; the constants are in its `.cfg`, and an `MC` module gives the
values a `.cfg` cannot.

| Run | Question | Outcome |
|---|---|---|
| `router` | Do replies reach their callers, and nobody else, when a handler, a plain BiDi command, a disconnect and `CloseAll` race time-outs, late replies and a dying browser; does the client see what `RequestReply` promises; does everything end? | holds, if sends to the browser end |
| `transport_socket` | Is the WebSocket transport an ordered delivery that drains, that a stalled client cannot hold up, with three callers of `Close`? | holds |
| `daemon_sequential` | With commands that run one after another, and daemons stopped and killed at any point: is there one daemon, can it be found, do stale files cost nothing, is the daemon gone when a stop has waited for it, does every command end? | holds, but for a stop that gives up |
| `daemon_idle` | Is a serving daemon reachable when another one shuts down on its idle time-out? | violated |
| `daemon_server` | Are requests finished and the browser closed before the process ends, and does it end? | holds, but for handlers that outlast the 10 s or start after the wait; ends if handlers return |
| `daemon_browser` | Does the process never leave a browser behind? | violated |
| `bidi_client` | Is a routed response returned, is nothing left behind, do calls and `Close` end, is a dead browser noticed? | holds, if a frozen browser thaws |
| `bidi_frozen` | Does a send fail rather than hang when the reader is gone? | violated |
| `session_events` | Is what the routing goroutine keeps of the page what the events say, do captures get the first event that is theirs and keep their prompts, do the other prompts end, does every waiter return? | holds, but for dismissals not sent and captures that time out |
| `page_commands` | For every handler and page tool: does input land on what was aimed at, does success mean done, do answers tell the truth? | holds, with the exceptions of section 4 |
| `agent_session` | Do calls act where they were told, is nothing of a lost browser, or of a page the tools closed, remembered, is everything that was started held by somebody who is to end it? | holds, with the exceptions of section 4 |
| `session_gate` | Does the model work undisturbed, in a group of its own, are recordings delivered whole, is no video left behind, does nobody wait for ever, or need a time-out? | holds; the teardown may need time-outs |

No run looks for deadlock: goroutines end, and a program whose client asks nothing waits.
That nobody waits for ever is stated where it matters, as `SessionSettles`, `CloseReturns`,
`CommandsEnd`, `CallsEnd`, `RequestsEnd`, `ShutdownEnds`, `WaitersEnd` and `EverythingEnds`.

### Bounds

Every bound is a constant that only a guard mentions, and the theorems hold for all its
values.

- `router`: `MaxInternal` = 3 internal ids, `MaxCommands` = 1 internal command of the
  handler (the closers' probes use ids too), `MaxBegun` = 2 of the handler's command, the
  plain command and `CloseAll` begun in a behaviour, besides a disconnect. A confusion of
  replies takes two commands, one of them late; a race of closers takes two and the loop.
- `transport_socket`: two messages and three sends, so that one is in the batch being
  written, one in the queue and one too late; three closers, since the first waits for the
  writer, the others for what the first did.
- `daemon_sequential`: three commands, a stop, three daemons, two crashes: a daemon that
  dies, one that finds its files and dies too, one that finds those. The idle time-out is
  left out, since `daemon_idle` shows what it does; that run needs two of each.
- `daemon_server`: two tool calls, one that holds `d.mu` and one that waits, and a request
  to stop, which with the signal and the idle watcher makes three callers of `Shutdown`.
- `bidi_client`: one call, since calls share nothing but the maps (which are per id) and
  `Connection.mu`, for which `Close` and the reader compete with it; `bidi_frozen` has two.
  Two events for a channel of one: one is dropped or not.
- `session_events`: two prompts, one of which may be claimed, two navigations, which may
  overlap, one download, `MaxActivity` = 3 of them in one behaviour. Two prompts are what it
  takes for a dismissal to close one that is not its own. That it may be two after its own
  needs three, which the theorem about it allows for.
- `page_commands`: two elements, one in a shadow root; three spots, the second of them on
  another screenful; `MaxChanges` = 2 changes of the page within one command, which is what
  a check that is right once, wrong and right again takes; `MaxTries` = 1 poll that finds
  the condition false. Every program has at most a handful of steps, and all are run.
- `agent_session`: `MaxContexts` = 3, a page, its frame and another page; `MaxLaunches` = 2,
  the browser lost and its successor; `MaxEvents` = 1 thing that happens to the browser of
  its own accord, at any point of any call. After the server was closed only the calls that
  start or end a browser begin (a guard of `Call`): the others change nothing that
  `NothingLeaks` is about, and the other properties speak of a server that runs.
- `session_gate`: `MaxBegun` = 3 goroutines out of two commands, two starts, a stop, an edit
  and a model operation, with an unblocking command and the teardown in addition. The
  hazards are between two of them and the teardown; three make a writer wait for a reader
  while another reader arrives. An unblocking command's own snapshots are not held up by a
  further prompt: it holds no lock by then, and the client would dismiss that one with another
  command, for which a second goroutine would be needed.

No run uses symmetry: there are few actors of a kind, and most runs check liveness.

### Fairness

- `router`, `session_gate`, `session_events`: one weak fairness over the steps of all
  goroutines and timers together. That is enough since none of them can take steps for
  ever: each handler, closer and capture is a bounded program. Nothing makes the browser
  answer: `LoopReceive` is not part of it, so that a handler ends by its time-out. Nor do
  sends end by fairness (`SendsEnd` is a hypothesis). In
  `router` a dead transport leads to `OnClientDisconnect` (`server.go:308-343`). In
  `session_gate` a client closes the prompts it is told of, and a dead browser leads to
  `CloseSession`; in `session_events` the client closes the prompts it claimed. A client
  that leaves a prompt open keeps its own commands waiting, and has asked for that. Steps of
  `session_gate` by which somebody who is held up is refused or times out are not fair, until
  the teardown has had the answer to its probe.
- `transport_socket`: the writer and the callers of `Close` run, and the reader notices a
  failed connection and reports it. The other end need not read: the write deadline is part
  of the writer's step.
- `bidi_client`: weak fairness for callers, reader and closers, strong fairness for taking
  `Connection.mu`, since Go's mutexes do not starve a waiter, and for what a frame's writer
  does with a browser that reads again and again. That a browser does not stay frozen is a
  hypothesis of the properties (`Thaws`); `bidi_frozen` has none.
- `daemon_sequential`, `daemon_server`: processes and goroutines run on, and tools and the
  closing of the browser end or not: that they do is the hypothesis `HandlersReturn`, whether
  before or after the 10 s of `Shutdown` is open. A connection takes `d.mu` twice at most, so
  that nobody waits for it for ever.
- `page_commands` and `agent_session` state safety only.

## 4. Where the code and the words differ

Shown by runs:

- **Idle shutdown takes the successor's files** (`daemon_idle`). `Shutdown` closes the
  listener first and removes the socket and the PID file last, whoever's they are by then
  (`daemon.go:136`, `155`, `159`). A command that comes in between starts a daemon that
  nobody can reach or stop afterwards.
- **A tool that outlasts the wait of `Shutdown` leaves a browser** (`daemon_browser`). It
  takes `d.mu` after the browser was closed, finds none and launches one, which the end of
  the process leaves behind (`daemon.go:112`, `148`).
- **A frozen browser hangs senders** (`bidi_frozen`). `Connection.Close` writes a frame
  under the lock a blocked write holds (`connection.go:101-109`, `143-147`), so that a send
  hangs where `session.go:102` says it fails.

Met while modelling, and stated as exceptions or hypotheses of the properties:

- A client id from 1000000 on may be one the router has in use (`router.go:1058`); its reply
  is then the internal caller's. `router_test.go:10` says that clients own their ids.
  `IdsDisjoint` is the hypothesis.
- Two first commands at once each find no daemon and each start one (`daemon_cmd.go:262`,
  `daemon.go:76-89`). `Sequential` is the hypothesis of `daemon_sequential`.
- `vibium daemon stop` waits 10 s and then says that the daemon stopped, and returns no error,
  whether or not it did (`daemon_cmd.go:204-214`); the comment above it says that it waits for
  the process to exit fully (`daemon_cmd.go:187-188`). `Shutdown` alone may take 10 s and then
  the closing of the browser. `StopIsComplete` is about the stops that saw the daemon go.
- A signal before `Listen` uses `shutdownOnce` up with no listener to close, and every later
  `Shutdown` returns at once: the process serves until it is killed. `ShutdownEnds` begins
  with a listener.
- A capture whose wait times out between `wantsPrompt` and `offer` leaves a prompt that
  nobody closes, and so does a dismissal that is not sent, because the context of a model
  operation was over (`router.go:1197-1203`) or the send failed; `PromptsEnd` leaves these
  out (`Abandoned`). A dismissal decided upon is sent whatever has registered since
  (`router.go:1110-1111`): that a capture which gets a prompt decides over it is so for
  those registered when the prompt opened (`CaptureDecides`). A dismissal names a context, not a prompt, so
  that it may close another one than its own if the client closed that one, or one before
  it, in the meantime (`DismissesItsOwn`).
- Of two overlapping navigations of a page the first to end removes the one entry the
  tracker has for it.
- Commands that unblock others, and the end of the session, do not take `dispatchMu`: a
  recording that is stopped or finalized meanwhile lacks the end of theirs, and an unblocking
  command may take the element box of a click. A browser that dies after the teardown's
  probe, or a prompt that is open then, costs the teardown time-outs of up to a minute, under
  `recordingMu`, where a start may be asking for the viewport; an alive browser that needs more
  than two seconds to answer the probe is taken for dead (`router.go:1297-1301` says so); a `startScreencast` whose answer is lost films for
  nobody until the session ends; a zip that fails leaves a stopped recorder installed.
- Waits for elements (`handlers_state.go:417-476`, `1030-1073`,
  `handlers_elements.go:401-435`) take the error of a cancelled model operation for one more
  failed poll, and go on to their own deadline; those for URLs and load states do so, too.
  `waitFor` with "hidden" or "detached" takes any error for absence (`broke` in
  `AnswersAreTrue`).
- `dragTo` samples its source before the target is scrolled into view, and does not look at it
  again (`handlers_interaction.go:394-407`, `1063-1073`): `ActsOnTarget` says nothing of where
  a drag begins. `addScript`, `addStyle`, `setContent` and other injected scripts answer "ok"
  though the script threw: `checkBidiError` (`helpers.go:44-57`) does not look at
  `result.type`; `focus` answers "ok" of an element that cannot be focused, and so does a fill
  of one whose value does not stay. `OkMeansDone` leaves these out. Annotated
  screenshots leave their overlays when the capture fails. `setCookies` validates a cookie
  when those before it are set. `FocusElement` and `dispatchEvent` do not read the result of
  their script, and `caretToEnd` does not fail on an element that is gone. Finders by plain
  selector do not look into shadow roots, though `pierce.go:3` speaks of all of them.
- A pinned `browserFrame` sets the current context of everybody, with the older parent
  (`handlers.go:141-143`). `browserClosePage` without an argument, in a frame, closes the
  first page (`schema.go:360` says the current one). `browserMap` picks its page twice.
  A page that closes of its own accord stays the current one until a call fails on it;
  `CurrentIsAlive` is about those that `close_page` closes.
- `Server.Close` runs under a call that takes longer than two seconds (`server.go:345-357`),
  and a browser which that call launches afterwards is nobody's: the process exits
  (`mcp_cmd.go:119-123`) and the browser stays. `NothingLeaks` says that this, and a session
  that `browserQuit` had in hand, is all that stays. With a signal at the end of the input
  there are two callers of `Close`; the second waits two seconds, finds nil fields and exits
  under the first. A call that goes on may dereference the nil client (`handlers.go:3137`),
  which ends the process. Of a `Close` cut short like this nothing is claimed.

## 5. Proofs

TLAPS checks these for every value of the constants, from the named assumptions alone. Each
safety theorem goes the same way: `Init` establishes an invariant, every action keeps it,
and it implies the property; a lemma `Step...` has one step per action.

| Module | Proved | By |
|---|---|---|
| `CommandRouterProofs` | `TypeOK`, `RepliesReachTheirCaller`, `InternalRepliesStayInside`, `LoopNeverBlocksOnCaller`, `TeardownInOrder`, `KeepsPromise` | `RouterInv`, `CloseInv`, `AnswerInv` |
| `ClientTransportProofs` | `TypeOK`, `NothingDropped`, `CloseDrains`, `SocketOutlivesWriter`, `Delivers` | `DrainInv`, `WriterStops` |
| `BidiClientProofs` | `TypeOK`, `RoutedIsReturned`, `NothingLeaks`, `DoneClosedOnce`, `EventsInOrder` | `ResponseInv`, `ReaderInv`, `CloseInv` |
| `DaemonProofs`, of `DaemonLifecycle` | `TypeOK`; if `Sequential` and not `IdleTimeout`: `OneDaemon`, `ServingIsReachable`, `FailsOnlyByCrash`, `StopIsComplete` | `OneAtATime`, `Attended`, `FilesInv`, `CallerInv`, `StopperInv` |
| `DaemonProofs`, of `DaemonServer` | `TypeOK`, `NoticeGoesToLauncher`, `RequestsAreFinished`, `BrowserIsClosed` | `LockInv`, `WaitInv`, `ClosedInv` |
| `EventRoutingProofs` | `TypeOK`, `CaptureGetsFirst`, `CaptureDecides`, `TrackersAreCurrent`, `DismissesItsOwn` | `RegistryInv`; `NavInv`; `ToldInv`; `OnceInv`, `LateInv`; `ParkInv` |
| `SessionGateProofs` | `TypeOK`, `ModelIsUndisturbed`, `RecordingsAreWhole`, `NothingIsLeftBehind` | `GateInv`, `RunsInv`, `ToolsInv`, `OpenInv`; `WholeInv`; `LeftInv` |
| `PageStepsProofs` | `TypeOK`, `ActsOnTarget`, `AnswersAreTrue`, `OkMeansDone` | `PageInv`, `InfoInv`, `FocusInv`, `DoneInv` |
| `AgentSessionProofs` | `TypeOK`, `ActsWhereTold`, `CurrentIsAlive`, `NothingLeaks` | `PinInv` and `TargetInv`; `FramesInv`, `PastInv`, `LeaveInv` and `StrayInv`; `OwnerInv` |

Why the invariants say what they say:

- **Router.** That a caller gets its own reply is not inductive: replies travel, from the
  browser to the loop's hands to a one-slot channel. `CorrelationInv` says of each of those
  places that a reply with an internal id belongs to the caller that holds the id;
  `SingleReplyInv` that an internal command has one reply in one place, so that its channel is
  empty when the loop delivers, which is why the loop never blocks; `LateReplyInv` that a
  reply still out is registered or remembered as abandoned, at each point between the loop's
  two lookups. These need `IdsDisjoint`. `CloseInv` is about who tears down: one closer
  between the claim and the close of `stopChan`. `KeepsPromise` is the refinement of
  `RequestReply`: `AnswerInv` says that a client command nobody has answered is with exactly
  one of the reader, its handler, the browser and the loop, so that no two answer it. It
  does without `IdsDisjoint`, since an answer that goes astray is an answer less, not one
  more.
- **Transport.** `DrainInv` says that what was taken is what was sent, what the writer holds
  and what is queued, in that order, until a write fails, and what the writer has seen when
  it ends. The refinement of `FifoDelivery` maps each of `Send`, a write, the close and a
  failure to a step of it, and the writer's private steps to none.
- **BiDi client.** `ResponseInv` follows a response from `routed` to its caller through the
  window in which the reader dies: a caller that sees the death looks once more into its
  channel. `ReaderInv` says that whoever saw the reader gone is right, and that it routes
  nothing any more. `EventsInOrder` is inductive as it stands: it is about what was handled
  followed by what is queued, which only an arriving event changes.
- **Daemon life cycle.** The theorems are about commands that run one after another and a
  daemon without idle time-out, for any number of daemons, commands and crashes; without
  the first two commands may each start a daemon, without the second `daemon_idle` refutes
  `ServingIsReachable`. That there is one daemon is not inductive, since nothing a daemon
  reads tells it that there is no other. `Attended` is what does: a daemon that does not serve
  yet has a caller that waits for it, and one that shuts down a stopper, so that the one
  client at a time leaves no room for a second daemon (`OneAtATime`). `FilesInv` then says
  whose the two files are at each point, `CallerInv` that what a caller waits for exists
  unless it was killed, and `StopperInv` that a stopper watches the daemon it asked.
- **Daemon server.** `WaitInv`: after `wg.Wait` only handlers that `Run` started later are
  in flight; `ClosedInv`: with none of those a closed browser stays closed.
- **Events.** `RegistryInv` says that a capture is in the registry exactly while it waits and
  has got nothing, whichever of expiry, cancellation and routing comes first, so that the
  first event that matches meets it there, and later ones do not.
  The trackers: `NavInv` says of the last navigation event on the wire, or of the tracker if
  none is there, that a navigation is under way if it claims so. `ToldInv` says that a
  download is in the registry before the client is told of it, so that its id can be wrong
  only if the client made it up. Dismissals: `OnceInv` says that a prompt is announced,
  decided upon and dismissed once, in the order they opened; `LateInv` that a prompt which is
  gone while its dismissal is on its way was closed by the client, or by the late dismissal
  of one before it, which by induction the client had closed. `ParkInv` says that a capture
  which was registered when a prompt opened still is when the loop decides upon it, unless it
  expired or got an earlier prompt; so none is on its way to be dismissed that was for it. `DismissesItsOwn` is stated so
  that it says this and no more: that the client closed the very prompt the dismissal was
  for is true with two prompts and false with three.
- **Locks and recordings.** `GateInv` has the owners of `modelMu`. `OrderInv` has those of
  `dispatchMu`, including the tools that a model operation runs under its own hold, and
  `GroupInv` that the model's group is the innermost one while they run; with both, `clean`
  is inductive. That nothing gets into the model's group takes all three locks: `RunsInv` says
  that the recorder the model reads stays `session.recorder`, since a stop waits for
  `dispatchMu` and a start refuses to supersede a recording that runs, and `OpenInv` that an
  action open in a running recording is that of a command under way, which `GateInv` keeps
  out. `SectionInv` has the owners of `recordingMu` and that after the teardown
  nobody is in such a section, `VideoInv` that a video belongs to `session.recorder` or to
  the start that holds `recordingMu`. `GateAssumption` says that the kinds of
  goroutine are disjoint.
- **Page commands.** The theorems are about programs, not about the code's list of them:
  any sequence of steps that is `WellFormed` (`ProgramsAssumption`, which TLC evaluates for
  every program of the handlers and tools): the pointer acts on the last element
  resolved, whose check included the point, keys on an element that was clicked, a value on
  the element resolved, and what a shortcut leaves out is nothing that an answer relies on.
  `InfoInv` says that what was resolved holds while the page has not changed: the selector
  names the element, it is where it was sampled, and, if that was checked, uncovered and in
  view. With one element at a spot (`PageInv`) the point is hit. `FocusInv` carries the click
  to the typing, for an element that takes the focus.
  `DoneInv` says that the acts the program has passed are done, with the exceptions of the
  property: a box that was as it should be, a value written to an element that has none.
- **Agent.** `Accounted` (every launch that runs is in a handle, in the hands of a closer, in
  the launch that has not connected, or given up with its connection) is inductive with
  `OwnerInv`, which says when each of those places is empty. `TargetInv` says that what a
  call has read is of the page `RefKey` names, which it reads again later, or that `moved`
  is set; it needs `PinInv`, that a call in progress is pinned to the page it names. For
  `CurrentIsAlive`, `FramesInv` makes the browser's contexts a forest of pages and frames,
  `PastInv` keeps everything open and remembered apart from what belonged to a lost browser,
  and `LeaveInv` and `StrayInv` say that the context a frame is left for is a page, the one
  the frame is in unless `astray`: so when `close_page` closes the page of the current frame,
  it is that one, which it looks for.

The assumptions on the constants are that sets of actors are disjoint, that ids and bounds
are numbers, and that messages and absent values differ; TLC evaluates them on every run.

The assumptions of `DaemonServer` are hypotheses of its theorems, since `DaemonProofs` has that
module as an instance.

Only model-checked: every liveness property. TLAPS has no rule for the fairness here. That
the programs of `PageCommands` and `AgentTools` are well-formed is evaluated, as the
assumption it is. Everything else that a passing run checks is a theorem.

## 6. Not modelled

- **Input and output.** Browser download, install and launch, processes, the HTTP upgrade,
  ping and pong deadlines, `keepAlive`, logging, the stall report, Windows pipes. Their
  failures are steps of the modules that depend on them.
- **Data layout.** Trace and WebM encoding, redaction, accessibility trees, the text of maps,
  schemas, JSON-RPC framing, CLI flags, the language clients.
- **Values.** Route patterns and globs, URL patterns of captures, the contents of dialogs and
  downloads, cookies, what scripts compute beyond the state of two elements.
- **`OnClientConnect`.** Sessions are modelled from the moment they are in the map.
- **State that page handlers share**: the registry of routes and intercepts, and the maps of
  exposed functions and WebSocket subscriptions, with the check-then-act of
  `handlers_expose.go:96` and `145`. `PageCommands` has their steps, and one command at a
  time.
- **The verifier**, a sequential loop around a model provider. What it does to a session is
  `SessionGate`'s model operation.

What would come next, in this order: a module for the shared state of page handlers, with
two handlers at once, and its proofs; `BidiClient` as another implementation of an abstract
request and reply.
