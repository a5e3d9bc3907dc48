---------------------------- MODULE AgentSession ----------------------------
(***************************************************************************)
(* The session the agent's tools share (clicker/internal/agent: handlers,  *)
(* server): the browser it launched or connected to, the current page or   *)
(* frame, the page a call is pinned to, the element references minted on   *)
(* each page, and the user contexts of isolated pages.                     *)
(*                                                                         *)
(* Calls are handled one at a time, but each is several exchanges with a   *)
(* browser whose pages open, close and crash meanwhile; and a server that  *)
(* has waited long enough tears the session down under a call, which goes  *)
(* on, as may others, until the process ends.                              *)
(***************************************************************************)
EXTENDS Naturals

CONSTANTS MaxContexts,  \* bound: pages and frames ever opened
          MaxLaunches,  \* bound: browsers ever started
          MaxEvents     \* bound: pages opened or lost, and browsers, of their own accord

ASSUME SessionAssumption ==
    MaxContexts \in Nat \ {0} /\ MaxLaunches \in Nat /\ MaxEvents \in Nat

VARIABLES
    alive,          \* the browser the session holds is running
    running,        \* launches not ended: a process, or a session of a remote endpoint
    pages,          \* the open pages; the browser lists the oldest first
    within,         \* context -> what an open frame is in, its page included
    userOf,         \* context -> its user context, 0: the default one
    opened, launched, events,               \* contexts and launches so far; events
    client, launchResult, classicSession,   \* Handlers, by launch; 0: nil
    ownsRemote,     \* the client's session at a BiDi endpoint is its own, not attached to
    activeContext, activeFrameParent,       \* 0: ""
    refMaps,        \* page -> the context whose elements its references name, 0: none
    ownedUserContexts,
    pageOverride,
    call, pc,       \* the call that is handled, and where it is
    source, context, listed,    \* what it has read from the browser
    taken,          \* who closes the session -> what it has to end
    closing,        \* Server.Close: "no", with the call slot "held", "forced", "done";
                    \* then the process has "exited"; or it was "cut" short before "done"
    endpoint,       \* where browsers are: "local", or behind a "classic" or a "bidi" one
    moved, shaky,   \* ghosts: the first page changed during a call that goes by it
    astray, orphan, \* ghosts: the current frame is not in the page it is to leave for;
                    \* close_page closed what is current
    past,           \* ghost: contexts of browsers lost
    dropped,        \* ghost: remote sessions given up with their connection
    late            \* ghost: launches not done when the server took the session, or begun since

browser == <<alive, running, pages, within, userOf, opened, launched, events>>
owner == <<client, launchResult, classicSession, ownsRemote>>
current == <<activeContext, activeFrameParent, astray, orphan>>
tables == <<refMaps, ownedUserContexts>>
naming == <<call, pageOverride>>
read == <<source, context, listed, moved>>
server == <<taken, closing, endpoint, late>>
ghosts == <<shaky, past, dropped>>
vars == <<browser, owner, current, tables, naming, read, pc, server, ghosts>>

Contexts == 1 .. MaxContexts
Closers == {"tool", "server"}

\* The calls that change what the session is, or act by it, and the page they are pinned
\* to.  arg: the new page is isolated; the page to close is given by its index, which, as
\* in switchPage, is any page of the list when the list is read.
Calls ==
    [tool : {"act", "actByRef", "map", "diffMap", "frame", "navigate", "quit", "launch",
             "switchPage"}, page : 0 .. opened, arg : {FALSE}]
        \cup [tool : {"newPage", "closePage"}, page : 0 .. opened, arg : BOOLEAN]
NoCall == [tool |-> "none", page |-> 0, arg |-> FALSE]

Init ==
    /\ alive = FALSE /\ running = {} /\ pages = {} /\ within = [c \in Contexts |-> {}]
    /\ userOf = [c \in Contexts |-> 0] /\ opened = 0 /\ launched = 0 /\ events = 0
    /\ client = 0 /\ launchResult = 0 /\ classicSession = 0 /\ ownsRemote = FALSE
    /\ activeContext = 0 /\ activeFrameParent = 0 /\ astray = FALSE
    /\ refMaps = [c \in Contexts |-> 0] /\ ownedUserContexts = {} /\ pageOverride = 0
    /\ call = NoCall /\ pc = "idle" /\ source = 0 /\ context = 0 /\ listed = {}
    /\ taken = [w \in Closers |-> {}] /\ closing = "no"
    /\ endpoint \in {"local", "classic", "bidi"} /\ late = {}
    /\ moved = FALSE /\ shaky = {} /\ orphan = FALSE /\ past = 0 /\ dropped = {}

IsPage(c) == c \in pages
IsOpen(c) == IsPage(c) \/ (c \in Contexts /\ within[c] # {})
First(list) == IF list = {} THEN 0 ELSE CHOOSE c \in list : \A d \in list : c <= d
FirstPage == First(pages)

\* currentContext; and refKey, GetContextID: the first page where there is none.
CurrentContext == IF pageOverride # 0 THEN pageOverride ELSE activeContext
RefKey == IF CurrentContext # 0 THEN CurrentContext ELSE FirstPage
GetContextID == RefKey

\* The process that serves the calls.
Up == closing \notin {"exited", "cut"}

----------------------------------------------------------------------------
(* The browser: what happens in it, and what commands do to it.            *)

\* With a page go its frames, with a frame those inside.
Without(c) ==
    /\ pages' = pages \ {c}
    /\ within' = [f \in Contexts |-> IF f = c \/ c \in within[f] THEN {} ELSE within[f]]
NewPage(u) ==
    /\ opened < MaxContexts /\ opened' = opened + 1
    /\ pages' = pages \cup {opened'} /\ userOf' = [userOf EXCEPT ![opened'] = u]
    /\ UNCHANGED within

Gone == alive' = FALSE /\ pages' = {} /\ within' = [c \in Contexts |-> {}]

BrowserEvent ==
    /\ alive /\ Up
    /\ \/ /\ opened < MaxContexts /\ opened' = opened + 1
          /\ \E c \in Contexts :
                IsOpen(c) /\ within' = [within EXCEPT ![opened'] = {c} \cup within[c]]
          /\ UNCHANGED <<events, pages, userOf, alive>>
       \/ /\ events < MaxEvents /\ events' = events + 1
          /\ \/ \E p \in pages : NewPage(userOf[p]) /\ UNCHANGED alive
             \/ \E c \in Contexts : IsOpen(c) /\ Without(c) /\ UNCHANGED <<userOf, opened, alive>>
             \/ Gone /\ UNCHANGED <<userOf, opened>>
    /\ moved' = (moved \/ (pc # "idle" /\ CurrentContext = 0 /\ FirstPage' # FirstPage))
    /\ UNCHANGED <<running, launched, owner, current, tables, naming, source, context, listed, pc,
                   server, ghosts>>

----------------------------------------------------------------------------
(* A call.                                                                 *)

Working == pc # "idle" /\ Up
Answers == alive /\ client # 0 \* and may fail nevertheless

\* What the call read is forgotten, and where it was pinned.
Return ==
    /\ pc' = "idle" /\ pageOverride' = 0 /\ call' = NoCall
    /\ source' = 0 /\ context' = 0 /\ listed' = {} /\ moved' = FALSE
Read(p) == pc' = p /\ UNCHANGED naming
GoTo(p) == Read(p) /\ UNCHANGED read

\* Handlers.Call: a page that is named has to be open.  Only a Close that waited keeps the
\* slot, and only until it is done.  Bound: of the calls that come later, those that start
\* and end a browser.
Call ==
    /\ pc = "idle" /\ closing \in {"no", "forced", "done"}
    /\ \E c \in Calls :
          /\ closing # "no" => c.tool \in {"launch", "quit"}
          /\ c.page # 0 => Answers /\ IsPage(c.page)
          /\ call' = c /\ pageOverride' = IF c.page # 0 THEN c.page ELSE pageOverride
          /\ pc' = CASE c.tool = "diffMap" -> "diff" [] c.tool = "quit" -> "quit"
                     [] OTHER -> "ensure"
    /\ UNCHANGED <<browser, owner, current, tables, read, server, ghosts>>

Failure ==
    /\ Working /\ pc \notin {"launch", "connect", "ensure", "quit", "end", "remove"}
    /\ Return /\ UNCHANGED <<browser, owner, current, tables, server, ghosts>>

FirstStep(tool) ==
    CASE tool = "actByRef" -> "ref"
      [] tool \in {"map", "diffMap"} -> "map"
      [] tool = "newPage" -> "new"
      [] tool \in {"switchPage", "closePage"} -> "list"
      [] OTHER -> "context"

\* What goes with the browser.
Forget ==
    /\ activeContext' = 0 /\ activeFrameParent' = 0 /\ astray' = FALSE /\ orphan' = FALSE
    /\ refMaps' = [c \in Contexts |-> 0] /\ ownedUserContexts' = {} /\ past' = opened

\* Sessions of an endpoint that are the server's to end.
Remote == ({classicSession} \cup (IF ownsRemote THEN {client} ELSE {})) \ {0}

\* discardSession: the handle goes, what is known of a remote session stays where it was.
DiscardSession ==
    /\ running' = running \ {launchResult} /\ dropped' = dropped \cup Remote
    /\ client' = 0 /\ launchResult' = 0 /\ Forget /\ UNCHANGED <<classicSession, ownsRemote>>

\* A death is not noticed at once.
EnsureBrowser ==
    /\ Working /\ pc = "ensure"
    /\ \/ /\ client # 0 /\ ~alive /\ call.tool # "launch" /\ DiscardSession /\ Return
          /\ UNCHANGED <<alive, pages, within, userOf, opened, launched, events>>
       \/ /\ IF client = 0 THEN GoTo("launch")
             ELSE IF call.tool = "launch" THEN Return   \* it is already running
             ELSE GoTo(FirstStep(call.tool))
          /\ UNCHANGED <<browser, owner, current, tables, past, dropped>>
    /\ UNCHANGED <<server, shaky>>

\* browserLaunch: a process is started, or a session opened at the endpoint ...
Launch ==
    /\ Working /\ pc = "launch"
    /\ \/ /\ launched < MaxLaunches /\ launched' = launched + 1
          /\ running' = running \cup {launched'} /\ GoTo("connect")
          /\ late' = IF closing = "no" THEN late ELSE late \cup {launched'}
       \/ Return /\ UNCHANGED <<running, launched, late>>
    /\ UNCHANGED <<alive, pages, within, userOf, opened, events, owner, current, tables, taken,
                   closing, endpoint, ghosts>>

\* ... and connected to, or ended again.  At a BiDi endpoint session.new comes with the
\* connection; one that has a session already is attached to, and nothing is ours to end; and
\* what session.new made before its answer was lost stays there.  Mutant: it is not ended.
Unconnected_Kept == running
Unconnected == running \ {launched}
Connect ==
    /\ Working /\ pc = "connect"
    /\ \/ /\ NewPage(0) /\ alive' = TRUE /\ client' = launched /\ UNCHANGED dropped
          /\ launchResult' = IF endpoint = "local" THEN launched ELSE 0
          /\ classicSession' = IF endpoint = "classic" THEN launched ELSE 0
          /\ ownsRemote' \in {FALSE, endpoint = "bidi"}
          /\ running' = IF endpoint = "bidi" /\ ~ownsRemote' THEN running \ {launched} ELSE running
          /\ IF call.tool = "launch" THEN Return ELSE GoTo(FirstStep(call.tool))
       \/ /\ \/ running' = Unconnected /\ UNCHANGED dropped
             \/ endpoint = "bidi" /\ dropped' = dropped \cup {launched} /\ UNCHANGED running
          /\ Return /\ UNCHANGED <<pages, within, userOf, opened, alive, owner>>
    /\ UNCHANGED <<launched, events, current, tables, server, shaky, past>>

----------------------------------------------------------------------------
(* Tools that act on the current page.                                     *)

\* resolveSelector: the reference as this page's table has it.
ResolveSelector ==
    /\ Working /\ pc = "ref" /\ Answers /\ RefKey # 0 /\ refMaps[RefKey] # 0
    /\ source' = refMaps[RefKey] /\ moved' = (moved \/ RefKey \in shaky)
    /\ Read("context")
    /\ UNCHANGED <<browser, owner, current, tables, context, listed, server, ghosts>>

\* browserNavigate leaves a frame, unless the call is pinned.
LeavesFrame == call.tool = "navigate" /\ activeFrameParent # 0 /\ pageOverride = 0
GetContext ==
    /\ Working /\ pc = "context"
    /\ IF LeavesFrame
          THEN /\ activeContext' = activeFrameParent /\ activeFrameParent' = 0
               /\ astray' = FALSE /\ orphan' = FALSE
          ELSE UNCHANGED current
    /\ \/ /\ Answers /\ context' = (IF LeavesFrame THEN activeFrameParent ELSE GetContextID)
          /\ context' # 0 /\ Read(IF call.tool = "frame" THEN "frame" ELSE "act")
          /\ UNCHANGED <<source, listed, moved>>
       \/ Return
    /\ UNCHANGED <<browser, owner, tables, server, ghosts>>

Act ==
    /\ Working /\ pc = "act" /\ Answers /\ IsOpen(context) /\ Return
    /\ UNCHANGED <<browser, owner, current, tables, server, ghosts>>

\* browserFrame: a frame of the context, by its name or URL.
Frame ==
    /\ Working /\ pc = "frame" /\ Answers
    /\ \E f \in Contexts :
          /\ context \in within[f] /\ activeContext' = f
          /\ activeFrameParent' = IF activeFrameParent = 0 THEN context ELSE activeFrameParent
          /\ astray' = (activeFrameParent' \notin within[f]) /\ orphan' = FALSE
    /\ Return
    /\ UNCHANGED <<browser, owner, tables, server, ghosts>>

\* browserMap: the page is chosen by the client, then again for the key.
\* Mutant: the key is the current page, not the pinned one.
MapKey_Ambient == IF activeContext # 0 THEN activeContext ELSE FirstPage
MapKey == RefKey
MapPage ==
    /\ Working /\ pc = "map" /\ Answers /\ IsOpen(GetContextID)
    /\ context' = GetContextID /\ Read("key")
    /\ UNCHANGED <<browser, owner, current, tables, source, listed, moved, server, ghosts>>
SetRefs ==
    /\ Working /\ pc = "key" /\ MapKey # 0
    /\ refMaps' = [refMaps EXCEPT ![MapKey] = context]
    /\ shaky' = IF moved THEN shaky \cup {MapKey} ELSE shaky \ {MapKey}
    /\ Return
    /\ UNCHANGED <<browser, owner, current, ownedUserContexts, server, past, dropped>>

\* browserDiffMap: there has to be a map of this page.
DiffMap ==
    /\ Working /\ pc = "diff" /\ RefKey # 0 /\ refMaps[RefKey] # 0 /\ GoTo("ensure")
    /\ UNCHANGED <<browser, owner, current, tables, server, ghosts>>

----------------------------------------------------------------------------
(* Tools that change which pages there are.                                *)

\* browserNewPage: an isolated page is in a user context of its own.  Where the page cannot
\* be opened its context is removed again, which holds nothing.
OpenNewPage ==
    /\ Working /\ pc = "new" /\ Answers
    /\ NewPage(IF call.arg THEN opened + 1 ELSE 0)
    /\ ownedUserContexts' = ownedUserContexts \cup (IF call.arg THEN {opened'} ELSE {})
    /\ context' = opened' /\ Read("activate")
    /\ UNCHANGED <<alive, running, launched, events, owner, current, refMaps, source, listed,
                   moved, server, ghosts>>

ListPages ==
    /\ Working /\ pc = "list" /\ Answers
    /\ IF call.tool = "switchPage"
          THEN /\ context' \in pages /\ Read("activate")
               /\ UNCHANGED listed
          ELSE listed' = pages /\ Read("close") /\ UNCHANGED context
    /\ UNCHANGED <<browser, owner, current, tables, source, moved, server, ghosts>>

Activate ==
    /\ Working /\ pc = "activate" /\ Answers /\ IsPage(context)
    /\ activeContext' = context /\ activeFrameParent' = 0 /\ astray' = FALSE /\ orphan' = FALSE
    /\ Return
    /\ UNCHANGED <<browser, owner, tables, server, ghosts>>

\* browserClosePage: the page named, the index given, or the current page; the first
\* page where the current context is a frame, or none.
ToClose(c) ==
    CASE call.page # 0 -> c = call.page
      [] call.page = 0 /\ call.arg -> c \in listed
      [] OTHER -> c = IF activeContext \in listed THEN activeContext ELSE First(listed)

\* The frame that is current dies with its page.  Mutant: it stays current.
ClosesCurrent_PageOnly(c) == activeContext = c
ClosesCurrent(c) == activeContext = c \/ activeFrameParent = c
LastInContext(c) ==
    /\ userOf[c] \in ownedUserContexts
    /\ \A d \in listed \ {c} : userOf[d] # userOf[c]
ClosePage ==
    /\ Working /\ pc = "close" /\ Answers
    /\ \E c \in Contexts :
          /\ ToClose(c) /\ IsPage(c) /\ Without(c)
          /\ \/ /\ IF ClosesCurrent(c)
                      THEN /\ activeContext' = 0 /\ activeFrameParent' = 0
                           /\ astray' = FALSE /\ orphan' = FALSE
                      ELSE /\ UNCHANGED <<activeContext, activeFrameParent, astray>>
                           /\ orphan' = \/ orphan
                                        \/ \E d \in {activeContext, activeFrameParent} \ {0} :
                                              d = c \/ c \in within[d]
                /\ IF LastInContext(c)
                      THEN context' = c /\ Read("remove") /\ UNCHANGED <<source, listed, moved>>
                      ELSE Return
             \/ Return /\ UNCHANGED current   \* done, but its answer lost
    /\ UNCHANGED <<alive, running, userOf, opened, launched, events, owner, tables, server, shaky,
                   past, dropped>>

\* With the last page it knew of goes the user context, and what was opened in it since.
PagesOf(u) == {p \in pages : userOf[p] = u}
RemoveUserContext ==
    /\ Working /\ pc = "remove"
    /\ \/ /\ Answers /\ pages' = pages \ PagesOf(userOf[context])
          /\ within' = [f \in Contexts |->
                            IF within[f] \cap PagesOf(userOf[context]) # {} THEN {} ELSE within[f]]
          /\ ownedUserContexts' = ownedUserContexts \ {userOf[context]}
       \/ UNCHANGED <<pages, within, ownedUserContexts>>
    /\ Return
    /\ UNCHANGED <<alive, running, userOf, opened, launched, events, owner, current, refMaps,
                   server, ghosts>>

----------------------------------------------------------------------------
(* Handlers.Close, of browserQuit and of the server.                       *)

\* The browser answers no longer from when its session is taken: that a call in flight may
\* get one more answer of it is left out.
TakeSession(w) ==
    /\ taken' = [taken EXCEPT ![w] = ({launchResult} \ {0}) \cup Remote]
    /\ client' = 0 /\ launchResult' = 0 /\ classicSession' = 0 /\ ownsRemote' = FALSE
    /\ Forget /\ Gone
    /\ UNCHANGED <<running, userOf, opened, launched, events, shaky, dropped, endpoint>>
EndSession(w) ==
    /\ running' = running \ taken[w] /\ taken' = [taken EXCEPT ![w] = {}]
    /\ UNCHANGED <<alive, pages, within, userOf, opened, launched, events, owner, current, tables,
                   endpoint, ghosts>>

Quit ==
    /\ Working /\ UNCHANGED <<closing, late>>
    /\ \/ pc = "quit" /\ client = 0 /\ Return
          /\ UNCHANGED <<browser, owner, current, tables, taken, endpoint, ghosts>>
       \/ pc = "quit" /\ client # 0 /\ TakeSession("tool") /\ GoTo("end")
       \/ pc = "end" /\ EndSession("tool") /\ Return

\* Server.Close waits for the call, for two seconds.
ServerClose ==
    /\ closing = "no" /\ TakeSession("server")
    /\ closing' = IF pc = "idle" THEN "held" ELSE "forced"
    /\ late' = IF pc = "connect" THEN late \cup {launched} ELSE late
    /\ UNCHANGED <<pc, naming, read>>
ServerEnds ==
    /\ closing \in {"held", "forced"} /\ EndSession("server") /\ closing' = "done"
    /\ UNCHANGED <<pc, naming, read, late>>

\* The process ends with whatever call there is.  The signal's Close and that at the end of
\* the input wait two seconds for each other, and the second finds nothing to end and exits;
\* and a call that goes on without a client crashes the process.
Exit ==
    /\ \/ closing = "done" /\ closing' = "exited"
       \/ /\ closing \in {"held", "forced"} /\ closing' = "cut"
          /\ pc # "idle" => client = 0 /\ pc \notin {"ensure", "launch", "connect", "quit", "end"}
    /\ UNCHANGED <<browser, owner, current, tables, naming, read, pc, taken, endpoint, late,
                   ghosts>>

Next ==
    \/ BrowserEvent \/ Call \/ Failure \/ EnsureBrowser \/ Launch \/ Connect
    \/ ResolveSelector \/ GetContext \/ Act \/ Frame \/ MapPage \/ SetRefs \/ DiffMap
    \/ OpenNewPage \/ ListPages \/ Activate \/ ClosePage \/ RemoveUserContext
    \/ Quit \/ ServerClose \/ ServerEnds \/ Exit
Spec == Init /\ [][Next]_vars

----------------------------------------------------------------------------
(* Properties.                                                             *)

Tools == {"act", "actByRef", "map", "diffMap", "frame", "navigate", "quit", "launch", "newPage",
          "switchPage", "closePage"}
States == {"idle", "ensure", "launch", "connect", "ref", "context", "act", "frame", "map", "key",
           "diff", "new", "list", "activate", "close", "remove", "quit", "end"}
Launches == 1 .. MaxLaunches

PagesOK ==
    /\ opened \in 0 .. MaxContexts /\ events \in 0 .. MaxEvents
    /\ pages \subseteq 1 .. opened /\ past \in 0 .. opened
    /\ within \in [Contexts -> SUBSET Contexts] /\ userOf \in [Contexts -> 0 .. MaxContexts]
LaunchesOK ==
    /\ launched \in 0 .. MaxLaunches
    /\ running \subseteq Launches /\ dropped \cup late \subseteq 0 .. MaxLaunches
    /\ client \in 0 .. MaxLaunches /\ launchResult \in 0 .. MaxLaunches
    /\ classicSession \in 0 .. MaxLaunches /\ taken \in [Closers -> SUBSET Launches]
    /\ closing \in {"no", "held", "forced", "done", "exited", "cut"}
    /\ endpoint \in {"local", "classic", "bidi"}
RememberedOK ==
    /\ activeContext \in 0 .. MaxContexts /\ activeFrameParent \in 0 .. MaxContexts
    /\ refMaps \in [Contexts -> 0 .. MaxContexts] /\ ownedUserContexts \subseteq Contexts
    /\ shaky \subseteq Contexts
CallOK ==
    /\ pc \in States
    /\ call \in [tool : Tools \cup {"none"}, page : 0 .. MaxContexts, arg : BOOLEAN]
    /\ pageOverride \in 0 .. MaxContexts /\ source \in 0 .. MaxContexts
    /\ context \in 0 .. MaxContexts /\ listed \subseteq Contexts
FlagsOK == {alive, ownsRemote, astray, orphan, moved} \subseteq BOOLEAN

\* Every variable keeps its type.
TypeOK == PagesOK /\ LaunchesOK /\ RememberedOK /\ CallOK /\ FlagsOK

\* A call acts on the page it names, else in the current context; and an element reference
\* is resolved only on the page whose map minted it, unless there was no current page and
\* the browser's first page changed between the two reads.
ActsWhereTold ==
    pc = "act" =>
        /\ call.page # 0 => context = call.page
        /\ call.page = 0 /\ activeContext # 0 /\ closing = "no" => context = activeContext
        /\ source # 0 => source = context \/ moved

\* Between calls nothing the session remembers belongs to a browser that was lost, and
\* what close_page closed is not the current context, unless a pinned call entered a
\* frame of another page than the one a frame was entered in before.  A page that closes
\* of its own accord is not forgotten: nobody tells the session.
CurrentIsAlive ==
    pc = "idle" /\ closing = "no" =>
        /\ {activeContext, activeFrameParent} \cap 1 .. past = {}
        /\ \A c \in 1 .. past : refMaps[c] = 0
        /\ ownedUserContexts \cap 1 .. past = {}
        /\ orphan => astray

\* While the server runs, whatever was started is held by somebody who is to end it, wherever
\* a launch fails and whoever takes the session; only a remote session whose connection died
\* is left to its endpoint.  When the process exits after its Close is done, what is left is
\* what that Close did not wait for, and nobody ends: launches still under way when it took
\* the session, or begun since, and a session that browserQuit had taken and was ending.
\* Nothing is claimed of a process that is cut short in the midst of its Close.
Accounted ==
    running \subseteq {launchResult} \cup Remote \cup taken["tool"] \cup taken["server"]
                         \cup (IF pc = "connect" THEN {launched} ELSE {}) \cup dropped
NothingLeaks ==
    /\ Accounted
    /\ closing = "exited" => running \subseteq dropped \cup late \cup taken["tool"]

(* What makes these hold; the proofs show it inductive. *)

\* What a handle names, and what a closer took, between two steps of a call.
OwnerInv ==
    /\ client = 0 => launchResult = 0 /\ classicSession \in dropped \cup {0}
    /\ pc \in {"launch", "connect"} => client = 0
    /\ pc = "connect" => launched > 0
    /\ taken["tool"] # {} => pc = "end"
    /\ closing \in {"no", "done", "exited"} => taken["server"] = {}
    /\ closing # "no" =>
          /\ ({launchResult} \ {0}) \cup Remote \subseteq late \cup dropped
          /\ pc = "connect" => launched \in late

\* A call stays pinned, and what it has read is of the page it goes by, unless the first
\* page changed.
PinInv ==
    /\ pc = "idle" => source = 0 /\ pageOverride = 0
    /\ pc # "idle" => pageOverride = call.page
    /\ pc = "ref" => call.tool = "actByRef"
    /\ source # 0 => pc \in {"context", "act"} /\ call.tool = "actByRef"
TargetInv ==
    /\ \A k \in Contexts : refMaps[k] \in {0, k} \/ k \in shaky
    /\ pc = "key" /\ RefKey # 0 => context = RefKey \/ moved
    /\ pc = "context" /\ source # 0 /\ RefKey # 0 => source = RefKey \/ moved

\* A page is in no frame, a frame in one page, with all that this frame is in.
FramesInv ==
    /\ ~alive => pages = {} /\ \A f \in Contexts : within[f] = {}
    /\ \A f \in Contexts : within[f] # {} => f <= opened
    /\ \A c \in pages : within[c] = {}
    /\ \A f \in Contexts : \A c \in within[f] : IsOpen(c) /\ within[c] \subseteq within[f]
    /\ \A f \in Contexts : \A c, d \in within[f] \cap pages : c = d

\* Nothing open, and nothing remembered, is of a browser that was lost.
Old == 1 .. past
PastInv ==
    /\ pages \cap Old = {}
    /\ \A f \in Contexts : within[f] # {} => f \notin Old
    /\ closing = "no" =>
          /\ activeContext \notin Old /\ activeFrameParent \notin Old
          /\ pc # "end" => pageOverride \notin Old
          /\ \A c \in Old : refMaps[c] = 0
          /\ ownedUserContexts \cap Old = {}

\* What a frame is left for is, or was, a page; the frame is in it, if not astray.
PageLike(c) == c <= opened /\ (c # 0 => within[c] = {})
LeaveInv ==
    closing = "no" =>
        /\ PageLike(activeFrameParent) /\ PageLike(pageOverride)
        /\ activeContext <= opened /\ (activeFrameParent = 0 => PageLike(activeContext))
        /\ pc = "frame" /\ activeFrameParent = 0 => PageLike(context)
StrayInv ==
    closing = "no" =>
        /\ activeFrameParent # 0 /\ activeContext # 0 =>
              astray \/ within[activeContext] = {} \/ activeFrameParent \in within[activeContext]
        /\ orphan => astray
=============================================================================
