---------------------------- MODULE EventRouting ----------------------------
(***************************************************************************)
(* What routeBrowserToClient does with the browser's events before the     *)
(* client sees them (clicker/internal/api/router.go), and who depends on   *)
(* it: the prompt tracker and the dismissal of unclaimed prompts           *)
(* (prompt.go, handlers_dialog.go), one-shot captures                      *)
(* (capture_registry.go, handlers_capture.go), downloads                   *)
(* (download_registry.go, handlers_download.go), the navigation tracker    *)
(* and the recording's screenshots (navigation.go, handlers_recording.go). *)
(*                                                                         *)
(* One browsing context: every table here is keyed by the context or by an *)
(* id that is never used again.  Each table has a mutex of its own, held   *)
(* for one step; the loop holds none of them between two steps.            *)
(***************************************************************************)
EXTENDS Naturals, Sequences, FiniteSets

CONSTANTS DialogCaptures, \* page.captureEvent commands for the next prompt
          LoadCaptures,   \* ... for the next navigation
          Downloads,
          MaxPrompts, MaxNavs, \* bounds: prompts and navigations of the page,
          MaxActivity     \* ... and how many activities of the page and the client begin

ASSUME RoutingAssumption ==
    MaxPrompts \in Nat /\ MaxNavs \in Nat /\ MaxActivity \in Nat /\ DialogCaptures \cap LoadCaptures = {}

VARIABLES
    dialog, opened, \* the page: its open prompt (0: none), prompts opened so far
    parked,         \* ghost: prompt -> the captures registered when it opened
    closedBy,       \* prompt -> the command that closed it
    commands,       \* handleUserPrompt commands on their way to the browser
    navs, navCount, \* the page: navigations under way, and so far
    files,          \* download -> "none", "running" or "ended"
    wire,           \* events the browser sent and the loop has not read
    lpc, ev,        \* the routing goroutine: control and the event in its hand
    prompts,        \* PromptTracker: a prompt is open
    manual,         \* dialogManual has the context
    dismissals,     \* prompts whose dismissUnhandledPrompt has not sent its command yet
    claims, lost,   \* ghosts: prompt -> the captures it was left to; dismissals not sent
    model,          \* a model operation whose context is cancelled: "none", "over", "ended"
    left,           \* ghost: prompts the loop left open because of it
    inFlight,       \* NavigationTracker: the entry's navigation, 0: none
    registry,       \* downloadRegistry: download -> "unknown", "running", "done"
    pending, filled,\* captures in the registry; captures with an event in their channel
    cap,            \* capture -> control of its command
    got, due,       \* capture -> the event it got; ghost: the first one it asked for
    told,           \* prompts and downloads the client has been told of
    await,          \* download -> control of download.await
    cmd,            \* a command of the page that a prompt blocks (script, input)
    shot, shotNav,  \* a recording's screenshot: control, and the entry it waits on
    started,        \* its NotifyStart channel: "none", "open" or "closed"
    stopped         \* stopChan is closed

page == <<dialog, opened, parked, closedBy, commands, navs, navCount, files>>
loop == <<wire, lpc, ev, left>>
trackers == <<prompts, inFlight, registry>>
policy == <<manual, dismissals, claims, lost, model>>
captures == <<pending, filled, cap, got, due>>
screenshot == <<shot, shotNav, started>>
vars == <<page, loop, trackers, captures, policy, told, await, cmd, screenshot, stopped>>

Captures == DialogCaptures \cup LoadCaptures
Prompts == 1 .. MaxPrompts
Nothing == [kind |-> "none", of |-> 0]
Event(k, n) == [kind |-> k, of |-> n]

\* The bound on what begins in a behaviour.
MayBegin ==
    opened + navCount + Cardinality({d \in Downloads : files[d] # "none"})
    + Cardinality({c \in Captures : cap[c] # "idle"})
    + (IF cmd = "idle" THEN 0 ELSE 1) + (IF shot = "idle" THEN 0 ELSE 1)
    + (IF model = "none" THEN 0 ELSE 1) < MaxActivity

Init ==
    /\ dialog = 0 /\ opened = 0 /\ commands = {}
    /\ closedBy = [n \in Prompts |-> Nothing] /\ parked = [n \in Prompts |-> {}]
    /\ navs = {} /\ navCount = 0 /\ files = [d \in Downloads |-> "none"]
    /\ wire = <<>> /\ lpc = "read" /\ ev = Nothing
    /\ prompts = FALSE /\ manual = FALSE /\ left = {} /\ inFlight = 0
    /\ dismissals = {} /\ claims = [n \in Prompts |-> {}] /\ lost = {} /\ model = "none"
    /\ registry = [d \in Downloads |-> "unknown"]
    /\ pending = {} /\ filled = {} /\ cap = [c \in Captures |-> "idle"]
    /\ got = [c \in Captures |-> Nothing] /\ due = got
    /\ told = {} /\ await = [d \in Downloads |-> "idle"] /\ cmd = "idle"
    /\ shot = "idle" /\ shotNav = 0 /\ started = "none" /\ stopped = FALSE

----------------------------------------------------------------------------
(* The page.                                                               *)

OpenPrompt ==
    /\ dialog = 0 /\ opened < MaxPrompts /\ MayBegin
    /\ opened' = opened + 1 /\ dialog' = opened + 1
    /\ parked' = [parked EXCEPT ![opened + 1] = pending \cap DialogCaptures]
    /\ wire' = Append(wire, Event("opened", opened + 1))
    /\ UNCHANGED <<closedBy, commands, navs, navCount, files, lpc, ev, left, trackers, captures,
                   policy, told, await, cmd, screenshot, stopped>>

\* handleUserPrompt names a context: it closes whatever prompt is open there.
HandlePrompt ==
    \E c \in commands :
       /\ commands' = commands \ {c}
       /\ IF dialog = 0 THEN UNCHANGED <<dialog, closedBy, wire>>
                        ELSE /\ dialog' = 0
                             /\ closedBy' = [closedBy EXCEPT ![dialog] = c]
                             /\ wire' = Append(wire, Event("closed", dialog))
       /\ UNCHANGED <<opened, parked, navs, navCount, files, lpc, ev, left, trackers, captures, policy,
                      told, await, cmd, screenshot, stopped>>

StartNav ==
    /\ navCount < MaxNavs /\ MayBegin
    /\ navCount' = navCount + 1 /\ navs' = navs \cup {navCount + 1}
    /\ wire' = Append(wire, Event("navStarted", navCount + 1))
    /\ UNCHANGED <<dialog, opened, parked, closedBy, commands, files, lpc, ev, left, trackers, captures,
                   policy, told, await, cmd, screenshot, stopped>>

\* It loads, fails, or is aborted (by a later one, say).
EndNav ==
    \E n \in navs, k \in {"load", "navFailed"} :
       /\ navs' = navs \ {n}
       /\ wire' = Append(wire, Event(k, n))
       /\ UNCHANGED <<dialog, opened, parked, closedBy, commands, navCount, files, lpc, ev, left,
                      trackers, captures, policy, told, await, cmd, screenshot,
                      stopped>>

Download(d) ==
    /\ files[d] = "running" \/ (files[d] = "none" /\ MayBegin)
    /\ LET begins == files[d] = "none"
       IN /\ files' = [files EXCEPT ![d] = IF begins THEN "running" ELSE "ended"]
          /\ wire' = Append(wire, Event(IF begins THEN "willBegin" ELSE "end", d))
    /\ UNCHANGED <<dialog, opened, parked, closedBy, commands, navs, navCount, lpc, ev, left, trackers,
                   captures, policy, told, await, cmd, screenshot, stopped>>

----------------------------------------------------------------------------
(* The routing goroutine.                                                  *)

\* PromptTracker.Observe
PromptAfter(e) ==
    IF e.kind = "opened" THEN TRUE ELSE prompts /\ e.kind # "closed"

\* NavigationTracker.Observe: one entry per context, made by the first navigation and
\* cleared by the first that ends.
\* Mutant: a failed or aborted navigation is no end.
NavAfter_LoadOnly(e) ==
    IF e.kind = "navStarted" /\ inFlight = 0 THEN e.of
    ELSE IF e.kind = "load" THEN 0 ELSE inFlight
NavAfter(e) ==
    IF e.kind = "navStarted" /\ inFlight = 0 THEN e.of
    ELSE IF e.kind \in {"load", "navFailed"} THEN 0 ELSE inFlight

\* downloadRegistry.Observe
RegistryAfter(e) ==
    IF e.kind \in {"willBegin", "end"}
       THEN [registry EXCEPT ![e.of] = IF e.kind = "end" THEN "done"
                                       ELSE IF @ = "unknown" THEN "running" ELSE @]
       ELSE registry

\* autoDismissContext looks at one method.
\* Mutant: any event about a prompt makes it act.
IsPrompt_Either(e) == e.kind \in {"opened", "closed"}
IsPrompt(e) == e.kind = "opened"

\* Receive, and the three Observe calls: an event is of interest to one of them.
ReadEvent ==
    /\ lpc = "read" /\ wire # <<>> /\ ~stopped
    /\ ev' = Head(wire) /\ wire' = Tail(wire)
    /\ lpc' = IF IsPrompt(Head(wire)) THEN "claim" ELSE "offer"
    /\ prompts' = PromptAfter(Head(wire))
    /\ inFlight' = NavAfter(Head(wire))
    /\ registry' = RegistryAfter(Head(wire))
    /\ started' = IF Head(wire).kind = "navStarted" /\ started = "open"
                     THEN "closed" ELSE started
    /\ UNCHANGED <<page, left, captures, policy, told, await, cmd, shot, shotNav, stopped>>

\* autoDismissContext: the policy, under session.mu.
CheckPolicy ==
    /\ lpc = "claim"
    /\ lpc' = IF manual THEN "offer" ELSE "wants"
    /\ left' = IF manual THEN left \cup {ev.of} ELSE left
    /\ UNCHANGED <<page, wire, ev, trackers, captures, policy, told, await, cmd,
                   screenshot, stopped>>

\* Mutants: the router dismisses nothing; it dismisses what a capture claims.
WantsPrompt_Always == TRUE
WantsPrompt_Never == FALSE
WantsPrompt == pending \cap DialogCaptures # {}

\* captures.wantsPrompt; without a claim the prompt is a goroutine's to dismiss.
CheckCaptures ==
    /\ lpc = "wants" /\ lpc' = "offer"
    /\ dismissals' = IF WantsPrompt THEN dismissals ELSE dismissals \cup {ev.of}
    /\ claims' = [claims EXCEPT ![ev.of] = IF WantsPrompt THEN pending \cap DialogCaptures ELSE {}]
    /\ UNCHANGED <<page, wire, ev, left, trackers, captures, manual, lost, model, told, await,
                   cmd, screenshot, stopped>>

\* dismissUnhandledPrompt, whenever that goroutine runs, and whatever captures, policy and
\* page are by then.  With the context of a model operation cancelled it sends nothing.
Dismiss(n) ==
    /\ n \in dismissals /\ dismissals' = dismissals \ {n}
    /\ IF model = "over"
          THEN lost' = lost \cup {n} /\ UNCHANGED commands
          ELSE commands' = commands \cup {Event("dismiss", n)} /\ UNCHANGED lost
    /\ UNCHANGED <<dialog, opened, parked, closedBy, navs, navCount, files, loop, trackers,
                   captures, manual, claims, model, told, await, cmd, screenshot, stopped>>

Matches(c, e) == e.kind = IF c \in DialogCaptures THEN "opened" ELSE "load"
Takers(e) == {c \in pending : Matches(c, e)}

\* Mutant: a capture that took an event stays registered.
PendingAfter_Kept(e) == pending
PendingAfter(e) == pending \ Takers(e)

\* captures.offer, into the one-slot channel of every capture the event satisfies, and
\* then Client.Send.
Offer ==
    /\ lpc = "offer" /\ lpc' = "read"
    /\ filled' = filled \cup Takers(ev)
    /\ got' = [c \in Captures |-> IF c \in Takers(ev) THEN ev ELSE got[c]]
    /\ due' = [c \in Captures |-> IF cap[c] \in {"waiting", "expired"} /\ Matches(c, ev)
                                     /\ due[c] = Nothing THEN ev ELSE due[c]]
    /\ pending' = PendingAfter(ev)
    /\ told' = IF ev.kind \in {"opened", "willBegin"} THEN told \cup {ev} ELSE told
    /\ ev' = Nothing
    /\ UNCHANGED <<page, wire, left, trackers, cap, policy, await, cmd, screenshot, stopped>>

----------------------------------------------------------------------------
(* Captures: page.captureEvent.                                            *)

\* Inline, in the order of the client's messages.
Capture(c) ==
    /\ cap[c] = "idle" /\ ~stopped /\ MayBegin
    /\ pending' = pending \cup {c}
    /\ cap' = [cap EXCEPT ![c] = "waiting"]
    /\ UNCHANGED <<page, loop, trackers, filled, got, due, policy, told, await, cmd,
                   screenshot, stopped>>

Move(c, s) ==
    /\ cap' = [cap EXCEPT ![c] = s]
    /\ UNCHANGED <<page, loop, trackers, got, due, policy, told, await, cmd,
                   screenshot, stopped>>

TakeEvent(c) ==
    /\ cap[c] = "waiting" /\ c \in filled
    /\ filled' = filled \ {c} /\ UNCHANGED pending
    /\ Move(c, "answered")

\* The timer: of two ready channels select takes any.
CaptureExpires(c) ==
    /\ cap[c] = "waiting" /\ Move(c, "expired")
    /\ UNCHANGED <<pending, filled>>

CaptureFails(c) ==
    /\ cap[c] = "expired" /\ Move(c, "failed")
    /\ pending' = pending \ {c} /\ filled' = filled \ {c}

\* stopChan: cancelled without an answer.
CaptureStops(c) ==
    /\ cap[c] = "waiting" /\ stopped /\ Move(c, "stopped")
    /\ pending' = pending \ {c} /\ filled' = filled \ {c}

----------------------------------------------------------------------------
(* The client: its dialog policy, its answers, its downloads, a command.   *)

\* dialog.setPolicy, inline.
SetPolicy ==
    /\ ~stopped /\ manual' = ~manual
    /\ UNCHANGED <<page, loop, trackers, captures, dismissals, claims, lost, model, told, await, cmd, screenshot,
                   stopped>>

\* The client has to close what it claimed: by policy, or by a capture that was answered.
Claimed(n) ==
    \/ n \in left \/ \E c \in DialogCaptures : cap[c] = "answered" /\ got[c] = Event("opened", n)

\* dialog.accept or dialog.dismiss for a prompt the client knows; an error, for the client
\* to try again, while the context of a model operation is cancelled.
AnswerPrompt ==
    \E n \in Prompts :
       /\ dialog = n /\ ~stopped /\ model # "over"
       /\ \/ Event("opened", n) \in told
          \/ \E c \in DialogCaptures : cap[c] = "answered" /\ got[c] = Event("opened", n)
       /\ Event("answer", n) \notin commands
       /\ commands' = commands \cup {Event("answer", n)}
       /\ UNCHANGED <<dialog, opened, parked, closedBy, navs, navCount, files, loop, trackers,
                      captures, policy, told, await, cmd, screenshot, stopped>>

MoveAwait(d, s) ==
    /\ await' = [await EXCEPT ![d] = s]
    /\ UNCHANGED <<page, loop, trackers, captures, policy, told, cmd, screenshot,
                   stopped>>

\* download.await names a download the client heard of.
Await(d) ==
    /\ await[d] = "idle" /\ Event("willBegin", d) \in told
    /\ MoveAwait(d, IF registry[d] = "unknown" THEN "unknown"
                    ELSE IF registry[d] = "done" THEN "result" ELSE "waiting")

\* Mutant: no timer.
AwaitEnds_NoTimer(d) ==
    /\ await[d] = "waiting"
    /\ \/ registry[d] = "done" /\ MoveAwait(d, "result")
       \/ stopped /\ MoveAwait(d, "stopped")
AwaitEnds(d) ==
    /\ await[d] = "waiting"
    /\ \/ registry[d] = "done" /\ MoveAwait(d, "result")
       \/ MoveAwait(d, "timeout")
       \/ stopped /\ MoveAwait(d, "stopped")

MoveCmd(s) ==
    /\ cmd' = s
    /\ UNCHANGED <<page, loop, trackers, captures, policy, told, await, screenshot,
                   stopped>>

\* A cancelled context or checkPromptBlocked; and then Send.
Blocked == prompts \/ model = "over"
CheckPromptBlocked ==
    \/ cmd = "idle" /\ ~stopped /\ MayBegin /\ MoveCmd(IF Blocked THEN "blocked" ELSE "checked")
    \/ cmd = "checked" /\ MoveCmd("sent")

\* The browser answers no such command while a prompt is open.
CommandAnswered == cmd = "sent" /\ dialog = 0 /\ MoveCmd("answered")
\* The 60 s, or the model's context.
CommandTimesOut == cmd = "sent" /\ MoveCmd("timeout")
CommandStops == cmd = "sent" /\ stopped /\ MoveCmd("stopped")

\* The 5 min of a model operation are over while one of its tools runs; then it ends.
ModelMoves(from, to) ==
    /\ model = from /\ model' = to
    /\ UNCHANGED <<page, loop, trackers, captures, manual, dismissals, claims, lost, told, await,
                   cmd, screenshot, stopped>>
ModelTimesOut == MayBegin /\ ModelMoves("none", "over")
ModelEnds == ModelMoves("over", "ended")

----------------------------------------------------------------------------
(* A screenshot for the recording: captureWithNavigationRetry.             *)

MoveShot(s) ==
    /\ shot' = s
    /\ UNCHANGED <<page, loop, trackers, captures, policy, told, await, cmd, stopped>>

\* IsNavigating; then WaitForSettled takes the entry's channel, or finds none.
CheckNavigating ==
    /\ shot = "idle" /\ MayBegin /\ MoveShot(IF inFlight # 0 THEN "settle" ELSE "subscribe")
    /\ UNCHANGED <<shotNav, started>>

NotifyStart ==
    /\ shot = "subscribe" /\ MoveShot("first")
    /\ started' = "open" /\ UNCHANGED shotNav

\* The browser answers a capture when no navigation is under way; 5 s pass otherwise.
FirstFrame ==
    /\ shot = "first" /\ navs = {} /\ MoveShot("frame")
    /\ started' = "none" /\ UNCHANGED shotNav

FirstTimesOut ==
    /\ shot = "first" /\ started = "open" /\ MoveShot("noframe")
    /\ started' = "none" /\ UNCHANGED shotNav

NoticeStart ==
    /\ shot = "first" /\ started = "closed" /\ MoveShot("settle")
    /\ UNCHANGED <<shotNav, started>>

WaitForSettled ==
    /\ shot = "settle" /\ shotNav' = inFlight /\ UNCHANGED started
    /\ MoveShot(IF inFlight = 0 THEN "second" ELSE "settling")

\* The channel of that entry is closed, or 5 s pass.
SettleEnds == shot = "settling" /\ MoveShot("second") /\ UNCHANGED <<shotNav, started>>

SecondAttempt ==
    /\ shot = "second" /\ started' = "none" /\ UNCHANGED shotNav
    /\ \/ navs = {} /\ MoveShot("frame")
       \/ MoveShot("noframe")

Stop ==
    /\ ~stopped /\ stopped' = TRUE
    /\ UNCHANGED <<page, loop, trackers, captures, policy, told, await, cmd, screenshot>>

----------------------------------------------------------------------------
PageStep == OpenPrompt \/ StartNav \/ EndNav \/ \E d \in Downloads : Download(d)
LoopStep == ReadEvent \/ CheckPolicy \/ CheckCaptures \/ Offer
CaptureStep(c) == TakeEvent(c) \/ CaptureExpires(c) \/ CaptureFails(c) \/ CaptureStops(c)
ShotStep ==
    \/ CheckNavigating \/ NotifyStart \/ FirstFrame \/ FirstTimesOut \/ NoticeStart
    \/ WaitForSettled \/ SettleEnds \/ SecondAttempt
Next ==
    \/ PageStep \/ HandlePrompt \/ LoopStep \/ ShotStep
    \/ \E c \in Captures : Capture(c) \/ CaptureStep(c)
    \/ SetPolicy \/ AnswerPrompt \/ \E d \in Downloads : Await(d) \/ AwaitEnds(d)
    \/ CheckPromptBlocked \/ CommandAnswered \/ CommandTimesOut \/ CommandStops
    \/ \E n \in Prompts : Dismiss(n)
    \/ ModelTimesOut \/ ModelEnds \/ Stop

Spec == Init /\ [][Next]_vars

\* Goroutines run, timers fire, the browser executes what it may, and a client closes
\* the prompts it claimed; pages, policies and Stop happen or do not.  None of these can
\* take steps for ever, so that fairness to all of them together is enough.
GoroutineStep ==
    \/ LoopStep \/ HandlePrompt \/ \E n \in Prompts : Dismiss(n)
    \/ ModelEnds \/ \E c \in Captures : CaptureStep(c)
    \/ \E d \in Downloads : AwaitEnds(d)
    \/ CommandAnswered \/ NotifyStart \/ FirstTimesOut \/ NoticeStart \/ WaitForSettled
    \/ SettleEnds \/ SecondAttempt
    \/ AnswerPrompt /\ Claimed(dialog)
Fairness == WF_vars(GoroutineStep)

FairSpec == Spec /\ Fairness

----------------------------------------------------------------------------
(* Properties.                                                             *)

Events == [kind : {"opened", "closed"}, of : Prompts]
          \cup [kind : {"navStarted", "load", "navFailed"}, of : 1 .. MaxNavs]
          \cup [kind : {"willBegin", "end"}, of : Downloads]
PromptCommands == [kind : {"dismiss", "answer"}, of : Prompts]

PageOK ==
    /\ dialog \in Prompts \cup {0} /\ opened \in Prompts \cup {0}
    /\ closedBy \in [Prompts -> PromptCommands \cup {Nothing}] /\ commands \subseteq PromptCommands
    /\ parked \in [Prompts -> SUBSET DialogCaptures]
    /\ navCount \in 0 .. MaxNavs /\ navs \subseteq 1 .. navCount
    /\ files \in [Downloads -> {"none", "running", "ended"}]
LoopOK ==
    /\ wire \in Seq(Events) /\ left \subseteq Prompts
    /\ lpc \in {"read", "claim", "wants", "offer"} /\ ev \in Events \cup {Nothing}
    /\ lpc # "read" => ev # Nothing
    /\ lpc \in {"claim", "wants"} => IsPrompt(ev)
TrackersOK ==
    /\ prompts \in BOOLEAN /\ inFlight \in 0 .. MaxNavs
    /\ registry \in [Downloads -> {"unknown", "running", "done"}]
CapturesOK ==
    /\ got \in [Captures -> Events \cup {Nothing}] /\ due \in [Captures -> Events \cup {Nothing}]
    /\ cap \in [Captures -> {"idle", "waiting", "expired", "answered", "failed", "stopped"}]
    /\ pending \cup filled \subseteq {c \in Captures : cap[c] \in {"waiting", "expired"}}
    /\ pending \cap filled = {}
WaitersOK ==
    /\ claims \in [Prompts -> SUBSET DialogCaptures]
    /\ dismissals \subseteq Prompts /\ lost \subseteq Prompts /\ model \in {"none", "over", "ended"}
    /\ {manual, stopped} \subseteq BOOLEAN /\ told \subseteq Events
    /\ await \in [Downloads -> {"idle", "unknown", "waiting", "result", "timeout", "stopped"}]
    /\ cmd \in {"idle", "blocked", "checked", "sent", "answered", "timeout", "stopped"}
    /\ shot \in {"idle", "subscribe", "first", "settle", "settling", "second", "frame",
                 "noframe"}
    /\ shotNav \in 0 .. MaxNavs /\ started \in {"none", "open", "closed"}

\* Every variable keeps its type; who waits in the registry waits.
TypeOK == PageOK /\ LoopOK /\ TrackersOK /\ CapturesOK /\ WaitersOK

\* The latest event of some kinds that the loop has not read, if there is one.
Unread(kinds) == {i \in DOMAIN wire : wire[i].kind \in kinds}
IsLatest(i, kinds) == i \in Unread(kinds) /\ \A j \in Unread(kinds) : j <= i

\* "Fail fast" is right but for what is still on the wire: the tracker, once the loop
\* has read it all, knows of a prompt exactly if one is open.
PromptKinds == {"opened", "closed"}
PromptTrackerIsCurrent ==
    IF Unread(PromptKinds) = {} THEN prompts <=> dialog # 0
    ELSE \E i \in DOMAIN wire : /\ IsLatest(i, PromptKinds)
                                /\ wire[i].kind = "opened" <=> dialog # 0

\* "An abandoned navigation cannot leave a context marked in-flight forever": when every
\* navigation has ended and its events are read, the tracker says settled.
NavKinds == {"navStarted", "load", "navFailed"}
NoPhantomNavigation == navs = {} /\ Unread(NavKinds) = {} => inFlight = 0

\* One-shot: a capture gets the first event of its kind that is routed after its command
\* was accepted, and none before or after it.
CaptureGetsFirst ==
    \A c \in Captures : got[c] = due[c]

\* "The id can only be wrong then": a download the client heard of is in the registry.
AwaitedIsKnown == \A d \in Downloads : await[d] # "unknown"

\* What the routing goroutine keeps of the page is what the events it has read say.
TrackersAreCurrent == PromptTrackerIsCurrent /\ NoPhantomNavigation /\ AwaitedIsKnown

\* A dismissal names no prompt.  It closes another prompt than the one it was started for
\* only after the client itself closed one, that one or one before it.
AnsweredUpTo(n) == \E k \in 1 .. n : closedBy[k].kind = "answer"
DismissesItsOwn ==
    \A n \in Prompts :
        closedBy[n].kind = "dismiss" /\ closedBy[n].of # n => AnsweredUpTo(closedBy[n].of)

\* A prompt's dismissal is to be sent, or on its way to the browser.
OnItsWay(n) == n \in dismissals \/ Event("dismiss", n) \in commands

\* "The inline registration is also what parks the auto-dismiss default before the dialog
\* can open" (handlers_capture.go): a prompt that opens after the capture that gets it was
\* registered is the capturer's.  The router dismisses it neither then nor later, however
\* long ago the loop decided, nor with the dismissal of an earlier prompt, unless the client
\* closed that one itself.
CaptureDecides ==
    \A c \in DialogCaptures, n \in Prompts :
        got[c] = Event("opened", n) /\ c \in parked[n] =>
            /\ ~OnItsWay(n) /\ closedBy[n] # Event("dismiss", n)
            /\ closedBy[n].kind = "dismiss" => AnsweredUpTo(closedBy[n].of)

\* Nobody closes a prompt whose dismissal was not sent, nor one left to a capture that then
\* timed out.
Abandoned(n) == n \in lost \/ \E c \in claims[n] : cap[c] = "failed"

\* Every other prompt is closed: by whoever claimed it, and if nobody did, by the router.
PromptsEnd == \A n \in Prompts : (dialog = n) ~> (dialog # n \/ stopped \/ Abandoned(n))

\* A command that a prompt holds up is answered once the prompt is gone.
CommandsReturn ==
    (cmd = "sent") ~> (cmd # "sent" \/ stopped \/ \E n \in Prompts : dialog = n /\ Abandoned(n))

\* Whoever waits for the page gets an end: captures and awaits by their event, their
\* timeout or the session, commands when the prompt is gone, and the recording's
\* screenshot, with or without a frame, so that it never stalls the action.
WaitersEnd ==
    /\ \A c \in Captures : (cap[c] = "waiting") ~> (cap[c] \in {"answered", "failed", "stopped"})
    /\ \A d \in Downloads : (await[d] = "waiting") ~> (await[d] # "waiting")
    /\ (shot # "idle") ~> (shot \in {"frame", "noframe"})
    /\ CommandsReturn

(* What makes the invariants hold; the proofs show it inductive.                            *)

\* In the registry are the captures that still wait for an event to be routed to them.
RegistryInv ==
    \A c \in Captures :
        /\ c \in pending <=> cap[c] \in {"waiting", "expired"} /\ got[c] = Nothing
        /\ cap[c] = "idle" => got[c] = Nothing
        /\ got[c] = due[c]

\* While the tracker has a navigation in flight, and after the start of one that it has
\* not read, one is under way.
NavInv ==
    IF Unread(NavKinds) = {} THEN inFlight # 0 => navs # {}
    ELSE \E i \in DOMAIN wire : /\ IsLatest(i, NavKinds)
                                /\ wire[i].kind = "navStarted" => navs # {}

\* The registry has a download before the client hears of it.
ToldInv ==
    \A d \in Downloads :
        /\ Event("willBegin", d) \in told \cup {ev} => registry[d] # "unknown"
        /\ await[d] # "unknown"

\* A prompt's dismissal is still to be decided.
Undecided(n) ==
    \/ \E i \in DOMAIN wire : wire[i] = Event("opened", n)
    \/ lpc \in {"claim", "wants"} /\ ev = Event("opened", n)

\* Prompts open one after another, and each is announced and decided upon once.
OnceInv ==
    /\ dialog \in {0, opened}
    /\ \A n \in Prompts : n > opened \/ n = dialog => closedBy[n] = Nothing
    /\ \A n \in Prompts : Undecided(n) \/ OnItsWay(n) => n <= opened
    /\ \A n \in Prompts : ~(Undecided(n) /\ OnItsWay(n))
    /\ \A n \in dismissals : Event("dismiss", n) \notin commands
    /\ \A i, j \in DOMAIN wire : wire[i].kind = "opened" /\ wire[i] = wire[j] => i = j
    /\ lpc \in {"claim", "wants"} => \A i \in DOMAIN wire : wire[i] # ev

\* A prompt that is gone before its dismissal was closed by the client, or by the late
\* dismissal of one before it.
LateInv ==
    \A n \in Prompts : (Undecided(n) \/ OnItsWay(n)) /\ dialog # n => AnsweredUpTo(n)

\* An event that no capture was offered yet.
Unrouted(n) == ev = Event("opened", n) \/ \E i \in DOMAIN wire : wire[i] = Event("opened", n)

\* A capture that was there when a prompt opened is so when the loop decides on it, until it
\* expires or gets an earlier prompt.
ParkInv ==
    /\ \A n \in Prompts : Unrouted(n) => n <= opened
    /\ ev.kind = "opened" => \A i \in DOMAIN wire : wire[i] # ev
    /\ \A c \in DialogCaptures, n \in Prompts :
          /\ c \in parked[n] => cap[c] # "idle"
          /\ got[c] = Event("opened", n) => n <= opened /\ ~Unrouted(n)
          /\ c \in parked[n] /\ (c \in pending \/ got[c] = Event("opened", n)) =>
                ~OnItsWay(n) /\ closedBy[n] # Event("dismiss", n)
=============================================================================
