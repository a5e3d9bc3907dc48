------------------------- MODULE EventRoutingProofs -------------------------
(* Theorems about EventRouting, for any captures, downloads and bounds. *)
EXTENDS EventRouting, SequenceTheorems, TLAPS

\* The bounds, and that no event is the absence of one.
LEMMA EventFacts ==
    /\ MaxPrompts \in Nat /\ MaxNavs \in Nat
    /\ Nothing \notin Events
    /\ \A e \in Events : IsPrompt(e) => e.of \in Prompts
  BY RoutingAssumption DEF Events, Nothing, IsPrompt

\* What the page sends are events.
LEMMA EventsOfThePage ==
    ASSUME PageOK
    PROVE  /\ opened < MaxPrompts => Event("opened", opened + 1) \in Events
           /\ dialog # 0 => Event("closed", dialog) \in Events
           /\ navCount < MaxNavs => Event("navStarted", navCount + 1) \in Events
           /\ \A n \in navs, k \in {"load", "navFailed"} : Event(k, n) \in Events
           /\ \A d \in Downloads : Event("willBegin", d) \in Events /\ Event("end", d) \in Events
  <1> USE EventFacts DEF PageOK
  <1>1. opened < MaxPrompts => opened + 1 \in Prompts
    BY DEF Prompts
  <1>2. navCount < MaxNavs => navCount + 1 \in 1 .. MaxNavs
    OBVIOUS
  <1>3. \A n \in navs : n \in 1 .. MaxNavs
    OBVIOUS
  <1>4. dialog # 0 => dialog \in Prompts
    OBVIOUS
  <1> QED BY <1>1, <1>2, <1>3, <1>4, Zenon DEF Event, Events

\* What happens to the page is about its prompts, its navigations and its downloads.
LEMMA StepPageOK == TypeOK /\ [Next]_vars => PageOK'
  <1> SUFFICES ASSUME TypeOK, [Next]_vars PROVE PageOK'
    OBVIOUS
  <1> USE EventFacts DEF TypeOK, PageOK, PromptCommands, Event, Nothing, Prompts
  <1>1. CASE OpenPrompt
    BY <1>1 DEF OpenPrompt, CapturesOK
  <1>2. CASE HandlePrompt
    <2> PICK c \in commands :
           /\ commands' = commands \ {c}
           /\ \/ UNCHANGED <<dialog, closedBy>>
              \/ dialog # 0 /\ dialog' = 0 /\ closedBy' = [closedBy EXCEPT ![dialog] = c]
           /\ UNCHANGED <<opened, parked, navs, navCount, files>>
      BY <1>2, Zenon DEF HandlePrompt
    <2>1. closedBy' \in [Prompts -> PromptCommands \cup {Nothing}]
      BY Zenon
    <2> QED BY <2>1
  <1>3. CASE StartNav
    BY <1>3 DEF StartNav
  <1>4. CASE EndNav
    BY <1>4 DEF EndNav
  <1>5. ASSUME NEW d \in Downloads, Download(d) PROVE PageOK'
    BY <1>5 DEF Download
  <1>6. ASSUME NEW n \in Prompts, Dismiss(n) PROVE PageOK'
    BY <1>6 DEF Dismiss
  <1>7. CASE AnswerPrompt
    BY <1>7 DEF AnswerPrompt
  <1>8. CASE UNCHANGED page
    BY <1>8 DEF page
  <1> QED
    BY <1>1, <1>2, <1>3, <1>4, <1>5, <1>6, <1>7, <1>8
    DEF Next, vars, PageStep, LoopStep, ShotStep, CaptureStep, ReadEvent, CheckPolicy, CheckCaptures, Offer,
        Capture, Move, TakeEvent, CaptureExpires, CaptureFails, CaptureStops, SetPolicy, Await,
        AwaitEnds, MoveAwait, CheckPromptBlocked, CommandAnswered, CommandTimesOut,
        CommandStops, MoveCmd, MoveShot, CheckNavigating, NotifyStart, FirstFrame,
        FirstTimesOut, NoticeStart, WaitForSettled, SettleEnds, SecondAttempt, Stop,
        policy, Dismiss, ModelTimesOut, ModelEnds, ModelMoves

\* The wire carries events, and the loop holds one until it has offered it.
LEMMA StepLoopOK == TypeOK /\ [Next]_vars => LoopOK'
  <1> SUFFICES ASSUME TypeOK, [Next]_vars PROVE LoopOK'
    OBVIOUS
  <1> USE EventFacts DEF TypeOK, LoopOK
  <1>0. ASSUME NEW e \in Events, wire' = Append(wire, e), UNCHANGED <<lpc, ev, left>>
        PROVE LoopOK'
    BY <1>0
  <1>1. CASE OpenPrompt
    <2>1. Event("opened", opened + 1) \in Events
      BY <1>1, EventsOfThePage DEF TypeOK, OpenPrompt
    <2> QED BY <1>0, <1>1, <2>1 DEF OpenPrompt
  <1>2. CASE HandlePrompt
    <2>1. CASE dialog # 0
      <3>1. Event("closed", dialog) \in Events
        BY <2>1, EventsOfThePage DEF TypeOK
      <3> QED BY <1>0, <1>2, <2>1, <3>1 DEF HandlePrompt
    <2> QED BY <1>2, <2>1 DEF HandlePrompt
  <1>3. CASE StartNav
    <2>1. Event("navStarted", navCount + 1) \in Events
      BY <1>3, EventsOfThePage DEF TypeOK, StartNav
    <2> QED BY <1>0, <1>3, <2>1 DEF StartNav
  <1>4. CASE EndNav
    <2> PICK n \in navs, k \in {"load", "navFailed"} : wire' = Append(wire, Event(k, n))
      BY <1>4 DEF EndNav
    <2>1. Event(k, n) \in Events
      BY EventsOfThePage DEF TypeOK
    <2> QED BY <1>0, <1>4, <2>1 DEF EndNav
  <1>5. ASSUME NEW d \in Downloads, Download(d) PROVE LoopOK'
    <2>1. Event("willBegin", d) \in Events /\ Event("end", d) \in Events
      BY EventsOfThePage DEF TypeOK
    <2> QED BY <1>0, <1>5, <2>1 DEF Download
  <1>6. CASE ReadEvent
    <2>1. Head(wire) \in Events /\ Tail(wire) \in Seq(Events)
      BY <1>6 DEF ReadEvent
    <2> QED BY <1>6, <2>1 DEF ReadEvent
  <1>7. CASE CheckPolicy
    BY <1>7 DEF CheckPolicy
  <1>8. CASE CheckCaptures
    BY <1>8 DEF CheckCaptures
  <1>9. CASE Offer
    BY <1>9 DEF Offer
  <1>10. CASE UNCHANGED loop
    BY <1>10 DEF loop
  <1> QED
    BY <1>1, <1>2, <1>3, <1>4, <1>5, <1>6, <1>7, <1>8, <1>9, <1>10
    DEF Next, vars, PageStep, LoopStep, ShotStep, CaptureStep,
        Capture, Move, TakeEvent, CaptureExpires, CaptureFails, CaptureStops, SetPolicy, Await,
        AnswerPrompt, AwaitEnds, MoveAwait, CheckPromptBlocked, CommandAnswered,
        CommandTimesOut, CommandStops, MoveCmd, MoveShot, CheckNavigating, NotifyStart,
        FirstFrame, FirstTimesOut, NoticeStart, WaitForSettled, SettleEnds, SecondAttempt, Stop,
        policy, Dismiss, ModelTimesOut, ModelEnds, ModelMoves

\* Only reading an event changes what the router knows of the page.
LEMMA StepTrackersOK == TypeOK /\ [Next]_vars => TrackersOK'
  <1> SUFFICES ASSUME TypeOK, [Next]_vars PROVE TrackersOK'
    OBVIOUS
  <1> USE EventFacts DEF TypeOK, TrackersOK
  <1>1. CASE ReadEvent
    <2> DEFINE e == Head(wire)
    <2>1. e \in Events
      BY <1>1 DEF ReadEvent, LoopOK
    <2>2. PromptAfter(e) \in BOOLEAN
      BY DEF PromptAfter
    <2>3. NavAfter(e) \in 0 .. MaxNavs
      BY <2>1 DEF NavAfter, Events
    <2>4. RegistryAfter(e) \in [Downloads -> {"unknown", "running", "done"}]
      BY <2>1 DEF RegistryAfter, Events
    <2> QED BY <1>1, <2>2, <2>3, <2>4 DEF ReadEvent
  <1>2. CASE UNCHANGED trackers
    BY <1>2 DEF trackers
  <1> QED
    BY <1>1, <1>2
    DEF Next, vars, PageStep, OpenPrompt, HandlePrompt, StartNav, EndNav, Download, LoopStep,
        CheckPolicy, CheckCaptures, Offer, ShotStep, CaptureStep,
        Capture, Move, TakeEvent, CaptureExpires, CaptureFails, CaptureStops, SetPolicy, Await,
        AnswerPrompt, AwaitEnds, MoveAwait, CheckPromptBlocked, CommandAnswered,
        CommandTimesOut, CommandStops, MoveCmd, MoveShot, CheckNavigating, NotifyStart,
        FirstFrame, FirstTimesOut, NoticeStart, WaitForSettled, SettleEnds, SecondAttempt, Stop,
        policy, Dismiss, ModelTimesOut, ModelEnds, ModelMoves

\* Captures are registered while they wait, and filled at most once.
LEMMA StepCapturesOK == TypeOK /\ [Next]_vars => CapturesOK'
  <1> SUFFICES ASSUME TypeOK, [Next]_vars PROVE CapturesOK'
    OBVIOUS
  <1> USE EventFacts DEF TypeOK, CapturesOK
  <1>1. CASE Offer
    BY <1>1 DEF Offer, PendingAfter, Takers, Nothing, LoopOK
  <1>2. ASSUME NEW c \in Captures, Capture(c) PROVE CapturesOK'
    BY <1>2 DEF Capture
  <1>3. ASSUME NEW c \in Captures, CaptureStep(c) PROVE CapturesOK'
    BY <1>3 DEF CaptureStep, TakeEvent, CaptureExpires, CaptureFails, CaptureStops, Move
  <1>4. CASE UNCHANGED captures
    BY <1>4 DEF captures
  <1> QED
    BY <1>1, <1>2, <1>3, <1>4
    DEF Next, vars, PageStep, OpenPrompt, HandlePrompt, StartNav, EndNav, Download, LoopStep,
        ReadEvent, CheckPolicy, CheckCaptures, ShotStep, SetPolicy, Await,
        AnswerPrompt, AwaitEnds, MoveAwait, CheckPromptBlocked, CommandAnswered,
        CommandTimesOut, CommandStops, MoveCmd, MoveShot, CheckNavigating, NotifyStart,
        FirstFrame, FirstTimesOut, NoticeStart, WaitForSettled, SettleEnds, SecondAttempt, Stop,
        policy, Dismiss, ModelTimesOut, ModelEnds, ModelMoves

\* The others who wait for the page.
LEMMA StepWaitersOK == TypeOK /\ [Next]_vars => WaitersOK'
  <1> SUFFICES ASSUME TypeOK, [Next]_vars PROVE WaitersOK'
    OBVIOUS
  <1> USE EventFacts DEF TypeOK, WaitersOK
  <1>1. CASE ReadEvent
    BY <1>1 DEF ReadEvent, policy
  <1>2. CASE Offer
    BY <1>2 DEF Offer, LoopOK, policy, screenshot
  <1>3. CASE SetPolicy \/ Stop \/ ModelTimesOut \/ ModelEnds
    BY <1>3 DEF SetPolicy, Stop, ModelTimesOut, ModelEnds, ModelMoves, policy, screenshot
  <1>4. ASSUME NEW d \in Downloads, Await(d) \/ AwaitEnds(d) PROVE WaitersOK'
    BY <1>4 DEF Await, AwaitEnds, MoveAwait, policy, screenshot
  <1>5. CASE CheckPromptBlocked \/ CommandAnswered \/ CommandTimesOut \/ CommandStops
    BY <1>5 DEF CheckPromptBlocked, CommandAnswered, CommandTimesOut, CommandStops, MoveCmd,
       policy, screenshot
  <1>6. CASE ShotStep
    BY <1>6 DEF ShotStep, MoveShot, CheckNavigating, NotifyStart, FirstFrame, FirstTimesOut,
       NoticeStart, WaitForSettled, SettleEnds, SecondAttempt, TrackersOK,
       policy
  <1>7. CASE CheckCaptures
    <2>1. ev.of \in Prompts
      BY <1>7 DEF CheckCaptures, LoopOK
    <2> QED BY <1>7, <2>1 DEF CheckCaptures, screenshot
  <1>8. ASSUME NEW n \in Prompts, Dismiss(n) PROVE WaitersOK'
    BY <1>8 DEF Dismiss, screenshot
  <1>9. CASE UNCHANGED <<policy, stopped, told, await, cmd, screenshot>>
    BY <1>9 DEF policy, screenshot
  <1> QED
    BY <1>1, <1>2, <1>3, <1>4, <1>5, <1>6, <1>7, <1>8, <1>9
    DEF Next, vars, PageStep, OpenPrompt, HandlePrompt, StartNav, EndNav, Download, LoopStep,
        CheckPolicy, CaptureStep, Capture, Move, TakeEvent, CaptureExpires,
        CaptureFails, CaptureStops, AnswerPrompt

\* Every variable keeps its type.
THEOREM TypeCorrect == Spec => []TypeOK
  <1>1. Init => TypeOK
    <2> SUFFICES ASSUME Init PROVE TypeOK
      OBVIOUS
    <2>1. PageOK
      BY EventFacts DEF Init, PageOK, Prompts
    <2>2. LoopOK
      BY DEF Init, LoopOK
    <2>3. TrackersOK
      <3>1. inFlight \in 0 .. MaxNavs
        BY RoutingAssumption DEF Init
      <3>2. registry \in [Downloads -> {"unknown", "running", "done"}]
        BY DEF Init
      <3>3. prompts \in BOOLEAN
        BY Zenon DEF Init
      <3> QED BY <3>1, <3>2, <3>3, Zenon DEF TrackersOK
    <2>4. CapturesOK
      BY DEF Init, CapturesOK
    <2>5. WaitersOK
      <3>1. await \in [Downloads -> {"idle", "unknown", "waiting", "result", "timeout", "stopped"}]
        BY DEF Init
      <3>2. shotNav \in 0 .. MaxNavs
        BY RoutingAssumption DEF Init
      <3>4. /\ claims \in [Prompts -> SUBSET DialogCaptures] /\ dismissals \subseteq Prompts
            /\ lost \subseteq Prompts /\ model = "none"
        BY DEF Init
      <3>3. /\ {manual, stopped} \subseteq BOOLEAN /\ told \subseteq Events
            /\ cmd = "idle" /\ shot = "idle" /\ started = "none"
        BY Zenon DEF Init
      <3> QED BY <3>1, <3>2, <3>3, <3>4, Zenon DEF WaitersOK
    <2> QED BY <2>1, <2>2, <2>3, <2>4, <2>5 DEF TypeOK
  <1>2. TypeOK /\ [Next]_vars => TypeOK'
    BY StepPageOK, StepLoopOK, StepTrackersOK, StepCapturesOK, StepWaitersOK DEF TypeOK
  <1> QED BY <1>1, <1>2, PTL DEF Spec

\* The registry holds the captures that still wait, and offering an event to it keeps what
\* they got and what was due to them the same.
LEMMA StepRegistryInv == TypeOK /\ RegistryInv /\ [Next]_vars => RegistryInv'
  <1> SUFFICES ASSUME TypeOK, RegistryInv, [Next]_vars PROVE RegistryInv'
    OBVIOUS
  <1> USE DEF TypeOK, CapturesOK, RegistryInv
  <1>1. CASE Offer
    <2>1. ev \in Events /\ ev # Nothing
      BY <1>1 DEF Offer, LoopOK
    <2>2. UNCHANGED cap
      BY <1>1 DEF Offer
    <2> SUFFICES ASSUME NEW c \in Captures
                 PROVE /\ c \in pending' <=> cap[c] \in {"waiting", "expired"} /\ got'[c] = Nothing
                       /\ cap[c] = "idle" => got'[c] = Nothing
                       /\ got'[c] = due'[c]
      BY <2>2
    <2>3. c \in Takers(ev) <=> c \in pending /\ Matches(c, ev)
      BY DEF Takers
    <2>4. got'[c] = IF c \in Takers(ev) THEN ev ELSE got[c]
      BY <1>1 DEF Offer
    <2>5. due'[c] = IF cap[c] \in {"waiting", "expired"} /\ Matches(c, ev) /\ due[c] = Nothing
                       THEN ev ELSE due[c]
      BY <1>1 DEF Offer
    <2>6. pending' = pending \ Takers(ev)
      BY <1>1 DEF Offer, PendingAfter
    <2> QED BY <2>1, <2>3, <2>4, <2>5, <2>6
  <1>2. ASSUME NEW c \in Captures, Capture(c) PROVE RegistryInv'
    BY <1>2 DEF Capture
  <1>3. ASSUME NEW c \in Captures, CaptureStep(c) PROVE RegistryInv'
    BY <1>3 DEF CaptureStep, TakeEvent, CaptureExpires, CaptureFails, CaptureStops, Move
  <1>4. CASE UNCHANGED captures
    BY <1>4 DEF captures
  <1> QED
    BY <1>1, <1>2, <1>3, <1>4
    DEF Next, vars, PageStep, OpenPrompt, HandlePrompt, StartNav, EndNav, Download, LoopStep,
        ReadEvent, CheckPolicy, CheckCaptures, ShotStep, SetPolicy, Await,
        AnswerPrompt, AwaitEnds, MoveAwait, CheckPromptBlocked, CommandAnswered,
        CommandTimesOut, CommandStops, MoveCmd, MoveShot, CheckNavigating, NotifyStart,
        FirstFrame, FirstTimesOut, NoticeStart, WaitForSettled, SettleEnds, SecondAttempt, Stop,
        policy, Dismiss, ModelTimesOut, ModelEnds, ModelMoves

\* A capture gets the first event of its kind routed after it was accepted, and no other.
THEOREM CapturesGetTheFirst == Spec => []CaptureGetsFirst
  <1>1. Init => RegistryInv
    BY DEF Init, RegistryInv, Nothing
  <1>2. RegistryInv => CaptureGetsFirst
    BY DEF RegistryInv, CaptureGetsFirst
  <1> QED BY <1>1, <1>2, StepRegistryInv, TypeCorrect, PTL DEF Spec

----------------------------------------------------------------------------
(* The trackers.                                                           *)

\* Who changes the page, the wire, the trackers and what the client knows of them.
LEMMA RoutingSteps ==
    ASSUME [Next]_vars
    PROVE  \/ OpenPrompt \/ HandlePrompt \/ StartNav \/ EndNav \/ (\E d \in Downloads : Download(d))
           \/ ReadEvent \/ CheckPolicy \/ CheckCaptures \/ Offer \/ AnswerPrompt
           \/ \E n \in Prompts : Dismiss(n)
           \/ \E d \in Downloads : Await(d) \/ AwaitEnds(d)
           \/ UNCHANGED <<page, loop, trackers, dismissals, told, await>>
  BY DEF Next, vars, PageStep, LoopStep, ShotStep, CaptureStep, Capture, Move, TakeEvent,
     CaptureExpires, CaptureFails, CaptureStops, SetPolicy, CheckPromptBlocked, CommandAnswered,
     CommandTimesOut, CommandStops, MoveCmd, MoveShot, CheckNavigating, NotifyStart, FirstFrame,
     FirstTimesOut, NoticeStart, WaitForSettled, SettleEnds, SecondAttempt, Stop, policy,
     ModelTimesOut, ModelEnds, ModelMoves

\* An event that the browser sends is the latest of its kinds, and none of the others.
LEMMA UnreadAfterSend ==
    ASSUME LoopOK, NEW e \in Events, wire' = Append(wire, e), NEW K
    PROVE  /\ e.kind \in K => \E i \in DOMAIN wire' : IsLatest(i, K)' /\ wire'[i] = e
           /\ e.kind \notin K => Unread(K)' = Unread(K)
           /\ \A i \in DOMAIN wire : i \in DOMAIN wire' /\ wire'[i] = wire[i]
  <1> PICK n \in Nat : n = Len(wire) + 1
    BY DEF LoopOK
  <1>1. /\ Len(wire) \in Nat /\ DOMAIN wire = 1 .. Len(wire) /\ DOMAIN wire' = 1 .. n
        /\ wire'[n] = e /\ \A i \in 1 .. Len(wire) : wire'[i] = wire[i]
    BY DEF LoopOK
  <1>2. ASSUME e.kind \in K PROVE IsLatest(n, K)'
    BY <1>1, <1>2 DEF IsLatest, Unread
  <1>3. ASSUME e.kind \notin K PROVE Unread(K)' = Unread(K)
    BY <1>1, <1>3 DEF Unread
  <1> QED BY <1>1, <1>2, <1>3

\* Reading one leaves the latest what it is, unless it was the only one.
LEMMA UnreadAfterRead ==
    ASSUME LoopOK, wire # <<>>, wire' = Tail(wire), NEW K
    PROVE  /\ \A i \in DOMAIN wire' : i + 1 \in DOMAIN wire /\ wire'[i] = wire[i + 1]
           /\ Unread(K) = {} => Head(wire).kind \notin K /\ Unread(K)' = {}
           /\ \A i \in DOMAIN wire :
                 IsLatest(i, K) =>
                     \/ Unread(K)' = {} /\ wire[i] = Head(wire) /\ Head(wire).kind \in K
                     \/ /\ Unread(K)' # {}
                        /\ \E j \in DOMAIN wire' : IsLatest(j, K)' /\ wire'[j] = wire[i]
  <1>1. /\ Len(wire) \in Nat /\ Len(wire) > 0 /\ DOMAIN wire = 1 .. Len(wire)
        /\ DOMAIN wire' = 1 .. Len(wire) - 1 /\ Head(wire) = wire[1]
        /\ \A i \in 1 .. Len(wire) - 1 : wire'[i] = wire[i + 1]
    BY DEF LoopOK
  <1>2. \A i \in DOMAIN wire' : i + 1 \in DOMAIN wire /\ wire'[i] = wire[i + 1]
    BY <1>1
  <1>3. \A i \in DOMAIN wire' : i \in Unread(K)' <=> i + 1 \in Unread(K)
    BY <1>1, <1>2 DEF Unread
  <1>4. Unread(K) = {} => Head(wire).kind \notin K /\ Unread(K)' = {}
    <2>1. Unread(K) = {} => Head(wire).kind \notin K
      BY <1>1 DEF Unread
    <2>2. Unread(K) = {} => Unread(K)' = {}
      BY <1>3 DEF Unread
    <2> QED BY <2>1, <2>2
  <1>5. ASSUME NEW i \in DOMAIN wire, IsLatest(i, K)
        PROVE  \/ Unread(K)' = {} /\ wire[i] = Head(wire) /\ Head(wire).kind \in K
               \/ /\ Unread(K)' # {}
                  /\ \E j \in DOMAIN wire' : IsLatest(j, K)' /\ wire'[j] = wire[i]
    <2>1. CASE i = 1
      <3>1. \A j \in Unread(K) : j = 1
        BY <1>1, <1>5, <2>1 DEF IsLatest, Unread
      <3>2. Unread(K)' = {}
        BY <1>1, <1>3, <3>1 DEF Unread
      <3> QED BY <1>1, <1>5, <2>1, <3>2 DEF IsLatest, Unread
    <2>2. CASE i # 1
      <3> DEFINE j == i - 1
      <3>1. j \in DOMAIN wire' /\ wire'[j] = wire[i]
        BY <1>1, <2>2
      <3>2. j \in Unread(K)'
        BY <1>1, <1>3, <1>5, <3>1 DEF IsLatest
      <3>3. \A k \in Unread(K)' : k <= j
        BY <1>1, <1>3, <1>5 DEF IsLatest, Unread
      <3>4. IsLatest(i - 1, K)'
        BY <3>2, <3>3 DEF IsLatest
      <3> QED BY <3>1, <3>2, <3>4
    <2> QED BY <2>1, <2>2
  <1> QED BY <1>2, <1>4, <1>5

\* The tracker knows of the page's prompt what the events it has read say.
LEMMA StepPromptTracker ==
    ASSUME TypeOK, PromptTrackerIsCurrent, [Next]_vars PROVE PromptTrackerIsCurrent'
  <1> USE DEF PromptTrackerIsCurrent
  <1>0. ASSUME NEW e \in Events, wire' = Append(wire, e), prompts' = prompts,
               \/ e.kind = "opened" /\ dialog' # 0
               \/ e.kind = "closed" /\ dialog' = 0
               \/ e.kind \notin PromptKinds /\ dialog' = dialog
        PROVE  PromptTrackerIsCurrent'
    <2>1. CASE e.kind \in PromptKinds
      <3>1. PICK i \in DOMAIN wire' : IsLatest(i, PromptKinds)' /\ wire'[i] = e
        BY <1>0, <2>1, UnreadAfterSend DEF TypeOK
      <3> QED BY <1>0, <2>1, <3>1 DEF IsLatest
    <2>2. CASE e.kind \notin PromptKinds
      <3>1. Unread(PromptKinds)' = Unread(PromptKinds) /\ dialog' = dialog
        BY <1>0, <2>2, UnreadAfterSend DEF TypeOK, PromptKinds
      <3>2. \A i \in DOMAIN wire : i \in DOMAIN wire' /\ wire'[i] = wire[i]
        BY <1>0, UnreadAfterSend DEF TypeOK
      <3> QED BY <1>0, <3>1, <3>2 DEF IsLatest
    <2> QED BY <2>1, <2>2
  <1>1. CASE OpenPrompt
    <2>1. Event("opened", opened + 1) \in Events
      BY <1>1, EventsOfThePage DEF TypeOK, OpenPrompt
    <2>2. dialog' # 0
      BY <1>1, EventFacts DEF OpenPrompt, TypeOK, PageOK, Prompts
    <2> QED BY <1>0, <1>1, <2>1, <2>2 DEF OpenPrompt, Event, trackers
  <1>2. CASE HandlePrompt
    <2>1. CASE dialog # 0
      <3>1. Event("closed", dialog) \in Events
        BY <2>1, EventsOfThePage DEF TypeOK
      <3> QED BY <1>0, <1>2, <2>1, <3>1 DEF HandlePrompt, Event, trackers
    <2>2. CASE dialog = 0
      BY <1>2, <2>2 DEF HandlePrompt, trackers, IsLatest, Unread
    <2> QED BY <2>1, <2>2
  <1>3. CASE StartNav
    <2>1. Event("navStarted", navCount + 1) \in Events
      BY <1>3, EventsOfThePage DEF TypeOK, StartNav
    <2> QED BY <1>0, <1>3, <2>1 DEF StartNav, Event, trackers, PromptKinds
  <1>4. CASE EndNav
    <2> PICK n \in navs, k \in {"load", "navFailed"} : wire' = Append(wire, Event(k, n))
      BY <1>4 DEF EndNav
    <2>1. Event(k, n) \in Events
      BY EventsOfThePage DEF TypeOK
    <2> QED BY <1>0, <1>4, <2>1 DEF EndNav, Event, trackers, PromptKinds
  <1>5. ASSUME NEW d \in Downloads, Download(d) PROVE PromptTrackerIsCurrent'
    <2>1. Event("willBegin", d) \in Events /\ Event("end", d) \in Events
      BY EventsOfThePage DEF TypeOK
    <2> QED BY <1>0, <1>5, <2>1 DEF Download, Event, trackers, PromptKinds
  <1>6. CASE ReadEvent
    <2> DEFINE e == Head(wire)
    <2>1. wire # <<>> /\ wire' = Tail(wire) /\ prompts' = PromptAfter(e) /\ dialog' = dialog
      BY <1>6 DEF ReadEvent, page
    <2>2. LoopOK
      BY DEF TypeOK
    <2>3. CASE Unread(PromptKinds) = {}
      <3>1. e.kind \notin PromptKinds /\ Unread(PromptKinds)' = {}
        BY <2>1, <2>2, <2>3, UnreadAfterRead
      <3>2. prompts' = prompts
        BY <2>1, <3>1 DEF PromptAfter, PromptKinds, TypeOK, TrackersOK
      <3> QED BY <2>1, <2>3, <3>1, <3>2
    <2>4. CASE Unread(PromptKinds) # {}
      <3>1. PICK i \in DOMAIN wire :
                IsLatest(i, PromptKinds) /\ (wire[i].kind = "opened" <=> dialog # 0)
        BY <2>4
      <3>2. CASE /\ Unread(PromptKinds)' # {}
                 /\ \E j \in DOMAIN wire' : IsLatest(j, PromptKinds)' /\ wire'[j] = wire[i]
        BY <2>1, <3>1, <3>2
      <3>3. CASE Unread(PromptKinds)' = {} /\ wire[i] = e /\ e.kind \in PromptKinds
        BY <2>1, <3>1, <3>3 DEF PromptAfter, PromptKinds
      <3> QED BY <2>1, <2>2, <3>1, <3>2, <3>3, UnreadAfterRead
    <2> QED BY <2>3, <2>4
  <1>7. CASE UNCHANGED <<dialog, wire, prompts>>
    BY <1>7 DEF IsLatest, Unread
  <1> QED
    BY <1>1, <1>2, <1>3, <1>4, <1>5, <1>6, <1>7, RoutingSteps
    DEF page, loop, trackers, CheckPolicy, CheckCaptures, Offer, AnswerPrompt, Dismiss,
        Await, AwaitEnds, MoveAwait

\* The tracker settles when the last navigation has ended.
LEMMA StepNavInv == ASSUME TypeOK, NavInv, [Next]_vars PROVE NavInv'
  <1> USE DEF NavInv
  <1>0. ASSUME NEW e \in Events, wire' = Append(wire, e), inFlight' = inFlight,
               \/ e.kind = "navStarted" /\ navs' # {}
               \/ e.kind \in {"load", "navFailed"}
               \/ e.kind \notin NavKinds /\ navs' = navs
        PROVE  NavInv'
    <2>1. CASE e.kind \in NavKinds
      <3>1. PICK i \in DOMAIN wire' : IsLatest(i, NavKinds)' /\ wire'[i] = e
        BY <1>0, <2>1, UnreadAfterSend DEF TypeOK
      <3> QED BY <1>0, <2>1, <3>1 DEF IsLatest
    <2>2. CASE e.kind \notin NavKinds
      <3>1. Unread(NavKinds)' = Unread(NavKinds) /\ navs' = navs
        BY <1>0, <2>2, UnreadAfterSend DEF TypeOK, NavKinds
      <3>2. \A i \in DOMAIN wire : i \in DOMAIN wire' /\ wire'[i] = wire[i]
        BY <1>0, UnreadAfterSend DEF TypeOK
      <3> QED BY <1>0, <3>1, <3>2 DEF IsLatest
    <2> QED BY <2>1, <2>2
  <1>1. CASE OpenPrompt
    <2>1. Event("opened", opened + 1) \in Events
      BY <1>1, EventsOfThePage DEF TypeOK, OpenPrompt
    <2> QED BY <1>0, <1>1, <2>1 DEF OpenPrompt, Event, trackers, NavKinds
  <1>2. CASE HandlePrompt
    <2>1. CASE dialog # 0
      <3>1. Event("closed", dialog) \in Events
        BY <2>1, EventsOfThePage DEF TypeOK
      <3> QED BY <1>0, <1>2, <2>1, <3>1 DEF HandlePrompt, Event, trackers, NavKinds
    <2>2. CASE dialog = 0
      BY <1>2, <2>2 DEF HandlePrompt, trackers, IsLatest, Unread
    <2> QED BY <2>1, <2>2
  <1>3. CASE StartNav
    <2>1. Event("navStarted", navCount + 1) \in Events /\ navs' # {}
      BY <1>3, EventsOfThePage DEF TypeOK, StartNav
    <2> QED BY <1>0, <1>3, <2>1 DEF StartNav, Event, trackers
  <1>4. CASE EndNav
    <2> PICK n \in navs, k \in {"load", "navFailed"} : wire' = Append(wire, Event(k, n))
      BY <1>4 DEF EndNav
    <2>1. Event(k, n) \in Events
      BY EventsOfThePage DEF TypeOK
    <2> QED BY <1>0, <1>4, <2>1 DEF EndNav, Event, trackers
  <1>5. ASSUME NEW d \in Downloads, Download(d) PROVE NavInv'
    <2>1. Event("willBegin", d) \in Events /\ Event("end", d) \in Events
      BY EventsOfThePage DEF TypeOK
    <2> QED BY <1>0, <1>5, <2>1 DEF Download, Event, trackers, NavKinds
  <1>6. CASE ReadEvent
    <2> DEFINE e == Head(wire)
    <2>1. wire # <<>> /\ wire' = Tail(wire) /\ inFlight' = NavAfter(e) /\ navs' = navs
      BY <1>6 DEF ReadEvent, page
    <2>2. LoopOK
      BY DEF TypeOK
    <2>3. CASE Unread(NavKinds) = {}
      <3>1. e.kind \notin NavKinds /\ Unread(NavKinds)' = {}
        BY <2>1, <2>2, <2>3, UnreadAfterRead
      <3>2. inFlight' = inFlight
        BY <2>1, <3>1 DEF NavAfter, NavKinds
      <3> QED BY <2>1, <2>3, <3>1, <3>2
    <2>4. CASE Unread(NavKinds) # {}
      <3>1. PICK i \in DOMAIN wire :
                IsLatest(i, NavKinds) /\ (wire[i].kind = "navStarted" => navs # {})
        BY <2>4
      <3>2. CASE /\ Unread(NavKinds)' # {}
                 /\ \E j \in DOMAIN wire' : IsLatest(j, NavKinds)' /\ wire'[j] = wire[i]
        BY <2>1, <3>1, <3>2
      <3>3. CASE Unread(NavKinds)' = {} /\ wire[i] = e /\ e.kind \in NavKinds
        BY <2>1, <3>1, <3>3 DEF NavAfter, NavKinds
      <3> QED BY <2>1, <2>2, <3>1, <3>2, <3>3, UnreadAfterRead
    <2> QED BY <2>3, <2>4
  <1>7. CASE UNCHANGED <<navs, wire, inFlight>>
    BY <1>7 DEF IsLatest, Unread
  <1> QED
    BY <1>1, <1>2, <1>3, <1>4, <1>5, <1>6, <1>7, RoutingSteps
    DEF page, loop, trackers, CheckPolicy, CheckCaptures, Offer, AnswerPrompt, Dismiss,
        Await, AwaitEnds, MoveAwait

\* The client hears of no download the registry does not have.
LEMMA StepToldInv == ASSUME TypeOK, ToldInv, [Next]_vars PROVE ToldInv'
  <1> USE DEF ToldInv, TypeOK, LoopOK, TrackersOK, WaitersOK
  <1>1. CASE ReadEvent
    <2>1. Head(wire) \in Events
      BY <1>1 DEF ReadEvent
    <2>2. /\ ev' = Head(wire) /\ registry' = RegistryAfter(Head(wire)) /\ UNCHANGED <<told, await>>
      BY <1>1 DEF ReadEvent
    <2> SUFFICES ASSUME NEW d \in Downloads
                 PROVE  /\ Event("willBegin", d) \in told \cup {Head(wire)} => registry'[d] # "unknown"
                        /\ await[d] # "unknown"
      BY <2>2
    <2>3. registry[d] # "unknown" => registry'[d] # "unknown"
      BY <2>1, <2>2 DEF RegistryAfter, Events
    <2>4. Head(wire) = Event("willBegin", d) => registry'[d] # "unknown"
      BY <2>1, <2>2 DEF RegistryAfter, Event
    <2> QED BY <2>3, <2>4
  <1>2. CASE Offer
    <2>1. /\ told' \subseteq told \cup {ev} /\ ev' = Nothing /\ UNCHANGED <<registry, await>>
      BY <1>2 DEF Offer, trackers
    <2>2. \A d \in Downloads : Event("willBegin", d) # Nothing
      BY DEF Event, Nothing
    <2> QED BY <2>1, <2>2
  <1>3. ASSUME NEW d \in Downloads, Await(d) \/ AwaitEnds(d) PROVE ToldInv'
    <2>1. UNCHANGED <<told, ev, registry>>
      BY <1>3 DEF Await, AwaitEnds, MoveAwait, loop, trackers
    <2>2. await' = [await EXCEPT ![d] = await'[d]] /\ await'[d] # "unknown"
      BY <1>3 DEF Await, AwaitEnds, MoveAwait
    <2> QED BY <2>1, <2>2
  <1>4. CASE UNCHANGED <<told, ev, registry, await>>
    BY <1>4
  <1> QED
    BY <1>1, <1>2, <1>3, <1>4, RoutingSteps
    DEF loop, trackers, OpenPrompt, HandlePrompt, StartNav, EndNav, Download, CheckPolicy,
        CheckCaptures, AnswerPrompt, Dismiss

\* What the router keeps of prompts, navigations and downloads is what the events that it
\* has read say, wherever the others are.
THEOREM TheTrackersAreCurrent == Spec => []TrackersAreCurrent
  <1> DEFINE IInv == TypeOK /\ PromptTrackerIsCurrent /\ NavInv /\ ToldInv
  <1>1. Init => PromptTrackerIsCurrent /\ NavInv /\ ToldInv
    BY DEF Init, PromptTrackerIsCurrent, NavInv, ToldInv, Unread, Event, Nothing
  <1>2. TypeOK /\ PromptTrackerIsCurrent /\ NavInv /\ ToldInv /\ [Next]_vars
            => (PromptTrackerIsCurrent /\ NavInv /\ ToldInv)'
    BY StepPromptTracker, StepNavInv, StepToldInv
  <1>3. PromptTrackerIsCurrent /\ NavInv /\ ToldInv => TrackersAreCurrent
    BY DEF TrackersAreCurrent, NavInv, NoPhantomNavigation, ToldInv, AwaitedIsKnown
  <1> QED BY <1>1, <1>2, <1>3, TypeCorrect, PTL DEF Spec

----------------------------------------------------------------------------
(* The dismissals.                                                         *)

\* What the page and the browser send: an event, and of a prompt only when one opens or
\* closes.
LEMMA PageSends ==
    ASSUME TypeOK, [Next]_vars
    PROVE  \/ /\ wire' = Append(wire, Event("opened", opened + 1)) /\ UNCHANGED <<lpc, ev>>
              /\ Event("opened", opened + 1) \in Events /\ OpenPrompt
           \/ /\ \E e \in Events : e.kind # "opened" /\ wire' = Append(wire, e)
              /\ UNCHANGED <<lpc, ev, opened>> /\ ~OpenPrompt
           \/ /\ wire' = Tail(wire) /\ wire # <<>> /\ ReadEvent
           \/ /\ UNCHANGED <<wire, opened>> /\ ~OpenPrompt
              /\ lpc' \in {"claim", "wants"} => lpc \in {"claim", "wants"} /\ ev' = ev
              /\ ev' \in {ev, Nothing}
  <1> USE EventFacts DEF TypeOK, PageOK
  <1>1. CASE OpenPrompt
    <2>1. Event("opened", opened + 1) \in Events
      BY <1>1, EventsOfThePage DEF TypeOK, OpenPrompt
    <2> QED BY <1>1, <2>1 DEF OpenPrompt
  <1>2. CASE HandlePrompt
    <2>1. CASE dialog # 0
      <3>1. Event("closed", dialog) \in Events /\ Event("closed", dialog).kind # "opened"
        BY <2>1, EventsOfThePage DEF TypeOK, Event
      <3> QED BY <1>2, <2>1, <3>1 DEF HandlePrompt, OpenPrompt
    <2>2. CASE dialog = 0
      <3>1. UNCHANGED <<wire, opened, lpc, ev>>
        BY <1>2, <2>2 DEF HandlePrompt
      <3> QED BY <3>1 DEF OpenPrompt
    <2> QED BY <2>1, <2>2
  <1>3. CASE StartNav
    <2>1. Event("navStarted", navCount + 1) \in Events
      BY <1>3, EventsOfThePage DEF TypeOK, StartNav
    <2> QED BY <1>3, <2>1 DEF StartNav, Event, OpenPrompt
  <1>4. CASE EndNav
    <2> PICK n \in navs, k \in {"load", "navFailed"} : wire' = Append(wire, Event(k, n))
      BY <1>4 DEF EndNav
    <2>1. Event(k, n) \in Events /\ Event(k, n).kind # "opened"
      BY EventsOfThePage DEF TypeOK, Event
    <2> QED BY <1>4, <2>1 DEF EndNav, OpenPrompt
  <1>5. ASSUME NEW d \in Downloads, Download(d) PROVE UNCHANGED <<lpc, ev, opened>> /\ ~OpenPrompt
              /\ \E e \in Events : e.kind # "opened" /\ wire' = Append(wire, e)
    <2>1. Event("willBegin", d) \in Events /\ Event("end", d) \in Events
      BY EventsOfThePage DEF TypeOK
    <2> QED BY <1>5, <2>1 DEF Download, Event, OpenPrompt
  <1>6. CASE ReadEvent
    BY <1>6 DEF ReadEvent
  <1>7. CASE CheckPolicy \/ CheckCaptures \/ Offer \/ AnswerPrompt
    BY <1>7 DEF CheckPolicy, CheckCaptures, Offer, AnswerPrompt, page, loop, OpenPrompt
  <1>8. ASSUME NEW n \in Prompts, Dismiss(n)
        PROVE  UNCHANGED <<wire, opened, lpc, ev>> /\ ~OpenPrompt
    BY <1>8 DEF Dismiss, loop, OpenPrompt
  <1>9. CASE UNCHANGED <<page, loop>>
    BY <1>9 DEF page, loop, OpenPrompt
  <1> QED
    BY <1>1, <1>2, <1>3, <1>4, <1>5, <1>6, <1>7, <1>8, <1>9, RoutingSteps
    DEF Await, AwaitEnds, MoveAwait

\* A prompt is undecided from its opening, until the loop decides.
LEMMA StepUndecided ==
    ASSUME TypeOK, OnceInv, [Next]_vars, NEW n \in Prompts
    PROVE  Undecided(n)' => Undecided(n) \/ (OpenPrompt /\ n = opened + 1)
  <1> USE DEF TypeOK, LoopOK, Undecided
  <1>1. CASE /\ wire' = Append(wire, Event("opened", opened + 1)) /\ UNCHANGED <<lpc, ev>>
             /\ Event("opened", opened + 1) \in Events /\ OpenPrompt
    <2>1. Event("opened", opened + 1) = Event("opened", n) => n = opened + 1
      BY DEF Event
    <2> QED BY <1>1, <2>1
  <1>2. CASE /\ \E e \in Events : e.kind # "opened" /\ wire' = Append(wire, e)
             /\ UNCHANGED <<lpc, ev, opened>>
    BY <1>2 DEF Event
  <1>3. CASE wire' = Tail(wire) /\ wire # <<>> /\ ReadEvent
    <2>1. ev' = Head(wire) /\ Head(wire) = wire[1] /\ 1 \in DOMAIN wire
      BY <1>3 DEF ReadEvent
    <2>2. \A i \in DOMAIN wire' : i + 1 \in DOMAIN wire /\ wire'[i] = wire[i + 1]
      BY <1>3
    <2> QED BY <2>1, <2>2
  <1>4. CASE /\ UNCHANGED <<wire, opened>>
             /\ lpc' \in {"claim", "wants"} => lpc \in {"claim", "wants"} /\ ev' = ev
    BY <1>4
  <1> QED BY <1>1, <1>2, <1>3, <1>4, PageSends

\* A dismissal is on its way from the decision, until the browser gets it.
LEMMA StepOnItsWay ==
    ASSUME TypeOK, OnceInv, [Next]_vars, NEW n \in Prompts
    PROVE  /\ OnItsWay(n)' => \/ OnItsWay(n) /\ UNCHANGED <<opened, dialog, closedBy>>
                              \/ OnItsWay(n) /\ OpenPrompt
                              \/ OnItsWay(n) /\ HandlePrompt
                              \/ CheckCaptures /\ Undecided(n) /\ ev = Event("opened", n)
  <1>1. CASE HandlePrompt
    BY <1>1 DEF HandlePrompt, OnItsWay, policy
  <1>2. CASE CheckCaptures
    <2>1. UNCHANGED <<opened, dialog, closedBy, commands>>
      BY <1>2 DEF CheckCaptures, page
    <2>2. ev \in Events /\ ev.kind = "opened" /\ lpc = "wants"
      BY <1>2 DEF CheckCaptures, TypeOK, LoopOK, IsPrompt, Nothing
    <2>3. ev = Event("opened", ev.of)
      BY <2>2 DEF Events, Event
    <2> QED BY <1>2, <2>1, <2>2, <2>3 DEF CheckCaptures, OnItsWay, Undecided
  <1>3. ASSUME NEW m \in Prompts, Dismiss(m)
        PROVE  UNCHANGED <<opened, dialog, closedBy>> /\ (OnItsWay(n)' => OnItsWay(n))
    BY <1>3 DEF Dismiss, OnItsWay, Event
  <1>4. CASE AnswerPrompt
    BY <1>4 DEF AnswerPrompt, OnItsWay, Event, policy
  <1>5. CASE OpenPrompt
    BY <1>5 DEF OpenPrompt, OnItsWay, policy
  <1>6. CASE UNCHANGED <<commands, dismissals, opened, dialog, closedBy>>
    BY <1>6 DEF OnItsWay
  <1> QED
    BY <1>1, <1>2, <1>3, <1>4, <1>5, <1>6, RoutingSteps
    DEF page, policy, StartNav, EndNav, Download, ReadEvent, CheckPolicy, Offer, Await,
        AwaitEnds, MoveAwait

\* Each prompt is announced and decided upon once.
LEMMA StepOnceInv == ASSUME TypeOK, OnceInv, [Next]_vars PROVE OnceInv'
  <1> USE EventFacts DEF Prompts
  <1>0. /\ dialog \in Prompts \cup {0} /\ opened \in Nat /\ Prompts \subseteq Nat
        /\ wire \in Seq(Events)
    BY DEF TypeOK, PageOK, LoopOK, Prompts
  <1>a. /\ dialog \in {0, opened}
        /\ \A n \in Prompts : n > opened \/ n = dialog => closedBy[n] = Nothing
    BY DEF OnceInv
  <1>b. /\ \A n \in Prompts : Undecided(n) \/ OnItsWay(n) => n <= opened
        /\ \A n \in Prompts : ~(Undecided(n) /\ OnItsWay(n))
    BY DEF OnceInv
  <1>1. /\ dialog' \in {0, opened'}
        /\ \A n \in Prompts : n > opened' \/ n = dialog' => closedBy'[n] = Nothing
    <2>1. CASE OpenPrompt
      <3>1. dialog' = opened + 1 /\ opened' = opened + 1 /\ closedBy' = closedBy
        BY <2>1 DEF OpenPrompt
      <3> QED BY <1>0, <1>a, <3>1
    <2>2. CASE HandlePrompt
      <3>0. opened' = opened
        BY <2>2 DEF HandlePrompt
      <3>1. \/ UNCHANGED <<dialog, closedBy>>
            \/ /\ dialog # 0 /\ dialog' = 0
               /\ \E c : closedBy' = [closedBy EXCEPT ![dialog] = c]
        BY <2>2 DEF HandlePrompt
      <3>2. closedBy \in [Prompts -> PromptCommands \cup {Nothing}] /\ 0 \notin Prompts
        BY DEF TypeOK, PageOK, Prompts
      <3>3. CASE dialog # 0 /\ dialog' = 0
        <4> PICK c : closedBy' = [closedBy EXCEPT ![dialog] = c]
          BY <3>1, <3>3
        <4> SUFFICES ASSUME NEW n \in Prompts, n > opened PROVE closedBy'[n] = Nothing
          BY <3>0, <3>3
        <4>1. n # dialog
          BY <1>0, <1>a
        <4> QED BY <1>a, <3>2, <4>1
      <3> QED BY <1>0, <1>a, <3>0, <3>1, <3>3
    <2>3. CASE UNCHANGED <<dialog, opened, closedBy>>
      BY <2>3 DEF OnceInv
    <2> QED
      BY <2>1, <2>2, <2>3, RoutingSteps
      DEF page, StartNav, EndNav, Download, ReadEvent, CheckPolicy, CheckCaptures, Offer,
          AnswerPrompt, Dismiss, Await, AwaitEnds, MoveAwait
  <1>2. opened' \in Nat /\ opened <= opened' /\ (OpenPrompt => opened' = opened + 1)
    BY <1>0, PageSends DEF OpenPrompt, ReadEvent, page
  <1>3. ASSUME NEW n \in Prompts, Undecided(n)' \/ OnItsWay(n)' PROVE n <= opened'
    <2>1. \/ Undecided(n) \/ OnItsWay(n)
          \/ OpenPrompt /\ n = opened + 1
      BY <1>3, StepUndecided, StepOnItsWay
    <2>2. CASE Undecided(n) \/ OnItsWay(n)
      <3>1. n <= opened
        BY <1>b, <2>2
      <3> QED BY <1>0, <1>2, <3>1
    <2>3. CASE OpenPrompt /\ n = opened + 1
      BY <1>2, <2>3
    <2> QED BY <2>1, <2>2, <2>3
  <1>4. /\ \A i, j \in DOMAIN wire' : wire'[i].kind = "opened" /\ wire'[i] = wire'[j] => i = j
        /\ lpc' \in {"claim", "wants"} => \A i \in DOMAIN wire' : wire'[i] # ev'
    <2> DEFINE e == Event("opened", opened + 1)
    <2>1. CASE wire' = Append(wire, e) /\ UNCHANGED <<lpc, ev>> /\ e \in Events
      <3>1. e.kind = "opened" /\ e.of = opened + 1 /\ opened + 1 \in Prompts
        BY <2>1 DEF Event, Events
      <3>2. \A i \in DOMAIN wire : wire[i] # e
        BY <1>0, <3>1 DEF OnceInv, Undecided
      <3>3. lpc \in {"claim", "wants"} => ev # e
        BY <1>0, <3>1 DEF OnceInv, Undecided
      <3> HIDE DEF e
      <3> QED BY <1>0, <2>1, <3>2, <3>3 DEF OnceInv
    <2>2. CASE /\ \E a \in Events : a.kind # "opened" /\ wire' = Append(wire, a)
               /\ UNCHANGED <<lpc, ev>>
      BY <1>0, <2>2 DEF OnceInv, TypeOK, LoopOK, IsPrompt
    <2>3. CASE wire' = Tail(wire) /\ wire # <<>> /\ ReadEvent
      <3>1. /\ ev' = wire[1] /\ 1 \in DOMAIN wire
            /\ lpc' \in {"claim", "wants"} => wire[1].kind = "opened"
        BY <1>0, <2>3 DEF ReadEvent, IsPrompt
      <3>2. \A i \in DOMAIN wire' :
               i + 1 \in DOMAIN wire /\ wire'[i] = wire[i + 1] /\ i \in Nat /\ i + 1 # 1
        BY <1>0, <2>3
      <3>3. ASSUME NEW i \in DOMAIN wire', NEW j \in DOMAIN wire',
                   wire'[i].kind = "opened", wire'[i] = wire'[j]
            PROVE  i = j
        <4>1. i + 1 = j + 1
          BY <3>2, <3>3 DEF OnceInv
        <4> QED BY <3>2, <4>1
      <3> QED BY <3>1, <3>2, <3>3 DEF OnceInv
    <2>4. CASE /\ UNCHANGED wire
               /\ lpc' \in {"claim", "wants"} => lpc \in {"claim", "wants"} /\ ev' = ev
      BY <2>4 DEF OnceInv
    <2> QED BY <2>1, <2>2, <2>3, <2>4, PageSends
  <1>5. ASSUME NEW n \in Prompts PROVE ~(Undecided(n)' /\ OnItsWay(n)')
    <2>1. CASE OpenPrompt /\ n = opened + 1
      <3>1. ~OnItsWay(n)
        BY <1>0, <2>1 DEF OnceInv
      <3>2. ~CheckCaptures
        BY <1>0, <2>1 DEF OpenPrompt, CheckCaptures
      <3> QED BY <3>1, <3>2, StepOnItsWay
    <2>2. CASE CheckCaptures /\ ev = Event("opened", n)
      <3>1. lpc' = "offer" /\ wire' = wire /\ lpc \in {"claim", "wants"}
        BY <2>2 DEF CheckCaptures
      <3> QED BY <2>2, <3>1 DEF OnceInv, Undecided
    <2> QED BY <2>1, <2>2, <1>b, StepUndecided, StepOnItsWay
  <1>6. ASSUME NEW n \in dismissals' PROVE Event("dismiss", n) \notin commands'
    <2>1. CASE CheckCaptures
      <3>1. commands' = commands /\ dismissals' \subseteq dismissals \cup {ev.of}
        BY <2>1 DEF CheckCaptures, page
      <3>2. ev \in Events /\ ev.kind = "opened" /\ lpc = "wants"
        BY <2>1 DEF CheckCaptures, TypeOK, LoopOK, IsPrompt, Nothing
      <3>3. ev = Event("opened", ev.of) /\ ev.of \in Prompts
        BY <3>2 DEF Events, Event
      <3>4. Event("dismiss", ev.of) \notin commands
        BY <3>2, <3>3 DEF OnceInv, Undecided, OnItsWay
      <3> QED BY <1>6, <3>1, <3>4 DEF OnceInv
    <2>2. ASSUME NEW m \in Prompts, Dismiss(m) PROVE Event("dismiss", n) \notin commands'
      BY <1>6, <2>2 DEF Dismiss, OnceInv, Event
    <2>3. CASE AnswerPrompt
      BY <1>6, <2>3 DEF AnswerPrompt, OnceInv, Event, policy
    <2>4. CASE commands' \subseteq commands /\ dismissals' = dismissals
      BY <1>6, <2>4 DEF OnceInv
    <2> QED
      BY <2>1, <2>2, <2>3, <2>4, RoutingSteps
      DEF page, policy, OpenPrompt, HandlePrompt, StartNav, EndNav, Download, ReadEvent,
          CheckPolicy, Offer, Await, AwaitEnds, MoveAwait
  <1> QED BY <1>1, <1>3, <1>4, <1>5, <1>6 DEF OnceInv

\* What closed a prompt stays what closed it.
LEMMA StepAnswered ==
    ASSUME TypeOK, OnceInv, [Next]_vars, NEW n \in Prompts, AnsweredUpTo(n)
    PROVE  AnsweredUpTo(n)'
  <1> PICK k \in 1 .. n : closedBy[k].kind = "answer"
    BY DEF AnsweredUpTo
  <1>1. k \in Prompts
    BY EventFacts DEF Prompts
  <1>2. k # dialog
    BY <1>1 DEF OnceInv, Nothing
  <1>3. closedBy'[k] = closedBy[k]
    <2>1. CASE HandlePrompt
      BY <1>1, <1>2, <2>1 DEF HandlePrompt, TypeOK, PageOK
    <2>2. CASE UNCHANGED closedBy
      BY <2>2
    <2> QED
      BY <2>1, <2>2, RoutingSteps
      DEF page, OpenPrompt, StartNav, EndNav, Download, ReadEvent, CheckPolicy, CheckCaptures,
          Offer, AnswerPrompt, Dismiss, Await, AwaitEnds, MoveAwait
  <1> QED BY <1>3 DEF AnsweredUpTo

\* A prompt closes before its dismissal only by the client, or by a dismissal that came too
\* late for the one it was started for.
LEMMA StepLateInv ==
    ASSUME TypeOK, OnceInv, LateInv, [Next]_vars PROVE LateInv'
  <1> SUFFICES ASSUME NEW n \in Prompts, Undecided(n)' \/ OnItsWay(n)', dialog' # n
               PROVE  AnsweredUpTo(n)'
    BY DEF LateInv
  <1>1. Undecided(n) \/ OnItsWay(n)
    BY StepUndecided, StepOnItsWay DEF OpenPrompt
  <1>2. CASE dialog # n
    BY <1>1, <1>2, StepAnswered DEF LateInv
  <1>3. CASE dialog = n
    <2>1. n # 0 /\ n \in Nat /\ n = opened
      BY <1>3 DEF Prompts, OnceInv
    <2>2. HandlePrompt
      <3>1. ~OpenPrompt
        BY <1>3, <2>1 DEF OpenPrompt
      <3> QED
        BY <1>3, <3>1, RoutingSteps
        DEF page, StartNav, EndNav, Download, ReadEvent, CheckPolicy, CheckCaptures, Offer,
            AnswerPrompt, Dismiss, Await, AwaitEnds, MoveAwait
    <2> PICK c \in commands : commands' = commands \ {c} /\ closedBy' = [closedBy EXCEPT ![n] = c]
      BY <1>3, <2>1, <2>2 DEF HandlePrompt
    <2>3. closedBy'[n] = c /\ c \in PromptCommands
      BY DEF TypeOK, PageOK
    <2>4. CASE c.kind = "answer"
      BY <2>1, <2>3, <2>4 DEF AnsweredUpTo
    <2>5. CASE c.kind = "dismiss"
      <3>1. c = Event("dismiss", c.of) /\ c.of \in Prompts
        BY <2>3, <2>5 DEF PromptCommands, Event
      <3>2. OnItsWay(c.of)
        BY <3>1 DEF OnItsWay
      <3>3. c.of # n
        <4>1. SUFFICES ASSUME c.of = n PROVE FALSE
          OBVIOUS
        <4>2. OnItsWay(n) /\ ~OnItsWay(n)'
          BY <2>2, <3>1, <4>1 DEF OnItsWay, OnceInv, HandlePrompt, policy
        <4>3. Undecided(n)
          <5>1. ~OpenPrompt
            BY <1>3, <2>1 DEF OpenPrompt
          <5> QED BY <4>2, <5>1, StepUndecided
        <4> QED BY <4>2, <4>3 DEF OnceInv
      <3>4. c.of <= opened /\ AnsweredUpTo(c.of)
        BY <1>3, <3>1, <3>2, <3>3 DEF OnceInv, LateInv
      <3>5. AnsweredUpTo(n)
        BY <2>1, <3>1, <3>4 DEF AnsweredUpTo, Prompts
      <3> QED BY <3>5, StepAnswered
    <2> QED BY <2>3, <2>4, <2>5 DEF PromptCommands
  <1> QED BY <1>2, <1>3

\* A command that closes a prompt is an answer, its own dismissal, or a late one.
LEMMA StepDismisses ==
    ASSUME TypeOK, OnceInv, LateInv, DismissesItsOwn, [Next]_vars PROVE DismissesItsOwn'
  <1> SUFFICES ASSUME NEW n \in Prompts, closedBy'[n].kind = "dismiss",
                      NEW m, m = closedBy'[n].of, m # n
               PROVE  AnsweredUpTo(m)'
    BY DEF DismissesItsOwn, AnsweredUpTo
  <1>0. /\ dialog \in Prompts \cup {0} /\ commands \subseteq PromptCommands
        /\ closedBy \in [Prompts -> PromptCommands \cup {Nothing}]
    BY DEF TypeOK, PageOK
  <1>1. CASE closedBy'[n] = closedBy[n]
    <2>1. AnsweredUpTo(m)
      BY <1>1 DEF DismissesItsOwn
    <2>2. m \in Prompts
      BY <1>0, <1>1 DEF PromptCommands, Nothing
    <2> QED BY <2>1, <2>2, StepAnswered
  <1>2. CASE HandlePrompt /\ n = dialog /\ closedBy'[n] \in commands
    <2>1. m \in Prompts /\ closedBy'[n] = Event("dismiss", m)
      BY <1>0, <1>2 DEF PromptCommands, Event
    <2>2. AnsweredUpTo(m)
      BY <1>2, <2>1 DEF LateInv, OnItsWay
    <2> QED BY <2>1, <2>2, StepAnswered
  <1>3. closedBy'[n] = closedBy[n] \/ (HandlePrompt /\ n = dialog /\ closedBy'[n] \in commands)
    <2>1. CASE HandlePrompt
      BY <1>0, <2>1 DEF HandlePrompt
    <2>2. CASE UNCHANGED closedBy
      BY <2>2
    <2> QED
      BY <2>1, <2>2, RoutingSteps
      DEF page, OpenPrompt, StartNav, EndNav, Download, ReadEvent, CheckPolicy, CheckCaptures,
          Offer, AnswerPrompt, Dismiss, Await, AwaitEnds, MoveAwait
  <1> QED BY <1>1, <1>2, <1>3

\* The dismissal of a prompt closes no other one, unless the client closed one meanwhile.
THEOREM DismissalsCloseTheirOwn == Spec => []DismissesItsOwn
  <1> USE DEF Nothing
  <1>1. Init => OnceInv /\ LateInv /\ DismissesItsOwn
    BY RoutingAssumption
    DEF Init, OnceInv, LateInv, DismissesItsOwn, Undecided, OnItsWay, Prompts
  <1>2. TypeOK /\ OnceInv /\ LateInv /\ DismissesItsOwn /\ [Next]_vars
            => (OnceInv /\ LateInv /\ DismissesItsOwn)'
    BY StepOnceInv, StepLateInv, StepDismisses
  <1> QED BY <1>1, <1>2, TypeCorrect, PTL DEF Spec

----------------------------------------------------------------------------
(* The captures of prompts.                                                *)

\* An event is unrouted from its sending, until the loop has offered it.
LEMMA StepUnrouted ==
    ASSUME TypeOK, [Next]_vars, NEW n \in Prompts
    PROVE  Unrouted(n)' => Unrouted(n) \/ (OpenPrompt /\ n = opened + 1)
  <1> USE DEF TypeOK, LoopOK, Unrouted
  <1>1. CASE /\ wire' = Append(wire, Event("opened", opened + 1)) /\ UNCHANGED <<lpc, ev>>
             /\ Event("opened", opened + 1) \in Events /\ OpenPrompt
    <2>1. Event("opened", opened + 1) = Event("opened", n) => n = opened + 1
      BY DEF Event
    <2> QED BY <1>1, <2>1
  <1>2. CASE /\ \E e \in Events : e.kind # "opened" /\ wire' = Append(wire, e)
             /\ UNCHANGED <<lpc, ev, opened>>
    BY <1>2 DEF Event
  <1>3. CASE wire' = Tail(wire) /\ wire # <<>> /\ ReadEvent
    <2>1. ev' = Head(wire) /\ Head(wire) = wire[1] /\ 1 \in DOMAIN wire
      BY <1>3 DEF ReadEvent
    <2>2. \A i \in DOMAIN wire' : i + 1 \in DOMAIN wire /\ wire'[i] = wire[i + 1]
      BY <1>3
    <2> QED BY <2>1, <2>2
  <1>4. CASE UNCHANGED wire /\ ev' \in {ev, Nothing}
    BY <1>4 DEF Nothing, Event
  <1> QED BY <1>1, <1>2, <1>3, <1>4, PageSends

\* What happens to a capture.
LEMMA StepCapture ==
    ASSUME TypeOK, [Next]_vars, NEW c \in Captures
    PROVE  /\ cap[c] # "idle" => cap'[c] # "idle"
           /\ got'[c] = got[c] \/ (Offer /\ got'[c] = ev /\ c \in pending)
           /\ c \in pending' => c \in pending \/ cap[c] = "idle"
  <1> USE DEF TypeOK, CapturesOK
  <1>1. CASE Offer
    BY <1>1 DEF Offer, PendingAfter, Takers
  <1>2. ASSUME NEW d \in Captures, Capture(d)
        PROVE  /\ cap[c] # "idle" => cap'[c] # "idle"
               /\ got' = got /\ (c \in pending' => c \in pending \/ cap[c] = "idle")
    BY <1>2 DEF Capture
  <1>3. ASSUME NEW d \in Captures, CaptureStep(d)
        PROVE  /\ cap[c] # "idle" => cap'[c] # "idle"
               /\ got' = got /\ (c \in pending' => c \in pending)
    BY <1>3 DEF CaptureStep, TakeEvent, CaptureExpires, CaptureFails, CaptureStops, Move
  <1>4. CASE UNCHANGED captures
    BY <1>4 DEF captures
  <1> QED
    BY <1>1, <1>2, <1>3, <1>4
    DEF Next, vars, PageStep, OpenPrompt, HandlePrompt, StartNav, EndNav, Download, LoopStep,
        ReadEvent, CheckPolicy, CheckCaptures, ShotStep, SetPolicy, Await,
        AnswerPrompt, AwaitEnds, MoveAwait, CheckPromptBlocked, CommandAnswered,
        CommandTimesOut, CommandStops, MoveCmd, MoveShot, CheckNavigating, NotifyStart,
        FirstFrame, FirstTimesOut, NoticeStart, WaitForSettled, SettleEnds, SecondAttempt, Stop,
        Dismiss, ModelTimesOut, ModelEnds, ModelMoves

\* Who is parked is settled when the prompt opens, and what closed it, when it closes.
LEMMA StepParked ==
    ASSUME TypeOK, [Next]_vars
    PROVE  /\ \/ UNCHANGED parked
              \/ OpenPrompt /\ parked' = [parked EXCEPT ![opened + 1] = pending \cap DialogCaptures]
           /\ \/ UNCHANGED closedBy
              \/ HandlePrompt /\ \E k \in commands : closedBy' = [closedBy EXCEPT ![dialog] = k]
  <1>1. CASE OpenPrompt
    BY <1>1 DEF OpenPrompt
  <1>2. CASE HandlePrompt
    BY <1>2 DEF HandlePrompt
  <1>3. CASE UNCHANGED <<parked, closedBy>>
    BY <1>3
  <1> QED
    BY <1>1, <1>2, <1>3, RoutingSteps
    DEF page, StartNav, EndNav, Download, ReadEvent, CheckPolicy, CheckCaptures, Offer,
        AnswerPrompt, Dismiss, Await, AwaitEnds, MoveAwait

\* A capture that was there when a prompt opened keeps it from being dismissed.
LEMMA StepParkInv ==
    ASSUME TypeOK, RegistryInv, OnceInv, ParkInv, [Next]_vars PROVE ParkInv'
  <1>0. /\ opened \in Nat /\ Prompts \subseteq Nat /\ wire \in Seq(Events)
        /\ ev \in Events \cup {Nothing}
    BY EventFacts DEF TypeOK, PageOK, LoopOK, Prompts
  <1>a. ev.kind = "opened" => ev.of \in Prompts /\ ev = Event("opened", ev.of) /\ Unrouted(ev.of)
    BY <1>0 DEF Events, Event, Nothing, Unrouted
  <1>b. opened' \in Nat /\ opened <= opened' /\ (OpenPrompt => opened' = opened + 1)
    BY <1>0, PageSends DEF OpenPrompt, ReadEvent, page
  <1>1. ASSUME NEW n \in Prompts, Unrouted(n)' PROVE n <= opened'
    <2>1. CASE Unrouted(n)
      BY <1>0, <1>b, <2>1 DEF ParkInv
    <2>2. CASE OpenPrompt /\ n = opened + 1
      BY <1>b, <2>2
    <2> QED BY <1>1, <2>1, <2>2, StepUnrouted
  <1>2. ASSUME ev'.kind = "opened", NEW i \in DOMAIN wire' PROVE wire'[i] # ev'
    <2> DEFINE e == Event("opened", opened + 1)
    <2>1. CASE wire' = Append(wire, e) /\ UNCHANGED <<lpc, ev>> /\ e \in Events
      <3>1. e.of = opened + 1
        BY DEF Event
      <3>2. ev # e
        BY <1>0, <1>2, <1>a, <2>1, <3>1 DEF ParkInv
      <3> HIDE DEF e
      <3> QED BY <1>0, <1>2, <2>1, <3>2 DEF ParkInv
    <2>2. CASE /\ \E a \in Events : a.kind # "opened" /\ wire' = Append(wire, a)
               /\ UNCHANGED <<lpc, ev>>
      BY <1>0, <1>2, <2>2 DEF ParkInv
    <2>3. CASE wire' = Tail(wire) /\ wire # <<>> /\ ReadEvent
      <3>1. ev' = wire[1] /\ 1 \in DOMAIN wire
        BY <1>0, <2>3 DEF ReadEvent
      <3>2. i + 1 \in DOMAIN wire /\ wire'[i] = wire[i + 1] /\ i + 1 # 1
        BY <1>0, <1>2, <2>3
      <3> QED BY <1>2, <3>1, <3>2 DEF OnceInv
    <2>4. CASE UNCHANGED wire /\ ev' \in {ev, Nothing}
      BY <1>2, <2>4 DEF ParkInv, Nothing
    <2> QED BY <2>1, <2>2, <2>3, <2>4, PageSends
  <1>3. ASSUME NEW c \in DialogCaptures, NEW n \in Prompts
        PROVE  /\ c \in parked'[n] => cap'[c] # "idle"
               /\ got'[c] = Event("opened", n) => n <= opened' /\ ~Unrouted(n)'
               /\ c \in parked'[n] /\ (c \in pending' \/ got'[c] = Event("opened", n)) =>
                     ~OnItsWay(n)' /\ closedBy'[n] # Event("dismiss", n)
    <2>0. c \in Captures /\ parked \in [Prompts -> SUBSET DialogCaptures]
          /\ closedBy \in [Prompts -> PromptCommands \cup {Nothing}]
      BY DEF Captures, TypeOK, PageOK
    <2>1. c \in parked'[n] => c \in parked[n] \/ (OpenPrompt /\ n = opened + 1 /\ c \in pending)
      BY <2>0, StepParked
    <2>2. c \in pending => cap[c] # "idle"
      BY <2>0 DEF RegistryInv
    <2>3. c \in parked'[n] => cap'[c] # "idle"
      BY <2>0, <2>1, <2>2, StepCapture DEF ParkInv
    <2>4. ASSUME got'[c] = Event("opened", n) PROVE n <= opened' /\ ~Unrouted(n)'
      <3>1. CASE got[c] = Event("opened", n)
        <4>1. n <= opened /\ ~Unrouted(n)
          BY <3>1 DEF ParkInv
        <4> QED BY <1>0, <1>b, <4>1, StepUnrouted
      <3>2. CASE Offer /\ ev = Event("opened", n)
        <4>1. ev' = Nothing /\ UNCHANGED wire
          BY <3>2 DEF Offer
        <4>2. ev.kind = "opened" /\ Unrouted(n)
          BY <3>2 DEF Event, Unrouted
        <4>3. ~Unrouted(n)'
          BY <3>2, <4>1, <4>2 DEF ParkInv, Unrouted, Nothing, Event
        <4> QED BY <1>0, <1>b, <4>2, <4>3 DEF ParkInv
      <3> QED BY <2>0, <2>4, <3>1, <3>2, StepCapture
    <2>5. ASSUME c \in parked'[n], c \in pending' \/ got'[c] = Event("opened", n)
          PROVE  ~OnItsWay(n)' /\ closedBy'[n] # Event("dismiss", n)
      <3>1. CASE OpenPrompt /\ n = opened + 1
        <4>1. ~OnItsWay(n) /\ ~Undecided(n) /\ closedBy[n] = Nothing
          BY <1>0, <3>1 DEF OnceInv
        <4>2. closedBy' = closedBy
          BY <3>1 DEF OpenPrompt
        <4> QED BY <4>1, <4>2, StepOnItsWay DEF Nothing, Event
      <3>2. CASE c \in parked[n]
        <4>1. c \in pending \/ got[c] = Event("opened", n)
          BY <2>0, <2>5, <3>2, StepCapture DEF ParkInv
        <4>2. ~OnItsWay(n) /\ closedBy[n] # Event("dismiss", n)
          BY <3>2, <4>1 DEF ParkInv
        <4>3. ~OnItsWay(n)'
          <5>1. CASE CheckCaptures /\ ev = Event("opened", n)
            <6>1. c \in pending
              BY <4>1, <5>1 DEF ParkInv, Unrouted
            <6>2. UNCHANGED <<dismissals, commands>>
              BY <5>1, <6>1 DEF CheckCaptures, WantsPrompt, page
            <6> QED BY <4>2, <6>2 DEF OnItsWay
          <5> QED BY <4>2, <5>1, StepOnItsWay
        <4>4. closedBy'[n] = closedBy[n] \/ closedBy'[n] \in commands
          BY <2>0, StepParked
        <4> QED BY <4>2, <4>3, <4>4 DEF OnItsWay
      <3> QED BY <2>1, <2>5, <3>1, <3>2
    <2> QED BY <2>3, <2>4, <2>5
  <1> QED BY <1>1, <1>2, <1>3 DEF ParkInv

\* The router never dismisses a prompt under the capture that was there before it and gets
\* it: not by a decision of its own, nor by an earlier prompt's late dismissal, unless the
\* client closed that one.
THEOREM CapturersDecide == Spec => []CaptureDecides
  <1> USE DEF Nothing
  <1>1. Init => RegistryInv /\ OnceInv /\ ParkInv
    BY RoutingAssumption
    DEF Init, RegistryInv, OnceInv, ParkInv, Undecided, OnItsWay, Unrouted, Prompts, Event,
        Captures
  <1>2. TypeOK /\ RegistryInv /\ OnceInv /\ ParkInv /\ [Next]_vars
            => (RegistryInv /\ OnceInv /\ ParkInv)'
    BY StepRegistryInv, StepOnceInv, StepParkInv
  <1>3. TypeOK /\ ParkInv /\ DismissesItsOwn => CaptureDecides
    <2> SUFFICES ASSUME TypeOK, ParkInv, DismissesItsOwn,
                        NEW c \in DialogCaptures, NEW n \in Prompts,
                        got[c] = Event("opened", n), c \in parked[n]
                 PROVE  /\ ~OnItsWay(n) /\ closedBy[n] # Event("dismiss", n)
                        /\ closedBy[n].kind = "dismiss" => AnsweredUpTo(closedBy[n].of)
      BY DEF CaptureDecides
    <2>1. ~OnItsWay(n) /\ closedBy[n] # Event("dismiss", n)
      BY DEF ParkInv
    <2>2. closedBy[n].kind = "dismiss" => closedBy[n].of # n
      BY <2>1 DEF TypeOK, PageOK, PromptCommands, Event
    <2> QED BY <2>1, <2>2 DEF DismissesItsOwn
  <1> QED BY <1>1, <1>2, <1>3, TypeCorrect, DismissalsCloseTheirOwn, PTL DEF Spec
=============================================================================
