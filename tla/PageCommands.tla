---------------------------- MODULE PageCommands ----------------------------
(***************************************************************************)
(* The router's command handlers as programs for PageSteps.                *)
(*                                                                         *)
(* First the operations of the library (clicker/internal/api), which the   *)
(* agent's tools use too; then one program per handler, or a set of them   *)
(* where a parameter chooses.  A handler's answer, and the wording of its  *)
(* errors, are left out.                                                   *)
(***************************************************************************)
EXTENDS PageSteps

----------------------------------------------------------------------------
(* Acting on an element.                                                   *)

ClickOn == <<"forClick", "pointer">>
DblClickOn == <<"forClick", "pointer">>
HoverOver == <<"forHover", "hover">>
TapOn == <<"forClick", "pointer">>
FillIn == <<"forFill", "write">>
TypeInto == <<"forClick", "pointer", "caretForText", "keys">>
PressOn == <<"forClick", "pointer", "caret", "keys">>
CheckBox == <<"forClick", "unlessChecked", "pointer">>
UncheckBox == <<"forClick", "ifCheckedOrEnd", "pointer", "mustBeUnchecked">>
SelectOptionOf == <<"forSelect", "choose">>
FocusElement == <<"find", "focus">>
ScrollIntoViewOf == <<"forScroll">>
DragOnto == <<"forHover", "keep", "forTarget", "drag">>

\* Local files are looked at first; with a remote browser they cannot be.
RequireFileInput == <<"read">>
Upload == <<"need">> \o RequireFileInput \o <<"ref", "do">>

----------------------------------------------------------------------------
(* Asking an element, and waiting for it.                                  *)

GetText == <<"read">>
GetInnerText == <<"read">>
GetInnerHTML == <<"read">>
GetOuterHTML == <<"read">>
GetValue == <<"read">>
GetAttribute == <<"read">>
IsVisibleNow == <<"read">>
IsEnabledNow == <<"read">>
GetCount == <<"eval">>
WaitForText == <<"poll">>
WaitForFunction == <<"poll">>
WaitForVisible == <<"untilVisible">>
WaitForHidden == <<"untilGone">>

----------------------------------------------------------------------------
(* The page as a whole.                                                    *)

NavigateTo == <<"do">>
\* The wait for the page that follows a step through the history may fail.
GoBack == <<"do", "try">>
GoForward == <<"do", "try">>
Reload == <<"do">>
GetURL == <<"eval">>
GetTitle == <<"eval">>
GetContent == <<"eval">>
WaitForURL == <<"poll">>
WaitForReadyState == <<"poll">>
ListFrames == <<"ask", "try">>
FindFrame == ListFrames
NewPageInContext == {<<"do">>, <<"do">> \o NavigateTo}
NewUserContext == <<"do">>
RemoveUserContext == <<"do">>
ListPages == <<"ask">>
SwitchPage == <<"do">>
ClosePage == <<"do">>
SetViewport == <<"do">>
SetContent == <<"inject">>
A11yTree == <<"look">>
EmulateMedia == <<"inject">>
SetGeolocation == <<"inject", "do">>
GetWindow == <<"ask">>
SetWindow == <<"ask", "need", "do">>
ViewportCenter == <<"look">>
ScrollWheel == <<"do">>
\* Inside a frame the wheel does not scroll: a script does.  So it does where the
\* offset is the same after the wheel as before.
DirectionalScroll ==
    {<<"try", "inject">>, <<"try", "try", "do", "try">>,
     <<"try", "try", "do", "try", "inject">>}
MouseAction == <<"do">>
TypeText == <<"do">>
PressKey == <<"do">>
GetCookies == <<"ask">>
SetCookie == <<"try", "do">>
DeleteCookies == <<"do">>
SetTimezone == <<"do">>
ClearTimezone == <<"do">>

----------------------------------------------------------------------------
(* Handlers: elements.                                                     *)

\* The snapshot before an action is taken once the element is in view.
On(check, act) == <<"context", check, "snapshot">> \o act

Find == <<"context", "seek">>
FindAllOf == <<"context", "findAll">>
Click == On("forClick", <<"pointer">>)
Dblclick == On("forClick", <<"pointer">>)
Fill == On("forFill", <<"write">>)
Type == On("forClick", <<"pointer", "caretForText", "keys">>)
Press == On("forClick", <<"pointer", "caret", "keys">>)
Clear == On("forFill", <<"write">>)
Check == On("forClick", <<"unlessChecked", "pointer">>)
Uncheck == On("forClick", <<"ifChecked", "pointer", "mustBeUnchecked">>)
SelectOption == On("forSelect", <<"choose">>)
Hover == On("forHover", <<"hover">>)
Focus == <<"context">> \o FocusElement
DragTo == <<"context", "need", "forHover", "keep", "snapshot", "forTarget", "drag">>
Tap == On("forClick", <<"pointer">>)
ScrollIntoView == <<"context">> \o ScrollIntoViewOf
DispatchEvent == <<"context", "find", "focus">>
ElSetFiles == <<"context", "need">> \o Upload

ElText == <<"context">> \o GetText
ElHighlight == <<"context", "read">>
ElInnerText == <<"context">> \o GetInnerText
ElHTML == <<"context", "read">>
ElValue == <<"context", "read">>
ElAttr == <<"context", "read">>
ElBounds == <<"context", "read">>
ElIsVisible == <<"context", "read">>
ElIsHidden == <<"context", "read">>
ElIsEnabled == <<"context", "read">>
ElIsChecked == <<"context", "read">>
ElIsEditable == <<"context", "read">>
ElRole == <<"context", "read">>
ElLabel == <<"context", "read">>
ElScreenshot == <<"context", "find", "ask">>
ElWaitFor ==
    {<<"context", w>> : w \in {"untilAttached", "untilDetached", "untilVisible", "untilHidden"}}
PageWaitFor == <<"context", "find">>

----------------------------------------------------------------------------
(* Handlers: raw input.                                                    *)

KeyboardPress == <<"context">> \o PressKey
KeyboardDown == <<"context", "do">>
KeyboardUp == <<"context", "do">>
KeyboardType == <<"context">> \o TypeText
MouseClick == <<"context", "do">>
MouseMove == <<"context", "do">>
MouseDown == <<"context", "do">>
MouseUp == <<"context", "do">>
MouseWheel == <<"context", "do">>
TouchTap == <<"context", "do">>
PageScroll ==
    {<<"context", "need", "find">> \o ScrollWheel}
        \cup {<<"context", "need">> \o ViewportCenter \o d : d \in DirectionalScroll}

----------------------------------------------------------------------------
(* Handlers: pages, contexts and what they keep.                           *)

PageNavigate == <<"context", "need">> \o NavigateTo \o <<"snapshot">>
PageBack == <<"context">> \o GoBack
PageForward == <<"context">> \o GoForward
PageReload == <<"context">> \o Reload
PageURL == <<"context">> \o GetURL
PageTitle == <<"context">> \o GetTitle
PageContent == <<"context">> \o GetContent
PageWaitForURL == <<"context", "need">> \o WaitForURL
PageWaitForLoad == <<"context">> \o WaitForReadyState
PageWait == <<"pause">>
PageWaitForFunction == <<"context", "poll">>
PageEval == <<"context", "run">>
PageAddScript == <<"context", "inject">>
PageAddStyle == <<"context", "inject">>
PageFrames == <<"context">> \o ListFrames
PageFrame == <<"context", "need">> \o ListFrames
PageA11yTree == <<"context">> \o A11yTree

BrowserPage == <<"ask">>
BrowserNewPage == <<"do", "try">>
BrowserNewContext == <<"do">>
ContextNewPage == <<"need", "do", "try">>
BrowserPages == <<"ask">>
ContextClose == <<"need", "do">>
PageActivate == <<"context", "do">>
PageClose == <<"context", "do">>

ContextCookies == <<"need", "ask">>
\* Each cookie is looked at and set before the next one is looked at.
ContextSetCookies == <<"need", "need", "do", "need", "do">>
ContextClearCookies == <<"need", "do">>
ContextStorage == <<"need", "ask", "askOrEnd", "askOrEnd">>
ContextSetStorage == {<<"need", "do", "do">>, <<"need", "do", "askOrEnd", "try">>}
ContextClearStorage == <<"need", "do", "askOrEnd", "try">>
ContextAddInitScript == <<"need", "do">>

PageSetViewport == <<"context", "need", "do">>
PageViewport == <<"context", "eval">>
PageEmulateMedia == <<"context">> \o EmulateMedia
PageSetContent == <<"context", "inject">>
PageSetWindow == SetWindow
PageWindow == GetWindow
PageSetGeolocation == <<"context", "need">> \o SetGeolocation

----------------------------------------------------------------------------
(* Handlers: the clock, the network, bindings.                             *)

\* The clock goes into the page, then, the first time, before every later page.
ClockInstall ==
    {<<"context", "eval">> \o preload \o set :
        preload \in {<<>>, <<"do">>}, set \in {<<>>, <<"eval">>, <<"eval", "do">>}}
RunClockOp == <<"eval">>
ClockFastForward == <<"context", "need">> \o RunClockOp
ClockRunFor == <<"context", "need">> \o RunClockOp
ClockPauseAt == <<"context", "need">> \o RunClockOp
ClockResume == <<"context">> \o RunClockOp
ClockSetFixedTime == <<"context", "need">> \o RunClockOp
ClockSetSystemTime == <<"context", "need">> \o RunClockOp
ClockSetTimezone == <<"context", "do">>

PageRoute == {<<"context", "need">>, <<"context", "need", "do">>}
PageUnroute == {<<"context">>, <<"context", "need", "do">>}
NetworkContinue == <<"need", "do">>
NetworkFulfill == <<"need", "do">>
NetworkAbort == <<"need", "do">>
PageSetHeaders == <<"context", "need", "do">>

ExposeResult == <<"need", "inject">>
PageExpose == <<"need", "context", "try", "do", "inject">>
EnsureScriptMessageSubscription == {<<>>, <<"do">>}
ExposeFunction ==
    {<<"need", "context">> \o sub \o <<"try", "do", "inject">> :
        sub \in EnsureScriptMessageSubscription}
PageOnWebSocket ==
    {<<"context">> \o sub \o preload \o <<"inject">> :
        sub \in EnsureScriptMessageSubscription, preload \in {<<>>, <<"do">>}}

----------------------------------------------------------------------------
HandlerPrograms ==
    {Find, FindAllOf, Click, Dblclick, Fill, Type, Press, Clear, Check, Uncheck, SelectOption,
     Hover, Focus, DragTo, Tap, ScrollIntoView, DispatchEvent, ElSetFiles, ElText, ElHighlight,
     ElInnerText, ElHTML, ElValue, ElAttr, ElBounds, ElIsVisible, ElIsHidden, ElIsEnabled,
     ElIsChecked, ElIsEditable, ElRole, ElLabel, ElScreenshot, PageWaitFor,
     KeyboardPress, KeyboardDown, KeyboardUp, KeyboardType, MouseClick, MouseMove, MouseDown,
     MouseUp, MouseWheel, TouchTap, PageNavigate, PageBack, PageForward, PageReload, PageURL,
     PageTitle, PageContent, PageWaitForURL, PageWaitForLoad, PageWait, PageWaitForFunction,
     PageEval, PageAddScript, PageAddStyle, PageFrames, PageFrame, PageA11yTree, BrowserPage,
     BrowserNewPage, BrowserNewContext, ContextNewPage, BrowserPages, ContextClose,
     PageActivate, PageClose, ContextCookies, ContextSetCookies, ContextClearCookies,
     ContextStorage, ContextClearStorage, ContextAddInitScript, PageSetViewport, PageViewport,
     PageEmulateMedia, PageSetContent, PageSetWindow, PageWindow, PageSetGeolocation,
     ClockFastForward, ClockRunFor, ClockPauseAt, ClockResume, ClockSetFixedTime,
     ClockSetSystemTime, ClockSetTimezone, NetworkContinue, NetworkFulfill, NetworkAbort,
     PageSetHeaders, ExposeResult, PageExpose}
    \cup ElWaitFor \cup PageScroll \cup ContextSetStorage \cup ClockInstall \cup PageRoute
    \cup PageUnroute \cup ExposeFunction \cup PageOnWebSocket
=============================================================================
