----------------------------- MODULE AgentTools -----------------------------
(***************************************************************************)
(* The tools of clicker/internal/agent (handlers.go) as programs for       *)
(* PageSteps.  A tool starts or finds the browser, looks at its arguments, *)
(* resolves its selector's @e reference, finds the page to act on and      *)
(* calls the library.  Which page and which browser that is, and the tools *)
(* that change it, are the subject of AgentSession.                        *)
(***************************************************************************)
EXTENDS PageCommands

\* A tool that needs nothing but a page; one with arguments to check.
OnPage(act) == <<"browser", "context">> \o act
WithArgs(act) == <<"browser", "need", "context">> \o act

----------------------------------------------------------------------------
(* Acting on an element.                                                   *)

BrowserClick == WithArgs(ClickOn)
BrowserDblClick == WithArgs(DblClickOn)
BrowserType == WithArgs(TypeInto)
BrowserFill == WithArgs(FillIn)
BrowserPress == {WithArgs(PressOn), WithArgs(PressKey)}
BrowserHover == WithArgs(HoverOver)
BrowserSelect == WithArgs(SelectOptionOf)
BrowserCheck == WithArgs(CheckBox)
BrowserUncheck == WithArgs(UncheckBox)
BrowserFocus == WithArgs(FocusElement)
BrowserScrollIntoView == WithArgs(ScrollIntoViewOf)
BrowserDrag == WithArgs(DragOnto)
BrowserUpload == WithArgs(Upload)
BrowserHighlight == <<"browser", "need", "read">>
BrowserScroll ==
    {OnPage(<<"need", "find">> \o ScrollWheel)}
        \cup {OnPage(<<"need">> \o ViewportCenter \o d) : d \in DirectionalScroll}

\* Raw input.  A click without coordinates is two actions, and the second may fail.
BrowserKeys == WithArgs(PressKey)
BrowserMouseMove == WithArgs(MouseAction)
BrowserMouseDown == OnPage(MouseAction)
BrowserMouseUp == OnPage(MouseAction)
BrowserMouseClick == {OnPage(MouseAction), OnPage(MouseAction \o MouseAction)}

----------------------------------------------------------------------------
(* Asking and waiting.                                                     *)

PollCallFunction == <<"seek">>
BrowserFind == {<<"browser">> \o PollCallFunction, <<"browser", "need">> \o PollCallFunction}
BrowserFindAll == <<"browser", "need", "look">>
BrowserGetText == {OnPage(GetText), OnPage(<<"eval">>)}
BrowserGetHTML == {OnPage(GetOuterHTML), OnPage(GetContent)}
BrowserGetValue == WithArgs(GetValue)
BrowserGetAttribute == WithArgs(GetAttribute)
\* An element that cannot be asked is not visible.
BrowserIsVisible == WithArgs(<<"try">>)
BrowserIsEnabled == WithArgs(IsEnabledNow)
BrowserIsChecked == WithArgs(<<"read">>)
BrowserCount == WithArgs(GetCount)
BrowserGetURL == OnPage(GetURL)
BrowserGetTitle == OnPage(GetTitle)
BrowserEvaluate == <<"browser", "need", "run">>
BrowserMap == <<"browser", "look">>
BrowserDiffMap == <<"need">> \o BrowserMap
BrowserA11yTree == OnPage(A11yTree)
\* Overlays are drawn before and taken away after, if the picture could be taken; a page
\* in the background is brought to the front for it.
BrowserScreenshot ==
    {OnPage(<<"ask", "save">>), OnPage(<<"try", "ask", "save", "try">>),
     BrowserMap \o <<"run", "context", "ask", "try", "save">>}
BrowserPDF == OnPage(<<"ask", "save">>)

BrowserWait ==
    {<<"browser", "need", "context", w>> : w \in {"find", "untilVisible", "untilGone"}}
BrowserWaitForURL == WithArgs(WaitForURL)
BrowserWaitForLoad == OnPage(WaitForReadyState)
BrowserWaitForText == WithArgs(WaitForText)
BrowserWaitForFn == WithArgs(WaitForFunction)
BrowserSleep == <<"need", "pause">>

----------------------------------------------------------------------------
(* The page and the browser as a whole.                                    *)

BrowserNavigate == WithArgs(NavigateTo)
BrowserBack == OnPage(GoBack)
BrowserForward == OnPage(GoForward)
BrowserReload == OnPage(Reload)
BrowserListPages == <<"browser">> \o ListPages
BrowserFrames == OnPage(ListFrames)
BrowserSetContent == WithArgs(SetContent)
BrowserSetViewport == WithArgs(SetViewport)
BrowserGetViewport == OnPage(<<"eval">>)
BrowserGetWindow == <<"browser">> \o GetWindow
BrowserSetWindow == <<"browser">> \o SetWindow
BrowserEmulateMedia == WithArgs(EmulateMedia)
BrowserSetGeolocation == WithArgs(SetGeolocation)
BrowserDialogAccept == OnPage(<<"do">>)
BrowserDialogDismiss == OnPage(<<"do">>)
BrowserGetCookies == OnPage(GetCookies)
BrowserSetCookie == WithArgs(SetCookie)
BrowserDeleteCookies == OnPage(DeleteCookies)
BrowserStorageState == <<"browser", "ask", "look">>
BrowserRestoreStorage == {<<"browser", "need", "try">>, <<"browser", "need", "try", "run">>}
BrowserDownloadSetDir == <<"browser", "need", "do">>

\* The tools' own clock: unlike clock.install it registers no preload script.
AgentClockInstall ==
    {OnPage(<<"eval">> \o set) : set \in {<<>>, <<"eval">>, <<"eval">> \o SetTimezone}}
AgentClockFastForward == WithArgs(<<"eval">>)
AgentClockRunFor == WithArgs(<<"eval">>)
AgentClockPauseAt == WithArgs(<<"eval">>)
AgentClockResume == OnPage(<<"eval">>)
AgentClockSetFixedTime == WithArgs(<<"eval">>)
AgentClockSetSystemTime == WithArgs(<<"eval">>)
AgentClockSetTimezone == {OnPage(ClearTimezone), OnPage(SetTimezone)}

----------------------------------------------------------------------------
ToolPrograms ==
    {BrowserClick, BrowserDblClick, BrowserType, BrowserFill, BrowserHover, BrowserSelect,
     BrowserCheck, BrowserUncheck, BrowserFocus, BrowserScrollIntoView, BrowserDrag,
     BrowserUpload, BrowserHighlight, BrowserKeys, BrowserMouseMove, BrowserMouseDown,
     BrowserMouseUp, BrowserFindAll, BrowserGetValue, BrowserGetAttribute, BrowserIsVisible,
     BrowserIsEnabled, BrowserIsChecked, BrowserCount, BrowserGetURL, BrowserGetTitle,
     BrowserEvaluate, BrowserMap, BrowserDiffMap, BrowserA11yTree, BrowserPDF,
     BrowserWaitForURL, BrowserWaitForLoad, BrowserWaitForText, BrowserWaitForFn,
     BrowserSleep, BrowserNavigate, BrowserBack, BrowserForward, BrowserReload,
     BrowserListPages, BrowserFrames, BrowserSetContent, BrowserSetViewport,
     BrowserGetViewport, BrowserGetWindow, BrowserSetWindow, BrowserEmulateMedia,
     BrowserSetGeolocation, BrowserDialogAccept, BrowserDialogDismiss, BrowserGetCookies,
     BrowserSetCookie, BrowserDeleteCookies, BrowserStorageState, BrowserDownloadSetDir,
     AgentClockFastForward, AgentClockRunFor, AgentClockPauseAt, AgentClockResume,
     AgentClockSetFixedTime, AgentClockSetSystemTime}
    \cup BrowserPress \cup BrowserScroll \cup BrowserMouseClick \cup BrowserFind
    \cup BrowserGetText \cup BrowserGetHTML \cup BrowserScreenshot \cup BrowserWait
    \cup BrowserRestoreStorage \cup AgentClockInstall \cup AgentClockSetTimezone
=============================================================================
