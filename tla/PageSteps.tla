----------------------------- MODULE PageSteps -----------------------------
(***************************************************************************)
(* The steps page commands are made of: the library that the router's      *)
(* handlers and the agent's tools share (clicker/internal/api: helpers.go, *)
(* actionability.go, handlers_interaction.go, handlers_state.go).          *)
(*                                                                         *)
(* A command is a program, a sequence of steps, run against a page that    *)
(* changes between any two of them.  Each step is one call of the library: *)
(* what it asks of the browser, when it retries, and what its failure      *)
(* makes of the command.                                                   *)
(***************************************************************************)
EXTENDS Naturals, Sequences, FiniteSets

CONSTANTS Programs,   \* the programs to run
          Elements,   \* the elements of the page, numbered from 1
          Spots,      \* where an element may be drawn
          Screen(_),  \* spot -> the screenful it is on; only one is in view
          Shadowed,   \* elements inside a shadow root
          Inert,      \* elements that take neither the focus nor a value
          MaxTries,   \* bound: polls before a deadline
          MaxChanges  \* bound: changes of the page during a command

ASSUME StepsAssumption ==
    /\ {1, 2} \subseteq Elements /\ Elements \subseteq Spots /\ Spots \subseteq Nat \ {0}
    /\ MaxTries \in Nat /\ MaxChanges \in Nat

VARIABLES
    at,             \* selector -> the element it names, 0: none
    spot, view,     \* element -> where it is; the screenful in view
    covered,        \* spots under an overlay
    shown, usable,  \* elements that are visible; that are enabled and editable
    ticked, focus,  \* checked boxes; the focused element
    changes,
    navigating,     \* a navigation: scripts fail until it is over
    cancelled,      \* the context of the model operation the command is part of
    prog, pc, reply,
    force,          \* the command's parameter: no actionability checks
    tries, box,     \* polls so far; the first of the two samples of "stable"
    info, source,   \* what was resolved: element and spot; a drag's source
    fresh,          \* ghost: the page has not changed since info was resolved
    effects,        \* ghost: what the command did to the page
    held, broke     \* ghost: what a wait waits for was true; an error passed for absence

page == <<at, spot, view, covered, shown, usable, ticked, focus>>
world == <<changes, navigating, cancelled>>
resolved == <<info, source, fresh>>
ghosts == <<effects, held, broke>>
vars == <<page, world, prog, pc, reply, force, tries, box, resolved, ghosts>>

Nowhere == [el |-> 0, spot |-> 0]
Step == prog[pc]

\* Steps that resolve an element, and the checks it has to pass first.
ClickChecks == {"visible", "stable", "receivesEvents", "enabled"}
HoverChecks == {"visible", "stable", "receivesEvents"}
FillChecks == {"visible", "enabled"}
SelectChecks == {"visible", "enabled"}
ScrollChecks == {"stable"}
Checks ==
    [forClick |-> ClickChecks, forHover |-> HoverChecks, forTarget |-> HoverChecks,
     forFill |-> FillChecks, forSelect |-> SelectChecks, forScroll |-> ScrollChecks]
Finders == {"find", "ref", "seek", "findAll"}
Waits == {"untilAttached", "untilDetached", "untilVisible", "untilHidden", "untilGone"}
Scripts == {"write", "choose", "focus", "caret", "caretForText", "read", "unlessChecked",
            "ifChecked", "ifCheckedOrEnd", "mustBeUnchecked"}
Resolvers == DOMAIN Checks \cup {"find", "ref", "seek"}
Acts == {"pointer", "hover", "drag", "keys", "write", "choose", "focus", "do", "run", "inject"}
ElementSteps == DOMAIN Checks \cup Finders \cup Waits \cup Scripts

\* What step i of p acts on was resolved by step j.
Resolved(p, j, i) ==
    /\ j \in 1 .. i - 1 /\ p[j] \in Resolvers
    /\ \A k \in j + 1 .. i - 1 : p[k] \notin Resolvers
ChecksPoint(s) == s \in {r \in DOMAIN Checks : "receivesEvents" \in Checks[r]}

\* Step i types into what step k clicked.
Clicked(p, k, i) ==
    /\ k \in 1 .. i - 1 /\ p[k] = "pointer" /\ p[i] = "keys"
    /\ \A m \in k + 1 .. i - 1 : p[m] \in {"caret", "caretForText"}

\* How the code's programs are made: the pointer goes where the last element resolved was
\* checked to receive it, keys to an element that was clicked, values to the element that
\* was resolved; what may be left out is followed by nothing that relies on it.
WellFormed(p) ==
    /\ p \in Seq(STRING) /\ p # <<>>
    /\ \A i \in DOMAIN p :
        /\ p[i] \in {"pointer", "hover", "drag", "keep"} =>
              \E j \in DOMAIN p : Resolved(p, j, i) /\ ChecksPoint(p[j])
        /\ p[i] = "keys" => \E k \in DOMAIN p : Clicked(p, k, i)
        /\ p[i] \in {"write", "choose", "focus"} =>
              \E j \in DOMAIN p : Resolved(p, j, i) /\ p[j] # "forTarget"
        /\ p[i] = "focus" => \A j \in i + 1 .. Len(p) : p[j] \notin Resolvers
        /\ p[i] = "askOrEnd" =>
              \A j \in i + 1 .. Len(p) : p[j] \notin Acts \cup Waits \cup {"mustBeUnchecked"}
        /\ p[i] = "unlessChecked" => Len(p) = i + 1 /\ p[i + 1] = "pointer"
        /\ p[i] \in {"ifChecked", "ifCheckedOrEnd"} =>
              Len(p) = i + 2 /\ p[i + 1] = "pointer" /\ p[i + 2] = "mustBeUnchecked"

ASSUME ProgramsAssumption == \A p \in Programs : WellFormed(p)

Selector == IF Step = "forTarget" THEN "target" ELSE "el"
\* What the pointer may hit: after scrolling, whatever is drawn at the same coordinates.
Hits(s) ==
    IF Screen(s) # view
       THEN {0} \cup {e \in Elements : Screen(spot[e]) = view /\ spot[e] \notin covered}
    ELSE IF s \in covered \/ ~\E e \in Elements : spot[e] = s THEN {0}
    ELSE {e \in Elements : spot[e] = s}

Init ==
    /\ at = [el |-> 1, target |-> 2] /\ spot = [e \in Elements |-> e]
    /\ view = Screen(1) /\ covered = {} /\ shown = Elements /\ usable = Elements
    /\ ticked = {} /\ focus = 0 /\ changes = 0 /\ navigating = FALSE /\ cancelled = FALSE
    /\ prog = <<>> /\ pc = 1 /\ reply = "none" /\ force = FALSE /\ tries = 0 /\ box = 0
    /\ info = Nowhere /\ source = Nowhere /\ fresh = FALSE
    /\ effects = {} /\ held = FALSE /\ broke = FALSE

----------------------------------------------------------------------------
(* The page and the model operation, while a command runs.                 *)

Running == prog # <<>> /\ reply = "none"

Condition(w) ==
    LET e == at["el"]
    IN CASE w = "untilAttached" -> e # 0
         [] w = "untilDetached" -> e = 0
         [] w = "untilVisible" -> e \in shown
         [] w \in {"untilHidden", "untilGone"} -> e \notin shown
         [] OTHER -> FALSE

\* Before the command looks at elements a change is as good as one at its first look.
Change ==
    /\ Running /\ changes < MaxChanges /\ changes' = changes + 1
    /\ \E i \in 1 .. pc : prog[i] \in ElementSteps
    /\ \/ \E s \in DOMAIN at, e \in Elements \cup {0} :
             /\ at' = [at EXCEPT ![s] = e] /\ at' # at
             /\ UNCHANGED <<spot, covered, shown, usable, ticked>>
       \/ \E e \in Elements, s \in Spots :
             /\ \A o \in Elements : spot[o] # s
             /\ spot' = [spot EXCEPT ![e] = s]
             /\ UNCHANGED <<at, covered, shown, usable, ticked>>
       \/ \E s \in Spots :
             /\ covered' = (covered \cup {s}) \ (covered \cap {s})
             /\ UNCHANGED <<at, spot, shown, usable, ticked>>
       \/ \E e \in Elements :
             /\ \/ shown' = (shown \cup {e}) \ (shown \cap {e}) /\ UNCHANGED <<usable, ticked>>
                \/ usable' = (usable \cup {e}) \ (usable \cap {e}) /\ UNCHANGED <<shown, ticked>>
                \/ ticked' = (ticked \cup {e}) \ (ticked \cap {e}) /\ UNCHANGED <<shown, usable>>
             /\ UNCHANGED <<at, spot, covered>>
    /\ fresh' = FALSE
    /\ held' = (held \/ \E w \in Waits : Step = w /\ Condition(w)')
    /\ UNCHANGED <<view, focus, navigating, cancelled, prog, pc, reply, force, tries, box,
                   info, source, effects, broke>>

Navigate ==
    /\ Running /\ navigating' = ~navigating
    /\ (navigating \/ changes < MaxChanges)
    /\ changes' = IF navigating THEN changes ELSE changes + 1
    /\ UNCHANGED <<page, cancelled, prog, pc, reply, force, tries, box, resolved, ghosts>>

Cancel ==
    /\ Running /\ ~cancelled /\ cancelled' = TRUE
    /\ UNCHANGED <<page, changes, navigating, prog, pc, reply, force, tries, box, resolved,
                   ghosts>>

----------------------------------------------------------------------------
(* The run of a program.                                                   *)

Start(p) ==
    /\ prog = <<>> /\ prog' = p
    /\ force' \in {FALSE, \E i \in DOMAIN p : p[i] \in DOMAIN Checks}
    /\ UNCHANGED <<page, world, pc, reply, tries, box, resolved, ghosts>>

\* sendError, and return.
Fail ==
    /\ reply' = "error"
    /\ UNCHANGED <<world, prog, pc, force, tries, box>>

\* sendSuccess at the end of the program.
Skip(n) ==
    /\ IF pc + n > Len(prog) THEN reply' = "ok" /\ UNCHANGED pc
                             ELSE pc' = pc + n /\ UNCHANGED reply
    /\ tries' = 0 /\ box' = 0
    /\ UNCHANGED <<world, prog, force>>

\* After a poll that did not succeed: the deadline, or another one after the interval.
PollAgain ==
    \/ Fail
    \/ /\ tries < MaxTries /\ tries' = tries + 1 /\ box' = 0
       /\ UNCHANGED <<world, prog, pc, reply, force>>

\* Whether the browser may answer: a call may always fail, these must.
CanCall == ~cancelled
CanRun == CanCall /\ ~navigating
CanAnswer == IF Step \in {"look", "run", "inject"} THEN CanRun ELSE CanCall

----------------------------------------------------------------------------
(* Steps that do not touch elements.                                       *)

\* A missing parameter, an unknown option; for a tool, a browser that cannot be started,
\* a file that cannot be saved.
Need ==
    /\ Running /\ Step \in {"need", "browser", "save"} /\ (Fail \/ Skip(1))
    /\ UNCHANGED <<page, resolved, ghosts>>

\* resolveContext: the command names a context, or getTree gives the first.
ResolveContext ==
    /\ Running /\ Step = "context" /\ (Fail \/ Skip(1))
    /\ UNCHANGED <<page, resolved, ghosts>>

\* A query: a command, or a script in the page.
Ask ==
    /\ Running /\ Step \in {"ask", "look"}
    /\ ((CanAnswer /\ Skip(1)) \/ Fail)
    /\ UNCHANGED <<page, resolved, ghosts>>

\* A query without which the command ends early, and well.  The retries of a script
\* are not told from a slow answer here and below.
AskOrEnd ==
    /\ Running /\ Step = "askOrEnd"
    /\ ((CanCall /\ Skip(1)) \/ Skip(Len(prog)))
    /\ UNCHANGED <<page, resolved, ghosts>>

Effect(op, e, want, f) == [op |-> op, el |-> e, want |-> want, fresh |-> f]

\* After an effect the answer may be lost.
DoneOrLost == Skip(1) \/ Fail

\* A command, or a script, with an effect: done, refused, or done and its answer lost.
\* What an injected script throws is a result like any other, and nobody looks at it.
Do ==
    /\ Running /\ Step \in {"do", "run", "inject"}
    /\ \/ CanAnswer /\ DoneOrLost /\ effects' = effects \cup {Effect(Step, 0, 0, FALSE)}
       \/ Step = "inject" /\ CanAnswer /\ Skip(1) /\ UNCHANGED effects
       \/ Fail /\ UNCHANGED effects
    /\ UNCHANGED <<page, resolved, held, broke>>

\* Best effort, a snapshot for the recording, a pause: whatever becomes of it.
Try ==
    /\ Running /\ Step \in {"try", "snapshot", "pause"} /\ Skip(1)
    /\ UNCHANGED <<page, resolved, ghosts>>

\* EvalSimpleScript: a navigation under way is no failure until a budget is used up.
EvalRetries == navigating /\ ~cancelled
Eval ==
    /\ Running /\ Step = "eval"
    /\ \/ CanRun /\ Skip(1)
       \/ ~EvalRetries /\ Fail
       \/ EvalRetries /\ PollAgain
    /\ UNCHANGED <<page, resolved, ghosts>>

\* WaitForURL, WaitForReadyState, page.waitForFunction: polled until it is so.
Poll ==
    /\ Running /\ Step = "poll" /\ ((CanRun /\ Skip(1)) \/ PollAgain)
    /\ UNCHANGED <<page, resolved, ghosts>>

----------------------------------------------------------------------------
(* Finding an element, and waiting until it can be acted on.               *)

\* The element a script finds: pierceQuery sees into shadow roots, querySelector does
\* not.  Either script scrolls it into view.
Pierced == at[Selector]
Plain == IF Pierced \in Shadowed THEN 0 ELSE Pierced
ScrollTo(e) == view' = IF e = 0 THEN view ELSE Screen(spot[e])

\* actionabilityCheckBody.  Mutant: the point may be covered.
Passes_Covered(e, checks) ==
    /\ "visible" \in checks => e \in shown
    /\ "enabled" \in checks => e \in usable
Passes(e, checks) ==
    /\ "visible" \in checks => e \in shown
    /\ "enabled" \in checks => e \in usable
    /\ "receivesEvents" \in checks => spot[e] \notin covered

Resolve(e) ==
    /\ info' = [el |-> e, spot |-> spot[e]] /\ fresh' = TRUE
    /\ ScrollTo(e) /\ Skip(1)

\* A cancelled call ends the wait; any other failure is one more poll.
GiveUpOrPoll == IF cancelled THEN Fail ELSE PollAgain

\* WaitForElementWithScript, for ResolveElement and for page.find.
FindElement ==
    /\ Running /\ (Step \in {"find", "ref", "seek"} \/ (Step \in DOMAIN Checks /\ force))
    /\ LET e == IF Step = "seek" THEN Pierced ELSE Plain
       IN \/ CanRun /\ e # 0 /\ Resolve(e)
          \/ GiveUpOrPoll /\ UNCHANGED <<view, info, fresh>>
    /\ UNCHANGED <<at, spot, covered, shown, usable, ticked, focus, source, ghosts>>

\* waitForElements: at the deadline there are none, which is no error.  No failure ends
\* it before, not even a cancelled call.
FindAll ==
    /\ Running /\ Step = "findAll"
    /\ \/ Skip(1)
       \/ PollAgain /\ reply' = "none"
    /\ UNCHANGED <<page, resolved, ghosts>>

\* WaitForActionable: the checks, and for "stable" two samples with the same box.
NeedsSecond(checks) == "stable" \in checks /\ box = 0
WaitForActionable ==
    /\ Running /\ Step \in DOMAIN Checks /\ ~force
    /\ LET e == Pierced
           good == CanRun /\ e # 0 /\ Passes(e, Checks[Step])
       IN \/ /\ good /\ NeedsSecond(Checks[Step])
             /\ box' = spot[e] /\ ScrollTo(e)
             /\ UNCHANGED <<world, prog, pc, reply, force, tries, info, fresh>>
          \/ good /\ ~NeedsSecond(Checks[Step]) /\ (box # 0 => box = spot[e]) /\ Resolve(e)
          \/ GiveUpOrPoll /\ UNCHANGED <<view, info, fresh>>
    /\ UNCHANGED <<at, spot, covered, shown, usable, ticked, focus, source, ghosts>>

\* A drag resolves its target next.
KeepSource ==
    /\ Running /\ Step = "keep" /\ Skip(1)
    /\ source' = info
    /\ UNCHANGED <<page, info, fresh, ghosts>>

----------------------------------------------------------------------------
(* Input, and scripts that act on the element they find again.             *)

Did(op, e) == effects' = effects \cup {Effect(op, e, info.el, fresh)}

\* input.performActions at the resolved point, whatever is there now.
Pointer ==
    /\ Running /\ Step \in {"pointer", "hover"}
    /\ \/ \E e \in Hits(info.spot) :
             /\ CanCall /\ Did(Step, e) /\ DoneOrLost
             /\ IF Step = "hover" THEN UNCHANGED <<focus, ticked>>
                ELSE /\ focus' = IF e \in Inert THEN 0 ELSE e
                     /\ ticked' \in {ticked, IF e = 0 THEN ticked
                                             ELSE (ticked \cup {e}) \ (ticked \cap {e})}
       \/ Fail /\ UNCHANGED <<focus, ticked, effects>>
    /\ UNCHANGED <<at, spot, view, covered, shown, usable, resolved, held, broke>>

\* It begins where the source was when it was resolved, before the page was scrolled for
\* the target.
Drag ==
    /\ Running /\ Step = "drag"
    /\ \/ \E b \in Hits(source.spot), e \in Hits(info.spot) :
             /\ CanCall /\ DoneOrLost
             /\ effects' = effects \cup {Effect("drag", b, source.el, FALSE),
                                         Effect("drop", e, info.el, fresh)}
       \/ Fail /\ UNCHANGED effects
    /\ UNCHANGED <<page, resolved, held, broke>>

\* Keys go to the focused element.
Keys ==
    /\ Running /\ Step = "keys"
    /\ \/ CanCall /\ Did("keys", focus) /\ DoneOrLost
       \/ Fail /\ UNCHANGED effects
    /\ UNCHANGED <<page, resolved, held, broke>>

\* caretToEnd: "element not found" is one of its answers, not an error; typing text is
\* refused where it would land in segments or nowhere.
Caret ==
    /\ Running /\ Step \in {"caret", "caretForText"}
    /\ ((CanRun /\ Skip(1)) \/ Fail)
    /\ UNCHANGED <<page, resolved, ghosts>>

\* The value setter and selectOption.  A value the field rejects is reported after it
\* was set, an option that does not exist before; to an element without a value one is
\* written in vain, and the script says "ok".  Mutant: what the script says is not read.
WriteRefused_Ignored == Skip(1)
WriteRefused == Fail
Write ==
    /\ Running /\ Step \in {"write", "choose"}
    /\ \/ /\ CanRun /\ Pierced \notin {0} \cup Inert /\ Did(Step, Pierced) /\ DoneOrLost
          /\ focus' = IF Step = "write" THEN Pierced ELSE focus
       \/ /\ Step = "write" /\ CanRun /\ Pierced \in Inert /\ Did("vain", Pierced)
          /\ DoneOrLost /\ UNCHANGED focus
       \/ WriteRefused /\ UNCHANGED <<effects, focus>>
    /\ UNCHANGED <<at, spot, view, covered, shown, usable, ticked, resolved, held, broke>>

\* FocusElement and dispatchEvent: what the script says is not read, be it that there is
\* no element, or that it threw; and focus() on what takes no focus says nothing.
ActUnread ==
    /\ Running /\ Step = "focus"
    /\ \/ CanRun /\ Pierced \notin {0} \cup Inert /\ Did(Step, Pierced) /\ focus' = Pierced
          /\ DoneOrLost
       \/ CanRun /\ Skip(1) /\ UNCHANGED <<effects, focus>>
       \/ Fail /\ UNCHANGED <<effects, focus>>
    /\ UNCHANGED <<at, spot, view, covered, shown, usable, ticked, resolved, held, broke>>

\* EvalElementScript and EvalBoolScript: no element is an error at once.
Read ==
    /\ Running /\ Step = "read" /\ ((CanRun /\ Pierced # 0 /\ Skip(1)) \/ Fail)
    /\ UNCHANGED <<page, resolved, ghosts>>

\* IsChecked, and what check and uncheck do about it.
\* Mutant: uncheck does not look again.
StaysChecked_Unread == FALSE
StaysChecked == Pierced \in ticked
IsChecked ==
    /\ Running /\ Step \in {"unlessChecked", "ifChecked", "ifCheckedOrEnd",
                            "mustBeUnchecked"}
    /\ \/ /\ CanRun /\ Pierced # 0
          /\ CASE Step = "unlessChecked" -> Skip(IF Pierced \in ticked THEN 2 ELSE 1)
               [] Step = "ifChecked" -> Skip(IF Pierced \in ticked THEN 1 ELSE 2)
               [] Step = "ifCheckedOrEnd" -> Skip(IF Pierced \in ticked THEN 1 ELSE 3)
               [] OTHER -> IF StaysChecked THEN Fail ELSE Skip(1)
          /\ held' = (Pierced \notin ticked)
       \/ Fail /\ UNCHANGED held
    /\ UNCHANGED <<page, resolved, effects, broke>>

----------------------------------------------------------------------------
(* Waiting for a state of an element: one or two calls a poll.             *)

\* ResolveElementNoWait answers.  Any error passes for absence, that of a cancelled call
\* too: none of these waits ends before its deadline for it.
Absent == ~CanRun \/ Plain = 0
WaitFor ==
    /\ Running /\ Step \in Waits
    /\ held' = (held \/ Condition(Step))
    /\ \/ /\ Step \in {"untilAttached", "untilVisible"} /\ box = 0
          /\ UNCHANGED broke
          /\ \/ ~Absent /\ Step = "untilAttached" /\ Skip(1)
             \/ ~Absent /\ Step = "untilVisible" /\ box' = 1
                /\ UNCHANGED <<world, prog, pc, reply, force, tries>>
             \/ PollAgain
       \/ /\ Step \in {"untilDetached", "untilHidden", "untilGone"} /\ box = 0
          /\ \/ broke' = (broke \/ Pierced # 0) /\ Skip(1)
             \/ /\ ~Absent /\ UNCHANGED broke
                /\ \/ Step = "untilDetached" /\ PollAgain
                   \/ Step # "untilDetached" /\ box' = 1
                      /\ UNCHANGED <<world, prog, pc, reply, force, tries>>
       \/ /\ box = 1
          /\ \/ CanRun /\ Condition(Step) /\ (Pierced # 0 \/ Step = "untilGone") /\ Skip(1)
                /\ UNCHANGED broke
             \/ Step = "untilGone" /\ broke' = TRUE /\ Skip(1)
             \/ (CanRun => ~Condition(Step) \/ Pierced = 0) /\ PollAgain /\ UNCHANGED broke
    /\ UNCHANGED <<page, resolved, effects>>

----------------------------------------------------------------------------
RunStep ==
    \/ Need \/ ResolveContext \/ Ask \/ AskOrEnd \/ Do \/ Try \/ Eval \/ Poll
    \/ FindElement \/ FindAll \/ WaitForActionable \/ KeepSource
    \/ Pointer \/ Drag \/ Keys \/ Caret \/ Write \/ ActUnread \/ Read \/ IsChecked \/ WaitFor
Next ==
    \/ \E p \in Programs : Start(p)
    \/ RunStep \/ Change \/ Navigate \/ Cancel

Spec == Init /\ [][Next]_vars

----------------------------------------------------------------------------
(* Properties.                                                             *)

\* Every variable keeps its type; what was resolved is an element of the page.
PageOK ==
    /\ at \in [{"el", "target"} -> Elements \cup {0}] /\ spot \in [Elements -> Spots]
    /\ view \in {Screen(s) : s \in Spots} /\ covered \subseteq Spots
    /\ shown \cup usable \cup ticked \subseteq Elements /\ focus \in Elements \cup {0}
ControlOK ==
    /\ changes \in 0 .. MaxChanges /\ {navigating, cancelled, force, held, broke} \subseteq BOOLEAN
    /\ (prog = <<>> /\ pc = 1) \/ (prog \in Programs /\ pc \in DOMAIN prog)
    /\ reply \in {"none", "ok", "error"} /\ tries \in 0 .. MaxTries /\ box \in Spots \cup {0}
ResolvedOK ==
    /\ \A i \in {info, source} : i = Nowhere \/ (i.el \in Elements /\ i.spot \in Spots)
    /\ fresh \in BOOLEAN /\ (fresh => info # Nowhere)
TypeOK == PageOK /\ ControlOK /\ ResolvedOK

\* The promise of the actionability checks: unless the page changed after the element was
\* resolved, a click, a hover and the end of a drag land on that element, and not on what
\* covers it or has moved over it; the value, the option and the focus go to it; and so do
\* the keys after a click, if it takes the focus.  Where a drag begins is left out: the code
\* does not look again after it scrolled for the target (DragTo, handleVibiumDragTo).
ActsOnTarget ==
    \A f \in effects :
        f.fresh /\ ~force /\ ~(f.op = "keys" /\ f.want \in Inert) => f.el = f.want

\* A wait that succeeds, and an uncheck, tell the truth.  What was to appear was there at
\* some moment of the wait; what was to go away was gone, unless an error, a cancelled call
\* or a shadow root passed for absence; and the box was read unchecked before it is reported
\* so.
Appearing == {"untilAttached", "untilVisible"}
AnswersAreTrue ==
    reply = "ok" /\ prog # <<>> =>
        /\ prog[Len(prog)] \in Appearing => held
        /\ prog[Len(prog)] \in Waits => held \/ broke
        /\ prog[Len(prog)] = "mustBeUnchecked" => held

\* "ok" means done, for the acts whose outcome the code looks at: input, a browser command,
\* an evaluated script, an option, and a value.  A box that is already as it should be is
\* not clicked, and a value may be written in vain to an element that has none.  Nothing is
\* said of focus and dispatched events, nor of injected scripts: their answers are not read.
Done(i) ==
    \/ \E f \in effects : f.op = prog[i] \/ (f.op = "vain" /\ prog[i] = "write")
    \/ i > 1 /\ prog[i - 1] \in {"unlessChecked", "ifChecked", "ifCheckedOrEnd"}
Answered == Acts \ {"focus", "inject"}
OkMeansDone == reply = "ok" => \A i \in DOMAIN prog : prog[i] \in Answered => Done(i)

(* What makes the invariants hold; the proofs show it inductive.                           *)

\* One element at a spot; and what a program has not begun has done nothing.
PageInv ==
    /\ \A e, o \in Elements : spot[e] = spot[o] => e = o
    /\ prog = <<>> => reply = "none" /\ ~fresh /\ effects = {}

\* What was resolved is still so while the page has not changed: the element the selector
\* names, where it is, and that it is not covered, if that was checked.
InfoInv ==
    Running /\ fresh =>
        /\ info.el \in Elements /\ info.spot = spot[info.el]
        /\ \E j \in DOMAIN prog :
              /\ Resolved(prog, j, pc)
              /\ prog[j] # "forTarget" => at["el"] = info.el
              /\ ~force /\ ChecksPoint(prog[j]) =>
                    /\ info.spot \notin covered
                    /\ Step \notin Resolvers => Screen(info.spot) = view

\* From the click to the typing, what was clicked has the focus, if it takes it.
FocusInv ==
    Running /\ fresh /\ ~force =>
        \A k \in 1 .. pc - 1, i \in pc .. Len(prog) :
            Clicked(prog, k, i) => focus = info.el \/ info.el \in Inert

\* The acts that the program has passed are done.
DoneInv ==
    \A i \in DOMAIN prog : (i < pc \/ reply = "ok") /\ prog[i] \in Answered => Done(i)
=============================================================================
