-------------------------- MODULE PageStepsProofs --------------------------
(* Theorems about PageSteps, for any page and any well-formed programs. *)
EXTENDS PageSteps, TLAPS

\* The elements and spots of the page, and the programs.
LEMMA StepsFacts ==
    /\ 1 \in Elements /\ 2 \in Elements /\ Elements \subseteq Spots /\ 0 \notin Spots
    /\ MaxTries \in Nat /\ MaxChanges \in Nat
    /\ \A p \in Programs : p \in Seq(STRING) /\ p # <<>> /\ Len(p) \in Nat /\ Len(p) > 0
                           /\ DOMAIN p = 1 .. Len(p)
  BY StepsAssumption, ProgramsAssumption DEF WellFormed

\* A program goes on, ends, or polls, as its step says.
LEMMA ControlSteps ==
    ASSUME ControlOK, Running,
           Fail \/ PollAgain \/ \E n \in {1, 2, 3, Len(prog)} : Skip(n)
    PROVE  /\ prog' = prog /\ prog \in Programs /\ pc' \in DOMAIN prog'
           /\ reply' \in {"none", "ok", "error"} /\ tries' \in 0 .. MaxTries
           /\ box' \in Spots \cup {0} /\ UNCHANGED <<world, force>>
  <1> USE StepsFacts DEF ControlOK, Running
  <1>1. CASE Fail
    BY <1>1 DEF Fail
  <1>2. CASE PollAgain
    BY <1>2 DEF PollAgain, Fail
  <1>3. CASE \E n \in {1, 2, 3, Len(prog)} : Skip(n)
    BY <1>3 DEF Skip
  <1> QED BY <1>1, <1>2, <1>3

\* What a selector names.
LEMMA Found ==
    ASSUME PageOK
    PROVE  /\ Pierced \in Elements \cup {0} /\ Plain \in Elements \cup {0}
           /\ at[Selector] = Pierced /\ (Plain # 0 => Plain = Pierced)
  BY DEF PageOK, Pierced, Plain, Selector

\* Every step of a program does one of these, but for the looks that take two calls.
LEMMA RunSteps ==
    ASSUME PageOK, ControlOK, RunStep
    PROVE  /\ Running
           /\ \/ Fail \/ PollAgain
              \/ \E n \in {1, 2, 3, Len(prog)} : Skip(n)
              \/ /\ box' \in {1} \cup {spot[e] : e \in Elements}
                 /\ UNCHANGED <<world, prog, pc, reply, force, tries>>
  <1>1. CASE Need \/ ResolveContext \/ Ask \/ AskOrEnd \/ Do \/ Try \/ Eval \/ Poll
    BY <1>1 DEF Need, ResolveContext, Ask, AskOrEnd, Do, Try, Eval, Poll, DoneOrLost
  <1>2. CASE FindElement \/ FindAll \/ KeepSource
    BY <1>2 DEF FindElement, FindAll, KeepSource, Resolve, GiveUpOrPoll
  <1>3. CASE WaitForActionable
    BY <1>3, Found DEF WaitForActionable, Resolve, GiveUpOrPoll
  <1>4. CASE Pointer \/ Drag \/ Keys \/ Caret \/ Write \/ ActUnread \/ Read
    BY <1>4 DEF Pointer, Drag, Keys, Caret, Write, ActUnread, Read, DoneOrLost, WriteRefused
  <1>5. CASE IsChecked
    BY <1>5 DEF IsChecked
  <1>6. CASE WaitFor
    BY <1>6 DEF WaitFor
  <1> QED BY <1>1, <1>2, <1>3, <1>4, <1>5, <1>6 DEF RunStep

\* The program and its control.
LEMMA StepControlOK == ASSUME TypeOK, [Next]_vars PROVE ControlOK'
  <1> USE StepsFacts DEF TypeOK, ControlOK
  <1>1. ASSUME NEW p \in Programs, Start(p) PROVE ControlOK'
    <2>1. force' \in BOOLEAN
      BY <1>1, Zenon DEF Start
    <2>2. /\ prog' = p /\ UNCHANGED <<changes, navigating, cancelled, held, broke>>
          /\ prog = <<>> /\ UNCHANGED <<pc, reply, tries, box>>
      BY <1>1 DEF Start, world, ghosts
    <2>3. pc = 1 /\ 1 \in DOMAIN p
      BY <2>2
    <2> QED BY <2>1, <2>2, <2>3
  <1>2. CASE RunStep
    <2>1. /\ prog' = prog /\ prog \in Programs /\ pc' \in DOMAIN prog'
          /\ reply' \in {"none", "ok", "error"} /\ tries' \in 0 .. MaxTries
          /\ box' \in Spots \cup {0} /\ UNCHANGED <<world, force>>
      BY <1>2, RunSteps, ControlSteps DEF PageOK, Running
    <2>2. {held', broke'} \subseteq BOOLEAN
      BY <1>2
      DEF RunStep, Need, ResolveContext, Ask, AskOrEnd, Do, Try, Eval, Poll, FindElement, FindAll,
          WaitForActionable, KeepSource, Pointer, Drag, Keys, Caret, Write, ActUnread, Read,
          IsChecked, WaitFor, ghosts
    <2> QED BY <2>1, <2>2 DEF world
  <1>3. CASE Change
    <2>1. held' \in BOOLEAN
      BY <1>3, Zenon DEF Change
    <2> QED BY <1>3, <2>1 DEF Change
  <1>4. CASE Navigate \/ Cancel
    <2>1. navigating' \in BOOLEAN /\ cancelled' \in BOOLEAN
      BY <1>4, Zenon DEF Navigate, Cancel
    <2>2. changes' \in 0 .. MaxChanges
      BY <1>4 DEF Navigate, Cancel
    <2>3. UNCHANGED <<prog, pc, reply, force, tries, box, held, broke>>
      BY <1>4 DEF Navigate, Cancel, ghosts
    <2> QED BY <2>1, <2>2, <2>3
  <1>5. CASE UNCHANGED vars
    BY <1>5 DEF vars, world, ghosts
  <1> QED BY <1>1, <1>2, <1>3, <1>4, <1>5 DEF Next

\* The page.
LEMMA StepPageOK == ASSUME TypeOK, [Next]_vars PROVE PageOK'
  <1> USE StepsFacts DEF TypeOK, PageOK
  <1>1. CASE Change
    BY <1>1 DEF Change
  <1>2. CASE FindElement \/ WaitForActionable
    <2>1. /\ UNCHANGED <<at, spot, covered, shown, usable, ticked, focus>>
          /\ view' = view \/ \E e \in Elements : view' = Screen(spot[e])
      BY <1>2, Found DEF FindElement, WaitForActionable, Resolve, ScrollTo
    <2> QED BY <2>1
  <1>3. CASE Pointer
    <2>1. Hits(info.spot) \subseteq Elements \cup {0}
      BY DEF Hits
    <2>2. /\ UNCHANGED <<at, spot, view, covered, shown, usable>>
          /\ focus' \in Elements \cup {0} /\ ticked' \subseteq Elements
      BY <1>3, <2>1 DEF Pointer
    <2> QED BY <2>1, <2>2
  <1>4. CASE Write \/ ActUnread
    BY <1>4, Found DEF Write, ActUnread, WriteRefused
  <1>5. CASE UNCHANGED page
    BY <1>5 DEF page
  <1> QED
    BY <1>1, <1>2, <1>3, <1>4, <1>5
    DEF Next, Start, RunStep, Need, ResolveContext, Ask, AskOrEnd, Do, Try, Eval, Poll, FindAll,
        KeepSource, Drag, Keys, Caret, Read, IsChecked, WaitFor, Navigate, Cancel, vars

\* What was resolved.
LEMMA StepResolvedOK == ASSUME TypeOK, [Next]_vars PROVE ResolvedOK'
  <1> USE StepsFacts DEF TypeOK, ResolvedOK
  <1>1. CASE Change
    BY <1>1 DEF Change
  <1>2. CASE FindElement \/ WaitForActionable
    <2>1. /\ source' = source
          /\ \/ UNCHANGED <<info, fresh>>
             \/ /\ fresh' = TRUE
                /\ \E e \in Elements : info' = [el |-> e, spot |-> spot[e]]
      BY <1>2, Found DEF FindElement, WaitForActionable, Resolve
    <2>2. \A e \in Elements : e # 0 /\ spot[e] \in Spots
      BY DEF PageOK
    <2>3. CASE UNCHANGED <<info, fresh>>
      BY <2>1, <2>3
    <2>4. CASE /\ fresh' = TRUE
               /\ \E e \in Elements : info' = [el |-> e, spot |-> spot[e]]
      BY <2>1, <2>2, <2>4 DEF Nowhere
    <2> QED BY <2>1, <2>3, <2>4
  <1>3. CASE KeepSource
    BY <1>3 DEF KeepSource
  <1>4. CASE UNCHANGED resolved
    BY <1>4 DEF resolved
  <1> QED
    BY <1>1, <1>2, <1>3, <1>4
    DEF Next, Start, RunStep, Need, ResolveContext, Ask, AskOrEnd, Do, Try, Eval, Poll, FindAll,
        Pointer, Drag, Keys, Caret, Write, ActUnread, Read, IsChecked, WaitFor, Navigate, Cancel,
        vars

\* Every variable keeps its type.
THEOREM TypeCorrect == Spec => []TypeOK
  <1>1. Init => TypeOK
    <2> SUFFICES ASSUME Init PROVE TypeOK
      OBVIOUS
    <2> USE StepsFacts DEF Init
    <2>1. PageOK
      BY DEF PageOK
    <2>2. ControlOK
      <3>1. {navigating, cancelled, force, held, broke} \subseteq BOOLEAN
        BY Zenon
      <3> QED BY <3>1 DEF ControlOK
    <2>3. ResolvedOK
      BY DEF ResolvedOK
    <2> QED BY <2>1, <2>2, <2>3 DEF TypeOK
  <1>2. TypeOK /\ [Next]_vars => TypeOK'
    BY StepControlOK, StepPageOK, StepResolvedOK DEF TypeOK
  <1> QED BY <1>1, <1>2, PTL DEF Spec

\* The steps that resolve an element, and those that check the point.
LEMMA CheckedSteps ==
    /\ Resolvers = {"forClick", "forHover", "forTarget", "forFill", "forSelect", "forScroll",
                    "find", "ref", "seek"}
    /\ DOMAIN Checks = Resolvers \ {"find", "ref", "seek"}
    /\ \A s : ChecksPoint(s) <=> s \in {"forClick", "forHover", "forTarget"}
    /\ \A s \in DOMAIN Checks : ChecksPoint(s) <=> "receivesEvents" \in Checks[s]
  <1>1. DOMAIN Checks = {"forClick", "forHover", "forTarget", "forFill", "forSelect", "forScroll"}
    BY DEF Checks
  <1>2. \A s : ChecksPoint(s) <=> s \in DOMAIN Checks /\ "receivesEvents" \in Checks[s]
    BY DEF ChecksPoint
  <1>3. /\ Checks["forClick"] = ClickChecks /\ Checks["forHover"] = HoverChecks
        /\ Checks["forTarget"] = HoverChecks /\ Checks["forFill"] = FillChecks
        /\ Checks["forSelect"] = SelectChecks /\ Checks["forScroll"] = ScrollChecks
    BY DEF Checks
  <1>4. /\ "receivesEvents" \in ClickChecks /\ "receivesEvents" \in HoverChecks
        /\ "receivesEvents" \notin FillChecks /\ "receivesEvents" \notin SelectChecks
        /\ "receivesEvents" \notin ScrollChecks
    BY DEF ClickChecks, HoverChecks, FillChecks, SelectChecks, ScrollChecks
  <1> QED BY <1>1, <1>2, <1>3, <1>4 DEF Resolvers

\* A step is resolved by one other.
LEMMA ResolvedByOne ==
    ASSUME NEW p, NEW i \in Nat, NEW j, NEW k, Resolved(p, j, i), Resolved(p, k, i) PROVE j = k
  BY DEF Resolved

\* Where a program goes: on, nowhere, or past what a box that is as it should be does not need.
LEMMA Moves ==
    ASSUME TypeOK, RunStep
    PROVE  /\ Running /\ prog' = prog /\ force' = force /\ pc \in DOMAIN prog
           /\ \/ pc' = pc /\ reply' \in {"none", "error"}
              \/ Skip(1)
              \/ Step = "ifChecked" /\ pc' = pc + 2 /\ reply' = "none"
              \/ /\ Step \in {"askOrEnd", "unlessChecked", "ifCheckedOrEnd"}
                 /\ pc' = pc /\ reply' = "ok"
  <1> USE StepsFacts DEF TypeOK, ControlOK, Running
  <1>1. Running /\ prog' = prog /\ force' = force /\ prog \in Programs /\ pc \in DOMAIN prog
    BY RunSteps, ControlSteps
  <1>2. ASSUME Fail \/ PollAgain PROVE pc' = pc /\ reply' \in {"none", "error"}
    BY <1>1, <1>2 DEF Fail, PollAgain
  <1>3. CASE Need \/ ResolveContext \/ Ask \/ Do \/ Try \/ Eval \/ Poll
    BY <1>1, <1>2, <1>3 DEF Need, ResolveContext, Ask, Do, Try, Eval, Poll, DoneOrLost
  <1>4. CASE FindElement \/ FindAll \/ KeepSource \/ WaitForActionable
    BY <1>1, <1>2, <1>4
    DEF FindElement, FindAll, KeepSource, WaitForActionable, Resolve, GiveUpOrPoll
  <1>5. CASE Pointer \/ Drag \/ Keys \/ Caret \/ Write \/ ActUnread \/ Read
    BY <1>1, <1>2, <1>5
    DEF Pointer, Drag, Keys, Caret, Write, ActUnread, Read, DoneOrLost, WriteRefused
  <1>6. CASE AskOrEnd
    <2>1. Skip(1) \/ Skip(Len(prog))
      BY <1>6 DEF AskOrEnd
    <2>2. Skip(Len(prog)) => pc' = pc /\ reply' = "ok"
      BY <1>1 DEF Skip
    <2>3. Step = "askOrEnd"
      BY <1>6 DEF AskOrEnd
    <2> QED BY <1>1, <2>1, <2>2, <2>3
  <1>7. CASE IsChecked
    <2>1. /\ WellFormed(prog) /\ Step = prog[pc]
          /\ Step = "unlessChecked" => Len(prog) = pc + 1
          /\ Step \in {"ifChecked", "ifCheckedOrEnd"} => Len(prog) = pc + 2
      BY <1>1, ProgramsAssumption DEF Step, WellFormed
    <2>2. \/ Fail \/ Skip(1)
          \/ Step = "unlessChecked" /\ Skip(2)
          \/ Step = "ifChecked" /\ Skip(2)
          \/ Step = "ifCheckedOrEnd" /\ Skip(3)
      BY <1>7 DEF IsChecked
    <2>3. Step = "unlessChecked" /\ Skip(2) => pc' = pc /\ reply' = "ok"
      BY <1>1, <2>1 DEF Skip
    <2>4. Step = "ifChecked" /\ Skip(2) => pc' = pc + 2 /\ reply' = "none"
      BY <1>1, <2>1 DEF Skip
    <2>5. Step = "ifCheckedOrEnd" /\ Skip(3) => pc' = pc /\ reply' = "ok"
      BY <1>1, <2>1 DEF Skip
    <2> QED BY <1>1, <1>2, <2>2, <2>3, <2>4, <2>5
  <1>8. CASE WaitFor
    BY <1>1, <1>2, <1>8 DEF WaitFor
  <1> QED BY <1>3, <1>4, <1>5, <1>6, <1>7, <1>8 DEF RunStep

\* A step resolves what it finds.
Resolves ==
    LET e == Pierced
    IN /\ e \in Elements /\ info' = [el |-> e, spot |-> spot[e]]
       /\ fresh' = TRUE /\ view' = Screen(spot[e])
       /\ ~force /\ ChecksPoint(Step) => spot[e] \notin covered

\* A step that resolves an element does so or stays; the others resolve none.
LEMMA Resolvings ==
    ASSUME TypeOK, RunStep
    PROVE  /\ UNCHANGED <<at, spot, covered>>
           /\ \/ /\ Step \in Resolvers /\ source' = source
                 /\ \/ Resolves /\ Skip(1)
                    \/ info' = info /\ fresh' = fresh /\ pc' = pc /\ reply' # "ok"
              \/ KeepSource /\ Step = "keep" /\ Step \notin Resolvers
              \/ Step \notin Resolvers \cup {"keep"} /\ UNCHANGED <<view, info, source, fresh>>
  <1>1. Plain # 0 => Plain = Pierced
    BY Found DEF TypeOK
  <1>2. \A e \in {Pierced, Plain} : e # 0 => e \in Elements
    BY Found DEF TypeOK
  <1>3. GiveUpOrPoll => pc' = pc /\ reply' # "ok"
    BY Moves DEF GiveUpOrPoll, PollAgain, Fail, Running
  <1>4. CASE FindElement
    <2>1. /\ Step \in Resolvers /\ UNCHANGED <<at, spot, covered, source>>
          /\ force \/ ~ChecksPoint(Step)
      BY <1>4, CheckedSteps DEF FindElement
    <2>2. \/ \E e \in {Pierced, Plain} : e # 0 /\ Resolve(e)
          \/ GiveUpOrPoll /\ UNCHANGED <<info, fresh>>
      BY <1>4 DEF FindElement
    <2>3. ASSUME NEW e \in {Pierced, Plain}, e # 0, Resolve(e) PROVE Resolves /\ Skip(1)
      <3>1. e = Pierced /\ e \in Elements
        BY <1>1, <1>2, <2>3
      <3> QED BY <2>1, <2>3, <3>1 DEF Resolves, Resolve, ScrollTo
    <2> QED BY <1>3, <2>1, <2>2, <2>3
  <1>5. CASE WaitForActionable
    <2>1. /\ Step \in Resolvers /\ UNCHANGED <<at, spot, covered, source>>
          /\ Step \in DOMAIN Checks
      BY <1>5, CheckedSteps DEF WaitForActionable
    <2>2. \/ Pierced # 0 /\ Passes(Pierced, Checks[Step]) /\ Resolve(Pierced)
          \/ GiveUpOrPoll /\ UNCHANGED <<info, fresh>>
          \/ UNCHANGED <<info, fresh, pc, reply>>
      BY <1>5 DEF WaitForActionable
    <2>3. ASSUME Pierced # 0, Passes(Pierced, Checks[Step]), Resolve(Pierced)
          PROVE  Resolves /\ Skip(1)
      BY <1>2, <2>1, <2>3, CheckedSteps DEF Resolves, Resolve, ScrollTo, Passes
    <2>4. reply # "ok"
      BY <1>5 DEF WaitForActionable, Running
    <2> QED BY <1>3, <2>1, <2>2, <2>3, <2>4
  <1>6. CASE KeepSource
    BY <1>6, CheckedSteps DEF KeepSource, page
  <1>7. CASE Need \/ ResolveContext \/ Ask \/ AskOrEnd \/ Do \/ Try \/ Eval \/ Poll \/ FindAll
    BY <1>7, CheckedSteps
    DEF Need, ResolveContext, Ask, AskOrEnd, Do, Try, Eval, Poll, FindAll, page, resolved
  <1>8. CASE Pointer \/ Drag \/ Keys \/ Caret \/ Write \/ ActUnread \/ Read
    BY <1>8, CheckedSteps DEF Pointer, Drag, Keys, Caret, Write, ActUnread, Read, page, resolved
  <1>9. CASE IsChecked \/ WaitFor
    BY <1>9, CheckedSteps DEF IsChecked, WaitFor, Waits, page, resolved
  <1> QED BY <1>4, <1>5, <1>6, <1>7, <1>8, <1>9 DEF RunStep

\* While a program runs, a step that is done leads to the next one.
LEMMA SkipsOne ==
    ASSUME TypeOK, RunStep, Skip(1), reply' = "none" PROVE pc' = pc + 1 /\ pc < Len(prog)
  BY Moves, StepsFacts DEF Skip, TypeOK, ControlOK, Running

\* What does not run a program.
LEMMA OtherSteps ==
    ASSUME [Next]_vars
    PROVE  \/ RunStep \/ Change \/ \E p \in Programs : Start(p)
           \/ UNCHANGED <<page, resolved, prog, pc, reply, force, effects, held, broke, tries>>
  BY DEF Next, Navigate, Cancel, vars, ghosts

\* Elements stay apart.
LEMMA StepPageInv == ASSUME TypeOK, PageInv, [Next]_vars PROVE PageInv'
  <1>1. (\A e, o \in Elements : spot[e] = spot[o] => e = o)'
    <2>1. CASE spot' = spot
      BY <2>1 DEF PageInv
    <2>2. CASE Change
      BY <2>2 DEF Change, PageInv, TypeOK, PageOK
    <2> QED BY <2>1, <2>2, Resolvings, OtherSteps DEF Start, page
  <1>2. (prog = <<>> => reply = "none" /\ ~fresh /\ effects = {})'
    <2>1. CASE RunStep \/ Change
      BY <2>1, Moves DEF Change, Running
    <2>2. ASSUME NEW p \in Programs, Start(p) PROVE prog' # <<>>
      BY <2>2, StepsFacts DEF Start
    <2> QED BY <2>1, <2>2, OtherSteps DEF PageInv, resolved
  <1> QED BY <1>1, <1>2 DEF PageInv

\* What was resolved stays so until the page changes.
LEMMA StepInfoInv == ASSUME TypeOK, PageInv, InfoInv, [Next]_vars PROVE InfoInv'
  <1> SUFFICES ASSUME Running', fresh' PROVE InfoInv'
    BY DEF InfoInv
  <1>1. CASE RunStep
    <2>1. /\ Running /\ prog' = prog /\ force' = force /\ pc \in DOMAIN prog
          /\ UNCHANGED <<at, spot, covered>> /\ reply' = "none"
          /\ pc \in Nat /\ Len(prog) \in Nat /\ DOMAIN prog = 1 .. Len(prog)
      <3>1. Running /\ prog' = prog /\ force' = force
        BY <1>1, Moves
      <3>2. UNCHANGED <<at, spot, covered>>
        BY <1>1, Resolvings
      <3>3. reply' = "none"
        BY DEF Running
      <3>4. pc \in DOMAIN prog
        BY <3>1 DEF Running, TypeOK, ControlOK
      <3>5. pc \in Nat /\ Len(prog) \in Nat /\ DOMAIN prog = 1 .. Len(prog)
        BY <3>1, <3>4, StepsFacts DEF Running, TypeOK, ControlOK
      <3> QED BY <3>1, <3>2, <3>3, <3>4, <3>5
    <2>2. CASE Resolves /\ Skip(1) /\ Step \in Resolvers
      <3>1. pc' = pc + 1 /\ Resolved(prog, pc, pc + 1)
        BY <1>1, <2>1, <2>2, SkipsOne DEF Resolved, Step
      <3>2. info'.el = Pierced /\ info'.spot = spot[Pierced] /\ Pierced \in Elements
        BY <2>2 DEF Resolves
      <3>3. prog[pc] # "forTarget" => at["el"] = info'.el
        BY <3>2 DEF Pierced, Selector, Step
      <3>4. /\ ~force /\ ChecksPoint(prog[pc]) => info'.spot \notin covered
            /\ Screen(info'.spot) = view'
        BY <2>2, <3>2 DEF Resolves, Step
      <3> QED BY <2>1, <3>1, <3>2, <3>3, <3>4 DEF InfoInv
    <2>3. CASE info' = info /\ fresh' = fresh /\ (pc' = pc \/ (Step \notin Resolvers /\ view' = view))
      <3>1. info.el \in Elements /\ info.spot = spot[info.el]
        BY <2>1, <2>3 DEF InfoInv
      <3>2. PICK j \in DOMAIN prog :
              /\ Resolved(prog, j, pc)
              /\ prog[j] # "forTarget" => at["el"] = info.el
              /\ ~force /\ ChecksPoint(prog[j]) =>
                    /\ info.spot \notin covered
                    /\ Step \notin Resolvers => Screen(info.spot) = view
        BY <2>1, <2>3 DEF InfoInv
      <3>3. /\ Resolved(prog, j, pc')
            /\ Step' \notin Resolvers => Step \notin Resolvers
        <4>1. CASE pc' = pc
          BY <2>1, <3>2, <4>1 DEF Step
        <4>2. CASE Step \notin Resolvers /\ Skip(1)
          BY <1>1, <2>1, <3>2, <4>2, SkipsOne DEF Step, Resolved
        <4>3. CASE Step = "ifChecked" /\ pc' = pc + 2
          <5>1. Step \notin Resolvers /\ prog[pc + 1] \notin Resolvers
            BY <2>1, <4>3, CheckedSteps, ProgramsAssumption
            DEF WellFormed, Step, TypeOK, ControlOK, Running
          <5> QED BY <2>1, <3>2, <4>3, <5>1 DEF Step, Resolved
        <4> QED BY <1>1, <2>1, <2>3, <4>1, <4>2, <4>3, Moves
      <3>4. Step \notin Resolvers => view' = view
        BY <1>1, <2>3, Resolvings, CheckedSteps DEF KeepSource, page
      <3> QED BY <2>1, <2>3, <3>1, <3>2, <3>3, <3>4 DEF InfoInv
    <2>4. CASE KeepSource /\ Step \notin Resolvers
      BY <2>3, <2>4 DEF KeepSource, page
    <2>5. CASE Step \in Resolvers
      BY <1>1, <2>2, <2>3, <2>5, Resolvings
    <2>6. CASE Step \notin Resolvers
      BY <1>1, <2>3, <2>4, <2>6, Resolvings
    <2> QED BY <2>5, <2>6
  <1>2. CASE Change
    BY <1>2 DEF Change
  <1>3. ASSUME NEW p \in Programs, Start(p) PROVE FALSE
    BY <1>3 DEF Start, PageInv, resolved
  <1>4. CASE UNCHANGED <<page, resolved, prog, pc, reply, force>>
    BY <1>4 DEF InfoInv, page, resolved, Running, Step
  <1> QED BY <1>1, <1>2, <1>3, <1>4, OtherSteps

\* The step a program is at, and what it relies on.
LEMMA AtStep ==
    ASSUME TypeOK, Running
    PROVE  /\ WellFormed(prog) /\ Step = prog[pc] /\ pc \in DOMAIN prog /\ pc \in Nat
           /\ Len(prog) \in Nat /\ DOMAIN prog = 1 .. Len(prog)
  BY StepsFacts, ProgramsAssumption DEF TypeOK, ControlOK, Running, Step

\* An element whose point was checked, and that has not moved since, is what is hit there.
LEMMA PointIsClear ==
    ASSUME TypeOK, InfoInv, Running, fresh, ~force,
           Step \in {"pointer", "hover", "drag", "keep"}
    PROVE  /\ info.el \in Elements /\ info.spot = spot[info.el]
           /\ info.spot \notin covered /\ Screen(info.spot) = view
  <1>1. PICK j \in DOMAIN prog :
           /\ Resolved(prog, j, pc)
           /\ ChecksPoint(prog[j]) =>
                 /\ info.spot \notin covered
                 /\ Step \notin Resolvers => Screen(info.spot) = view
    BY DEF InfoInv
  <1>2. PICK k \in DOMAIN prog : Resolved(prog, k, pc) /\ ChecksPoint(prog[k])
    BY AtStep DEF WellFormed
  <1>3. j = k
    BY <1>1, <1>2, AtStep, ResolvedByOne
  <1> QED BY <1>1, <1>2, <1>3, CheckedSteps DEF InfoInv

\* What is drawn at a spot in view, and not covered, is hit there.
LEMMA Lands ==
    ASSUME PageInv, NEW e \in Elements, spot[e] \notin covered, Screen(spot[e]) = view
    PROVE  Hits(spot[e]) = {e}
  <1>1. \E o \in Elements : spot[o] = spot[e]
    OBVIOUS
  <1>2. Hits(spot[e]) = {o \in Elements : spot[o] = spot[e]}
    BY <1>1 DEF Hits
  <1>3. \A o \in Elements : spot[o] = spot[e] => o = e
    BY DEF PageInv
  <1> QED BY <1>1, <1>2, <1>3

\* The element a script finds again is the one that was resolved.
LEMMA FoundAgain ==
    ASSUME TypeOK, InfoInv, Running, fresh, Step \in {"write", "choose", "focus"}
    PROVE  Pierced = info.el /\ info.el \in Elements
  <1>1. PICK j \in DOMAIN prog :
           Resolved(prog, j, pc) /\ (prog[j] # "forTarget" => at["el"] = info.el)
    BY DEF InfoInv
  <1>2. PICK k \in DOMAIN prog : Resolved(prog, k, pc) /\ prog[k] # "forTarget"
    BY AtStep DEF WellFormed
  <1>3. j = k
    BY <1>1, <1>2, AtStep, ResolvedByOne
  <1> QED BY <1>1, <1>2, <1>3 DEF InfoInv, Pierced, Selector

\* Between the click and the typing the focus does not move.
LEMMA StepFocusInv == ASSUME TypeOK, PageInv, InfoInv, FocusInv, [Next]_vars PROVE FocusInv'
  <1> SUFFICES ASSUME Running', fresh', ~force' PROVE FocusInv'
    BY DEF FocusInv
  <1>1. CASE RunStep
    <2> SUFFICES ASSUME NEW k \in 1 .. pc' - 1, NEW i \in pc' .. Len(prog), Clicked(prog, k, i)
                 PROVE  focus' = info'.el \/ info'.el \in Inert
      BY <1>1, Moves DEF FocusInv
    <2>1. /\ Running /\ prog' = prog /\ force' = force /\ reply' = "none"
          /\ WellFormed(prog) /\ Step = prog[pc] /\ pc \in DOMAIN prog /\ pc \in Nat
          /\ Len(prog) \in Nat /\ DOMAIN prog = 1 .. Len(prog)
      BY <1>1, Moves, AtStep DEF Running
    <2>2. pc' = pc \/ pc' = pc + 1 \/ (Step = "ifChecked" /\ pc' = pc + 2)
      BY <1>1, <2>1, Moves, SkipsOne
    <2>3. CASE k = pc /\ Step = "pointer"
      <3>1. Pointer
        BY <1>1, <2>3
        DEF RunStep, Need, ResolveContext, Ask, AskOrEnd, Do, Try, Eval, Poll, FindElement,
            FindAll, WaitForActionable, KeepSource, Drag, Keys, Caret, Write, ActUnread, Read,
            IsChecked, WaitFor, Waits, Checks
      <3>2. /\ \E e \in Hits(info.spot) : focus' = IF e \in Inert THEN 0 ELSE e
            /\ info' = info /\ fresh' = fresh
        BY <2>1, <2>3, <3>1 DEF Pointer, Fail, resolved
      <3>3. Hits(info.spot) = {info.el}
        BY <2>1, <2>3, <3>2, PointIsClear, Lands
      <3> QED BY <3>2, <3>3
    <2>4. CASE k < pc /\ Step \in {"caret", "caretForText", "keys"}
      <3>1. Caret \/ Keys
        BY <1>1, <2>4
        DEF RunStep, Need, ResolveContext, Ask, AskOrEnd, Do, Try, Eval, Poll, FindElement,
            FindAll, WaitForActionable, KeepSource, Pointer, Drag, Write, ActUnread, Read,
            IsChecked, WaitFor, Waits, Checks
      <3>2. focus' = focus /\ info' = info /\ fresh' = fresh
        BY <3>1 DEF Caret, Keys, page, resolved
      <3>3. k \in 1 .. pc - 1 /\ i \in pc .. Len(prog)
        BY <2>1, <2>2, <2>4
      <3> QED BY <2>1, <3>2, <3>3 DEF FocusInv
    <2>5. k = pc => Step = "pointer"
      BY <2>1 DEF Clicked
    <2>6. k < pc => Step \in {"caret", "caretForText", "keys"}
      <3>1. i = pc \/ pc \in k + 1 .. i - 1 \/ k >= pc
        BY <2>1, <2>2
      <3> QED BY <2>1, <3>1 DEF Clicked
    <2>7. k = pc + 1 => FALSE
      <3> SUFFICES ASSUME k = pc + 1 PROVE FALSE
        OBVIOUS
      <3>1. Step = "ifChecked" /\ Len(prog) = pc + 2 /\ prog[pc + 2] = "mustBeUnchecked"
        BY <2>1, <2>2 DEF WellFormed
      <3>2. i = pc + 2
        BY <2>1, <2>2, <3>1
      <3> QED BY <3>1, <3>2 DEF Clicked
    <2>8. k < pc \/ k = pc \/ k = pc + 1
      BY <2>1, <2>2
    <2> QED BY <2>3, <2>4, <2>5, <2>6, <2>7, <2>8
  <1>2. CASE Change
    BY <1>2 DEF Change
  <1>3. ASSUME NEW p \in Programs, Start(p) PROVE FALSE
    BY <1>3 DEF Start, PageInv, resolved
  <1>4. CASE UNCHANGED <<page, resolved, prog, pc, reply, force>>
    BY <1>4 DEF FocusInv, page, resolved, Running
  <1> QED BY <1>1, <1>2, <1>3, <1>4, OtherSteps

\* Effects stay.
LEMMA EffectsGrow == ASSUME RunStep PROVE effects \subseteq effects'
  BY DEF RunStep, Need, ResolveContext, Ask, AskOrEnd, Do, Try, Eval, Poll, FindElement, FindAll,
     WaitForActionable, KeepSource, Pointer, Drag, Keys, Caret, Write, ActUnread, Read, IsChecked,
     WaitFor, ghosts, Did

\* An act that is passed has had its effect.
LEMMA ActsAreDone ==
    ASSUME TypeOK, InfoInv, RunStep, Skip(1), Step \in Answered
    PROVE  \E f \in effects' : f.op = Step \/ (f.op = "vain" /\ Step = "write")
  <1>1. Running /\ ~Fail
    BY Moves, StepsFacts DEF Fail, Skip, Running, TypeOK, ControlOK
  <1>a. \A op, e, w, x : Effect(op, e, w, x).op = op
    BY DEF Effect
  <1> SUFFICES \E e, w, x :
                 \/ Effect(Step, e, w, x) \in effects'
                 \/ Step = "write" /\ Effect("vain", e, w, x) \in effects'
    BY <1>a
  <1>2. CASE Do
    <2>1. effects' = effects \cup {Effect(Step, 0, 0, FALSE)}
      BY <1>1, <1>2 DEF Do, Answered
    <2> QED BY <2>1
  <1>3. CASE Drag
    <2>1. Step = "drag" /\ \E b : Effect("drag", b, source.el, FALSE) \in effects'
      BY <1>1, <1>3 DEF Drag
    <2> QED BY <2>1, Zenon
  <1>4. CASE \E e : Did(Step, e)
    BY <1>4 DEF Did
  <1>5. CASE Pointer
    BY <1>1, <1>4, <1>5 DEF Pointer
  <1>6. CASE Keys
    BY <1>1, <1>4, <1>6 DEF Keys
  <1>7. CASE Write
    BY <1>1, <1>4, <1>7 DEF Write, WriteRefused, Did
  <1> QED
    BY <1>2, <1>3, <1>5, <1>6, <1>7
    DEF Answered, ActUnread, RunStep, Need, ResolveContext, Ask, AskOrEnd, Try, Eval, Poll, FindElement, FindAll,
        WaitForActionable, KeepSource, Caret, Read, IsChecked, WaitFor, Waits, Checks, Acts

\* What the program has passed is done.
LEMMA StepDoneInv == ASSUME TypeOK, PageInv, InfoInv, DoneInv, [Next]_vars PROVE DoneInv'
  <1>1. CASE RunStep
    <2> SUFFICES ASSUME NEW i \in DOMAIN prog, i < pc' \/ reply' = "ok", prog[i] \in Answered
                 PROVE  Done(i)'
      BY <1>1, Moves DEF DoneInv
    <2>1. /\ Running /\ prog' = prog /\ WellFormed(prog) /\ Step = prog[pc] /\ pc \in DOMAIN prog
          /\ pc \in Nat /\ Len(prog) \in Nat /\ DOMAIN prog = 1 .. Len(prog)
          /\ reply # "ok" /\ i \in 1 .. Len(prog)
      BY <1>1, Moves, AtStep DEF Running
    <2>2. Done(i) => Done(i)'
      BY <2>1, <1>1, EffectsGrow DEF Done
    <2>4. CASE i < pc
      BY <2>1, <2>2, <2>4 DEF DoneInv
    <2>5. CASE i = pc
      <3>1. Skip(1)
        <4>1. Step \notin {"ifChecked", "askOrEnd", "unlessChecked", "ifCheckedOrEnd"}
          BY <2>1, <2>5 DEF Answered, Acts
        <4> QED BY <1>1, <2>1, <2>5, <4>1, Moves
      <3>2. \E f \in effects' : f.op = prog[i] \/ (f.op = "vain" /\ prog[i] = "write")
        BY <1>1, <2>1, <2>5, <3>1, ActsAreDone
      <3> QED BY <2>1, <3>2 DEF Done
    <2>6. CASE i > pc
      <3>1. CASE Skip(1)
        BY <2>1, <2>6, <3>1 DEF Skip
      <3>2. CASE Step = "askOrEnd"
        <4>1. \A j \in pc + 1 .. Len(prog) : prog[j] \notin Answered
          BY <2>1, <3>2 DEF WellFormed, Answered
        <4> QED BY <2>1, <2>6, <4>1
      <3>3. CASE Step \in {"unlessChecked", "ifChecked", "ifCheckedOrEnd"}
        <4>1. i = pc + 1 \/ prog[i] = "mustBeUnchecked"
          BY <2>1, <2>6, <3>3 DEF WellFormed
        <4>2. i = pc + 1
          BY <4>1 DEF Answered, Acts
        <4> QED BY <2>1, <3>3, <4>2 DEF Done
      <3> QED BY <1>1, <2>1, <2>6, <3>1, <3>2, <3>3, Moves
    <2> QED BY <2>1, <2>4, <2>5, <2>6
  <1>2. CASE Change
    <2>1. UNCHANGED <<prog, pc, reply, effects>>
      BY <1>2 DEF Change
    <2> QED BY <2>1 DEF DoneInv, Done
  <1>3. ASSUME NEW p \in Programs, Start(p) PROVE DoneInv'
    <2>1. pc' = 1 /\ reply' = "none" /\ prog' = p
      BY <1>3 DEF Start, PageInv, TypeOK, ControlOK, StepsFacts
    <2> QED BY <2>1, StepsFacts DEF DoneInv
  <1>4. CASE UNCHANGED <<page, resolved, prog, pc, reply, force, effects>>
    BY <1>4 DEF DoneInv, Done, resolved
  <1> QED BY <1>1, <1>2, <1>3, <1>4, OtherSteps

----------------------------------------------------------------------------
(* The properties.                                                         *)

\* What a step does to the page it does to the element that was resolved.
LEMMA StepActs ==
    ASSUME TypeOK, PageInv, InfoInv, FocusInv, ActsOnTarget, [Next]_vars
    PROVE  ActsOnTarget'
  <1>1. CASE RunStep
    <2> SUFFICES ASSUME NEW f \in effects', f \notin effects, f.fresh, ~force,
                        ~(f.op = "keys" /\ f.want \in Inert)
                 PROVE  f.el = f.want
      BY <1>1, Moves DEF ActsOnTarget
    <2>1. Running
      BY <1>1, Moves
    <2>3. CASE Do
      <3>1. f = Effect(Step, 0, 0, FALSE)
        BY <2>3 DEF Do
      <3>2. f.fresh = FALSE
        BY <3>1 DEF Effect
      <3> QED BY <3>2
    <2>4. ASSUME NEW op, NEW e, Did(op, e), fresh => e = info.el PROVE f.el = f.want
      <3>1. f = Effect(op, e, info.el, fresh)
        BY <2>4 DEF Did
      <3>2. f.el = e /\ f.want = info.el /\ (f.fresh <=> fresh)
        BY <3>1 DEF Effect
      <3> QED BY <2>4, <3>2
    <2>5. CASE Pointer
      <3>1. /\ Step \in {"pointer", "hover"}
            /\ \E e \in Hits(info.spot) : Did(Step, e)
        BY <2>5 DEF Pointer
      <3>2. fresh => Hits(info.spot) = {info.el}
        BY <2>1, <3>1, PointIsClear, Lands
      <3> QED BY <2>4, <3>1, <3>2
    <2>6. CASE Drag
      <3>1. /\ Step = "drag"
            /\ \E b : \E e \in Hits(info.spot) :
                  \/ f = Effect("drag", b, source.el, FALSE)
                  \/ f = Effect("drop", e, info.el, fresh)
        BY <2>6 DEF Drag
      <3>2. \A b : f # Effect("drag", b, source.el, FALSE)
        BY DEF Effect
      <3>3. PICK e \in Hits(info.spot) : f = Effect("drop", e, info.el, fresh)
        BY <3>1, <3>2
      <3>4. fresh => Hits(info.spot) = {info.el}
        BY <2>1, <3>1, PointIsClear, Lands
      <3>5. f.el = e /\ f.want = info.el /\ (f.fresh <=> fresh)
        BY <3>3 DEF Effect
      <3> QED BY <3>3, <3>4, <3>5
    <2>7. CASE Keys
      <3>1. Step = "keys" /\ Did(Step, focus)
        BY <2>7 DEF Keys
      <3>0. f.op = "keys" /\ f.want = info.el /\ f.el = focus /\ (f.fresh <=> fresh)
        BY <3>1 DEF Did, Effect
      <3>2. fresh => focus = info.el \/ info.el \in Inert
        <4>1. PICK k \in DOMAIN prog : Clicked(prog, k, pc)
          BY <2>1, <3>1, AtStep DEF WellFormed
        <4>2. k \in 1 .. pc - 1 /\ pc \in pc .. Len(prog)
          BY <2>1, <4>1, AtStep DEF Clicked
        <4> QED BY <2>1, <4>1, <4>2 DEF FocusInv
      <3> QED BY <3>0, <3>2
    <2>8. CASE Write \/ ActUnread
      <3>1. /\ Step \in {"write", "choose", "focus"}
            /\ Did(Step, Pierced) \/ Did("vain", Pierced)
        BY <2>8 DEF Write, ActUnread, WriteRefused
      <3> QED BY <2>1, <2>4, <3>1, FoundAgain
    <2>9. CASE effects' = effects
      BY <2>9
    <2> QED
      BY <1>1, <2>3, <2>5, <2>6, <2>7, <2>8, <2>9
      DEF RunStep, Need, ResolveContext, Ask, AskOrEnd, Try, Eval, Poll, FindElement, FindAll,
          WaitForActionable, KeepSource, Caret, Read, IsChecked, WaitFor, ghosts
  <1>2. CASE Change
    BY <1>2 DEF Change, ActsOnTarget
  <1>3. ASSUME NEW p \in Programs, Start(p) PROVE ActsOnTarget'
    BY <1>3 DEF Start, PageInv, ghosts, ActsOnTarget
  <1>4. CASE UNCHANGED <<page, resolved, prog, pc, reply, force, effects>>
    BY <1>4 DEF ActsOnTarget
  <1> QED BY <1>1, <1>2, <1>3, <1>4, OtherSteps

\* A wait, or the second look at a box, is done when what it looks for is there.
LEMMA WaitsAreHeld ==
    ASSUME TypeOK, RunStep, Skip(1)
    PROVE  /\ Step \in Appearing => held'
           /\ Step \in Waits => held' \/ broke'
           /\ Step = "mustBeUnchecked" => held'
  <1>1. Running /\ ~Fail /\ ~PollAgain /\ box' # 1
    BY Moves, StepsFacts DEF Fail, PollAgain, Skip, Running, TypeOK, ControlOK
  <1>2. ASSUME Step \in Waits PROVE held' \/ (broke' /\ Step \notin Appearing)
    <2>1. WaitFor
      BY <1>2
      DEF RunStep, Need, ResolveContext, Ask, AskOrEnd, Do, Try, Eval, Poll, FindElement, FindAll,
          WaitForActionable, KeepSource, Pointer, Drag, Keys, Caret, Write, ActUnread, Read,
          IsChecked, Waits, Checks
    <2>2. Pierced = at["el"] /\ (Plain # 0 => Pierced # 0) /\ 0 \notin shown
      BY <1>2, Found, StepsFacts DEF Pierced, Selector, Waits, TypeOK, PageOK
    <2>3. \/ Condition(Step) \/ (broke' /\ Step \notin Appearing)
          \/ Step = "untilAttached" /\ Plain # 0
          \/ Step \in {"untilDetached", "untilHidden", "untilGone"} /\ Pierced = 0
      <3>1. CASE Step \in {"untilAttached", "untilVisible"} /\ box = 0
        BY <1>1, <2>1, <3>1 DEF WaitFor, Absent
      <3>2. CASE Step \in {"untilDetached", "untilHidden", "untilGone"} /\ box = 0
        <4>1. broke' = (broke \/ Pierced # 0)
          BY <1>1, <2>1, <3>2 DEF WaitFor
        <4> QED BY <3>2, <4>1, Zenon DEF Appearing
      <3>3. CASE box = 1
        BY <1>1, <2>1, <3>3 DEF WaitFor, Absent, Appearing
      <3> QED BY <2>1, <3>1, <3>2, <3>3 DEF WaitFor
    <2>4. Condition(Step) \/ (broke' /\ Step \notin Appearing)
      BY <2>2, <2>3 DEF Condition
    <2> QED BY <2>1, <2>4, Zenon DEF WaitFor
  <1>3. ASSUME Step = "mustBeUnchecked" PROVE held'
    <2>1. IsChecked
      BY <1>3
      DEF RunStep, Need, ResolveContext, Ask, AskOrEnd, Do, Try, Eval, Poll, FindElement, FindAll,
          WaitForActionable, KeepSource, Pointer, Drag, Keys, Caret, Write, ActUnread, Read,
          WaitFor, Waits, Checks
    <2>2. ~StaysChecked /\ held' = (Pierced \notin ticked)
      BY <1>1, <1>3, <2>1 DEF IsChecked
    <2> QED BY <2>2 DEF StaysChecked
  <1> QED BY <1>2, <1>3 DEF Appearing, Waits

\* An answer is given where its last step is, or by a step that leaves out no wait.
LEMMA StepAnswers ==
    ASSUME TypeOK, PageInv, AnswersAreTrue, [Next]_vars PROVE AnswersAreTrue'
  <1>1. CASE RunStep
    <2> SUFFICES ASSUME reply' = "ok"
                 PROVE  /\ prog[Len(prog)] \in Appearing => held'
                        /\ prog[Len(prog)] \in Waits => held' \/ broke'
                        /\ prog[Len(prog)] = "mustBeUnchecked" => held'
      BY <1>1, Moves DEF AnswersAreTrue
    <2>1. /\ Running /\ WellFormed(prog) /\ Step = prog[pc] /\ pc \in DOMAIN prog /\ pc \in Nat
          /\ Len(prog) \in Nat /\ DOMAIN prog = 1 .. Len(prog) /\ reply # "ok"
      BY <1>1, Moves, AtStep DEF Running
    <2>2. CASE Skip(1)
      <3>1. pc = Len(prog)
        BY <2>1, <2>2 DEF Skip
      <3> QED BY <1>1, <2>1, <2>2, <3>1, WaitsAreHeld
    <2>3. CASE Step = "askOrEnd"
      <3>1. Len(prog) = pc \/ Len(prog) \in pc + 1 .. Len(prog)
        BY <2>1
      <3>2. \A j \in pc + 1 .. Len(prog) : prog[j] \notin Waits \cup {"mustBeUnchecked"}
        BY <2>1, <2>3 DEF WellFormed
      <3> QED BY <2>1, <2>3, <3>1, <3>2 DEF Waits, Appearing
    <2>4. CASE Step = "unlessChecked"
      <3>1. prog[Len(prog)] = "pointer"
        BY <2>1, <2>4 DEF WellFormed
      <3> QED BY <3>1 DEF Waits, Appearing
    <2>5. CASE Step = "ifCheckedOrEnd" /\ ~Skip(1)
      <3>1. IsChecked
        BY <1>1, <2>5
        DEF RunStep, Need, ResolveContext, Ask, AskOrEnd, Do, Try, Eval, Poll, FindElement,
            FindAll, WaitForActionable, KeepSource, Pointer, Drag, Keys, Caret, Write, ActUnread,
            Read, WaitFor, Waits, Checks
      <3>2. Pierced \notin ticked /\ held' = (Pierced \notin ticked)
        BY <2>1, <2>5, <3>1 DEF IsChecked, Fail
      <3>3. prog[Len(prog)] = "mustBeUnchecked"
        BY <2>1, <2>5 DEF WellFormed
      <3> QED BY <3>2, <3>3 DEF Waits, Appearing
    <2> QED BY <1>1, <2>2, <2>3, <2>4, <2>5, Moves
  <1>2. CASE Change
    <2>1. reply' = "none"
      BY <1>2 DEF Change, Running
    <2> QED BY <2>1 DEF AnswersAreTrue
  <1>3. ASSUME NEW p \in Programs, Start(p) PROVE AnswersAreTrue'
    <2>1. reply' = "none"
      BY <1>3 DEF Start, PageInv
    <2> QED BY <2>1 DEF AnswersAreTrue
  <1>4. CASE UNCHANGED <<page, resolved, prog, pc, reply, force, effects, held, broke>>
    BY <1>4 DEF AnswersAreTrue
  <1> QED BY <1>1, <1>2, <1>3, <1>4, OtherSteps

\* The page, what was resolved on it, and what was done, by every step of a program.
LEMMA StepsInvariant ==
    Spec => [](TypeOK /\ PageInv /\ InfoInv /\ FocusInv /\ DoneInv)
  <1>1. Init => PageInv /\ InfoInv /\ FocusInv /\ DoneInv
    <2> SUFFICES ASSUME Init PROVE PageInv /\ InfoInv /\ FocusInv /\ DoneInv
      OBVIOUS
    <2>1. PageInv
      BY DEF Init, PageInv
    <2>2. ~Running /\ DOMAIN prog = {} /\ ~fresh
      BY DEF Init, Running
    <2> QED BY <2>1, <2>2 DEF InfoInv, FocusInv, DoneInv
  <1>2. TypeOK /\ (PageInv /\ InfoInv /\ FocusInv /\ DoneInv) /\ [Next]_vars
        => (PageInv /\ InfoInv /\ FocusInv /\ DoneInv)'
    BY StepPageInv, StepInfoInv, StepFocusInv, StepDoneInv
  <1> QED BY <1>1, <1>2, TypeCorrect, PTL DEF Spec

\* Unless the page changed since the element was resolved, a click, a hover and the end of a
\* drag land on it, and so do keys after a click, if it takes the focus, values and options.
THEOREM InputFindsItsTarget == Spec => []ActsOnTarget
  <1>1. Init => ActsOnTarget
    BY DEF Init, ActsOnTarget
  <1>2. TypeOK /\ PageInv /\ InfoInv /\ FocusInv /\ ActsOnTarget /\ [Next]_vars
        => ActsOnTarget'
    BY StepActs
  <1> QED BY <1>1, <1>2, StepsInvariant, PTL DEF Spec

\* A wait for what is to appear that succeeds was right at some moment; so was one for what is
\* to go away, or an error passed for absence; and uncheck has read the box unchecked.
THEOREM WaitsTellTheTruth == Spec => []AnswersAreTrue
  <1>1. Init => AnswersAreTrue
    BY DEF Init, AnswersAreTrue
  <1>2. TypeOK /\ PageInv /\ AnswersAreTrue /\ [Next]_vars => AnswersAreTrue'
    BY StepAnswers
  <1> QED BY <1>1, <1>2, StepsInvariant, PTL DEF Spec

\* A command that answers well has done all its acts whose outcome the code looks at.
THEOREM SuccessMeansDone == Spec => []OkMeansDone
  <1>1. DoneInv => OkMeansDone
    BY DEF DoneInv, OkMeansDone
  <1> QED BY <1>1, StepsInvariant, PTL
=============================================================================
