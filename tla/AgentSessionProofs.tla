------------------------ MODULE AgentSessionProofs ------------------------
(* Theorems about AgentSession, for any numbers of contexts, launches and events. *)
EXTENDS AgentSession, WellFoundedInduction, TLAPS

\* The bounds are numbers.
LEMMA Bounds == MaxContexts \in Nat \ {0} /\ MaxLaunches \in Nat /\ MaxEvents \in Nat
  BY SessionAssumption

\* The first of some pages is one of them.
LEMMA FirstIsOpen == ASSUME PagesOK, pages # {} PROVE FirstPage \in pages
  <1> DEFINE R == {ss \in Nat \X Nat : ss[1] < ss[2]}
  <1>1. pages \subseteq Nat
    BY DEF PagesOK
  <1>2. IsWellFoundedOn(R, Nat)
    BY NatLessThanWellFounded DEF OpToRel
  <1>3. PICK c \in pages : \A d \in pages : <<d, c>> \notin R
    BY ONLY <1>1, <1>2, pages # {}, WFMin
  <1>4. \A d \in pages : c <= d
    <2> TAKE d \in pages
    <2>1. c \in Nat /\ d \in Nat
      BY <1>1
    <2>2. ~ (<<d, c>>[1] < <<d, c>>[2])
      BY <1>3, <2>1
    <2> QED BY <2>1, <2>2
  <1> QED BY <1>4 DEF FirstPage, First

\* A page that opens, and one that is closed.
LEMMA NewPageOK ==
    ASSUME PagesOK, NEW u \in 0 .. MaxContexts, NewPage(u)
    PROVE  /\ opened' \in 0 .. MaxContexts /\ opened <= opened' /\ pages' \subseteq 1 .. opened'
           /\ within' \in [Contexts -> SUBSET Contexts]
           /\ userOf' \in [Contexts -> 0 .. MaxContexts]
  BY Bounds DEF NewPage, PagesOK, Contexts
LEMMA WithoutOK ==
    ASSUME PagesOK, NEW c, Without(c)
    PROVE  pages' \subseteq 1 .. opened /\ within' \in [Contexts -> SUBSET Contexts]
  BY DEF Without, PagesOK, Contexts

\* The browser's contexts, and what is of browsers that were lost.
LEMMA StepPagesOK == TypeOK /\ [Next]_vars => PagesOK'
  <1> SUFFICES ASSUME TypeOK, [Next]_vars PROVE PagesOK'
    OBVIOUS
  <1> USE Bounds DEF TypeOK, PagesOK, Contexts, browser, owner, current, tables, naming,
      read, server, ghosts
  <1>1. CASE BrowserEvent
    <2>1. ASSUME NEW c \in Contexts, opened < MaxContexts, opened' = opened + 1,
                 within' = [within EXCEPT ![opened'] = {c} \cup within[c]],
                 UNCHANGED <<events, pages, userOf, past>>
          PROVE  PagesOK'
      BY <2>1
    <2>2. ASSUME NEW p \in pages, NewPage(userOf[p]), events' \in 0 .. MaxEvents, UNCHANGED past
          PROVE  PagesOK'
      <3>1. userOf[p] \in 0 .. MaxContexts /\ PagesOK
        BY <2>2
      <3> HIDE DEF TypeOK, PagesOK
      <3>2. /\ opened' \in 0 .. MaxContexts /\ opened <= opened' /\ pages' \subseteq 1 .. opened'
            /\ within' \in [Contexts -> SUBSET Contexts]
            /\ userOf' \in [Contexts -> 0 .. MaxContexts]
        BY <2>2, <3>1, NewPageOK
      <3> QED BY <2>2, <3>1, <3>2 DEF PagesOK
    <2>3. ASSUME NEW c \in Contexts, Without(c), events' \in 0 .. MaxEvents,
                 UNCHANGED <<userOf, opened, past>>
          PROVE  PagesOK'
      BY <2>3, WithoutOK
    <2>4. ASSUME Gone, events' \in 0 .. MaxEvents, UNCHANGED <<userOf, opened, past>>
          PROVE  PagesOK'
      BY <2>4 DEF Gone
    <2>5. events < MaxEvents /\ events' = events + 1 => events' \in 0 .. MaxEvents
      OBVIOUS
    <2> QED BY <1>1, <2>1, <2>2, <2>3, <2>4, <2>5 DEF BrowserEvent
  <1>2. CASE Call
    BY <1>2 DEF Call, Calls, IsPage
  <1>3. CASE Failure
    BY <1>3 DEF Failure
  <1>4. CASE EnsureBrowser
    <2>1. CASE UNCHANGED <<pages, within, userOf, opened, events>> /\ past' = opened
      BY <2>1
    <2>2. CASE UNCHANGED <<browser, past>>
      BY <2>2
    <2> QED BY <1>4, <2>1, <2>2 DEF EnsureBrowser, DiscardSession, Forget
  <1>5. CASE Launch
    BY <1>5 DEF Launch
  <1>6. CASE Connect
    <2>1. CASE NewPage(0) /\ UNCHANGED <<events, past>>
      BY <2>1 DEF NewPage
    <2>2. CASE UNCHANGED <<pages, within, userOf, opened, events, past>>
      BY <2>2
    <2> QED BY <1>6, <2>1, <2>2 DEF Connect
  <1>7. CASE ResolveSelector
    BY <1>7 DEF ResolveSelector
  <1>8. CASE GetContext
    BY <1>8 DEF GetContext
  <1>9. CASE Act
    BY <1>9 DEF Act
  <1>10. CASE Frame
    BY <1>10 DEF Frame
  <1>11. CASE MapPage
    BY <1>11 DEF MapPage
  <1>12. CASE SetRefs
    BY <1>12 DEF SetRefs
  <1>13. CASE DiffMap
    BY <1>13 DEF DiffMap
  <1>14. CASE OpenNewPage
    BY <1>14 DEF OpenNewPage, NewPage
  <1>15. CASE ListPages
    BY <1>15 DEF ListPages
  <1>16. CASE Activate
    BY <1>16 DEF Activate, IsPage
  <1>17. CASE ClosePage
    BY <1>17 DEF ClosePage, Without, IsPage, ClosesCurrent
  <1>18. CASE RemoveUserContext
    BY <1>18 DEF RemoveUserContext, PagesOf
  <1>19. CASE Quit
    <2>1. CASE UNCHANGED <<userOf, opened, events>> /\ past' = opened /\ Gone
      BY <2>1 DEF Gone
    <2>2. CASE UNCHANGED <<pages, within, userOf, opened, events, past>>
      BY <2>2
    <2> QED BY <1>19, <2>1, <2>2 DEF Quit, TakeSession, EndSession, Forget
  <1>20. CASE ServerClose
    BY <1>20 DEF ServerClose, TakeSession, Forget, Gone
  <1>21. CASE ServerEnds
    BY <1>21 DEF ServerEnds, EndSession
  <1>22. CASE UNCHANGED vars
    BY <1>22 DEF vars
  <1>23. CASE Exit
    BY <1>23 DEF Exit
  <1> QED BY <1>1, <1>2, <1>3, <1>4, <1>5, <1>6, <1>7, <1>8, <1>9, <1>10, <1>11, <1>12,
         <1>13, <1>14, <1>15, <1>16, <1>17, <1>18, <1>19, <1>20, <1>21, <1>22,
         <1>23 DEF Next

\* Who holds a launch.
LEMMA StepLaunchesOK == TypeOK /\ [Next]_vars => LaunchesOK'
  <1> SUFFICES ASSUME TypeOK, [Next]_vars PROVE LaunchesOK'
    OBVIOUS
  <1> USE Bounds DEF TypeOK, LaunchesOK, Closers, Launches, browser, owner, current, tables,
      naming, read, server, ghosts
  <1>0. Remote \subseteq Launches
    BY DEF Remote
  <1>1. CASE BrowserEvent
    BY <1>1 DEF BrowserEvent, NewPage, Without, Gone, IsOpen
  <1>2. CASE Call
    BY <1>2 DEF Call
  <1>3. CASE Failure
    BY <1>3 DEF Failure
  <1>4. CASE EnsureBrowser
    <2>1. CASE DiscardSession /\ UNCHANGED server /\ launched' = launched
      <3>1. /\ running' \subseteq running /\ dropped' = dropped \cup Remote /\ client' = 0
            /\ launchResult' = 0 /\ UNCHANGED <<classicSession, taken, closing, endpoint, late>>
        BY <2>1 DEF DiscardSession
      <3>2. Remote \subseteq 0 .. MaxLaunches
        BY <1>0
      <3>3. dropped' \subseteq 0 .. MaxLaunches
        BY <3>1, <3>2
      <3>4. late' \subseteq 0 .. MaxLaunches
        BY <3>1
      <3>5. running' \subseteq Launches
        BY <3>1
      <3>6. dropped' \cup late' \subseteq 0 .. MaxLaunches
        BY <3>3, <3>4, Zenon
      <3>7. /\ launched' \in 0 .. MaxLaunches /\ client' \in 0 .. MaxLaunches
            /\ launchResult' \in 0 .. MaxLaunches /\ classicSession' \in 0 .. MaxLaunches
            /\ taken' \in [Closers -> SUBSET Launches] /\ endpoint' = endpoint
            /\ closing' = closing
        BY <2>1, <3>1
      <3> QED BY <3>5, <3>6, <3>7, Zenon
    <2>2. CASE UNCHANGED <<browser, owner, server, dropped>>
      BY <2>2
    <2> QED BY <1>4, <2>1, <2>2 DEF EnsureBrowser
  <1>5. CASE Launch
    <2>1. CASE launched < MaxLaunches /\ launched' = launched + 1
               /\ running' = running \cup {launched'}
               /\ late' = IF closing = "no" THEN late ELSE late \cup {launched'}
      <3>1. launched' \in Launches
        BY <2>1
      <3>2. UNCHANGED <<owner, taken, closing, endpoint, dropped>>
        BY <1>5 DEF Launch
      <3> QED BY <2>1, <3>1, <3>2
    <2>2. CASE UNCHANGED <<running, launched, late>>
      BY <1>5, <2>2 DEF Launch
    <2> QED BY <1>5, <2>1, <2>2 DEF Launch
  <1>6. CASE Connect
    <2>0. UNCHANGED <<launched, server>>
      BY <1>6 DEF Connect
    <2>1. CASE /\ client' = launched /\ launchResult' \in {0, launched}
               /\ classicSession' \in {0, launched} /\ running' \in {running, running \ {launched}}
               /\ UNCHANGED dropped
      BY <2>0, <2>1
    <2>2. CASE /\ running' \in {running, running \ {launched}} /\ UNCHANGED owner
               /\ dropped' \in {dropped, dropped \cup {launched}}
      BY <2>0, <2>2
    <2> QED BY <1>6, <2>1, <2>2 DEF Connect, Unconnected
  <1>7. CASE ResolveSelector
    BY <1>7 DEF ResolveSelector
  <1>8. CASE GetContext
    BY <1>8 DEF GetContext
  <1>9. CASE Act
    BY <1>9 DEF Act
  <1>10. CASE Frame
    BY <1>10 DEF Frame
  <1>11. CASE MapPage
    BY <1>11 DEF MapPage
  <1>12. CASE SetRefs
    BY <1>12 DEF SetRefs
  <1>13. CASE DiffMap
    BY <1>13 DEF DiffMap
  <1>14. CASE OpenNewPage
    BY <1>14 DEF OpenNewPage, NewPage
  <1>15. CASE ListPages
    BY <1>15 DEF ListPages
  <1>16. CASE Activate
    BY <1>16 DEF Activate
  <1>17. CASE ClosePage
    BY <1>17 DEF ClosePage, Without, ClosesCurrent
  <1>18. CASE RemoveUserContext
    BY <1>18 DEF RemoveUserContext, PagesOf
  <1>19. CASE Quit
    <2>1. CASE TakeSession("tool") /\ UNCHANGED <<closing, late>>
      BY <2>1, <1>0 DEF TakeSession
    <2>2. CASE EndSession("tool") /\ UNCHANGED <<closing, late>>
      BY <2>2 DEF EndSession
    <2>3. CASE UNCHANGED <<browser, owner, taken, ghosts, closing, endpoint, late>>
      BY <2>3
    <2> QED BY <1>19, <2>1, <2>2, <2>3 DEF Quit
  <1>20. CASE ServerClose
    <2>1. TakeSession("server") /\ closing' \in {"held", "forced"}
          /\ late' \in {late, late \cup {launched}}
      BY <1>20 DEF ServerClose
    <2> QED BY <2>1, <1>0 DEF TakeSession
  <1>21. CASE ServerEnds
    BY <1>21 DEF ServerEnds, EndSession
  <1>22. CASE UNCHANGED vars
    BY <1>22 DEF vars
  <1>23. CASE Exit
    BY <1>23 DEF Exit
  <1> QED BY <1>1, <1>2, <1>3, <1>4, <1>5, <1>6, <1>7, <1>8, <1>9, <1>10, <1>11, <1>12,
         <1>13, <1>14, <1>15, <1>16, <1>17, <1>18, <1>19, <1>20, <1>21, <1>22,
         <1>23 DEF Next

\* A reference key is a context, or there is none.
LEMMA KeyIsContext ==
    ASSUME PagesOK, RememberedOK, CallOK
    PROVE  RefKey \in 0 .. MaxContexts /\ (RefKey # 0 => RefKey \in Contexts)
  <1>1. FirstPage \in 0 .. MaxContexts
    <2>1. CASE pages = {}
      BY <2>1, Bounds DEF FirstPage, First
    <2>2. CASE pages # {}
      <3>1. FirstPage \in pages
        BY <2>2, FirstIsOpen
      <3> QED BY <3>1, Bounds DEF PagesOK
    <2> QED BY <2>1, <2>2
  <1>2. CurrentContext \in 0 .. MaxContexts
    BY DEF CurrentContext, RememberedOK, CallOK
  <1> QED BY <1>1, <1>2, Bounds DEF RefKey, Contexts

\* What the session remembers.
LEMMA StepRememberedOK == TypeOK /\ [Next]_vars => RememberedOK'
  <1> SUFFICES ASSUME TypeOK, [Next]_vars PROVE RememberedOK'
    OBVIOUS
  <1> USE Bounds DEF TypeOK, PagesOK, RememberedOK, CallOK, Contexts, browser, owner,
      current, tables, naming, read, server, ghosts
  <1>1. CASE BrowserEvent
    BY <1>1 DEF BrowserEvent, NewPage, Without, Gone, IsOpen, IsPage
  <1>2. CASE Call
    BY <1>2 DEF Call, IsPage
  <1>3. CASE Failure
    BY <1>3 DEF Failure
  <1>4. CASE EnsureBrowser
    <2>1. CASE Forget
      BY <1>4, <2>1 DEF EnsureBrowser, Forget
    <2>2. CASE UNCHANGED <<current, tables>>
      BY <1>4, <2>2 DEF EnsureBrowser
    <2> QED BY <1>4, <2>1, <2>2 DEF EnsureBrowser, DiscardSession
  <1>5. CASE Launch
    BY <1>5 DEF Launch
  <1>6. CASE Connect
    BY <1>6 DEF Connect, NewPage, Unconnected
  <1>7. CASE ResolveSelector
    BY <1>7 DEF ResolveSelector
  <1>8. CASE GetContext
    BY <1>8 DEF GetContext
  <1>9. CASE Act
    BY <1>9 DEF Act
  <1>10. CASE Frame
    BY <1>10 DEF Frame
  <1>11. CASE MapPage
    BY <1>11 DEF MapPage
  <1>12. CASE SetRefs
    <2>1. RefKey \in Contexts
      BY <1>12, KeyIsContext DEF SetRefs, MapKey
    <2> QED BY <1>12, <2>1 DEF SetRefs, MapKey
  <1>13. CASE DiffMap
    BY <1>13 DEF DiffMap
  <1>14. CASE OpenNewPage
    BY <1>14 DEF OpenNewPage, NewPage
  <1>15. CASE ListPages
    BY <1>15 DEF ListPages
  <1>16. CASE Activate
    BY <1>16 DEF Activate, IsPage
  <1>17. CASE ClosePage
    <2>1. CASE activeContext' = 0 /\ activeFrameParent' = 0
      BY <1>17, <2>1 DEF ClosePage
    <2>2. CASE UNCHANGED <<activeContext, activeFrameParent>>
      BY <1>17, <2>2 DEF ClosePage
    <2> QED BY <1>17, <2>1, <2>2 DEF ClosePage
  <1>18. CASE RemoveUserContext
    BY <1>18 DEF RemoveUserContext, PagesOf
  <1>19. CASE Quit
    <2>1. CASE Forget /\ UNCHANGED shaky
      BY <2>1 DEF Forget
    <2>2. CASE UNCHANGED <<current, tables, shaky>>
      BY <2>2
    <2> QED BY <1>19, <2>1, <2>2 DEF Quit, TakeSession, EndSession
  <1>20. CASE ServerClose
    BY <1>20 DEF ServerClose, TakeSession, Forget, Gone
  <1>21. CASE ServerEnds
    BY <1>21 DEF ServerEnds, EndSession
  <1>22. CASE UNCHANGED vars
    BY <1>22 DEF vars
  <1>23. CASE Exit
    BY <1>23 DEF Exit
  <1> QED BY <1>1, <1>2, <1>3, <1>4, <1>5, <1>6, <1>7, <1>8, <1>9, <1>10, <1>11, <1>12,
         <1>13, <1>14, <1>15, <1>16, <1>17, <1>18, <1>19, <1>20, <1>21, <1>22,
         <1>23 DEF Next

\* The call and what it has read.
LEMMA StepCallOK == TypeOK /\ [Next]_vars => CallOK'
  <1> SUFFICES ASSUME TypeOK, [Next]_vars PROVE CallOK'
    OBVIOUS
  <1> USE Bounds DEF TypeOK, PagesOK, RememberedOK, CallOK, States, browser, owner, current,
      tables, naming, read, server, ghosts
  <1>0. Return => CallOK'
    <2>1. NoCall \in [tool : Tools \cup {"none"}, page : 0 .. MaxContexts, arg : BOOLEAN]
      BY DEF NoCall
    <2> QED BY <2>1 DEF Return, States
  <1>a. RefKey \in 0 .. MaxContexts
    BY KeyIsContext
  <1>1. CASE BrowserEvent
    BY <1>1, <1>0 DEF BrowserEvent, NewPage, Without, Gone, IsOpen, IsPage
  <1>2. CASE Call
    <2> PICK c \in Calls : /\ call' = c
                           /\ pageOverride' = IF c.page # 0 THEN c.page ELSE pageOverride
                           /\ pc' \in {"diff", "quit", "ensure"}
      BY <1>2 DEF Call
    <2>1. c \in [tool : Tools \cup {"none"}, page : 0 .. MaxContexts, arg : BOOLEAN]
      <3>1. 0 .. opened \subseteq 0 .. MaxContexts
        OBVIOUS
      <3>2. CASE c \in [tool : {"act", "actByRef", "map", "diffMap", "frame", "navigate", "quit",
                                "launch", "switchPage"}, page : 0 .. opened, arg : {FALSE}]
        BY <3>1, <3>2 DEF Tools
      <3>3. CASE c \in [tool : {"newPage", "closePage"}, page : 0 .. opened, arg : BOOLEAN]
        BY <3>1, <3>3 DEF Tools
      <3> QED BY <3>2, <3>3 DEF Calls
    <2>2. c.page \in 0 .. MaxContexts
      BY <2>1
    <2> QED BY <1>2, <2>1, <2>2 DEF Call
  <1>3. CASE Failure
    BY <1>3, <1>0 DEF Failure
  <1>4. CASE EnsureBrowser
    BY <1>4, <1>0 DEF EnsureBrowser, DiscardSession, Forget, GoTo, Read, FirstStep
  <1>5. CASE Launch
    BY <1>5, <1>0 DEF Launch, GoTo, Read
  <1>6. CASE Connect
    BY <1>6, <1>0 DEF Connect, NewPage, Unconnected, GoTo, Read, FirstStep
  <1>7. CASE ResolveSelector
    <2>1. refMaps[RefKey] \in 0 .. MaxContexts
      BY <1>7, KeyIsContext DEF ResolveSelector
    <2> QED BY <1>7, <2>1 DEF ResolveSelector, Read
  <1>8. CASE GetContext
    <2>1. CASE /\ context' \in {activeFrameParent, RefKey} /\ pc' \in {"frame", "act"}
               /\ UNCHANGED <<source, listed, naming>>
      BY <2>1, <1>a
    <2> QED BY <1>8, <2>1, <1>0 DEF GetContext, GetContextID, Read
  <1>9. CASE Act
    BY <1>9, <1>0 DEF Act
  <1>10. CASE Frame
    BY <1>10, <1>0 DEF Frame
  <1>11. CASE MapPage
    BY <1>11, <1>a DEF MapPage, GetContextID, Read
  <1>12. CASE SetRefs
    BY <1>12, <1>0 DEF SetRefs, MapKey
  <1>13. CASE DiffMap
    BY <1>13, <1>0 DEF DiffMap, GoTo, Read
  <1>14. CASE OpenNewPage
    BY <1>14, <1>0 DEF OpenNewPage, NewPage, Read
  <1>15. CASE ListPages
    <2>1. pages \subseteq 0 .. MaxContexts /\ pages \subseteq Contexts
      BY DEF Contexts
    <2>2. CASE context' \in pages /\ pc' = "activate" /\ UNCHANGED listed
      BY <1>15, <2>1, <2>2 DEF ListPages, Read
    <2>3. CASE listed' = pages /\ pc' = "close" /\ UNCHANGED context
      BY <1>15, <2>1, <2>3 DEF ListPages, Read
    <2> QED BY <1>15, <2>2, <2>3 DEF ListPages, Read
  <1>16. CASE Activate
    BY <1>16, <1>0 DEF Activate, IsPage
  <1>17. CASE ClosePage
    <2>1. ASSUME NEW c \in Contexts, context' = c, Read("remove"), UNCHANGED <<source, listed>>
          PROVE  CallOK'
      BY <2>1 DEF Read, Contexts
    <2> QED BY <1>17, <2>1, <1>0 DEF ClosePage
  <1>18. CASE RemoveUserContext
    BY <1>18, <1>0 DEF RemoveUserContext, PagesOf
  <1>19. CASE Quit
    BY <1>19, <1>0 DEF Quit, TakeSession, EndSession, Forget, Gone, GoTo, Read
  <1>20. CASE ServerClose
    BY <1>20, <1>0 DEF ServerClose, TakeSession, Forget, Gone
  <1>21. CASE ServerEnds
    BY <1>21, <1>0 DEF ServerEnds, EndSession
  <1>22. CASE UNCHANGED vars
    BY <1>22 DEF vars
  <1>23. CASE Exit
    BY <1>23 DEF Exit
  <1> QED BY <1>1, <1>2, <1>3, <1>4, <1>5, <1>6, <1>7, <1>8, <1>9, <1>10, <1>11, <1>12,
         <1>13, <1>14, <1>15, <1>16, <1>17, <1>18, <1>19, <1>20, <1>21, <1>22,
         <1>23 DEF Next

\* What is true or false.
LEMMA StepFlagsOK == TypeOK /\ [Next]_vars => FlagsOK'
  <1> SUFFICES ASSUME TypeOK, [Next]_vars PROVE FlagsOK'
    OBVIOUS
  <1> USE DEF TypeOK, FlagsOK, browser, owner, current, tables, naming, read, server, ghosts
  <1>1. CASE BrowserEvent
    BY <1>1 DEF BrowserEvent, Without, Gone
  <1>2. CASE Call
    BY <1>2 DEF Call
  <1>3. CASE Failure
    BY <1>3 DEF Failure, Return
  <1>4. CASE EnsureBrowser
    BY <1>4 DEF EnsureBrowser, DiscardSession, Forget, Return, GoTo, Read
  <1>5. CASE Launch
    BY <1>5 DEF Launch, Return, GoTo, Read
  <1>6. CASE Connect
    BY <1>6 DEF Connect, Return, GoTo, Read
  <1>7. CASE ResolveSelector
    BY <1>7 DEF ResolveSelector, Read
  <1>8. CASE GetContext
    BY <1>8 DEF GetContext, Read, Return
  <1>9. CASE Act
    BY <1>9 DEF Act, Return
  <1>10. CASE Frame
    BY <1>10 DEF Frame, Return
  <1>11. CASE MapPage
    BY <1>11 DEF MapPage, Read
  <1>12. CASE SetRefs
    BY <1>12 DEF SetRefs, Return
  <1>13. CASE DiffMap
    BY <1>13 DEF DiffMap, GoTo, Read
  <1>14. CASE OpenNewPage
    BY <1>14 DEF OpenNewPage, Read
  <1>15. CASE ListPages
    BY <1>15 DEF ListPages, Read
  <1>16. CASE Activate
    BY <1>16 DEF Activate, Return
  <1>17. CASE ClosePage
    BY <1>17 DEF ClosePage, Without, Read, Return
  <1>18. CASE RemoveUserContext
    BY <1>18 DEF RemoveUserContext, Return
  <1>19. CASE Quit
    BY <1>19 DEF Quit, TakeSession, EndSession, Forget, Gone, Return, GoTo, Read
  <1>20. CASE ServerClose
    BY <1>20 DEF ServerClose, TakeSession, Forget, Gone
  <1>21. CASE ServerEnds
    BY <1>21 DEF ServerEnds, EndSession
  <1>22. CASE UNCHANGED vars
    BY <1>22 DEF vars
  <1>23. CASE Exit
    BY <1>23 DEF Exit
  <1> QED BY <1>1, <1>2, <1>3, <1>4, <1>5, <1>6, <1>7, <1>8, <1>9, <1>10, <1>11, <1>12,
         <1>13, <1>14, <1>15, <1>16, <1>17, <1>18, <1>19, <1>20, <1>21, <1>22,
         <1>23 DEF Next

\* At the start.
LEMMA InitTypeOK == Init => TypeOK
  <1> SUFFICES ASSUME Init PROVE TypeOK
    OBVIOUS
  <1> USE Bounds DEF Init, Contexts
  <1>1. PagesOK
    BY DEF PagesOK
  <1>2. LaunchesOK
    BY DEF LaunchesOK, Closers, Launches
  <1>3. RememberedOK
    BY DEF RememberedOK
  <1>4. CallOK
    BY DEF CallOK, States, Tools, NoCall
  <1>5. FlagsOK
    BY DEF FlagsOK
  <1> QED BY <1>1, <1>2, <1>3, <1>4, <1>5 DEF TypeOK

\* At every step.
LEMMA StepTypeOK == TypeOK /\ [Next]_vars => TypeOK'
  BY StepPagesOK, StepLaunchesOK, StepRememberedOK, StepCallOK, StepFlagsOK DEF TypeOK

\* Every variable keeps its type.
THEOREM TypeCorrect == Spec => []TypeOK
  BY InitTypeOK, StepTypeOK, PTL DEF Spec

\* How a call goes on when there is a browser.
LEMMA FirstSteps ==
    \A t : /\ FirstStep(t) \in {"ref", "map", "new", "list", "context"}
           /\ FirstStep(t) = "ref" => t = "actByRef"
  BY DEF FirstStep

\* Who owns a launch, and when.
LEMMA StepOwnerInv == TypeOK /\ OwnerInv /\ [Next]_vars => OwnerInv'
  <1> SUFFICES ASSUME TypeOK, OwnerInv, [Next]_vars PROVE OwnerInv'
    OBVIOUS
  <1> USE DEF browser, owner, current, tables, naming, read, server, ghosts
  <1>0. ASSUME UNCHANGED <<owner, dropped, taken, late, launched>>,
               closing' = closing \/ (closing # "no" /\ closing' = "cut")
                  \/ (closing = "done" /\ closing' = "exited"),
               pc' = pc \/ (pc # "end" /\ pc' # "connect" /\ (pc' = "launch" => client = 0))
        PROVE  OwnerInv'
    BY <1>0 DEF OwnerInv, Remote
  <1>1. CASE BrowserEvent
    BY <1>1, <1>0 DEF BrowserEvent
  <1>2. CASE Call
    BY <1>2, <1>0 DEF Call
  <1>3. CASE Failure
    BY <1>3, <1>0 DEF Failure, Working, Return
  <1>4. CASE EnsureBrowser
    <2>1. CASE DiscardSession /\ Return /\ pc = "ensure" /\ UNCHANGED <<server, launched>>
      BY <2>1 DEF DiscardSession, Return, TypeOK, LaunchesOK, Closers, Launches, OwnerInv, Remote
    <2> QED BY <1>4, <2>1, <1>0, FirstSteps DEF EnsureBrowser, Working, Return, GoTo, Read, OwnerInv
  <1>5. CASE Launch
    <2>1. CASE GoTo("connect") /\ launched' = launched + 1
               /\ late' = IF closing = "no" THEN late ELSE late \cup {launched'}
      <3>1. pc = "launch" /\ UNCHANGED <<owner, taken, closing, dropped>>
        BY <1>5 DEF Launch
      <3> QED BY <2>1, <3>1, Bounds DEF GoTo, Read, TypeOK, LaunchesOK, Closers, Launches, OwnerInv, Remote
    <2>2. CASE Return /\ UNCHANGED <<running, launched, late>>
      BY <1>5, <2>2, <1>0 DEF Launch, Return
    <2> QED BY <1>5, <2>1, <2>2 DEF Launch
  <1>6. CASE Connect
    <2>0. pc = "connect" /\ UNCHANGED <<launched, server>>
      BY <1>6 DEF Connect
    <2>1. pc' \notin {"launch", "connect", "end"}
      BY <1>6, FirstSteps DEF Connect, Return, GoTo, Read
    <2>2. CASE /\ client' = launched /\ launchResult' \in {0, launched}
               /\ classicSession' \in {0, launched} /\ UNCHANGED dropped
      BY <2>0, <2>1, <2>2 DEF TypeOK, LaunchesOK, Closers, Launches, OwnerInv, Remote
    <2>3. CASE UNCHANGED owner /\ dropped \subseteq dropped'
      BY <2>0, <2>1, <2>3 DEF TypeOK, LaunchesOK, Closers, Launches, OwnerInv, Remote
    <2> QED BY <1>6, <2>2, <2>3 DEF Connect
  <1>7. CASE ResolveSelector
    BY <1>7, <1>0 DEF ResolveSelector, Working, Read
  <1>8. CASE GetContext
    BY <1>8, <1>0 DEF GetContext, Working, Read, Return
  <1>9. CASE Act
    BY <1>9, <1>0 DEF Act, Working, Return
  <1>10. CASE Frame
    BY <1>10, <1>0 DEF Frame, Working, Return
  <1>11. CASE MapPage
    BY <1>11, <1>0 DEF MapPage, Working, Read
  <1>12. CASE SetRefs
    BY <1>12, <1>0 DEF SetRefs, Working, Return
  <1>13. CASE DiffMap
    BY <1>13, <1>0 DEF DiffMap, Working, GoTo, Read
  <1>14. CASE OpenNewPage
    BY <1>14, <1>0 DEF OpenNewPage, Working, NewPage, Read
  <1>15. CASE ListPages
    BY <1>15, <1>0 DEF ListPages, Working, Read
  <1>16. CASE Activate
    BY <1>16, <1>0 DEF Activate, Working, Return
  <1>17. CASE ClosePage
    BY <1>17, <1>0 DEF ClosePage, Working, Read, Return
  <1>18. CASE RemoveUserContext
    BY <1>18, <1>0 DEF RemoveUserContext, Working, Return
  <1>19. CASE Quit
    <2>1. CASE pc = "quit" /\ Return /\ UNCHANGED <<owner, taken, closing, late, dropped, launched>>
      BY <2>1, <1>0 DEF Return
    <2>2. CASE pc = "quit" /\ TakeSession("tool") /\ GoTo("end") /\ UNCHANGED <<closing, late>>
      BY <2>2 DEF TakeSession, GoTo, Read, TypeOK, LaunchesOK, Closers, Launches, OwnerInv, Remote
    <2>3. CASE pc = "end" /\ EndSession("tool") /\ Return /\ UNCHANGED <<closing, late>>
      BY <2>3 DEF EndSession, Return, TypeOK, LaunchesOK, Closers, Launches, OwnerInv, Remote
    <2> QED BY <1>19, <2>1, <2>2, <2>3 DEF Quit
  <1>20. CASE ServerClose
    <2>1. /\ TakeSession("server") /\ closing' \in {"held", "forced"} /\ UNCHANGED pc
          /\ late' = IF pc = "connect" THEN late \cup {launched} ELSE late
      BY <1>20 DEF ServerClose
    <2> QED BY <2>1 DEF TakeSession, TypeOK, LaunchesOK, Closers, Launches, OwnerInv, Remote
  <1>21. CASE ServerEnds
    BY <1>21 DEF ServerEnds, EndSession, TypeOK, LaunchesOK, Closers, Launches, OwnerInv, Remote
  <1>22. CASE UNCHANGED vars
    BY <1>22, <1>0 DEF vars
  <1>23. CASE Exit
    BY <1>23, <1>0 DEF Exit
  <1> QED BY <1>1, <1>2, <1>3, <1>4, <1>5, <1>6, <1>7, <1>8, <1>9, <1>10, <1>11, <1>12,
         <1>13, <1>14, <1>15, <1>16, <1>17, <1>18, <1>19, <1>20, <1>21, <1>22,
         <1>23 DEF Next

\* Nothing that was started is forgotten.
LEMMA StepAccounted == TypeOK /\ OwnerInv /\ Accounted /\ [Next]_vars => Accounted'
  <1> SUFFICES ASSUME TypeOK, OwnerInv, Accounted, [Next]_vars PROVE Accounted'
    OBVIOUS
  <1> USE DEF browser, owner, current, tables, naming, read, server, ghosts
  <1>0. ASSUME UNCHANGED <<owner, dropped, taken, running, launched>>, pc = "connect" => pc' = pc
        PROVE  Accounted'
    BY <1>0 DEF Accounted, Remote
  <1>1. CASE BrowserEvent
    BY <1>1, <1>0 DEF BrowserEvent
  <1>2. CASE Call
    BY <1>2, <1>0 DEF Call
  <1>3. CASE Failure
    BY <1>3, <1>0 DEF Failure, Working, Return
  <1>4. CASE EnsureBrowser
    <2>1. CASE DiscardSession /\ pc = "ensure" /\ UNCHANGED server
      BY <2>1 DEF DiscardSession, TypeOK, LaunchesOK, Closers, Launches, OwnerInv, Accounted, Remote
    <2> QED BY <1>4, <2>1, <1>0, FirstSteps DEF EnsureBrowser, Working, Return, GoTo, Read
  <1>5. CASE Launch
    <2>1. CASE GoTo("connect") /\ running' = running \cup {launched'}
      <3>1. pc = "launch" /\ UNCHANGED <<owner, taken, dropped>>
        BY <1>5 DEF Launch
      <3> QED BY <2>1, <3>1 DEF GoTo, Read, TypeOK, LaunchesOK, Closers, Launches, OwnerInv, Accounted, Remote
    <2>2. CASE Return /\ UNCHANGED <<running, launched, late>>
      BY <1>5, <2>2, <1>0 DEF Launch
    <2> QED BY <1>5, <2>1, <2>2 DEF Launch
  <1>6. CASE Connect
    <2>0. pc = "connect" /\ UNCHANGED <<launched, server>> /\ endpoint \in {"local", "classic", "bidi"}
      BY <1>6 DEF Connect, TypeOK, LaunchesOK
    <2>1. client = 0 /\ launchResult = 0 /\ Remote \subseteq dropped /\ launched > 0
      BY <2>0 DEF OwnerInv, Remote
    <2>2. CASE /\ client' = launched /\ UNCHANGED dropped
               /\ launchResult' = IF endpoint = "local" THEN launched ELSE 0
               /\ classicSession' = IF endpoint = "classic" THEN launched ELSE 0
               /\ running' = IF endpoint = "bidi" /\ ~ownsRemote' THEN running \ {launched} ELSE running
      <3>1. launched \in running' => launched \in {launchResult'} \cup Remote'
        BY <2>0, <2>1, <2>2 DEF Remote
      <3> QED BY <2>0, <2>1, <2>2, <3>1 DEF TypeOK, LaunchesOK, Closers, Launches, OwnerInv, Accounted, Remote
    <2>3. CASE UNCHANGED owner /\ running' = Unconnected /\ UNCHANGED dropped
      BY <2>0, <2>3 DEF Unconnected, TypeOK, LaunchesOK, Closers, Launches, OwnerInv, Accounted, Remote
    <2>4. CASE UNCHANGED <<owner, running>> /\ dropped' = dropped \cup {launched}
      BY <2>0, <2>4 DEF TypeOK, LaunchesOK, Closers, Launches, OwnerInv, Accounted, Remote
    <2> QED BY <1>6, <2>2, <2>3, <2>4 DEF Connect
  <1>7. CASE ResolveSelector
    BY <1>7, <1>0 DEF ResolveSelector, Working, Read
  <1>8. CASE GetContext
    BY <1>8, <1>0 DEF GetContext, Working, Read, Return
  <1>9. CASE Act
    BY <1>9, <1>0 DEF Act, Working, Return
  <1>10. CASE Frame
    BY <1>10, <1>0 DEF Frame, Working, Return
  <1>11. CASE MapPage
    BY <1>11, <1>0 DEF MapPage, Working, Read
  <1>12. CASE SetRefs
    BY <1>12, <1>0 DEF SetRefs, Working, Return
  <1>13. CASE DiffMap
    BY <1>13, <1>0 DEF DiffMap, Working, GoTo, Read
  <1>14. CASE OpenNewPage
    BY <1>14, <1>0 DEF OpenNewPage, Working, NewPage, Read
  <1>15. CASE ListPages
    BY <1>15, <1>0 DEF ListPages, Working, Read
  <1>16. CASE Activate
    BY <1>16, <1>0 DEF Activate, Working, Return
  <1>17. CASE ClosePage
    BY <1>17, <1>0 DEF ClosePage, Working, Read, Return
  <1>18. CASE RemoveUserContext
    BY <1>18, <1>0 DEF RemoveUserContext, Working, Return
  <1>19. CASE Quit
    <2>1. CASE pc = "quit" /\ UNCHANGED <<browser, owner, taken, ghosts>>
      BY <2>1, <1>0
    <2>2. CASE pc = "quit" /\ TakeSession("tool") /\ GoTo("end")
      BY <2>2 DEF TakeSession, GoTo, Read, TypeOK, LaunchesOK, Closers, Launches, OwnerInv, Accounted, Remote
    <2>3. CASE pc = "end" /\ EndSession("tool") /\ Return
      BY <2>3 DEF EndSession, Return, TypeOK, LaunchesOK, Closers, Launches, OwnerInv, Accounted, Remote
    <2> QED BY <1>19, <2>1, <2>2, <2>3 DEF Quit
  <1>20. CASE ServerClose
    <2>1. TakeSession("server") /\ closing = "no" /\ UNCHANGED pc
      BY <1>20 DEF ServerClose
    <2> QED BY <2>1 DEF TakeSession, TypeOK, LaunchesOK, Closers, Launches, OwnerInv, Accounted, Remote
  <1>21. CASE ServerEnds
    BY <1>21 DEF ServerEnds, EndSession, TypeOK, LaunchesOK, Closers, Launches, OwnerInv, Accounted, Remote
  <1>22. CASE UNCHANGED vars
    BY <1>22, <1>0 DEF vars
  <1>23. CASE Exit
    BY <1>23, <1>0 DEF Exit
  <1> QED BY <1>1, <1>2, <1>3, <1>4, <1>5, <1>6, <1>7, <1>8, <1>9, <1>10, <1>11, <1>12,
         <1>13, <1>14, <1>15, <1>16, <1>17, <1>18, <1>19, <1>20, <1>21, <1>22,
         <1>23 DEF Next

\* A call stays pinned.
LEMMA StepPinInv == TypeOK /\ PinInv /\ [Next]_vars => PinInv'
  <1> SUFFICES ASSUME TypeOK, PinInv, [Next]_vars PROVE PinInv'
    OBVIOUS
  <1> USE DEF TypeOK, CallOK, PinInv, NoCall, browser, owner, current, tables, naming, read,
      server, ghosts
  <1>1. CASE BrowserEvent
    BY <1>1 DEF BrowserEvent
  <1>2. CASE Call
    BY <1>2 DEF Call, Calls
  <1>3. CASE Failure
    BY <1>3 DEF Failure, Working, Return
  <1>4. CASE EnsureBrowser
    BY <1>4, FirstSteps DEF EnsureBrowser, Working, DiscardSession, Return, GoTo, Read
  <1>5. CASE Launch
    BY <1>5 DEF Launch, Working, Return, GoTo, Read
  <1>6. CASE Connect
    BY <1>6, FirstSteps DEF Connect, Working, Unconnected, Return, GoTo, Read
  <1>7. CASE ResolveSelector
    BY <1>7 DEF ResolveSelector, Working, Read
  <1>8. CASE GetContext
    BY <1>8 DEF GetContext, Working, Read, Return
  <1>9. CASE Act
    BY <1>9 DEF Act, Working, Return
  <1>10. CASE Frame
    BY <1>10 DEF Frame, Working, Return
  <1>11. CASE MapPage
    BY <1>11 DEF MapPage, Working, Read
  <1>12. CASE SetRefs
    BY <1>12 DEF SetRefs, Working, Return
  <1>13. CASE DiffMap
    BY <1>13 DEF DiffMap, Working, GoTo, Read
  <1>14. CASE OpenNewPage
    BY <1>14 DEF OpenNewPage, Working, Read
  <1>15. CASE ListPages
    BY <1>15 DEF ListPages, Working, Read
  <1>16. CASE Activate
    BY <1>16 DEF Activate, Working, Return
  <1>17. CASE ClosePage
    BY <1>17 DEF ClosePage, Working, Read, Return
  <1>18. CASE RemoveUserContext
    BY <1>18 DEF RemoveUserContext, Working, Return
  <1>19. CASE Quit
    BY <1>19 DEF Quit, Working, TakeSession, EndSession, Return, GoTo, Read
  <1>20. CASE ServerClose
    BY <1>20 DEF ServerClose, TakeSession
  <1>21. CASE ServerEnds
    BY <1>21 DEF ServerEnds, EndSession
  <1>22. CASE UNCHANGED vars
    BY <1>22 DEF vars
  <1>23. CASE Exit
    BY <1>23 DEF Exit
  <1> QED BY <1>1, <1>2, <1>3, <1>4, <1>5, <1>6, <1>7, <1>8, <1>9, <1>10, <1>11, <1>12,
         <1>13, <1>14, <1>15, <1>16, <1>17, <1>18, <1>19, <1>20, <1>21, <1>22,
         <1>23 DEF Next

\* What a call has read is of the page it goes by.
LEMMA StepTargetInv == TypeOK /\ PinInv /\ TargetInv /\ [Next]_vars => TargetInv'
  <1> SUFFICES ASSUME TypeOK, PinInv, TargetInv, [Next]_vars PROVE TargetInv'
    OBVIOUS
  <1> USE DEF TypeOK, RememberedOK, CallOK, PinInv, TargetInv, browser, owner, current,
      tables, naming, read, server, ghosts
  <1>0. UNCHANGED <<pageOverride, activeContext, pages>> => RefKey' = RefKey
    BY DEF RefKey, CurrentContext, FirstPage
  <1>a. RefKey # 0 => RefKey \in Contexts
    BY KeyIsContext DEF TypeOK
  <1>1. CASE BrowserEvent
    <2>1. RefKey' = RefKey \/ moved' \/ pc = "idle"
      BY <1>1 DEF BrowserEvent, RefKey, CurrentContext
    <2>2. /\ moved => moved'
          /\ UNCHANGED <<pc, context, source, refMaps, shaky>>
      BY <1>1 DEF BrowserEvent
    <2> QED BY <2>1, <2>2
  <1>2. CASE Call
    BY <1>2, <1>0 DEF Call
  <1>3. CASE Failure
    BY <1>3, <1>0 DEF Failure, Working, Return
  <1>4. CASE EnsureBrowser
    BY <1>4, FirstSteps DEF EnsureBrowser, Working, DiscardSession, Forget, Return, GoTo,
       Read
  <1>5. CASE Launch
    BY <1>5, <1>0 DEF Launch, Working, Return, GoTo, Read
  <1>6. CASE Connect
    BY <1>6, FirstSteps DEF Connect, Working, Return, GoTo, Read
  <1>7. CASE ResolveSelector
    BY <1>7, <1>0, <1>a DEF ResolveSelector, Working, Read
  <1>8. CASE GetContext
    BY <1>8 DEF GetContext, Working, LeavesFrame, GetContextID, Read, Return
  <1>9. CASE Act
    BY <1>9, <1>0 DEF Act, Working, Return
  <1>10. CASE Frame
    BY <1>10 DEF Frame, Working, Return
  <1>11. CASE MapPage
    BY <1>11, <1>0, <1>a DEF MapPage, Working, GetContextID, Read
  <1>12. CASE SetRefs
    BY <1>12, <1>0, <1>a DEF SetRefs, Working, MapKey, Return
  <1>13. CASE DiffMap
    BY <1>13, <1>0 DEF DiffMap, Working, GoTo, Read
  <1>14. CASE OpenNewPage
    BY <1>14 DEF OpenNewPage, Working, Read
  <1>15. CASE ListPages
    BY <1>15, <1>0 DEF ListPages, Working, Read
  <1>16. CASE Activate
    BY <1>16 DEF Activate, Working, Return
  <1>17. CASE ClosePage
    BY <1>17 DEF ClosePage, Working, Read, Return
  <1>18. CASE RemoveUserContext
    BY <1>18 DEF RemoveUserContext, Working, Return
  <1>19. CASE Quit
    BY <1>19 DEF Quit, Working, TakeSession, EndSession, Forget, Return, GoTo, Read
  <1>20. CASE ServerClose
    <2>1. RefKey' \in {RefKey, 0}
      BY <1>20 DEF ServerClose, TakeSession, Forget, Gone, RefKey, CurrentContext, FirstPage, First
    <2> QED BY <1>20, <2>1 DEF ServerClose, TakeSession, Forget
  <1>21. CASE ServerEnds
    BY <1>21, <1>0 DEF ServerEnds, EndSession
  <1>22. CASE UNCHANGED vars
    BY <1>22, <1>0 DEF vars
  <1>23. CASE Exit
    BY <1>23, <1>0 DEF Exit
  <1> QED BY <1>1, <1>2, <1>3, <1>4, <1>5, <1>6, <1>7, <1>8, <1>9, <1>10, <1>11, <1>12,
         <1>13, <1>14, <1>15, <1>16, <1>17, <1>18, <1>19, <1>20, <1>21, <1>22,
         <1>23 DEF Next

\* A call acts where it was told.
LEMMA StepActsWhereTold ==
    TypeOK /\ PinInv /\ TargetInv /\ ActsWhereTold /\ [Next]_vars => ActsWhereTold'
  <1> SUFFICES ASSUME TypeOK, PinInv, TargetInv, ActsWhereTold, [Next]_vars PROVE ActsWhereTold'
    OBVIOUS
  <1> USE DEF TypeOK, RememberedOK, CallOK, PinInv, TargetInv, ActsWhereTold, browser,
      owner, current, tables, naming, read, server, ghosts
  <1>1. CASE BrowserEvent
    BY <1>1 DEF BrowserEvent
  <1>2. CASE Call
    BY <1>2 DEF Call
  <1>3. CASE Failure
    BY <1>3 DEF Failure, Working, Return
  <1>4. CASE EnsureBrowser
    BY <1>4, FirstSteps DEF EnsureBrowser, Working, DiscardSession, Forget, Return, GoTo,
       Read
  <1>5. CASE Launch
    BY <1>5 DEF Launch, Working, Return, GoTo, Read
  <1>6. CASE Connect
    BY <1>6, FirstSteps DEF Connect, Working, Return, GoTo, Read
  <1>7. CASE ResolveSelector
    BY <1>7 DEF ResolveSelector, Working, Read
  <1>8. CASE GetContext
    BY <1>8 DEF GetContext, Working, LeavesFrame, GetContextID, Read, Return, RefKey,
       CurrentContext
  <1>9. CASE Act
    BY <1>9 DEF Act, Working, Return
  <1>10. CASE Frame
    BY <1>10 DEF Frame, Working, Return
  <1>11. CASE MapPage
    BY <1>11 DEF MapPage, Working, GetContextID, Read
  <1>12. CASE SetRefs
    BY <1>12 DEF SetRefs, Working, MapKey, Return
  <1>13. CASE DiffMap
    BY <1>13 DEF DiffMap, Working, GoTo, Read
  <1>14. CASE OpenNewPage
    BY <1>14 DEF OpenNewPage, Working, Read
  <1>15. CASE ListPages
    BY <1>15 DEF ListPages, Working, Read
  <1>16. CASE Activate
    BY <1>16 DEF Activate, Working, Return
  <1>17. CASE ClosePage
    BY <1>17 DEF ClosePage, Working, Read, Return
  <1>18. CASE RemoveUserContext
    BY <1>18 DEF RemoveUserContext, Working, Return
  <1>19. CASE Quit
    BY <1>19 DEF Quit, Working, TakeSession, EndSession, Forget, Return, GoTo, Read
  <1>20. CASE ServerClose
    BY <1>20 DEF ServerClose, TakeSession, Forget
  <1>21. CASE ServerEnds
    BY <1>21 DEF ServerEnds, EndSession
  <1>22. CASE UNCHANGED vars
    BY <1>22 DEF vars
  <1>23. CASE Exit
    BY <1>23 DEF Exit
  <1> QED BY <1>1, <1>2, <1>3, <1>4, <1>5, <1>6, <1>7, <1>8, <1>9, <1>10, <1>11, <1>12,
         <1>13, <1>14, <1>15, <1>16, <1>17, <1>18, <1>19, <1>20, <1>21, <1>22,
         <1>23 DEF Next

\* A page that opens is in no frame yet; one that closes takes its frames along.
LEMMA NewPageFrames ==
    ASSUME TypeOK, FramesInv, NEW u \in 0 .. MaxContexts, NewPage(u), alive'
    PROVE  FramesInv'
  <1> USE Bounds DEF TypeOK, PagesOK, FramesInv, Contexts, IsOpen, IsPage
  <1>1. /\ opened' = opened + 1 /\ opened' \in Contexts
        /\ pages' = pages \cup {opened'} /\ within' = within
    BY DEF NewPage
  <1>2. opened' \notin pages /\ within[opened'] = {}
    BY <1>1
  <1>3. \A f \in Contexts : opened' \notin within[f]
    BY <1>2
  <1> QED BY <1>1, <1>2, <1>3

\* What is left when some pages close, and the frames in them.
LEMMA FewerFrames ==
    ASSUME TypeOK, FramesInv, NEW P, pages' = pages \ P, opened' = opened, alive',
           within' = [f \in Contexts |-> IF f \in P \/ within[f] \cap P # {} THEN {} ELSE within[f]]
    PROVE  FramesInv'
  <1> USE DEF TypeOK, PagesOK, FramesInv, Contexts, IsOpen, IsPage
  <1>1. ASSUME NEW f \in Contexts, NEW c \in within'[f]
        PROVE  /\ within'[f] = within[f] /\ c \in Contexts /\ c \notin P
               /\ within[c] \subseteq within[f] /\ within'[c] = within[c]
    BY <1>1
  <1>2. \A f \in Contexts : \A c \in within'[f] : IsOpen(c)' /\ within'[c] \subseteq within'[f]
    BY <1>1
  <1>3. \A f \in Contexts : \A c, d \in within'[f] \cap pages' : c = d
    BY <1>1
  <1>4. \A f \in Contexts : within'[f] \subseteq within[f]
    OBVIOUS
  <1>5. \A f \in Contexts : within'[f] # {} => f <= opened'
    BY <1>4
  <1>6. ASSUME NEW c \in pages' PROVE within'[c] = {}
    <2>1. c \in pages
      BY <1>6
    <2>2. c \in Contexts
      BY <2>1, Bounds
    <2> QED BY <1>4, <2>1, <2>2
  <1> QED BY <1>2, <1>3, <1>5, <1>6

\* A page or frame that closes, and what is in it.
LEMMA CloseFrames ==
    ASSUME TypeOK, FramesInv, NEW c \in Contexts, Without(c),
           opened' = opened, alive, alive' = alive
    PROVE  FramesInv'
  <1> DEFINE P == {c}
  <1>1. pages' = pages \ P
    BY DEF Without
  <1>2. within' = [f \in Contexts |-> IF f \in P \/ within[f] \cap P # {} THEN {} ELSE within[f]]
    BY Zenon DEF Without
  <1> QED BY <1>1, <1>2, FewerFrames

\* Frames and their pages.
LEMMA StepFramesInv == TypeOK /\ FramesInv /\ [Next]_vars => FramesInv'
  <1> SUFFICES ASSUME TypeOK, FramesInv, [Next]_vars PROVE FramesInv'
    OBVIOUS
  <1> USE Bounds DEF TypeOK, PagesOK, FramesInv, IsOpen, IsPage, Contexts, browser, owner,
      current, tables, naming, read, server, ghosts
  <1>1. CASE BrowserEvent
    <2>1. ASSUME NEW c \in Contexts, IsOpen(c), opened < MaxContexts, opened' = opened + 1,
                 within' = [within EXCEPT ![opened'] = {c} \cup within[c]],
                 UNCHANGED <<pages, alive>>, alive
          PROVE  FramesInv'
      <3> DEFINE n == opened + 1
      <3>1. n \in Contexts /\ n \notin pages /\ within[n] = {} /\ c # n
        BY <2>1
      <3>2. \A f \in Contexts : n \notin within[f]
        BY <3>1
      <3>3. \A f \in Contexts : within'[f] = IF f = n THEN {c} \cup within[c] ELSE within[f]
        BY <2>1, <3>1
      <3>4. c \in pages => within[c] = {}
        OBVIOUS
      <3>5. \A d \in within[c] : IsOpen(d) /\ within[d] \subseteq within[c] /\ d # n
        BY <3>2
      <3>6. \A f \in Contexts : \A d \in within'[f] : IsOpen(d)' /\ within'[d] \subseteq within'[f]
        BY <2>1, <3>1, <3>2, <3>3, <3>5
      <3>7. \A f \in Contexts : \A d, e \in within'[f] \cap pages' : d = e
        BY <2>1, <3>3, <3>4
      <3> QED BY <2>1, <3>1, <3>3, <3>6, <3>7
    <2>2. ASSUME NEW p \in pages, NewPage(userOf[p]), UNCHANGED alive, alive PROVE FramesInv'
      <3>1. userOf[p] \in 0 .. MaxContexts
        OBVIOUS
      <3> HIDE DEF TypeOK, FramesInv
      <3> QED BY <2>2, <3>1, NewPageFrames
    <2>3. ASSUME NEW c \in Contexts, Without(c), UNCHANGED <<opened, alive>>, alive PROVE FramesInv'
      BY <2>3, CloseFrames
    <2>4. ASSUME Gone, UNCHANGED opened PROVE FramesInv'
      BY <2>4 DEF Gone
    <2> QED BY <1>1, <2>1, <2>2, <2>3, <2>4 DEF BrowserEvent
  <1>2. CASE Call
    BY <1>2 DEF Call, Answers
  <1>3. CASE Failure
    BY <1>3 DEF Failure
  <1>4. CASE EnsureBrowser
    <2>1. UNCHANGED <<alive, pages, within, opened>>
      BY <1>4 DEF EnsureBrowser
    <2> QED BY <2>1
  <1>5. CASE Launch
    BY <1>5 DEF Launch
  <1>6. CASE Connect
    <2>1. CASE NewPage(0) /\ alive'
      BY <2>1, NewPageFrames, 0 \in 0 .. MaxContexts
    <2>2. CASE UNCHANGED <<pages, within, opened, alive>>
      BY <2>2
    <2> QED BY <1>6, <2>1, <2>2 DEF Connect
  <1>7. CASE ResolveSelector
    BY <1>7 DEF ResolveSelector, Answers
  <1>8. CASE GetContext
    BY <1>8 DEF GetContext, Answers
  <1>9. CASE Act
    BY <1>9 DEF Act, Answers
  <1>10. CASE Frame
    BY <1>10 DEF Frame, Answers
  <1>11. CASE MapPage
    BY <1>11 DEF MapPage, Answers
  <1>12. CASE SetRefs
    BY <1>12 DEF SetRefs
  <1>13. CASE DiffMap
    BY <1>13 DEF DiffMap
  <1>14. CASE OpenNewPage
    <2>0. opened < MaxContexts /\ \E u \in {0, opened + 1} : NewPage(u)
      BY <1>14, Zenon DEF OpenNewPage, NewPage
    <2>1. PICK u \in 0 .. MaxContexts : NewPage(u)
      BY <2>0
    <2>2. alive /\ alive' = alive
      BY <1>14 DEF OpenNewPage, Answers
    <2> HIDE DEF TypeOK, FramesInv
    <2> QED BY <2>1, <2>2, NewPageFrames
  <1>15. CASE ListPages
    BY <1>15 DEF ListPages, Answers
  <1>16. CASE Activate
    BY <1>16 DEF Activate, Answers
  <1>17. CASE ClosePage
    <2>1. PICK c \in Contexts : Without(c)
      BY <1>17 DEF ClosePage
    <2>2. alive /\ alive' = alive /\ opened' = opened
      BY <1>17 DEF ClosePage, Answers
    <2> HIDE DEF TypeOK, FramesInv
    <2> QED BY <2>1, <2>2, CloseFrames
  <1>18. CASE RemoveUserContext
    <2> DEFINE P == PagesOf(userOf[context])
    <2>1. alive' = alive /\ opened' = opened
      BY <1>18 DEF RemoveUserContext
    <2>2. CASE UNCHANGED <<pages, within>>
      BY <2>1, <2>2
    <2>3. CASE /\ alive /\ pages' = pages \ P
               /\ within' = [f \in Contexts |-> IF within[f] \cap P # {} THEN {} ELSE within[f]]
      <3>1. \A f \in P : within[f] = {}
        BY DEF PagesOf
      <3>2. within' = [f \in Contexts |->
                          IF f \in P \/ within[f] \cap P # {} THEN {} ELSE within[f]]
        BY <2>3, <3>1
      <3> HIDE DEF TypeOK, FramesInv, P
      <3> QED BY <2>1, <2>3, <3>2, FewerFrames
    <2> QED BY <1>18, <2>2, <2>3 DEF RemoveUserContext, Answers
  <1>19. CASE Quit
    <2>1. CASE Gone /\ UNCHANGED opened
      BY <2>1 DEF Gone
    <2>2. CASE UNCHANGED <<alive, pages, within, opened>>
      BY <2>2
    <2> QED BY <1>19, <2>1, <2>2 DEF Quit, TakeSession, EndSession
  <1>20. CASE ServerClose
    BY <1>20 DEF ServerClose, TakeSession, Forget, Gone
  <1>21. CASE ServerEnds
    BY <1>21 DEF ServerEnds, EndSession
  <1>22. CASE UNCHANGED vars
    BY <1>22 DEF vars
  <1>23. CASE Exit
    BY <1>23 DEF Exit
  <1> QED BY <1>1, <1>2, <1>3, <1>4, <1>5, <1>6, <1>7, <1>8, <1>9, <1>10, <1>11, <1>12,
         <1>13, <1>14, <1>15, <1>16, <1>17, <1>18, <1>19, <1>20, <1>21, <1>22,
         <1>23 DEF Next

\* Nothing of a lost browser is kept.
LEMMA StepPastInv == TypeOK /\ FramesInv /\ PastInv /\ [Next]_vars => PastInv'
  <1> SUFFICES ASSUME TypeOK, FramesInv, PastInv, [Next]_vars PROVE PastInv'
    OBVIOUS
  <1> USE DEF browser, owner, current, tables, naming, read, server, ghosts
  <1> DEFINE Newer == /\ \A c \in pages' : c \in pages \/ c > opened
                      /\ \A f \in Contexts : within'[f] # {} => within[f] # {} \/ f > opened
             Kept == /\ UNCHANGED <<past, closing, refMaps>>
                     /\ \A u \in ownedUserContexts' : u \in ownedUserContexts \/ u > opened
                     /\ \/ pageOverride' = 0
                        \/ pageOverride' = pageOverride /\ (pc = "end" => pc' = "end")
             Stays == /\ activeContext' \in {0, activeContext, activeFrameParent}
                      /\ activeFrameParent' \in {0, activeFrameParent}
  <1>t. /\ past \in Nat /\ opened \in Nat /\ past <= opened /\ pages \subseteq 1 .. opened
        /\ within \in [Contexts -> SUBSET Contexts] /\ Old \subseteq Contexts /\ 0 \notin Old
        /\ \A c \in Nat : c > opened => c \notin Old
        /\ opened < MaxContexts => opened + 1 \in Contexts
    BY Bounds DEF TypeOK, PagesOK, Old, Contexts
  <1>u. \A x \in {activeContext, activeFrameParent, pageOverride, context} : x \in Nat
    BY Bounds DEF TypeOK, RememberedOK, CallOK
  <1>0. ASSUME Newer, Kept, Stays PROVE PastInv'
    <2>1. Old' = Old
      BY <1>0 DEF Old
    <2>2. pages' \cap Old = {}
      BY <1>0, <1>t DEF PastInv, Old
    <2>3. \A f \in Contexts : within'[f] # {} => f \notin Old
      BY <1>0, <1>t DEF PastInv, Contexts
    <2>4. closing = "no" => /\ activeContext' \notin Old /\ activeFrameParent' \notin Old
                            /\ pc' # "end" => pageOverride' \notin Old
      BY <1>0, <1>t DEF PastInv
    <2>5. closing = "no" => ownedUserContexts' \cap Old = {}
      BY <1>0, <1>t DEF PastInv, Old
    <2> QED BY <1>0, <2>1, <2>2, <2>3, <2>4, <2>5 DEF PastInv
  <1>a. UNCHANGED <<pages, within>> => Newer
    OBVIOUS
  <1>b. \A u : NewPage(u) => Newer
    BY <1>t DEF NewPage
  <1>c. \A c : Without(c) => Newer
    BY DEF Without
  <1>d. Gone => Newer
    BY DEF Gone
  <1>e. ASSUME Forget, UNCHANGED <<opened, closing>>, UNCHANGED <<pages, within>> \/ Gone,
               \/ pageOverride' = 0
               \/ pc' = "end",
               ~alive \/ Gone
        PROVE  PastInv'
    <2>1. pages' = {} /\ \A f \in Contexts : within'[f] = {}
      BY <1>e DEF Gone, FramesInv
    <2>2. Old' \subseteq Contexts /\ 0 \notin Old'
      BY <1>e, Bounds DEF Forget, Old, TypeOK, PagesOK, Contexts
    <2> QED BY <1>e, <2>1, <2>2 DEF Forget, PastInv
  <1> HIDE DEF Newer
  <1>1. CASE BrowserEvent
    <2>1. Kept /\ Stays
      BY <1>1 DEF BrowserEvent
    <2>2. Newer
      <3>1. CASE /\ opened < MaxContexts /\ opened' = opened + 1 /\ UNCHANGED pages
                 /\ \E c \in Contexts : within' = [within EXCEPT ![opened'] = {c} \cup within[c]]
        <4>1. \A f \in Contexts : f # opened + 1 => within'[f] = within[f]
          BY <3>1, <1>t
        <4> QED BY <3>1, <4>1, <1>t DEF Newer
      <3> QED BY <1>1, <3>1, <1>b, <1>c, <1>d DEF BrowserEvent
    <2> QED BY <2>1, <2>2, <1>0
  <1>2. CASE Call
    <2>1. /\ pageOverride' = pageOverride \/ pageOverride' \in pages
          /\ UNCHANGED <<pages, within, past, current, tables, closing>> /\ pc = "idle"
      BY <1>2 DEF Call, IsPage
    <2> QED BY <2>1 DEF PastInv, Old
  <1>3. CASE Failure
    <2>1. UNCHANGED <<pages, within>> /\ Kept /\ Stays
      BY <1>3 DEF Failure, Return, GoTo, Read
    <2> QED BY <2>1, <1>0, <1>a
  <1>4. CASE EnsureBrowser
    <2>1. CASE Newer /\ Kept /\ Stays
      BY <2>1, <1>0
    <2>2. CASE UNCHANGED <<pages, within, opened, closing>> /\ Forget /\ pageOverride' = 0 /\ ~alive
      BY <2>2, <1>e
    <2> QED BY <1>4, <2>1, <2>2, <1>a DEF EnsureBrowser, DiscardSession, Return, GoTo, Read
  <1>5. CASE Launch
    <2>1. UNCHANGED <<pages, within>> /\ Kept /\ Stays
      BY <1>5 DEF Launch, Return, GoTo, Read
    <2> QED BY <2>1, <1>0, <1>a
  <1>6. CASE Connect
    <2>1. Newer
      BY <1>6, <1>a, <1>b DEF Connect
    <2>2. Kept /\ Stays
      BY <1>6 DEF Connect, Return, GoTo, Read
    <2> QED BY <2>1, <2>2, <1>0
  <1>7. CASE ResolveSelector
    <2>1. UNCHANGED <<pages, within>> /\ Kept /\ Stays
      BY <1>7 DEF ResolveSelector, Return, GoTo, Read
    <2> QED BY <2>1, <1>0, <1>a
  <1>8. CASE GetContext
    <2>1. UNCHANGED <<pages, within>> /\ Kept
      BY <1>8 DEF GetContext, Return, Read
    <2>2. Stays
      BY <1>8 DEF GetContext, LeavesFrame
    <2> QED BY <2>1, <2>2, <1>0, <1>a
  <1>9. CASE Act
    <2>1. UNCHANGED <<pages, within>> /\ Kept /\ Stays
      BY <1>9 DEF Act, Return, GoTo, Read
    <2> QED BY <2>1, <1>0, <1>a
  <1>10. CASE Frame
    <2>1. PICK f \in Contexts : /\ context \in within[f] /\ activeContext' = f
                                /\ activeFrameParent' \in {activeFrameParent, context}
      BY <1>10 DEF Frame
    <2>2. context \in Contexts
      BY <1>t, <2>1
    <2>3. context \in pages \/ within[context] # {}
      BY <2>1 DEF FramesInv, IsOpen, IsPage
    <2>4. f \notin Old /\ context \notin Old
      BY <2>1, <2>2, <2>3 DEF PastInv
    <2>5. UNCHANGED <<pages, within, past, tables, closing>> /\ pageOverride' = 0
      BY <1>10 DEF Frame, Return
    <2> QED BY <2>1, <2>4, <2>5, <1>t DEF PastInv, Old
  <1>11. CASE MapPage
    <2>1. UNCHANGED <<pages, within>> /\ Kept /\ Stays
      BY <1>11 DEF MapPage, Return, GoTo, Read
    <2> QED BY <2>1, <1>0, <1>a
  <1>12. CASE SetRefs
    <2>1. closing = "no" => RefKey \notin Old
      <3>1. pages # {} => FirstPage \in pages
        BY FirstIsOpen DEF TypeOK
      <3>2. pages = {} => FirstPage = 0
        BY DEF FirstPage, First
      <3>3. pc = "key"
        BY <1>12 DEF SetRefs
      <3> QED BY <3>1, <3>2, <3>3, <1>t DEF RefKey, CurrentContext, PastInv
    <2>2. /\ refMaps' = [refMaps EXCEPT ![RefKey] = context] /\ pageOverride' = 0
          /\ UNCHANGED <<pages, within, past, current, ownedUserContexts, closing>>
      BY <1>12 DEF SetRefs, MapKey, Return
    <2>3. \A c \in Contexts : c # RefKey => refMaps'[c] = refMaps[c]
      BY <2>2 DEF TypeOK, RememberedOK
    <2>4. closing = "no" => \A c \in Old : refMaps'[c] = 0
      BY <2>1, <2>3, <1>t DEF PastInv
    <2>5. Old' = Old
      BY <2>2 DEF Old
    <2> QED BY <2>2, <2>4, <2>5, <1>t DEF PastInv
  <1>13. CASE DiffMap
    <2>1. UNCHANGED <<pages, within>> /\ Kept /\ Stays
      BY <1>13 DEF DiffMap, Return, GoTo, Read
    <2> QED BY <2>1, <1>0, <1>a
  <1>14. CASE OpenNewPage
    <2>1. Newer
      BY <1>14, <1>b DEF OpenNewPage
    <2>2. Kept /\ Stays
      <3>1. opened' = opened + 1
        BY <1>14 DEF OpenNewPage, NewPage
      <3>2. opened' > opened
        BY <3>1, <1>t
      <3> QED BY <1>14, <3>2 DEF OpenNewPage, Read
    <2> QED BY <2>1, <2>2, <1>0
  <1>15. CASE ListPages
    <2>1. UNCHANGED <<pages, within>> /\ Kept /\ Stays
      BY <1>15 DEF ListPages, Return, GoTo, Read
    <2> QED BY <2>1, <1>0, <1>a
  <1>16. CASE Activate
    <2>1. /\ context \in pages /\ activeContext' = context /\ activeFrameParent' = 0
          /\ pageOverride' = 0 /\ UNCHANGED <<pages, within, past, tables, closing>>
      BY <1>16 DEF Activate, IsPage, Return
    <2> QED BY <2>1, <1>t DEF PastInv, Old
  <1>17. CASE ClosePage
    <2>1. Newer
      BY <1>17, <1>c DEF ClosePage
    <2>2. Kept
      BY <1>17 DEF ClosePage, Return, Read
    <2>3. Stays
      BY <1>17 DEF ClosePage
    <2> QED BY <2>1, <2>2, <2>3, <1>0
  <1>18. CASE RemoveUserContext
    <2> DEFINE P == PagesOf(userOf[context])
    <2>1. \/ UNCHANGED <<pages, within>>
          \/ /\ pages' = pages \ P
             /\ within' = [f \in Contexts |-> IF within[f] \cap P # {} THEN {} ELSE within[f]]
      BY <1>18 DEF RemoveUserContext
    <2>2. Kept /\ Stays
      BY <1>18 DEF RemoveUserContext, Return
    <2> HIDE DEF P
    <2>3. Newer
      BY <2>1, <1>a DEF Newer
    <2> QED BY <2>2, <2>3, <1>0
  <1>19. CASE Quit
    <2>1. CASE UNCHANGED <<pages, within, past, current, tables, closing>> /\ pageOverride' = 0
      BY <2>1, <1>0, <1>a
    <2>2. CASE Forget /\ Gone /\ pc' = "end" /\ UNCHANGED <<opened, closing>>
      BY <2>2, <1>e
    <2> QED BY <1>19, <2>1, <2>2 DEF Quit, TakeSession, EndSession, Return, GoTo, Read
  <1>20. CASE ServerClose
    <2>1. Gone /\ closing' # "no" /\ past' = opened
      BY <1>20 DEF ServerClose, TakeSession, Forget
    <2> QED BY <2>1 DEF Gone, PastInv
  <1>21. CASE ServerEnds
    <2>1. closing # "no" /\ closing' # "no" /\ UNCHANGED <<pages, within, past>>
      BY <1>21 DEF ServerEnds, EndSession
    <2> QED BY <2>1 DEF PastInv, Old
  <1>22. CASE UNCHANGED vars
    BY <1>22, <1>0, <1>a DEF vars
  <1>23. CASE Exit
    BY <1>23 DEF Exit, PastInv, Old
  <1> QED BY <1>1, <1>2, <1>3, <1>4, <1>5, <1>6, <1>7, <1>8, <1>9, <1>10, <1>11, <1>12,
         <1>13, <1>14, <1>15, <1>16, <1>17, <1>18, <1>19, <1>20, <1>21, <1>22,
         <1>23 DEF Next

\* What was a page, or is one, stays so: a frame that opens is new.
LEMMA PageLikeKept ==
    ASSUME TypeOK, NEW c \in 0 .. MaxContexts, PageLike(c), opened <= opened', opened' \in Nat,
           \A f \in Contexts : f <= opened => within'[f] \in {{}, within[f]}
    PROVE  PageLike(c)'
  <1>1. opened \in Nat /\ c \in Nat /\ (c # 0 => c \in Contexts)
    BY Bounds DEF TypeOK, PagesOK, Contexts
  <1>2. c <= opened'
    BY <1>1 DEF PageLike
  <1>3. c # 0 => within'[c] = {}
    BY <1>1 DEF PageLike
  <1> QED BY <1>2, <1>3 DEF PageLike

\* What the current frame is left for.
LEMMA StepLeaveInv == TypeOK /\ FramesInv /\ LeaveInv /\ [Next]_vars => LeaveInv'
  <1> SUFFICES ASSUME TypeOK, FramesInv, LeaveInv, [Next]_vars PROVE LeaveInv'
    OBVIOUS
  <1> USE DEF browser, owner, current, tables, naming, read, server, ghosts
  <1> DEFINE Grows == /\ opened <= opened' /\ opened' \in Nat
                      /\ \A f \in Contexts : f <= opened => within'[f] \in {{}, within[f]}
  <1>0. ASSUME UNCHANGED <<activeContext, activeFrameParent, closing>>, Grows,
               pageOverride' \in {0, pageOverride},
               pc' = "frame" => pc = "frame" /\ context' = context
        PROVE  LeaveInv'
    <2>1. \A c \in 0 .. MaxContexts : PageLike(c) => PageLike(c)'
      BY <1>0, PageLikeKept
    <2>2. PageLike(0)'
      BY <1>0 DEF PageLike
    <2>3. activeContext <= opened => activeContext' <= opened'
      BY <1>0 DEF TypeOK, PagesOK, RememberedOK
    <2>4. /\ activeContext \in 0 .. MaxContexts /\ activeFrameParent \in 0 .. MaxContexts
          /\ pageOverride \in 0 .. MaxContexts /\ context \in 0 .. MaxContexts
      BY DEF TypeOK, RememberedOK, CallOK
    <2> QED BY <1>0, <2>1, <2>2, <2>3, <2>4 DEF LeaveInv
  <1>a. ASSUME activeContext' = 0, activeFrameParent' = 0, closing' = closing, Grows,
               pageOverride' \in {0, pageOverride}, pc' # "frame"
        PROVE  LeaveInv'
    <2>1. \A c \in 0 .. MaxContexts : PageLike(c) => PageLike(c)'
      BY <1>a, PageLikeKept
    <2>2. PageLike(0)' /\ 0 <= opened' /\ pageOverride \in 0 .. MaxContexts
      BY <1>a DEF PageLike, TypeOK, CallOK
    <2> QED BY <1>a, <2>1, <2>2 DEF LeaveInv
  <1>b. opened \in Nat /\ opened <= opened
    BY Bounds DEF TypeOK, PagesOK
  <1>c. UNCHANGED <<opened, within>> => Grows
    BY <1>b
  <1>d. \A u : NewPage(u) => Grows
    BY <1>b DEF NewPage
  <1>e. \A c : Without(c) /\ UNCHANGED opened => Grows
    BY <1>b DEF Without
  <1>f. Gone /\ UNCHANGED opened => Grows
    BY <1>b DEF Gone
  <1>g. \A t : FirstStep(t) # "frame"
    BY DEF FirstStep
  <1> HIDE DEF Grows
  <1>1. CASE BrowserEvent
    <2>1. UNCHANGED <<current, closing, pageOverride, pc, context>>
      BY <1>1 DEF BrowserEvent
    <2>2. Grows
      <3>1. CASE /\ opened < MaxContexts /\ opened' = opened + 1
                 /\ \E c \in Contexts : within' = [within EXCEPT ![opened'] = {c} \cup within[c]]
        <4>1. \A f \in Contexts : f <= opened => within'[f] = within[f]
          BY <3>1, <1>b DEF TypeOK, PagesOK, Contexts
        <4> QED BY <3>1, <4>1, <1>b DEF Grows
      <3> QED BY <1>1, <3>1, <1>d, <1>e, <1>f DEF BrowserEvent
    <2> QED BY <2>1, <2>2, <1>0
  <1>2. CASE Call
    <2>1. UNCHANGED <<current, closing, opened, within>> /\ pc' # "frame"
      BY <1>2 DEF Call
    <2>2. closing = "no" => PageLike(pageOverride')
      BY <1>2, <1>b DEF Call, IsPage, PageLike, FramesInv, LeaveInv, TypeOK, PagesOK
    <2>3. \A c : PageLike(c) => PageLike(c)'
      BY <2>1 DEF PageLike
    <2> QED BY <2>1, <2>2, <2>3 DEF LeaveInv
  <1>3. CASE Failure
    <2>1. /\ UNCHANGED <<current, closing, opened, within>> /\ pageOverride' \in {0, pageOverride}
          /\ pc' # "frame"
      BY <1>3 DEF Failure, Return, GoTo, Read
    <2> QED BY <2>1, <1>0, <1>c
  <1>4. CASE EnsureBrowser
    <2>1. Grows /\ UNCHANGED closing /\ pageOverride' \in {0, pageOverride} /\ pc' # "frame"
      BY <1>4, <1>c, <1>g DEF EnsureBrowser, Return, GoTo, Read
    <2>2. Forget \/ UNCHANGED current
      BY <1>4 DEF EnsureBrowser, DiscardSession
    <2> QED BY <2>1, <2>2, <1>0, <1>a DEF Forget
  <1>5. CASE Launch
    <2>1. /\ UNCHANGED <<current, closing, opened, within>> /\ pageOverride' \in {0, pageOverride}
          /\ pc' # "frame"
      BY <1>5 DEF Launch, Return, GoTo, Read
    <2> QED BY <2>1, <1>0, <1>c
  <1>6. CASE Connect
    <2>1. Grows
      BY <1>6, <1>c, <1>d DEF Connect
    <2>2. UNCHANGED <<current, closing>> /\ pageOverride' \in {0, pageOverride} /\ pc' # "frame"
      BY <1>6, <1>g DEF Connect, Return, GoTo, Read
    <2> QED BY <2>1, <2>2, <1>0
  <1>7. CASE ResolveSelector
    <2>1. /\ UNCHANGED <<current, closing, opened, within>> /\ pageOverride' \in {0, pageOverride}
          /\ pc' # "frame"
      BY <1>7 DEF ResolveSelector, Return, GoTo, Read
    <2> QED BY <2>1, <1>0, <1>c
  <1>8. CASE GetContext
    <2>1. UNCHANGED <<closing, opened, within>> /\ pageOverride' \in {0, pageOverride}
      BY <1>8 DEF GetContext, Read, Return
    <2>2. \A c : PageLike(c) => PageLike(c)'
      BY <2>1 DEF PageLike
    <2>3. CASE LeavesFrame
      <3>1. activeContext' = activeFrameParent /\ activeFrameParent' = 0 /\ pc' # "frame"
        BY <1>8, <2>3 DEF GetContext, LeavesFrame, Read, Return
      <3>2. PageLike(0) /\ (PageLike(activeFrameParent) => activeFrameParent <= opened)
        BY <1>b DEF PageLike
      <3> QED BY <2>1, <2>2, <3>1, <3>2 DEF LeaveInv
    <2>4. CASE ~LeavesFrame
      <3>1. UNCHANGED current
        BY <1>8, <2>4 DEF GetContext
      <3>2. pc' = "frame" => context' = RefKey
        BY <1>8, <2>4 DEF GetContext, GetContextID, Read, Return
      <3>3. closing = "no" /\ activeFrameParent = 0 => PageLike(RefKey)
        <4>1. PageLike(FirstPage)
          <5>1. CASE pages = {}
            BY <5>1, <1>b DEF PageLike, FirstPage, First
          <5>2. CASE pages # {}
            <6>1. FirstPage \in pages
              BY <5>2, FirstIsOpen DEF TypeOK
            <6> QED BY <6>1, <1>b DEF PageLike, FramesInv, TypeOK, PagesOK
          <5> QED BY <5>1, <5>2
        <4> QED BY <4>1 DEF RefKey, CurrentContext, LeaveInv
      <3>4. PageLike(0)
        BY <1>b DEF PageLike
      <3> QED BY <2>1, <2>2, <3>1, <3>2, <3>3, <3>4 DEF LeaveInv
    <2> QED BY <2>3, <2>4
  <1>9. CASE Act
    <2>1. /\ UNCHANGED <<current, closing, opened, within>> /\ pageOverride' \in {0, pageOverride}
          /\ pc' # "frame"
      BY <1>9 DEF Act, Return, GoTo, Read
    <2> QED BY <2>1, <1>0, <1>c
  <1>10. CASE Frame
    <2>1. PICK f \in Contexts :
              /\ within[f] # {} /\ activeContext' = f
              /\ activeFrameParent' = IF activeFrameParent = 0 THEN context ELSE activeFrameParent
      BY <1>10 DEF Frame
    <2>2. UNCHANGED <<closing, opened, within>> /\ pageOverride' = 0 /\ pc' = "idle" /\ pc = "frame"
      BY <1>10 DEF Frame, Return
    <2>3. \A c : PageLike(c) => PageLike(c)'
      BY <2>2 DEF PageLike
    <2>4. f <= opened /\ PageLike(0)
      BY <2>1, <1>b DEF FramesInv, PageLike
    <2>5. context # 0
      BY <1>10 DEF Frame, TypeOK, PagesOK, Contexts
    <2> QED BY <2>1, <2>2, <2>3, <2>4, <2>5 DEF LeaveInv, Contexts
  <1>11. CASE MapPage
    <2>1. /\ UNCHANGED <<current, closing, opened, within>> /\ pageOverride' \in {0, pageOverride}
          /\ pc' # "frame"
      BY <1>11 DEF MapPage, Return, GoTo, Read
    <2> QED BY <2>1, <1>0, <1>c
  <1>12. CASE SetRefs
    <2>1. /\ UNCHANGED <<current, closing, opened, within>> /\ pageOverride' \in {0, pageOverride}
          /\ pc' # "frame"
      BY <1>12 DEF SetRefs, Return, GoTo, Read
    <2> QED BY <2>1, <1>0, <1>c
  <1>13. CASE DiffMap
    <2>1. /\ UNCHANGED <<current, closing, opened, within>> /\ pageOverride' \in {0, pageOverride}
          /\ pc' # "frame"
      BY <1>13 DEF DiffMap, Return, GoTo, Read
    <2> QED BY <2>1, <1>0, <1>c
  <1>14. CASE OpenNewPage
    <2>1. Grows
      BY <1>14, <1>d DEF OpenNewPage
    <2>2. UNCHANGED <<current, closing, pageOverride>> /\ pc' = "activate"
      BY <1>14 DEF OpenNewPage, Read
    <2> QED BY <2>1, <2>2, <1>0
  <1>15. CASE ListPages
    <2>1. /\ UNCHANGED <<current, closing, opened, within>> /\ pageOverride' \in {0, pageOverride}
          /\ pc' # "frame"
      BY <1>15 DEF ListPages, Return, GoTo, Read
    <2> QED BY <2>1, <1>0, <1>c
  <1>16. CASE Activate
    <2>1. /\ context \in pages /\ activeContext' = context /\ activeFrameParent' = 0
          /\ pageOverride' = 0 /\ pc' = "idle" /\ UNCHANGED <<closing, opened, within>>
      BY <1>16 DEF Activate, IsPage, Return
    <2>2. PageLike(0) /\ PageLike(context) /\ context <= opened
      BY <2>1, <1>b DEF PageLike, FramesInv, TypeOK, PagesOK
    <2>3. \A c : PageLike(c) => PageLike(c)'
      BY <2>1 DEF PageLike
    <2> QED BY <2>1, <2>2, <2>3 DEF LeaveInv
  <1>17. CASE ClosePage
    <2>1. Grows
      BY <1>17, <1>e DEF ClosePage
    <2>2. UNCHANGED closing /\ pageOverride' \in {0, pageOverride} /\ pc' # "frame"
      BY <1>17 DEF ClosePage, Return, Read
    <2>3. \/ UNCHANGED <<activeContext, activeFrameParent>>
          \/ activeContext' = 0 /\ activeFrameParent' = 0
      BY <1>17 DEF ClosePage
    <2> QED BY <2>1, <2>2, <2>3, <1>0, <1>a
  <1>18. CASE RemoveUserContext
    <2>1. UNCHANGED <<opened, current, closing>> /\ pageOverride' = 0 /\ pc' = "idle"
      BY <1>18 DEF RemoveUserContext, Return
    <2> DEFINE P == PagesOf(userOf[context])
    <2>2. \/ within' = within
          \/ within' = [f \in Contexts |-> IF within[f] \cap P # {} THEN {} ELSE within[f]]
      BY <1>18 DEF RemoveUserContext
    <2> HIDE DEF P
    <2>3. Grows
      BY <2>1, <2>2, <1>b DEF Grows
    <2> QED BY <2>1, <2>3, <1>0
  <1>19. CASE Quit
    <2>1. CASE UNCHANGED <<opened, within, current, closing>> /\ pageOverride' = 0 /\ pc' = "idle"
      BY <2>1, <1>0, <1>c
    <2>2. CASE Forget /\ Gone /\ pc' = "end" /\ UNCHANGED <<opened, closing, pageOverride>>
      BY <2>2, <1>a, <1>f DEF Forget
    <2> QED BY <1>19, <2>1, <2>2 DEF Quit, TakeSession, EndSession, Return, GoTo, Read
  <1>20. CASE ServerClose
    BY <1>20 DEF ServerClose, LeaveInv
  <1>21. CASE ServerEnds
    BY <1>21 DEF ServerEnds, LeaveInv
  <1>22. CASE UNCHANGED vars
    BY <1>22, <1>0, <1>c DEF vars
  <1>23. CASE Exit
    BY <1>23 DEF Exit, LeaveInv
  <1> QED BY <1>1, <1>2, <1>3, <1>4, <1>5, <1>6, <1>7, <1>8, <1>9, <1>10, <1>11, <1>12,
         <1>13, <1>14, <1>15, <1>16, <1>17, <1>18, <1>19, <1>20, <1>21, <1>22,
         <1>23 DEF Next

\* Which page the current frame is in, and what close_page leaves.
LEMMA StepStrayInv ==
    TypeOK /\ FramesInv /\ LeaveInv /\ StrayInv /\ [Next]_vars => StrayInv'
  <1> SUFFICES ASSUME TypeOK, FramesInv, LeaveInv, StrayInv, [Next]_vars PROVE StrayInv'
    OBVIOUS
  <1> USE DEF browser, owner, current, tables, naming, read, server, ghosts
  <1> DEFINE Shrinks == \A f \in Contexts : f <= opened => within'[f] \in {{}, within[f]}
  <1>0. ASSUME UNCHANGED <<current, closing>>, Shrinks PROVE StrayInv'
    <2>1. activeContext # 0 /\ closing = "no" =>
              within'[activeContext] \in {{}, within[activeContext]}
      BY <1>0 DEF TypeOK, RememberedOK, LeaveInv, Contexts
    <2> QED BY <1>0, <2>1 DEF StrayInv
  <1>a. ASSUME activeFrameParent' = 0, orphan' = FALSE PROVE StrayInv'
    BY <1>a DEF StrayInv
  <1>b. opened \in Nat
    BY Bounds DEF TypeOK, PagesOK
  <1>c. UNCHANGED within => Shrinks
    OBVIOUS
  <1>d. \A u : NewPage(u) => Shrinks
    BY DEF NewPage
  <1>e. \A c : Without(c) => Shrinks
    BY DEF Without
  <1>f. Gone => Shrinks
    BY DEF Gone
  <1> HIDE DEF Shrinks
  <1>1. CASE BrowserEvent
    <2>1. UNCHANGED <<current, closing>>
      BY <1>1 DEF BrowserEvent
    <2>2. Shrinks
      <3>1. CASE /\ opened' = opened + 1
                 /\ \E c \in Contexts : within' = [within EXCEPT ![opened'] = {c} \cup within[c]]
        BY <3>1, <1>b DEF TypeOK, PagesOK, Contexts, Shrinks
      <3> QED BY <1>1, <3>1, <1>d, <1>e, <1>f, <1>c DEF BrowserEvent
    <2> QED BY <2>1, <2>2, <1>0
  <1>2. CASE Call
    <2>1. UNCHANGED <<current, closing, within>>
      BY <1>2 DEF Call
    <2> QED BY <2>1, <1>0, <1>c
  <1>3. CASE Failure
    <2>1. UNCHANGED <<current, closing, within>>
      BY <1>3 DEF Failure
    <2> QED BY <2>1, <1>0, <1>c
  <1>4. CASE EnsureBrowser
    <2>1. UNCHANGED <<within, closing>> /\ (Forget \/ UNCHANGED current)
      BY <1>4 DEF EnsureBrowser, DiscardSession
    <2> QED BY <2>1, <1>0, <1>a, <1>c DEF Forget
  <1>5. CASE Launch
    <2>1. UNCHANGED <<current, closing, within>>
      BY <1>5 DEF Launch
    <2> QED BY <2>1, <1>0, <1>c
  <1>6. CASE Connect
    <2>1. UNCHANGED <<current, closing>> /\ Shrinks
      BY <1>6, <1>c, <1>d DEF Connect
    <2> QED BY <2>1, <1>0
  <1>7. CASE ResolveSelector
    <2>1. UNCHANGED <<current, closing, within>>
      BY <1>7 DEF ResolveSelector
    <2> QED BY <2>1, <1>0, <1>c
  <1>8. CASE GetContext
    <2>1. UNCHANGED <<closing, within>>
      BY <1>8 DEF GetContext
    <2>2. \/ UNCHANGED current
          \/ activeFrameParent' = 0 /\ orphan' = FALSE
      BY <1>8 DEF GetContext
    <2> QED BY <2>1, <2>2, <1>0, <1>a, <1>c
  <1>9. CASE Act
    <2>1. UNCHANGED <<current, closing, within>>
      BY <1>9 DEF Act
    <2> QED BY <2>1, <1>0, <1>c
  <1>10. CASE Frame
    <2>1. PICK f \in Contexts :
              /\ activeContext' = f /\ astray' = (activeFrameParent' \notin within[f])
      BY <1>10 DEF Frame
    <2>2. UNCHANGED within /\ orphan' = FALSE
      BY <1>10 DEF Frame
    <2> QED BY <2>1, <2>2, TypeOK DEF StrayInv, FlagsOK, TypeOK, PagesOK
  <1>11. CASE MapPage
    <2>1. UNCHANGED <<current, closing, within>>
      BY <1>11 DEF MapPage
    <2> QED BY <2>1, <1>0, <1>c
  <1>12. CASE SetRefs
    <2>1. UNCHANGED <<current, closing, within>>
      BY <1>12 DEF SetRefs
    <2> QED BY <2>1, <1>0, <1>c
  <1>13. CASE DiffMap
    <2>1. UNCHANGED <<current, closing, within>>
      BY <1>13 DEF DiffMap
    <2> QED BY <2>1, <1>0, <1>c
  <1>14. CASE OpenNewPage
    <2>1. UNCHANGED <<current, closing>> /\ Shrinks
      BY <1>14, <1>d DEF OpenNewPage
    <2> QED BY <2>1, <1>0
  <1>15. CASE ListPages
    <2>1. UNCHANGED <<current, closing, within>>
      BY <1>15 DEF ListPages
    <2> QED BY <2>1, <1>0, <1>c
  <1>16. CASE Activate
    BY <1>16, <1>a DEF Activate
  <1>17. CASE ClosePage
    <2>0. /\ UNCHANGED closing
          /\ \/ UNCHANGED current
             \/ activeFrameParent' = 0 /\ orphan' = FALSE
             \/ \E c \in pages :
                   /\ activeContext # c /\ activeFrameParent # c
                   /\ UNCHANGED <<activeContext, activeFrameParent, astray>>
                   /\ orphan' = \/ orphan
                                \/ \E d \in {activeContext, activeFrameParent} \ {0} :
                                      d = c \/ c \in within[d]
      BY <1>17 DEF ClosePage, IsPage, ClosesCurrent
    <2>1. Shrinks
      BY <1>17, <1>e DEF ClosePage
    <2>2. ASSUME NEW c \in pages, activeContext # c, activeFrameParent # c,
                 UNCHANGED <<activeContext, activeFrameParent, astray, closing>>,
                 orphan' = \/ orphan
                           \/ \E d \in {activeContext, activeFrameParent} \ {0} :
                                 d = c \/ c \in within[d]
          PROVE  StrayInv'
      <3> SUFFICES ASSUME closing = "no"
                   PROVE  /\ activeFrameParent # 0 /\ activeContext # 0 =>
                                \/ astray \/ within'[activeContext] = {}
                                \/ activeFrameParent \in within'[activeContext]
                          /\ orphan' => astray
        BY <2>2 DEF StrayInv
      <3>1. activeContext # 0 => /\ activeContext \in Contexts /\ activeContext <= opened
        BY DEF TypeOK, RememberedOK, LeaveInv, Contexts
      <3>2. activeContext # 0 => within'[activeContext] \in {{}, within[activeContext]}
        BY <2>1, <3>1 DEF Shrinks
      <3>3. PageLike(activeFrameParent) /\ (activeFrameParent = 0 => PageLike(activeContext))
        BY DEF LeaveInv
      <3>4. c \in within[activeContext] /\ activeContext # 0 => astray
        <4> SUFFICES ASSUME c \in within[activeContext], activeContext # 0, ~astray PROVE FALSE
          OBVIOUS
        <4>1. activeFrameParent # 0
          BY <3>3 DEF PageLike
        <4>2. activeFrameParent \in within[activeContext]
          BY <4>1, <2>2 DEF StrayInv
        <4>3. within[activeFrameParent] = {}
          BY <3>3, <4>1 DEF PageLike
        <4>4. activeFrameParent \in pages
          BY <3>1, <4>2, <4>3 DEF FramesInv, IsOpen, IsPage
        <4> QED BY <2>2, <3>1, <4>2, <4>4 DEF FramesInv
      <3>5. activeFrameParent # 0 => c \notin within[activeFrameParent]
        BY <3>3 DEF PageLike
      <3>6. orphan' => astray
        <4>1. orphan' => orphan \/ \E d \in {activeContext, activeFrameParent} \ {0} :
                                      d = c \/ c \in within[d]
          BY <2>2, Zenon
        <4>2. orphan => astray
          BY DEF StrayInv
        <4>3. ASSUME NEW d \in {activeContext, activeFrameParent} \ {0}, d = c \/ c \in within[d]
              PROVE  astray
          BY <4>3, <2>2, <3>4, <3>5
        <4> QED BY <4>1, <4>2, <4>3, Zenon
      <3> QED BY <3>2, <3>6 DEF StrayInv
    <2> QED BY <2>0, <2>1, <2>2, <1>0, <1>a
  <1>18. CASE RemoveUserContext
    <2>1. UNCHANGED <<current, closing>>
      BY <1>18 DEF RemoveUserContext
    <2> DEFINE P == PagesOf(userOf[context])
    <2>2. \/ within' = within
          \/ within' = [f \in Contexts |-> IF within[f] \cap P # {} THEN {} ELSE within[f]]
      BY <1>18 DEF RemoveUserContext
    <2> HIDE DEF P
    <2>3. Shrinks
      BY <2>2 DEF Shrinks
    <2> QED BY <2>1, <2>3, <1>0
  <1>19. CASE Quit
    <2>1. CASE UNCHANGED <<within, current, closing>>
      BY <2>1, <1>0, <1>c
    <2>2. CASE Forget
      BY <2>2, <1>a DEF Forget
    <2> QED BY <1>19, <2>1, <2>2 DEF Quit, TakeSession, EndSession
  <1>20. CASE ServerClose
    BY <1>20 DEF ServerClose, StrayInv
  <1>21. CASE ServerEnds
    BY <1>21 DEF ServerEnds, StrayInv
  <1>22. CASE UNCHANGED vars
    BY <1>22, <1>0, <1>c DEF vars
  <1>23. CASE Exit
    BY <1>23 DEF Exit, StrayInv
  <1> QED BY <1>1, <1>2, <1>3, <1>4, <1>5, <1>6, <1>7, <1>8, <1>9, <1>10, <1>11, <1>12,
         <1>13, <1>14, <1>15, <1>16, <1>17, <1>18, <1>19, <1>20, <1>21, <1>22,
         <1>23 DEF Next

\* However calls, the browser, a failure at any step and the server's Close interleave: what
\* was started has someone to end it while the server runs; and an exit after the Close leaves
\* only what that Close did not wait for, a launch under way or begun since and what
\* browserQuit was ending.
THEOREM NothingIsLeaked == Spec => []NothingLeaks
  <1> DEFINE IInv == TypeOK /\ OwnerInv /\ Accounted
  <1>1. Init => IInv
    BY InitTypeOK DEF Init, OwnerInv, Accounted, Remote, Closers
  <1>2. IInv /\ [Next]_vars => IInv'
    BY StepTypeOK, StepOwnerInv, StepAccounted
  <1>3. IInv => NothingLeaks
    <2> SUFFICES ASSUME TypeOK, OwnerInv, Accounted, closing = "exited"
                 PROVE  running \subseteq dropped \cup late \cup taken["tool"]
      BY DEF NothingLeaks
    <2>1. ({launchResult} \ {0}) \cup Remote \subseteq late \cup dropped
      BY DEF OwnerInv
    <2>2. (pc = "connect" => launched \in late) /\ taken["server"] = {}
      BY DEF OwnerInv
    <2>3. 0 \notin running
      BY Bounds DEF TypeOK, LaunchesOK, Launches
    <2> QED BY <2>1, <2>2, <2>3 DEF Accounted
  <1> QED BY <1>1, <1>2, <1>3, PTL DEF Spec

\* A pinned call acts on its page and no other, whatever opens, closes or is torn down
\* between its steps; and a reference is used on the page it was minted on.
THEOREM CallsActWhereTold == Spec => []ActsWhereTold
  <1> DEFINE IInv == TypeOK /\ PinInv /\ TargetInv /\ ActsWhereTold
  <1>1. Init => IInv
    BY InitTypeOK DEF Init, PinInv, TargetInv, ActsWhereTold, NoCall
  <1>2. IInv /\ [Next]_vars => IInv'
    BY StepTypeOK, StepPinInv, StepTargetInv, StepActsWhereTold
  <1> QED BY <1>1, <1>2, PTL DEF Spec

\* Nothing of a lost browser is remembered, and close_page leaves no closed page or frame
\* current, for any number of pages, frames, browsers and events.
THEOREM TheCurrentIsAlive == Spec => []CurrentIsAlive
  <1> DEFINE IInv == TypeOK /\ FramesInv /\ PastInv /\ LeaveInv /\ StrayInv
  <1>1. Init => IInv
    <2> SUFFICES ASSUME Init PROVE FramesInv /\ PastInv /\ LeaveInv /\ StrayInv
      BY InitTypeOK
    <2> USE Bounds DEF Init, Contexts
    <2>1. FramesInv
      BY DEF FramesInv
    <2>2. PastInv
      BY DEF PastInv, Old
    <2>3. LeaveInv
      BY DEF LeaveInv, PageLike
    <2>4. StrayInv
      BY DEF StrayInv
    <2> QED BY <2>1, <2>2, <2>3, <2>4
  <1>2. IInv /\ [Next]_vars => IInv'
    BY StepTypeOK, StepFramesInv, StepPastInv, StepLeaveInv, StepStrayInv
  <1>3. IInv => CurrentIsAlive
    <2> SUFFICES ASSUME IInv, pc = "idle", closing = "no" PROVE CurrentIsAlive
      BY DEF CurrentIsAlive
    <2>1. \A c \in 1 .. past : refMaps[c] = 0
      BY DEF PastInv, Old
    <2>2. ownedUserContexts \cap 1 .. past = {}
      BY DEF PastInv, Old
    <2>3. {activeContext, activeFrameParent} \cap 1 .. past = {}
      BY DEF PastInv, Old
    <2> QED BY <2>1, <2>2, <2>3 DEF CurrentIsAlive, StrayInv
  <1> QED BY <1>1, <1>2, <1>3, PTL DEF Spec
=============================================================================
