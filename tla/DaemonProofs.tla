---------------------------- MODULE DaemonProofs ----------------------------
(* Theorems about the daemon: DaemonLifecycle, for any processes and any number of *)
(* crashes, and DaemonServer, for any connections. *)
EXTENDS DaemonLifecycle, DaemonPromise, TLAPS

\* Kinds of processes.
LEMMA Processes ==
    /\ Callers \cap Stoppers = {} /\ Daemons \cap Clients = {} /\ None \notin Daemons
    /\ Clients = Callers \cup Stoppers /\ MaxCrashes \in Nat
  BY DaemonAssumption DEF Clients

\* Every variable keeps its type.
LEMMA StepTypeOK ==
    ASSUME TypeOK, [Next]_vars PROVE TypeOK'
  <1> USE Processes DEF Goto, files, TypeOK, DaemonPhases, ClientPhases, ProcessExists
  <1>1. ASSUME NEW p \in Daemons, CleanRead(p) PROVE TypeOK'
    BY <1>1 DEF CleanRead, IsStale, AfterClean
  <1>2. ASSUME NEW p \in Daemons, CleanPid(p) PROVE TypeOK'
    BY <1>2 DEF CleanPid
  <1>3. ASSUME NEW p \in Daemons, CleanSocket(p) PROVE TypeOK'
    BY <1>3 DEF CleanSocket, AfterClean
  <1>4. ASSUME NEW p \in Daemons, CheckPid(p) PROVE TypeOK'
    BY <1>4 DEF CheckPid
  <1>5. ASSUME NEW p \in Daemons, CheckSocket(p) PROVE TypeOK'
    BY <1>5 DEF CheckSocket, Connectable
  <1>6. ASSUME NEW p \in Daemons, RemoveOldSocket(p) PROVE TypeOK'
    BY <1>6 DEF RemoveOldSocket, SocketAfterRemove
  <1>7. ASSUME NEW p \in Daemons, Listen(p) PROVE TypeOK'
    BY <1>7 DEF Listen
  <1>8. ASSUME NEW p \in Daemons, WritePID(p) PROVE TypeOK'
    BY <1>8 DEF WritePID
  <1>9. ASSUME NEW p \in Daemons, Accept(p) PROVE TypeOK'
    BY <1>9 DEF Accept
  <1>10. ASSUME NEW p \in Daemons, ShutdownListener(p) PROVE TypeOK'
    BY <1>10 DEF ShutdownListener
  <1>11. ASSUME NEW p \in Daemons, ShutdownBrowser(p) PROVE TypeOK'
    BY <1>11 DEF ShutdownBrowser
  <1>12. ASSUME NEW p \in Daemons, ShutdownSocket(p) PROVE TypeOK'
    BY <1>12 DEF ShutdownSocket
  <1>13. ASSUME NEW p \in Daemons, ShutdownPid(p) PROVE TypeOK'
    BY <1>13 DEF ShutdownPid
  <1>14. ASSUME NEW p \in Daemons, Crash(p) PROVE TypeOK'
    BY <1>14 DEF Crash
  <1>15. ASSUME NEW c \in Clients, Begin(c) PROVE TypeOK'
    BY <1>15 DEF Begin
  <1>16. ASSUME NEW c \in Callers, CleanRead(c) PROVE TypeOK'
    BY <1>16 DEF CleanRead, IsStale, AfterClean
  <1>17. ASSUME NEW c \in Callers, CleanPid(c) PROVE TypeOK'
    BY <1>17 DEF CleanPid
  <1>18. ASSUME NEW c \in Callers, CleanSocket(c) PROVE TypeOK'
    BY <1>18 DEF CleanSocket, AfterClean
  <1>19. ASSUME NEW c \in Callers, Call(c) PROVE TypeOK'
    BY <1>19 DEF Call, Connectable
  <1>20. ASSUME NEW c \in Callers, Spawn(c) PROVE TypeOK'
    BY <1>20 DEF Spawn
  <1>21. ASSUME NEW c \in Callers, Poll(c) PROVE TypeOK'
    BY <1>21 DEF Poll, PollExpires, Connectable
  <1>22. ASSUME NEW c \in Callers, Answer(c) PROVE TypeOK'
    BY <1>22 DEF Answer
  <1>23. ASSUME NEW c \in Callers, Reset(c) PROVE TypeOK'
    BY <1>23 DEF Reset
  <1>24. ASSUME NEW c \in Stoppers, CheckPid(c) PROVE TypeOK'
    BY <1>24 DEF CheckPid
  <1>25. ASSUME NEW c \in Stoppers, CheckSocket(c) PROVE TypeOK'
    BY <1>25 DEF CheckSocket, Connectable
  <1>26. ASSUME NEW c \in Stoppers, StopReadPid(c) PROVE TypeOK'
    BY <1>26 DEF StopReadPid
  <1>27. ASSUME NEW c \in Stoppers, StopAsk(c) PROVE TypeOK'
    BY <1>27 DEF StopAsk, Connectable
  <1>28. ASSUME NEW c \in Stoppers, StopReturn(c) PROVE TypeOK'
    BY <1>28 DEF StopReturn, StopMayReturn
  <1>29. ASSUME NEW c \in Stoppers, StopGivesUp(c) PROVE TypeOK'
    BY <1>29 DEF StopGivesUp
  <1>30. CASE UNCHANGED vars
    BY <1>30 DEF vars
  <1> QED BY <1>1, <1>2, <1>3, <1>4, <1>5, <1>6, <1>7, <1>8, <1>9, <1>10, <1>11, <1>12,
      <1>13, <1>14, <1>15, <1>16, <1>17, <1>18, <1>19, <1>20, <1>21, <1>22, <1>23, <1>24,
      <1>25, <1>26, <1>27, <1>28, <1>29, <1>30 DEF Next, CleanStep, DaemonStep, CallerStep,
      StopperStep
\* There is one daemon, and one command.
LEMMA StepOneAtATime ==
    ASSUME Sequential, ~IdleTimeout, TypeOK, SequentialInv, [Next]_vars,
           NobodyGaveUp'
    PROVE  OneAtATime'
  <1> USE Processes DEF Goto, files, TypeOK, DaemonPhases, ClientPhases, ProcessExists,
      Listening, Starting, Running, Ended, SequentialInv, OneAtATime, Attended, FilesInv
  <1>1. ASSUME NEW p \in Daemons, CleanRead(p) PROVE OneAtATime'
    BY <1>1 DEF CleanRead, IsStale, AfterClean
  <1>2. ASSUME NEW p \in Daemons, CleanPid(p) PROVE OneAtATime'
    BY <1>2 DEF CleanPid
  <1>3. ASSUME NEW p \in Daemons, CleanSocket(p) PROVE OneAtATime'
    BY <1>3 DEF CleanSocket, AfterClean
  <1>4. ASSUME NEW p \in Daemons, CheckPid(p) PROVE OneAtATime'
    BY <1>4 DEF CheckPid
  <1>5. ASSUME NEW p \in Daemons, CheckSocket(p) PROVE OneAtATime'
    BY <1>5 DEF CheckSocket, Connectable
  <1>6. ASSUME NEW p \in Daemons, RemoveOldSocket(p) PROVE OneAtATime'
    BY <1>6 DEF RemoveOldSocket, SocketAfterRemove
  <1>7. ASSUME NEW p \in Daemons, Listen(p) PROVE OneAtATime'
    BY <1>7 DEF Listen
  <1>8. ASSUME NEW p \in Daemons, WritePID(p) PROVE OneAtATime'
    BY <1>8 DEF WritePID
  <1>9. ASSUME NEW p \in Daemons, Accept(p) PROVE OneAtATime'
    BY <1>9 DEF Accept
  <1>10. ASSUME NEW p \in Daemons, ShutdownListener(p) PROVE OneAtATime'
    BY <1>10 DEF ShutdownListener
  <1>11. ASSUME NEW p \in Daemons, ShutdownBrowser(p) PROVE OneAtATime'
    BY <1>11 DEF ShutdownBrowser
  <1>12. ASSUME NEW p \in Daemons, ShutdownSocket(p) PROVE OneAtATime'
    BY <1>12 DEF ShutdownSocket
  <1>13. ASSUME NEW p \in Daemons, ShutdownPid(p) PROVE OneAtATime'
    BY <1>13 DEF ShutdownPid
  <1>14. ASSUME NEW p \in Daemons, Crash(p) PROVE OneAtATime'
    BY <1>14 DEF Crash
  <1>15. ASSUME NEW c \in Clients, Begin(c) PROVE OneAtATime'
    BY <1>15 DEF Begin
  <1>16. ASSUME NEW c \in Callers, CleanRead(c) PROVE OneAtATime'
    BY <1>16 DEF CleanRead, IsStale, AfterClean
  <1>17. ASSUME NEW c \in Callers, CleanPid(c) PROVE OneAtATime'
    BY <1>17 DEF CleanPid
  <1>18. ASSUME NEW c \in Callers, CleanSocket(c) PROVE OneAtATime'
    BY <1>18 DEF CleanSocket, AfterClean
  <1>19. ASSUME NEW c \in Callers, Call(c) PROVE OneAtATime'
    BY <1>19 DEF Call, Connectable
  <1>20. ASSUME NEW c \in Callers, Spawn(c) PROVE OneAtATime'
    BY <1>20 DEF Spawn
  <1>21. ASSUME NEW c \in Callers, Poll(c) PROVE OneAtATime'
    BY <1>21 DEF Poll, PollExpires, Connectable
  <1>22. ASSUME NEW c \in Callers, Answer(c) PROVE OneAtATime'
    BY <1>22 DEF Answer
  <1>23. ASSUME NEW c \in Callers, Reset(c) PROVE OneAtATime'
    BY <1>23 DEF Reset
  <1>24. ASSUME NEW c \in Stoppers, CheckPid(c) PROVE OneAtATime'
    BY <1>24 DEF CheckPid
  <1>25. ASSUME NEW c \in Stoppers, CheckSocket(c) PROVE OneAtATime'
    BY <1>25 DEF CheckSocket, Connectable
  <1>26. ASSUME NEW c \in Stoppers, StopReadPid(c) PROVE OneAtATime'
    BY <1>26 DEF StopReadPid
  <1>27. ASSUME NEW c \in Stoppers, StopAsk(c) PROVE OneAtATime'
    BY <1>27 DEF StopAsk, Connectable
  <1>28. ASSUME NEW c \in Stoppers, StopReturn(c) PROVE OneAtATime'
    BY <1>28 DEF StopReturn, StopMayReturn
  <1>29. ASSUME NEW c \in Stoppers, StopGivesUp(c) PROVE OneAtATime'
    BY <1>29 DEF StopGivesUp, NobodyGaveUp
  <1>30. CASE UNCHANGED vars
    BY <1>30 DEF vars
  <1> QED BY <1>1, <1>2, <1>3, <1>4, <1>5, <1>6, <1>7, <1>8, <1>9, <1>10, <1>11, <1>12,
      <1>13, <1>14, <1>15, <1>16, <1>17, <1>18, <1>19, <1>20, <1>21, <1>22, <1>23, <1>24,
      <1>25, <1>26, <1>27, <1>28, <1>29, <1>30 DEF Next, CleanStep, DaemonStep, CallerStep,
      StopperStep

\* Daemons that come and go are waited for.
LEMMA StepAttended ==
    ASSUME Sequential, ~IdleTimeout, TypeOK, SequentialInv, [Next]_vars,
           NobodyGaveUp'
    PROVE  Attended'
  <1> USE Processes DEF Goto, files, TypeOK, DaemonPhases, ClientPhases, ProcessExists,
      Listening, Starting, Running, Ended, SequentialInv, OneAtATime, Attended, FilesInv,
      StopperInv
  <1>1. ASSUME NEW p \in Daemons, CleanRead(p) PROVE Attended'
    BY <1>1 DEF CleanRead, IsStale, AfterClean
  <1>2. ASSUME NEW p \in Daemons, CleanPid(p) PROVE Attended'
    BY <1>2 DEF CleanPid
  <1>3. ASSUME NEW p \in Daemons, CleanSocket(p) PROVE Attended'
    BY <1>3 DEF CleanSocket, AfterClean
  <1>4. ASSUME NEW p \in Daemons, CheckPid(p) PROVE Attended'
    BY <1>4 DEF CheckPid
  <1>5. ASSUME NEW p \in Daemons, CheckSocket(p) PROVE Attended'
    BY <1>5 DEF CheckSocket, Connectable
  <1>6. ASSUME NEW p \in Daemons, RemoveOldSocket(p) PROVE Attended'
    BY <1>6 DEF RemoveOldSocket, SocketAfterRemove
  <1>7. ASSUME NEW p \in Daemons, Listen(p) PROVE Attended'
    BY <1>7 DEF Listen
  <1>8. ASSUME NEW p \in Daemons, WritePID(p) PROVE Attended'
    BY <1>8 DEF WritePID
  <1>9. ASSUME NEW p \in Daemons, Accept(p) PROVE Attended'
    BY <1>9 DEF Accept
  <1>10. ASSUME NEW p \in Daemons, ShutdownListener(p) PROVE Attended'
    BY <1>10 DEF ShutdownListener
  <1>11. ASSUME NEW p \in Daemons, ShutdownBrowser(p) PROVE Attended'
    BY <1>11 DEF ShutdownBrowser
  <1>12. ASSUME NEW p \in Daemons, ShutdownSocket(p) PROVE Attended'
    BY <1>12 DEF ShutdownSocket
  <1>13. ASSUME NEW p \in Daemons, ShutdownPid(p) PROVE Attended'
    BY <1>13 DEF ShutdownPid
  <1>14. ASSUME NEW p \in Daemons, Crash(p) PROVE Attended'
    BY <1>14 DEF Crash
  <1>15. ASSUME NEW c \in Clients, Begin(c) PROVE Attended'
    BY <1>15 DEF Begin
  <1>16. ASSUME NEW c \in Callers, CleanRead(c) PROVE Attended'
    BY <1>16 DEF CleanRead, IsStale, AfterClean
  <1>17. ASSUME NEW c \in Callers, CleanPid(c) PROVE Attended'
    BY <1>17 DEF CleanPid
  <1>18. ASSUME NEW c \in Callers, CleanSocket(c) PROVE Attended'
    BY <1>18 DEF CleanSocket, AfterClean
  <1>19. ASSUME NEW c \in Callers, Call(c) PROVE Attended'
    BY <1>19 DEF Call, Connectable
  <1>20. ASSUME NEW c \in Callers, Spawn(c) PROVE Attended'
    BY <1>20 DEF Spawn
  <1>21. ASSUME NEW c \in Callers, Poll(c) PROVE Attended'
    BY <1>21 DEF Poll, PollExpires, Connectable
  <1>22. ASSUME NEW c \in Callers, Answer(c) PROVE Attended'
    BY <1>22 DEF Answer
  <1>23. ASSUME NEW c \in Callers, Reset(c) PROVE Attended'
    BY <1>23 DEF Reset
  <1>24. ASSUME NEW c \in Stoppers, CheckPid(c) PROVE Attended'
    BY <1>24 DEF CheckPid
  <1>25. ASSUME NEW c \in Stoppers, CheckSocket(c) PROVE Attended'
    BY <1>25 DEF CheckSocket, Connectable
  <1>26. ASSUME NEW c \in Stoppers, StopReadPid(c) PROVE Attended'
    BY <1>26 DEF StopReadPid
  <1>27. ASSUME NEW c \in Stoppers, StopAsk(c) PROVE Attended'
    BY <1>27 DEF StopAsk, Connectable
  <1>28. ASSUME NEW c \in Stoppers, StopReturn(c) PROVE Attended'
    BY <1>28 DEF StopReturn, StopMayReturn
  <1>29. ASSUME NEW c \in Stoppers, StopGivesUp(c) PROVE Attended'
    BY <1>29 DEF StopGivesUp, NobodyGaveUp
  <1>30. CASE UNCHANGED vars
    BY <1>30 DEF vars
  <1> QED BY <1>1, <1>2, <1>3, <1>4, <1>5, <1>6, <1>7, <1>8, <1>9, <1>10, <1>11, <1>12,
      <1>13, <1>14, <1>15, <1>16, <1>17, <1>18, <1>19, <1>20, <1>21, <1>22, <1>23, <1>24,
      <1>25, <1>26, <1>27, <1>28, <1>29, <1>30 DEF Next, CleanStep, DaemonStep, CallerStep,
      StopperStep

\* A daemon's files.
LEMMA StepFilesInv ==
    ASSUME Sequential, ~IdleTimeout, TypeOK, SequentialInv, [Next]_vars,
           NobodyGaveUp'
    PROVE  FilesInv'
  <1> USE Processes DEF Goto, files, TypeOK, DaemonPhases, ClientPhases, ProcessExists,
      Listening, Starting, Running, Ended, SequentialInv, OneAtATime, Attended, FilesInv
  <1>1. ASSUME NEW p \in Daemons, CleanRead(p) PROVE FilesInv'
    BY <1>1 DEF CleanRead, IsStale, AfterClean
  <1>2. ASSUME NEW p \in Daemons, CleanPid(p) PROVE FilesInv'
    BY <1>2 DEF CleanPid
  <1>3. ASSUME NEW p \in Daemons, CleanSocket(p) PROVE FilesInv'
    BY <1>3 DEF CleanSocket, AfterClean
  <1>4. ASSUME NEW p \in Daemons, CheckPid(p) PROVE FilesInv'
    BY <1>4 DEF CheckPid
  <1>5. ASSUME NEW p \in Daemons, CheckSocket(p) PROVE FilesInv'
    BY <1>5 DEF CheckSocket, Connectable
  <1>6. ASSUME NEW p \in Daemons, RemoveOldSocket(p) PROVE FilesInv'
    BY <1>6 DEF RemoveOldSocket, SocketAfterRemove
  <1>7. ASSUME NEW p \in Daemons, Listen(p) PROVE FilesInv'
    BY <1>7 DEF Listen
  <1>8. ASSUME NEW p \in Daemons, WritePID(p) PROVE FilesInv'
    BY <1>8 DEF WritePID
  <1>9. ASSUME NEW p \in Daemons, Accept(p) PROVE FilesInv'
    BY <1>9 DEF Accept
  <1>10. ASSUME NEW p \in Daemons, ShutdownListener(p) PROVE FilesInv'
    BY <1>10 DEF ShutdownListener
  <1>11. ASSUME NEW p \in Daemons, ShutdownBrowser(p) PROVE FilesInv'
    BY <1>11 DEF ShutdownBrowser
  <1>12. ASSUME NEW p \in Daemons, ShutdownSocket(p) PROVE FilesInv'
    BY <1>12 DEF ShutdownSocket
  <1>13. ASSUME NEW p \in Daemons, ShutdownPid(p) PROVE FilesInv'
    BY <1>13 DEF ShutdownPid
  <1>14. ASSUME NEW p \in Daemons, Crash(p) PROVE FilesInv'
    BY <1>14 DEF Crash
  <1>15. ASSUME NEW c \in Clients, Begin(c) PROVE FilesInv'
    BY <1>15 DEF Begin
  <1>16. ASSUME NEW c \in Callers, CleanRead(c) PROVE FilesInv'
    BY <1>16 DEF CleanRead, IsStale, AfterClean
  <1>17. ASSUME NEW c \in Callers, CleanPid(c) PROVE FilesInv'
    BY <1>17 DEF CleanPid
  <1>18. ASSUME NEW c \in Callers, CleanSocket(c) PROVE FilesInv'
    BY <1>18 DEF CleanSocket, AfterClean
  <1>19. ASSUME NEW c \in Callers, Call(c) PROVE FilesInv'
    BY <1>19 DEF Call, Connectable
  <1>20. ASSUME NEW c \in Callers, Spawn(c) PROVE FilesInv'
    BY <1>20 DEF Spawn
  <1>21. ASSUME NEW c \in Callers, Poll(c) PROVE FilesInv'
    BY <1>21 DEF Poll, PollExpires, Connectable
  <1>22. ASSUME NEW c \in Callers, Answer(c) PROVE FilesInv'
    BY <1>22 DEF Answer
  <1>23. ASSUME NEW c \in Callers, Reset(c) PROVE FilesInv'
    BY <1>23 DEF Reset
  <1>24. ASSUME NEW c \in Stoppers, CheckPid(c) PROVE FilesInv'
    BY <1>24 DEF CheckPid
  <1>25. ASSUME NEW c \in Stoppers, CheckSocket(c) PROVE FilesInv'
    BY <1>25 DEF CheckSocket, Connectable
  <1>26. ASSUME NEW c \in Stoppers, StopReadPid(c) PROVE FilesInv'
    BY <1>26 DEF StopReadPid
  <1>27. ASSUME NEW c \in Stoppers, StopAsk(c) PROVE FilesInv'
    BY <1>27 DEF StopAsk, Connectable
  <1>28. ASSUME NEW c \in Stoppers, StopReturn(c) PROVE FilesInv'
    BY <1>28 DEF StopReturn, StopMayReturn
  <1>29. ASSUME NEW c \in Stoppers, StopGivesUp(c) PROVE FilesInv'
    BY <1>29 DEF StopGivesUp, NobodyGaveUp
  <1>30. CASE UNCHANGED vars
    BY <1>30 DEF vars
  <1> QED BY <1>1, <1>2, <1>3, <1>4, <1>5, <1>6, <1>7, <1>8, <1>9, <1>10, <1>11, <1>12,
      <1>13, <1>14, <1>15, <1>16, <1>17, <1>18, <1>19, <1>20, <1>21, <1>22, <1>23, <1>24,
      <1>25, <1>26, <1>27, <1>28, <1>29, <1>30 DEF Next, CleanStep, DaemonStep, CallerStep,
      StopperStep

\* What callers wait for.
LEMMA StepCallerInv ==
    ASSUME Sequential, ~IdleTimeout, TypeOK, SequentialInv, [Next]_vars,
           NobodyGaveUp'
    PROVE  CallerInv'
  <1> USE Processes DEF Goto, files, TypeOK, DaemonPhases, ClientPhases, ProcessExists,
      Listening, Starting, Running, Ended, SequentialInv, OneAtATime, Attended, FilesInv,
      CallerInv
  <1>1. ASSUME NEW p \in Daemons, CleanRead(p) PROVE CallerInv'
    BY <1>1 DEF CleanRead, IsStale, AfterClean
  <1>2. ASSUME NEW p \in Daemons, CleanPid(p) PROVE CallerInv'
    BY <1>2 DEF CleanPid
  <1>3. ASSUME NEW p \in Daemons, CleanSocket(p) PROVE CallerInv'
    BY <1>3 DEF CleanSocket, AfterClean
  <1>4. ASSUME NEW p \in Daemons, CheckPid(p) PROVE CallerInv'
    BY <1>4 DEF CheckPid
  <1>5. ASSUME NEW p \in Daemons, CheckSocket(p) PROVE CallerInv'
    BY <1>5 DEF CheckSocket, Connectable
  <1>6. ASSUME NEW p \in Daemons, RemoveOldSocket(p) PROVE CallerInv'
    BY <1>6 DEF RemoveOldSocket, SocketAfterRemove
  <1>7. ASSUME NEW p \in Daemons, Listen(p) PROVE CallerInv'
    BY <1>7 DEF Listen
  <1>8. ASSUME NEW p \in Daemons, WritePID(p) PROVE CallerInv'
    BY <1>8 DEF WritePID
  <1>9. ASSUME NEW p \in Daemons, Accept(p) PROVE CallerInv'
    BY <1>9 DEF Accept
  <1>10. ASSUME NEW p \in Daemons, ShutdownListener(p) PROVE CallerInv'
    BY <1>10 DEF ShutdownListener
  <1>11. ASSUME NEW p \in Daemons, ShutdownBrowser(p) PROVE CallerInv'
    BY <1>11 DEF ShutdownBrowser
  <1>12. ASSUME NEW p \in Daemons, ShutdownSocket(p) PROVE CallerInv'
    BY <1>12 DEF ShutdownSocket
  <1>13. ASSUME NEW p \in Daemons, ShutdownPid(p) PROVE CallerInv'
    BY <1>13 DEF ShutdownPid
  <1>14. ASSUME NEW p \in Daemons, Crash(p) PROVE CallerInv'
    BY <1>14 DEF Crash
  <1>15. ASSUME NEW c \in Clients, Begin(c) PROVE CallerInv'
    BY <1>15 DEF Begin
  <1>16. ASSUME NEW c \in Callers, CleanRead(c) PROVE CallerInv'
    BY <1>16 DEF CleanRead, IsStale, AfterClean
  <1>17. ASSUME NEW c \in Callers, CleanPid(c) PROVE CallerInv'
    BY <1>17 DEF CleanPid
  <1>18. ASSUME NEW c \in Callers, CleanSocket(c) PROVE CallerInv'
    BY <1>18 DEF CleanSocket, AfterClean
  <1>19. ASSUME NEW c \in Callers, Call(c) PROVE CallerInv'
    BY <1>19 DEF Call, Connectable
  <1>20. ASSUME NEW c \in Callers, Spawn(c) PROVE CallerInv'
    BY <1>20 DEF Spawn
  <1>21. ASSUME NEW c \in Callers, Poll(c) PROVE CallerInv'
    BY <1>21 DEF Poll, PollExpires, Connectable
  <1>22. ASSUME NEW c \in Callers, Answer(c) PROVE CallerInv'
    BY <1>22 DEF Answer
  <1>23. ASSUME NEW c \in Callers, Reset(c) PROVE CallerInv'
    BY <1>23 DEF Reset
  <1>24. ASSUME NEW c \in Stoppers, CheckPid(c) PROVE CallerInv'
    BY <1>24 DEF CheckPid
  <1>25. ASSUME NEW c \in Stoppers, CheckSocket(c) PROVE CallerInv'
    BY <1>25 DEF CheckSocket, Connectable
  <1>26. ASSUME NEW c \in Stoppers, StopReadPid(c) PROVE CallerInv'
    BY <1>26 DEF StopReadPid
  <1>27. ASSUME NEW c \in Stoppers, StopAsk(c) PROVE CallerInv'
    BY <1>27 DEF StopAsk, Connectable
  <1>28. ASSUME NEW c \in Stoppers, StopReturn(c) PROVE CallerInv'
    BY <1>28 DEF StopReturn, StopMayReturn
  <1>29. ASSUME NEW c \in Stoppers, StopGivesUp(c) PROVE CallerInv'
    BY <1>29 DEF StopGivesUp, NobodyGaveUp
  <1>30. CASE UNCHANGED vars
    BY <1>30 DEF vars
  <1> QED BY <1>1, <1>2, <1>3, <1>4, <1>5, <1>6, <1>7, <1>8, <1>9, <1>10, <1>11, <1>12,
      <1>13, <1>14, <1>15, <1>16, <1>17, <1>18, <1>19, <1>20, <1>21, <1>22, <1>23, <1>24,
      <1>25, <1>26, <1>27, <1>28, <1>29, <1>30 DEF Next, CleanStep, DaemonStep, CallerStep,
      StopperStep

\* What stoppers wait for.
LEMMA StepStopperInv ==
    ASSUME Sequential, ~IdleTimeout, TypeOK, SequentialInv, [Next]_vars,
           NobodyGaveUp'
    PROVE  StopperInv'
  <1> USE Processes DEF Goto, files, TypeOK, DaemonPhases, ClientPhases, ProcessExists,
      Listening, Starting, Running, Ended, SequentialInv, OneAtATime, Attended, FilesInv,
      StopperInv
  <1>1. ASSUME NEW p \in Daemons, CleanRead(p) PROVE StopperInv'
    BY <1>1 DEF CleanRead, IsStale, AfterClean
  <1>2. ASSUME NEW p \in Daemons, CleanPid(p) PROVE StopperInv'
    BY <1>2 DEF CleanPid
  <1>3. ASSUME NEW p \in Daemons, CleanSocket(p) PROVE StopperInv'
    BY <1>3 DEF CleanSocket, AfterClean
  <1>4. ASSUME NEW p \in Daemons, CheckPid(p) PROVE StopperInv'
    BY <1>4 DEF CheckPid
  <1>5. ASSUME NEW p \in Daemons, CheckSocket(p) PROVE StopperInv'
    BY <1>5 DEF CheckSocket, Connectable
  <1>6. ASSUME NEW p \in Daemons, RemoveOldSocket(p) PROVE StopperInv'
    BY <1>6 DEF RemoveOldSocket, SocketAfterRemove
  <1>7. ASSUME NEW p \in Daemons, Listen(p) PROVE StopperInv'
    BY <1>7 DEF Listen
  <1>8. ASSUME NEW p \in Daemons, WritePID(p) PROVE StopperInv'
    BY <1>8 DEF WritePID
  <1>9. ASSUME NEW p \in Daemons, Accept(p) PROVE StopperInv'
    BY <1>9 DEF Accept
  <1>10. ASSUME NEW p \in Daemons, ShutdownListener(p) PROVE StopperInv'
    BY <1>10 DEF ShutdownListener
  <1>11. ASSUME NEW p \in Daemons, ShutdownBrowser(p) PROVE StopperInv'
    BY <1>11 DEF ShutdownBrowser
  <1>12. ASSUME NEW p \in Daemons, ShutdownSocket(p) PROVE StopperInv'
    BY <1>12 DEF ShutdownSocket
  <1>13. ASSUME NEW p \in Daemons, ShutdownPid(p) PROVE StopperInv'
    BY <1>13 DEF ShutdownPid
  <1>14. ASSUME NEW p \in Daemons, Crash(p) PROVE StopperInv'
    BY <1>14 DEF Crash
  <1>15. ASSUME NEW c \in Clients, Begin(c) PROVE StopperInv'
    BY <1>15 DEF Begin
  <1>16. ASSUME NEW c \in Callers, CleanRead(c) PROVE StopperInv'
    BY <1>16 DEF CleanRead, IsStale, AfterClean
  <1>17. ASSUME NEW c \in Callers, CleanPid(c) PROVE StopperInv'
    BY <1>17 DEF CleanPid
  <1>18. ASSUME NEW c \in Callers, CleanSocket(c) PROVE StopperInv'
    BY <1>18 DEF CleanSocket, AfterClean
  <1>19. ASSUME NEW c \in Callers, Call(c) PROVE StopperInv'
    BY <1>19 DEF Call, Connectable
  <1>20. ASSUME NEW c \in Callers, Spawn(c) PROVE StopperInv'
    BY <1>20 DEF Spawn
  <1>21. ASSUME NEW c \in Callers, Poll(c) PROVE StopperInv'
    BY <1>21 DEF Poll, PollExpires, Connectable
  <1>22. ASSUME NEW c \in Callers, Answer(c) PROVE StopperInv'
    BY <1>22 DEF Answer
  <1>23. ASSUME NEW c \in Callers, Reset(c) PROVE StopperInv'
    BY <1>23 DEF Reset
  <1>24. ASSUME NEW c \in Stoppers, CheckPid(c) PROVE StopperInv'
    BY <1>24 DEF CheckPid
  <1>25. ASSUME NEW c \in Stoppers, CheckSocket(c) PROVE StopperInv'
    BY <1>25 DEF CheckSocket, Connectable
  <1>26. ASSUME NEW c \in Stoppers, StopReadPid(c) PROVE StopperInv'
    BY <1>26 DEF StopReadPid
  <1>27. ASSUME NEW c \in Stoppers, StopAsk(c) PROVE StopperInv'
    BY <1>27 DEF StopAsk, Connectable
  <1>28. ASSUME NEW c \in Stoppers, StopReturn(c) PROVE StopperInv'
    BY <1>28 DEF StopReturn, StopMayReturn
  <1>29. ASSUME NEW c \in Stoppers, StopGivesUp(c) PROVE StopperInv'
    BY <1>29 DEF StopGivesUp, NobodyGaveUp
  <1>30. CASE UNCHANGED vars
    BY <1>30 DEF vars
  <1> QED BY <1>1, <1>2, <1>3, <1>4, <1>5, <1>6, <1>7, <1>8, <1>9, <1>10, <1>11, <1>12,
      <1>13, <1>14, <1>15, <1>16, <1>17, <1>18, <1>19, <1>20, <1>21, <1>22, <1>23, <1>24,
      <1>25, <1>26, <1>27, <1>28, <1>29, <1>30 DEF Next, CleanStep, DaemonStep, CallerStep,
      StopperStep

\* A stopper that gave up stays so.
LEMMA GivingUpIsFinal ==
    ASSUME TypeOK, [Next]_vars, NobodyGaveUp' PROVE NobodyGaveUp
  <1> USE Processes DEF Goto, TypeOK, NobodyGaveUp
  <1>1. ASSUME NEW p \in Daemons, CleanRead(p) PROVE NobodyGaveUp
    BY <1>1 DEF CleanRead, IsStale, AfterClean
  <1>2. ASSUME NEW p \in Daemons, CleanPid(p) PROVE NobodyGaveUp
    BY <1>2 DEF CleanPid
  <1>3. ASSUME NEW p \in Daemons, CleanSocket(p) PROVE NobodyGaveUp
    BY <1>3 DEF CleanSocket, AfterClean
  <1>4. ASSUME NEW p \in Daemons, CheckPid(p) PROVE NobodyGaveUp
    BY <1>4 DEF CheckPid
  <1>5. ASSUME NEW p \in Daemons, CheckSocket(p) PROVE NobodyGaveUp
    BY <1>5 DEF CheckSocket, Connectable
  <1>6. ASSUME NEW p \in Daemons, RemoveOldSocket(p) PROVE NobodyGaveUp
    BY <1>6 DEF RemoveOldSocket, SocketAfterRemove
  <1>7. ASSUME NEW p \in Daemons, Listen(p) PROVE NobodyGaveUp
    BY <1>7 DEF Listen
  <1>8. ASSUME NEW p \in Daemons, WritePID(p) PROVE NobodyGaveUp
    BY <1>8 DEF WritePID
  <1>9. ASSUME NEW p \in Daemons, Accept(p) PROVE NobodyGaveUp
    BY <1>9 DEF Accept
  <1>10. ASSUME NEW p \in Daemons, ShutdownListener(p) PROVE NobodyGaveUp
    BY <1>10 DEF ShutdownListener
  <1>11. ASSUME NEW p \in Daemons, ShutdownBrowser(p) PROVE NobodyGaveUp
    BY <1>11 DEF ShutdownBrowser
  <1>12. ASSUME NEW p \in Daemons, ShutdownSocket(p) PROVE NobodyGaveUp
    BY <1>12 DEF ShutdownSocket
  <1>13. ASSUME NEW p \in Daemons, ShutdownPid(p) PROVE NobodyGaveUp
    BY <1>13 DEF ShutdownPid
  <1>14. ASSUME NEW p \in Daemons, Crash(p) PROVE NobodyGaveUp
    BY <1>14 DEF Crash
  <1>15. ASSUME NEW c \in Clients, Begin(c) PROVE NobodyGaveUp
    BY <1>15 DEF Begin
  <1>16. ASSUME NEW c \in Callers, CleanRead(c) PROVE NobodyGaveUp
    BY <1>16 DEF CleanRead, IsStale, AfterClean
  <1>17. ASSUME NEW c \in Callers, CleanPid(c) PROVE NobodyGaveUp
    BY <1>17 DEF CleanPid
  <1>18. ASSUME NEW c \in Callers, CleanSocket(c) PROVE NobodyGaveUp
    BY <1>18 DEF CleanSocket, AfterClean
  <1>19. ASSUME NEW c \in Callers, Call(c) PROVE NobodyGaveUp
    BY <1>19 DEF Call, Connectable
  <1>20. ASSUME NEW c \in Callers, Spawn(c) PROVE NobodyGaveUp
    BY <1>20 DEF Spawn
  <1>21. ASSUME NEW c \in Callers, Poll(c) PROVE NobodyGaveUp
    BY <1>21 DEF Poll, PollExpires, Connectable
  <1>22. ASSUME NEW c \in Callers, Answer(c) PROVE NobodyGaveUp
    BY <1>22 DEF Answer
  <1>23. ASSUME NEW c \in Callers, Reset(c) PROVE NobodyGaveUp
    BY <1>23 DEF Reset
  <1>24. ASSUME NEW c \in Stoppers, CheckPid(c) PROVE NobodyGaveUp
    BY <1>24 DEF CheckPid
  <1>25. ASSUME NEW c \in Stoppers, CheckSocket(c) PROVE NobodyGaveUp
    BY <1>25 DEF CheckSocket, Connectable
  <1>26. ASSUME NEW c \in Stoppers, StopReadPid(c) PROVE NobodyGaveUp
    BY <1>26 DEF StopReadPid
  <1>27. ASSUME NEW c \in Stoppers, StopAsk(c) PROVE NobodyGaveUp
    BY <1>27 DEF StopAsk, Connectable
  <1>28. ASSUME NEW c \in Stoppers, StopReturn(c) PROVE NobodyGaveUp
    BY <1>28 DEF StopReturn, StopMayReturn
  <1>29. ASSUME NEW c \in Stoppers, StopGivesUp(c) PROVE NobodyGaveUp
    BY <1>29 DEF StopGivesUp
  <1>30. CASE UNCHANGED vars
    BY <1>30 DEF vars
  <1> QED BY <1>1, <1>2, <1>3, <1>4, <1>5, <1>6, <1>7, <1>8, <1>9, <1>10, <1>11, <1>12,
      <1>13, <1>14, <1>15, <1>16, <1>17, <1>18, <1>19, <1>20, <1>21, <1>22, <1>23, <1>24,
      <1>25, <1>26, <1>27, <1>28, <1>29, <1>30 DEF Next, CleanStep, DaemonStep, CallerStep,
      StopperStep

\* What a stopper that ended knows stays so.
LEMMA StepStopInv ==
    ASSUME TypeOK, StopInv, NobodyGaveUp => SequentialInv, [Next]_vars PROVE StopInv'
  <1> USE Processes DEF Goto, files, TypeOK, DaemonPhases, ClientPhases, ProcessExists,
      Starting, StopInv
  <1>1. ASSUME NEW p \in Daemons, CleanRead(p) PROVE StopInv'
    BY <1>1 DEF CleanRead, IsStale, AfterClean
  <1>2. ASSUME NEW p \in Daemons, CleanPid(p) PROVE StopInv'
    BY <1>2 DEF CleanPid
  <1>3. ASSUME NEW p \in Daemons, CleanSocket(p) PROVE StopInv'
    BY <1>3 DEF CleanSocket, AfterClean
  <1>4. ASSUME NEW p \in Daemons, CheckPid(p) PROVE StopInv'
    BY <1>4 DEF CheckPid
  <1>5. ASSUME NEW p \in Daemons, CheckSocket(p) PROVE StopInv'
    BY <1>5 DEF CheckSocket, Connectable
  <1>6. ASSUME NEW p \in Daemons, RemoveOldSocket(p) PROVE StopInv'
    BY <1>6 DEF RemoveOldSocket, SocketAfterRemove
  <1>7. ASSUME NEW p \in Daemons, Listen(p) PROVE StopInv'
    BY <1>7 DEF Listen
  <1>8. ASSUME NEW p \in Daemons, WritePID(p) PROVE StopInv'
    BY <1>8 DEF WritePID
  <1>9. ASSUME NEW p \in Daemons, Accept(p) PROVE StopInv'
    BY <1>9 DEF Accept
  <1>10. ASSUME NEW p \in Daemons, ShutdownListener(p) PROVE StopInv'
    BY <1>10 DEF ShutdownListener
  <1>11. ASSUME NEW p \in Daemons, ShutdownBrowser(p) PROVE StopInv'
    BY <1>11 DEF ShutdownBrowser
  <1>12. ASSUME NEW p \in Daemons, ShutdownSocket(p) PROVE StopInv'
    BY <1>12 DEF ShutdownSocket
  <1>13. ASSUME NEW p \in Daemons, ShutdownPid(p) PROVE StopInv'
    BY <1>13 DEF ShutdownPid
  <1>14. ASSUME NEW p \in Daemons, Crash(p) PROVE StopInv'
    BY <1>14 DEF Crash
  <1>15. ASSUME NEW c \in Clients, Begin(c) PROVE StopInv'
    BY <1>15 DEF Begin
  <1>16. ASSUME NEW c \in Callers, CleanRead(c) PROVE StopInv'
    BY <1>16 DEF CleanRead, IsStale, AfterClean
  <1>17. ASSUME NEW c \in Callers, CleanPid(c) PROVE StopInv'
    BY <1>17 DEF CleanPid
  <1>18. ASSUME NEW c \in Callers, CleanSocket(c) PROVE StopInv'
    BY <1>18 DEF CleanSocket, AfterClean
  <1>19. ASSUME NEW c \in Callers, Call(c) PROVE StopInv'
    BY <1>19 DEF Call, Connectable
  <1>20. ASSUME NEW c \in Callers, Spawn(c) PROVE StopInv'
    BY <1>20 DEF Spawn
  <1>21. ASSUME NEW c \in Callers, Poll(c) PROVE StopInv'
    BY <1>21 DEF Poll, PollExpires, Connectable
  <1>22. ASSUME NEW c \in Callers, Answer(c) PROVE StopInv'
    BY <1>22 DEF Answer
  <1>23. ASSUME NEW c \in Callers, Reset(c) PROVE StopInv'
    BY <1>23 DEF Reset
  <1>24. ASSUME NEW c \in Stoppers, CheckPid(c) PROVE StopInv'
    BY <1>24 DEF CheckPid
  <1>25. ASSUME NEW c \in Stoppers, CheckSocket(c) PROVE StopInv'
    BY <1>25 DEF CheckSocket, Connectable
  <1>26. ASSUME NEW c \in Stoppers, StopReadPid(c) PROVE StopInv'
    BY <1>26 DEF StopReadPid
  <1>27. ASSUME NEW c \in Stoppers, StopAsk(c) PROVE StopInv'
    BY <1>27 DEF StopAsk, Connectable
  <1>28. ASSUME NEW c \in Stoppers, StopReturn(c) PROVE StopInv'
    BY <1>28 DEF StopReturn, StopMayReturn
  <1>29. ASSUME NEW c \in Stoppers, StopGivesUp(c) PROVE StopInv'
    BY <1>29 DEF StopGivesUp, NobodyGaveUp, SequentialInv, StopperInv
  <1>30. CASE UNCHANGED vars
    BY <1>30 DEF vars
  <1> QED BY <1>1, <1>2, <1>3, <1>4, <1>5, <1>6, <1>7, <1>8, <1>9, <1>10, <1>11, <1>12,
      <1>13, <1>14, <1>15, <1>16, <1>17, <1>18, <1>19, <1>20, <1>21, <1>22, <1>23, <1>24,
      <1>25, <1>26, <1>27, <1>28, <1>29, <1>30 DEF Next, CleanStep, DaemonStep, CallerStep,
      StopperStep

\* While commands run one after another, no daemon goes by itself and no stopper gives up,
\* each finds what the ones before it left in order.
LEMMA SequentialInvariant ==
    ASSUME Sequential, ~IdleTimeout
    PROVE  Spec => [](TypeOK /\ StopInv /\ (NobodyGaveUp => SequentialInv))
  <1>1. Init => TypeOK /\ StopInv /\ SequentialInv
    BY Processes DEF Init, TypeOK, DaemonPhases, ClientPhases, ProcessExists, Listening, Starting,
       Running, Ended, SequentialInv, OneAtATime, Attended, FilesInv, CallerInv, StopperInv,
       StopInv
  <1>2. ASSUME TypeOK, StopInv, NobodyGaveUp => SequentialInv, [Next]_vars
        PROVE  TypeOK' /\ StopInv' /\ (NobodyGaveUp => SequentialInv)'
    <2>1. TypeOK' /\ StopInv'
      BY <1>2, StepTypeOK, StepStopInv
    <2>2. ASSUME NobodyGaveUp' PROVE SequentialInv'
      <3>1. SequentialInv
        BY <1>2, <2>2, GivingUpIsFinal
      <3> QED BY <1>2, <2>2, <3>1, StepOneAtATime, StepAttended, StepFilesInv,
              StepCallerInv, StepStopperInv DEF SequentialInv
    <2> QED BY <2>1, <2>2
  <1> QED BY <1>1, <1>2, PTL DEF Spec

\* Every variable keeps its type, however commands run.
THEOREM TypeCorrect == Spec => []TypeOK
  <1>1. Init => TypeOK
    BY Processes DEF Init, TypeOK, DaemonPhases, ClientPhases, ProcessExists
  <1>2. TypeOK /\ [Next]_vars => TypeOK'
    BY StepTypeOK
  <1> QED BY <1>1, <1>2, PTL DEF Spec

\* Then no two daemons take commands at once, whatever killed ones left behind.
THEOREM ThereIsOneDaemon == ASSUME Sequential, ~IdleTimeout PROVE Spec => []OneDaemon
  <1>1. (NobodyGaveUp => SequentialInv) => OneDaemon
    BY Processes DEF SequentialInv, OneAtATime, OneDaemon, Listening, ProcessExists
  <1> QED BY <1>1, SequentialInvariant, PTL

\* Then the socket and the PID file are those of the daemon that serves.
THEOREM TheServingIsReachable ==
    ASSUME Sequential, ~IdleTimeout PROVE Spec => []ServingIsReachable
  <1>1. (NobodyGaveUp => SequentialInv) => ServingIsReachable
    BY DEF SequentialInv, FilesInv, ServingIsReachable
  <1> QED BY <1>1, SequentialInvariant, PTL

\* Then a command fails only if a daemon is killed while it runs.
THEOREM CommandsFailOnlyByCrash ==
    ASSUME Sequential, ~IdleTimeout PROVE Spec => []FailsOnlyByCrash
  <1>1. (NobodyGaveUp => SequentialInv) => FailsOnlyByCrash
    BY DEF SequentialInv, CallerInv, FailsOnlyByCrash
  <1> QED BY <1>1, SequentialInvariant, PTL

\* Then a stopper waits for the daemon it asked; and it returns with the process gone and,
\* unless that was killed, its files, or at its deadline.
THEOREM StoppingIsComplete == ASSUME Sequential, ~IdleTimeout PROVE Spec => []StopIsComplete
  <1>1. TypeOK /\ StopInv /\ (NobodyGaveUp => SequentialInv) => StopIsComplete
    BY DEF SequentialInv, StopperInv, StopInv, StopIsComplete, TypeOK
  <1> QED BY <1>1, SequentialInvariant, PTL

----------------------------------------------------------------------------
(* Inside one daemon, for any connections.                                 *)

VARIABLES hand, listening, mu, notify, notices, shutdownAsked, spc, stale

Server == INSTANCE DaemonServer WITH asked <- shutdownAsked

\* Every step keeps the types, and d.mu with its holder.
LEMMA StepServerTypes ==
    ASSUME Server!ServerAssumption, Server!TypeOK, Server!LockInv,
           [Server!Next]_Server!vars
    PROVE  Server!TypeOK'
  <1> USE DEF Server!ServerAssumption, Server!TypeOK, Server!LockInv, Server!Goto,
     Server!Conns, Server!None, Server!Free, Server!server, Server!tools, Server!stop
  <1>1. CASE Server!Listen
    BY <1>1 DEF Server!Listen
  <1>2. ASSUME NEW c \in Server!Conns, Server!Connect(c) PROVE Server!TypeOK'
    BY <1>2 DEF Server!Connect
  <1>3. ASSUME NEW c \in Server!Conns, Server!Accept(c) PROVE Server!TypeOK'
    BY <1>3 DEF Server!Accept
  <1>4. CASE Server!StartHandler
    BY <1>4 DEF Server!StartHandler
  <1>5. CASE Server!AcceptFails
    BY <1>5 DEF Server!AcceptFails
  <1>6. CASE Server!Exit
    BY <1>6 DEF Server!Exit
  <1>7. ASSUME NEW c \in Server!Conns, Server!TouchActivity(c) PROVE Server!TypeOK'
    BY <1>7 DEF Server!TouchActivity
  <1>8. ASSUME NEW c \in Server!Conns, Server!ReadRequest(c) PROVE Server!TypeOK'
    BY <1>8 DEF Server!ReadRequest
  <1>9. ASSUME NEW c \in Server!Conns, Server!ReadFails(c) PROVE Server!TypeOK'
    BY <1>9 DEF Server!ReadFails
  <1>10. ASSUME NEW c \in Server!Conns, Server!LockForTool(c) PROVE Server!TypeOK'
    BY <1>10 DEF Server!LockForTool, Server!CanLock
  <1>11. ASSUME NEW c \in Server!Conns, Server!LaunchBrowser(c) PROVE Server!TypeOK'
    BY <1>11 DEF Server!LaunchBrowser
  <1>12. ASSUME NEW c \in Server!Conns, Server!FinishTool(c) PROVE Server!TypeOK'
    BY <1>12 DEF Server!FinishTool, Server!MuAfterTool
  <1>13. ASSUME NEW c \in Server!Conns, Server!SendReply(c) PROVE Server!TypeOK'
    BY <1>13 DEF Server!SendReply
  <1>14. CASE Server!Signal
    BY <1>14 DEF Server!Signal
  <1>15. CASE Server!TimePasses
    BY <1>15 DEF Server!TimePasses
  <1>16. CASE Server!IdleTimeout
    BY <1>16 DEF Server!IdleTimeout
  <1>17. CASE Server!BeginShutdown
    BY <1>17 DEF Server!BeginShutdown
  <1>18. CASE Server!CloseListener
    BY <1>18 DEF Server!CloseListener, Server!ListeningAfter
  <1>19. CASE Server!HandlersDone
    BY <1>19 DEF Server!HandlersDone, Server!WaitOver
  <1>20. CASE Server!WaitTimesOut
    BY <1>20 DEF Server!WaitTimesOut
  <1>21. CASE Server!LockForClose
    BY <1>21 DEF Server!LockForClose
  <1>22. CASE Server!CloseBrowser
    BY <1>22 DEF Server!CloseBrowser, Server!BrowserAfterClose
  <1>23. CASE Server!RemoveFiles
    BY <1>23 DEF Server!RemoveFiles
  <1>24. CASE UNCHANGED Server!vars
    BY <1>24 DEF Server!vars
  <1> QED BY <1>1, <1>2, <1>3, <1>4, <1>5, <1>6, <1>7, <1>8, <1>9, <1>10, <1>11, <1>12,
       <1>13, <1>14, <1>15, <1>16, <1>17, <1>18, <1>19, <1>20, <1>21, <1>22, <1>23,
       <1>24
       DEF Server!Next, Server!HandlerStep, Server!RunStep, Server!ShutdownStep

\* A running tool has d.mu until it ends.
LEMMA StepLockInv ==
    ASSUME Server!ServerAssumption, Server!TypeOK, Server!LockInv,
           [Server!Next]_Server!vars
    PROVE  Server!LockInv'
  <1> USE DEF Server!ServerAssumption, Server!TypeOK, Server!Goto, Server!Conns,
     Server!None, Server!Free, Server!LockInv, Server!server, Server!tools, Server!stop
  <1>1. CASE Server!Listen
    BY <1>1 DEF Server!Listen
  <1>2. ASSUME NEW c \in Server!Conns, Server!Connect(c) PROVE Server!LockInv'
    BY <1>2 DEF Server!Connect
  <1>3. ASSUME NEW c \in Server!Conns, Server!Accept(c) PROVE Server!LockInv'
    BY <1>3 DEF Server!Accept
  <1>4. CASE Server!StartHandler
    BY <1>4 DEF Server!StartHandler
  <1>5. CASE Server!AcceptFails
    BY <1>5 DEF Server!AcceptFails
  <1>6. CASE Server!Exit
    BY <1>6 DEF Server!Exit
  <1>7. ASSUME NEW c \in Server!Conns, Server!TouchActivity(c) PROVE Server!LockInv'
    BY <1>7 DEF Server!TouchActivity
  <1>8. ASSUME NEW c \in Server!Conns, Server!ReadRequest(c) PROVE Server!LockInv'
    BY <1>8 DEF Server!ReadRequest
  <1>9. ASSUME NEW c \in Server!Conns, Server!ReadFails(c) PROVE Server!LockInv'
    BY <1>9 DEF Server!ReadFails
  <1>10. ASSUME NEW c \in Server!Conns, Server!LockForTool(c) PROVE Server!LockInv'
    BY <1>10 DEF Server!LockForTool, Server!CanLock
  <1>11. ASSUME NEW c \in Server!Conns, Server!LaunchBrowser(c) PROVE Server!LockInv'
    BY <1>11 DEF Server!LaunchBrowser
  <1>12. ASSUME NEW c \in Server!Conns, Server!FinishTool(c) PROVE Server!LockInv'
    BY <1>12 DEF Server!FinishTool, Server!MuAfterTool
  <1>13. ASSUME NEW c \in Server!Conns, Server!SendReply(c) PROVE Server!LockInv'
    BY <1>13 DEF Server!SendReply
  <1>14. CASE Server!Signal
    BY <1>14 DEF Server!Signal
  <1>15. CASE Server!TimePasses
    BY <1>15 DEF Server!TimePasses
  <1>16. CASE Server!IdleTimeout
    BY <1>16 DEF Server!IdleTimeout
  <1>17. CASE Server!BeginShutdown
    BY <1>17 DEF Server!BeginShutdown
  <1>18. CASE Server!CloseListener
    BY <1>18 DEF Server!CloseListener, Server!ListeningAfter
  <1>19. CASE Server!HandlersDone
    BY <1>19 DEF Server!HandlersDone, Server!WaitOver
  <1>20. CASE Server!WaitTimesOut
    BY <1>20 DEF Server!WaitTimesOut
  <1>21. CASE Server!LockForClose
    BY <1>21 DEF Server!LockForClose
  <1>22. CASE Server!CloseBrowser
    BY <1>22 DEF Server!CloseBrowser, Server!BrowserAfterClose
  <1>23. CASE Server!RemoveFiles
    BY <1>23 DEF Server!RemoveFiles
  <1>24. CASE UNCHANGED Server!vars
    BY <1>24 DEF Server!vars
  <1> QED BY <1>1, <1>2, <1>3, <1>4, <1>5, <1>6, <1>7, <1>8, <1>9, <1>10, <1>11, <1>12,
       <1>13, <1>14, <1>15, <1>16, <1>17, <1>18, <1>19, <1>20, <1>21, <1>22, <1>23,
       <1>24
       DEF Server!Next, Server!HandlerStep, Server!RunStep, Server!ShutdownStep

\* Every variable keeps its type, and d.mu and the launch notice are with the tool that
\* runs.
THEOREM ServerTypeCorrect ==
    ASSUME Server!ServerAssumption
    PROVE  Server!Spec => [](Server!TypeOK /\ Server!LockInv)
  <1>1. Server!Init => Server!TypeOK /\ Server!LockInv
    BY DEF Server!ServerAssumption, Server!Init, Server!TypeOK, Server!LockInv,
       Server!Conns, Server!None, Server!Free
  <1>2. Server!TypeOK /\ Server!LockInv /\ [Server!Next]_Server!vars
        => Server!TypeOK' /\ Server!LockInv'
    BY StepServerTypes, StepLockInv
  <1> QED BY <1>1, <1>2, PTL DEF Server!Spec

\* A launch is announced to the connection that holds d.mu.
LEMMA StepNotice ==
    ASSUME Server!ServerAssumption, Server!TypeOK, Server!LockInv, Server!NoticeGoesToLauncher,
           [Server!Next]_Server!vars
    PROVE  Server!NoticeGoesToLauncher'
  <1> USE DEF Server!ServerAssumption, Server!TypeOK, Server!Goto, Server!Conns,
     Server!None, Server!Free, Server!LockInv, Server!NoticeGoesToLauncher, Server!server,
     Server!tools, Server!stop
  <1>1. CASE Server!Listen
    BY <1>1 DEF Server!Listen
  <1>2. ASSUME NEW c \in Server!Conns, Server!Connect(c) PROVE Server!NoticeGoesToLauncher'
    BY <1>2 DEF Server!Connect
  <1>3. ASSUME NEW c \in Server!Conns, Server!Accept(c) PROVE Server!NoticeGoesToLauncher'
    BY <1>3 DEF Server!Accept
  <1>4. CASE Server!StartHandler
    BY <1>4 DEF Server!StartHandler
  <1>5. CASE Server!AcceptFails
    BY <1>5 DEF Server!AcceptFails
  <1>6. CASE Server!Exit
    BY <1>6 DEF Server!Exit
  <1>7. ASSUME NEW c \in Server!Conns, Server!TouchActivity(c) PROVE Server!NoticeGoesToLauncher'
    BY <1>7 DEF Server!TouchActivity
  <1>8. ASSUME NEW c \in Server!Conns, Server!ReadRequest(c) PROVE Server!NoticeGoesToLauncher'
    BY <1>8 DEF Server!ReadRequest
  <1>9. ASSUME NEW c \in Server!Conns, Server!ReadFails(c) PROVE Server!NoticeGoesToLauncher'
    BY <1>9 DEF Server!ReadFails
  <1>10. ASSUME NEW c \in Server!Conns, Server!LockForTool(c) PROVE Server!NoticeGoesToLauncher'
    BY <1>10 DEF Server!LockForTool, Server!CanLock
  <1>11. ASSUME NEW c \in Server!Conns, Server!LaunchBrowser(c) PROVE Server!NoticeGoesToLauncher'
    BY <1>11 DEF Server!LaunchBrowser
  <1>12. ASSUME NEW c \in Server!Conns, Server!FinishTool(c) PROVE Server!NoticeGoesToLauncher'
    BY <1>12 DEF Server!FinishTool, Server!MuAfterTool
  <1>13. ASSUME NEW c \in Server!Conns, Server!SendReply(c) PROVE Server!NoticeGoesToLauncher'
    BY <1>13 DEF Server!SendReply
  <1>14. CASE Server!Signal
    BY <1>14 DEF Server!Signal
  <1>15. CASE Server!TimePasses
    BY <1>15 DEF Server!TimePasses
  <1>16. CASE Server!IdleTimeout
    BY <1>16 DEF Server!IdleTimeout
  <1>17. CASE Server!BeginShutdown
    BY <1>17 DEF Server!BeginShutdown
  <1>18. CASE Server!CloseListener
    BY <1>18 DEF Server!CloseListener, Server!ListeningAfter
  <1>19. CASE Server!HandlersDone
    BY <1>19 DEF Server!HandlersDone, Server!WaitOver
  <1>20. CASE Server!WaitTimesOut
    BY <1>20 DEF Server!WaitTimesOut
  <1>21. CASE Server!LockForClose
    BY <1>21 DEF Server!LockForClose
  <1>22. CASE Server!CloseBrowser
    BY <1>22 DEF Server!CloseBrowser, Server!BrowserAfterClose
  <1>23. CASE Server!RemoveFiles
    BY <1>23 DEF Server!RemoveFiles
  <1>24. CASE UNCHANGED Server!vars
    BY <1>24 DEF Server!vars
  <1> QED BY <1>1, <1>2, <1>3, <1>4, <1>5, <1>6, <1>7, <1>8, <1>9, <1>10, <1>11, <1>12,
       <1>13, <1>14, <1>15, <1>16, <1>17, <1>18, <1>19, <1>20, <1>21, <1>22, <1>23,
       <1>24
       DEF Server!Next, Server!HandlerStep, Server!RunStep, Server!ShutdownStep

\* Shutdown goes on when nobody is in flight; who starts then is late.
LEMMA StepWaitInv ==
    ASSUME Server!ServerAssumption, Server!TypeOK, Server!WaitInv,
           [Server!Next]_Server!vars
    PROVE  Server!WaitInv'
  <1> USE DEF Server!ServerAssumption, Server!TypeOK, Server!Goto, Server!Conns,
     Server!None, Server!Free, Server!WaitInv, Server!Waited, Server!Handling,
     Server!server, Server!tools, Server!stop
  <1>1. CASE Server!Listen
    BY <1>1 DEF Server!Listen
  <1>2. ASSUME NEW c \in Server!Conns, Server!Connect(c) PROVE Server!WaitInv'
    BY <1>2 DEF Server!Connect
  <1>3. ASSUME NEW c \in Server!Conns, Server!Accept(c) PROVE Server!WaitInv'
    BY <1>3 DEF Server!Accept
  <1>4. CASE Server!StartHandler
    BY <1>4 DEF Server!StartHandler
  <1>5. CASE Server!AcceptFails
    BY <1>5 DEF Server!AcceptFails
  <1>6. CASE Server!Exit
    BY <1>6 DEF Server!Exit
  <1>7. ASSUME NEW c \in Server!Conns, Server!TouchActivity(c) PROVE Server!WaitInv'
    BY <1>7 DEF Server!TouchActivity
  <1>8. ASSUME NEW c \in Server!Conns, Server!ReadRequest(c) PROVE Server!WaitInv'
    BY <1>8 DEF Server!ReadRequest
  <1>9. ASSUME NEW c \in Server!Conns, Server!ReadFails(c) PROVE Server!WaitInv'
    BY <1>9 DEF Server!ReadFails
  <1>10. ASSUME NEW c \in Server!Conns, Server!LockForTool(c) PROVE Server!WaitInv'
    BY <1>10 DEF Server!LockForTool, Server!CanLock
  <1>11. ASSUME NEW c \in Server!Conns, Server!LaunchBrowser(c) PROVE Server!WaitInv'
    BY <1>11 DEF Server!LaunchBrowser
  <1>12. ASSUME NEW c \in Server!Conns, Server!FinishTool(c) PROVE Server!WaitInv'
    BY <1>12 DEF Server!FinishTool, Server!MuAfterTool
  <1>13. ASSUME NEW c \in Server!Conns, Server!SendReply(c) PROVE Server!WaitInv'
    BY <1>13 DEF Server!SendReply
  <1>14. CASE Server!Signal
    BY <1>14 DEF Server!Signal
  <1>15. CASE Server!TimePasses
    BY <1>15 DEF Server!TimePasses
  <1>16. CASE Server!IdleTimeout
    BY <1>16 DEF Server!IdleTimeout
  <1>17. CASE Server!BeginShutdown
    BY <1>17 DEF Server!BeginShutdown
  <1>18. CASE Server!CloseListener
    BY <1>18 DEF Server!CloseListener, Server!ListeningAfter
  <1>19. CASE Server!HandlersDone
    BY <1>19 DEF Server!HandlersDone, Server!WaitOver
  <1>20. CASE Server!WaitTimesOut
    BY <1>20 DEF Server!WaitTimesOut
  <1>21. CASE Server!LockForClose
    BY <1>21 DEF Server!LockForClose
  <1>22. CASE Server!CloseBrowser
    BY <1>22 DEF Server!CloseBrowser, Server!BrowserAfterClose
  <1>23. CASE Server!RemoveFiles
    BY <1>23 DEF Server!RemoveFiles
  <1>24. CASE UNCHANGED Server!vars
    BY <1>24 DEF Server!vars
  <1> QED BY <1>1, <1>2, <1>3, <1>4, <1>5, <1>6, <1>7, <1>8, <1>9, <1>10, <1>11, <1>12,
       <1>13, <1>14, <1>15, <1>16, <1>17, <1>18, <1>19, <1>20, <1>21, <1>22, <1>23,
       <1>24
       DEF Server!Next, Server!HandlerStep, Server!RunStep, Server!ShutdownStep

\* A closed browser stays closed while no handler is late.
LEMMA StepClosedInv ==
    ASSUME Server!ServerAssumption, Server!TypeOK, Server!WaitInv, Server!ClosedInv,
           [Server!Next]_Server!vars
    PROVE  Server!ClosedInv'
  <1> USE DEF Server!ServerAssumption, Server!TypeOK, Server!Goto, Server!Conns,
     Server!None, Server!Free, Server!WaitInv, Server!ClosedInv, Server!Waited,
     Server!Handling, Server!server, Server!tools, Server!stop
  <1>1. CASE Server!Listen
    BY <1>1 DEF Server!Listen
  <1>2. ASSUME NEW c \in Server!Conns, Server!Connect(c) PROVE Server!ClosedInv'
    BY <1>2 DEF Server!Connect
  <1>3. ASSUME NEW c \in Server!Conns, Server!Accept(c) PROVE Server!ClosedInv'
    BY <1>3 DEF Server!Accept
  <1>4. CASE Server!StartHandler
    BY <1>4 DEF Server!StartHandler
  <1>5. CASE Server!AcceptFails
    BY <1>5 DEF Server!AcceptFails
  <1>6. CASE Server!Exit
    BY <1>6 DEF Server!Exit
  <1>7. ASSUME NEW c \in Server!Conns, Server!TouchActivity(c) PROVE Server!ClosedInv'
    BY <1>7 DEF Server!TouchActivity
  <1>8. ASSUME NEW c \in Server!Conns, Server!ReadRequest(c) PROVE Server!ClosedInv'
    BY <1>8 DEF Server!ReadRequest
  <1>9. ASSUME NEW c \in Server!Conns, Server!ReadFails(c) PROVE Server!ClosedInv'
    BY <1>9 DEF Server!ReadFails
  <1>10. ASSUME NEW c \in Server!Conns, Server!LockForTool(c) PROVE Server!ClosedInv'
    BY <1>10 DEF Server!LockForTool, Server!CanLock
  <1>11. ASSUME NEW c \in Server!Conns, Server!LaunchBrowser(c) PROVE Server!ClosedInv'
    BY <1>11 DEF Server!LaunchBrowser
  <1>12. ASSUME NEW c \in Server!Conns, Server!FinishTool(c) PROVE Server!ClosedInv'
    BY <1>12 DEF Server!FinishTool, Server!MuAfterTool
  <1>13. ASSUME NEW c \in Server!Conns, Server!SendReply(c) PROVE Server!ClosedInv'
    BY <1>13 DEF Server!SendReply
  <1>14. CASE Server!Signal
    BY <1>14 DEF Server!Signal
  <1>15. CASE Server!TimePasses
    BY <1>15 DEF Server!TimePasses
  <1>16. CASE Server!IdleTimeout
    BY <1>16 DEF Server!IdleTimeout
  <1>17. CASE Server!BeginShutdown
    BY <1>17 DEF Server!BeginShutdown
  <1>18. CASE Server!CloseListener
    BY <1>18 DEF Server!CloseListener, Server!ListeningAfter
  <1>19. CASE Server!HandlersDone
    BY <1>19 DEF Server!HandlersDone, Server!WaitOver
  <1>20. CASE Server!WaitTimesOut
    BY <1>20 DEF Server!WaitTimesOut
  <1>21. CASE Server!LockForClose
    BY <1>21 DEF Server!LockForClose
  <1>22. CASE Server!CloseBrowser
    BY <1>22 DEF Server!CloseBrowser, Server!BrowserAfterClose
  <1>23. CASE Server!RemoveFiles
    BY <1>23 DEF Server!RemoveFiles
  <1>24. CASE UNCHANGED Server!vars
    BY <1>24 DEF Server!vars
  <1> QED BY <1>1, <1>2, <1>3, <1>4, <1>5, <1>6, <1>7, <1>8, <1>9, <1>10, <1>11, <1>12,
       <1>13, <1>14, <1>15, <1>16, <1>17, <1>18, <1>19, <1>20, <1>21, <1>22, <1>23,
       <1>24
       DEF Server!Next, Server!HandlerStep, Server!RunStep, Server!ShutdownStep

\* Only the client whose tool launches the browser is told to wait longer.
THEOREM NoticesGoToLaunchers ==
    ASSUME Server!ServerAssumption
    PROVE  Server!Spec => []Server!NoticeGoesToLauncher
  <1>1. Server!Init => Server!NoticeGoesToLauncher
    BY DEF Server!Init, Server!NoticeGoesToLauncher
  <1>2. /\ Server!TypeOK /\ Server!LockInv /\ Server!NoticeGoesToLauncher
        /\ [Server!Next]_Server!vars
        => Server!NoticeGoesToLauncher'
    BY StepNotice
  <1> QED BY <1>1, <1>2, ServerTypeCorrect, PTL DEF Server!Spec

\* The inductive invariant of Shutdown: who is in flight after the wait is late, and
\* without late handlers the browser stays closed.
THEOREM ShutdownInvariant ==
    ASSUME Server!ServerAssumption
    PROVE  Server!Spec => [](Server!WaitInv /\ Server!ClosedInv)
  <1>1. Server!Init => Server!WaitInv /\ Server!ClosedInv
    BY DEF Server!Init, Server!WaitInv, Server!ClosedInv, Server!Waited
  <1>2. Server!TypeOK /\ Server!WaitInv /\ Server!ClosedInv /\ [Server!Next]_Server!vars
        => Server!WaitInv' /\ Server!ClosedInv'
    BY StepWaitInv, StepClosedInv
  <1> QED BY <1>1, <1>2, ServerTypeCorrect, PTL DEF Server!Spec

\* When the process ends, what was read is answered, but for the 10 s and late starts.
THEOREM ExitFinishesRequests ==
    ASSUME Server!ServerAssumption
    PROVE  Server!Spec => []RequestsAreFinished
  <1>1. Server!WaitInv => RequestsAreFinished
    BY DEF Server!WaitInv, Server!Waited, Server!Handling, Server!Conns, Conns, Handling,
       RequestsAreFinished
  <1> QED BY <1>1, ShutdownInvariant, PTL

\* When the process ends and no handler outlasted the wait, no browser is left.
THEOREM BrowserIsClosedAtExit ==
    ASSUME Server!ServerAssumption
    PROVE  Server!Spec => []BrowserIsClosed
  <1>1. Server!WaitInv /\ Server!ClosedInv => BrowserIsClosed
    BY DEF Server!WaitInv, Server!ClosedInv, BrowserIsClosed
  <1> QED BY <1>1, ShutdownInvariant, PTL
=============================================================================
