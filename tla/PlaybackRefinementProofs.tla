---------------------- MODULE PlaybackRefinementProofs ----------------------
(***************************************************************************)
(* What stands above and below the playback manager: it implements          *)
(* PlaybackLifecycle and never starts a session once its shutdown has       *)
(* begun; the manager with its engines (PlaybackEngine) and the server with *)
(* its handlers (Server) implement the manager, so that what is proved of   *)
(* it holds in both; and the end of the server is what it claims to be.     *)
(***************************************************************************)
EXTENDS PlaybackSafetyProofs, PlaybackEngine, Server

-----------------------------------------------------------------------------
(* The manager implements PlaybackLifecycle *)

\* No session has the number of none.
LEMMA NoSessionIsZero == NoSession = 0
PROOF BY DEF NoSession

\* A step that a client cannot see.
Quiet == UNCHANGED <<shuttingDown, state, active, nextID, event>>

\* Every step is one of the life cycle, or is not seen.
LEMMA StepRefines ==
    TypeInv /\ IndInv /\ [Next]_vars =>
        \/ Quiet
        \/ /\ Lifecycle!Next
           /\ shuttingDown /\ active = NoSession => active' = NoSession
PROOF
  <1> DEFINE Refines == \/ Quiet
                        \/ /\ Lifecycle!Next
                           /\ shuttingDown /\ active = NoSession =>
                                active' = NoSession
  <1> SUFFICES ASSUME TypeInv, IndInv, [Next]_vars PROVE Refines
    OBVIOUS
  <1>0. /\ ControlOK /\ ManagerOK /\ SessionOK /\ WorkerOK /\ CallOK /\ DiskOK
        /\ CallsWellFormed /\ WorkersWellFormed
        /\ ActiveMatchesState /\ SingleOwner
        /\ StopFlags /\ StoppedOnlyWhenStopping /\ CommandHasIdleManager
    BY DEF TypeInv, TypeOK, IndInv
  <1>a. state \in States
    BY <1>0 DEF ManagerOK
  <1> USE <1>0
  <1>1. ASSUME NEW c \in Calls, Acquire(c)
        PROVE  Refines
    BY <1>1 DEF Acquire, Quiet, playback, control, managerVars
  <1>2. ASSUME NEW c \in Calls, GiveUp(c)
        PROVE  Refines
    BY <1>2 DEF GiveUp, Quiet, playback, control, managerVars
  <1>3. ASSUME NEW c \in Calls, Cleanup(c)
        PROVE  Refines
    BY <1>3 DEF Cleanup, Quiet, playback, control, managerVars
  <1>4. ASSUME NEW c \in Calls, Return(c)
        PROVE  Refines
    BY <1>4 DEF Return, Quiet, playback, control, managerVars
  <1>5. ASSUME NEW c \in Calls, CheckIdle(c)
        PROVE  Refines
    BY <1>5 DEF CheckIdle, Quiet, playback, control, managerVars
  <1>6. ASSUME NEW c \in Calls, Inspect(c)
        PROVE  Refines
    BY <1>6 DEF Inspect, Quiet, playback, control, managerVars
  <1>6b. ASSUME NEW c \in Calls, CheckBoundary(c)
         PROVE  Refines
    BY <1>6b DEF CheckBoundary, Quiet, playback, control, managerVars
  <1>7. ASSUME NEW c \in Calls, AcquireLease(c)
        PROVE  Refines
    BY <1>7 DEF AcquireLease, Quiet, playback, control, managerVars
  <1>8. ASSUME NEW c \in Calls, Load(c)
        PROVE  Refines
    BY <1>8 DEF Load, Quiet, playback, control, managerVars
  <1>9. ASSUME NEW c \in Calls, CommitStart(c)
        PROVE  Refines
    <2>1. CASE Refusal # "none"
      BY <1>9, <2>1 DEF CommitStart, Quiet, control, managerVars
    <2>2. CASE Refusal = "none"
      <3>1. /\ ~shuttingDown /\ active = NoSession
            /\ state \in {"stopped", "finished", "failed"}
        BY <2>2, <1>a DEF Refusal, Busy, LiveStates, States
      <3>2. /\ state' = "playing" /\ nextID' = nextID + 1 /\ active' = nextID'
            /\ event'.type = "playback.started" /\ UNCHANGED shuttingDown
        BY <1>9, <2>2 DEF CommitStart, StartSession, Publish, control
      <3>3. Lifecycle!Start
        BY <3>1, <3>2, NoSessionIsZero DEF Lifecycle!Start, Lifecycle!Idle
      <3>4. QED
        BY <3>1, <3>3 DEF Lifecycle!Next
    <2>3. QED
      BY <2>1, <2>2
  <1>10. ASSUME NEW c \in Calls, SavePosition(c)
         PROVE  Refines
    BY <1>10 DEF SavePosition, Quiet, playback, control, managerVars
  <1>11. ASSUME NEW c \in Calls, CommitPosition(c)
         PROVE  Refines
    <2>1. active = NoSession /\ state \in {"stopped", "finished", "failed"}
      BY <1>11, <1>a
         DEF CommitPosition, CommandHasIdleManager, LiveStates, States
    <2>2. /\ state' = "stopped" /\ event'.type = "position.updated"
          /\ UNCHANGED <<shuttingDown, active, nextID>>
      BY <1>11 DEF CommitPosition, Publish, control
    <2>3. Lifecycle!Rest
      BY <2>1, <2>2, NoSessionIsZero DEF Lifecycle!Rest, Lifecycle!Idle
    <2>4. QED
      BY <2>1, <2>2, <2>3 DEF Lifecycle!Next
  <1>12. ASSUME NEW c \in Calls, Pause(c)
         PROVE  Refines
    <2>1. CASE CanPause
      <3>1. /\ state = "playing" /\ state' = "paused" /\ event'.type = "playback.paused"
            /\ UNCHANGED <<shuttingDown, active, nextID>>
        BY <1>12, <2>1 DEF Pause, CanPause, Publish, control
      <3>2. active # NoSession
        BY <3>1 DEF ActiveMatchesState, LiveStates
      <3>3. Lifecycle!Pause
        BY <3>1, <3>2, NoSessionIsZero DEF Lifecycle!Pause, Lifecycle!Change
      <3>4. QED
        BY <3>1, <3>2, <3>3 DEF Lifecycle!Next
    <2>2. CASE ~CanPause
      BY <1>12, <2>2 DEF Pause, Quiet, control, managerVars
    <2>3. QED
      BY <2>1, <2>2
  <1>13. ASSUME NEW c \in Calls, Resume(c)
         PROVE  Refines
    <2>1. CASE CanResume
      <3>1. /\ state = "paused" /\ state' = "playing" /\ event'.type = "playback.resumed"
            /\ UNCHANGED <<shuttingDown, active, nextID>>
        BY <1>13, <2>1 DEF Resume, CanResume, Publish, control
      <3>2. active # NoSession
        BY <3>1 DEF ActiveMatchesState, LiveStates
      <3>3. Lifecycle!Resume
        BY <3>1, <3>2, NoSessionIsZero DEF Lifecycle!Resume, Lifecycle!Change
      <3>4. QED
        BY <3>1, <3>2, <3>3 DEF Lifecycle!Next
    <2>2. CASE ~CanResume
      BY <1>13, <2>2 DEF Resume, Quiet, control, managerVars
    <2>3. QED
      BY <2>1, <2>2
  <1>14. ASSUME NEW c \in Calls, StopMark(c)
         PROVE  Refines
    <2>1. UNCHANGED <<shuttingDown, active, nextID>>
      BY <1>14 DEF StopMark, MarkIdle, MarkStopping, managerVars, control
    <2>2. CASE active = NoSession
      <3>1. state \in {"stopped", "finished", "failed"}
        BY <2>2, <1>a DEF ActiveMatchesState, LiveStates, States
      <3>2. state' = "stopped" /\ event'.type = "playback.stopped"
        BY <1>14, <2>2 DEF StopMark, MarkIdle, Publish
      <3>3. Lifecycle!Rest
        BY <2>1, <2>2, <3>1, <3>2, NoSessionIsZero
           DEF Lifecycle!Rest, Lifecycle!Idle
      <3>4. QED
        BY <2>1, <2>2, <3>3 DEF Lifecycle!Next
    <2>3. CASE active # NoSession /\ active \notin stopStarted
      <3>1. state \in {"playing", "paused"}
        BY <2>3 DEF ActiveMatchesState, StopFlags, LiveStates
      <3>2. state' = "stopping" /\ event'.type = "playback.stopping"
        BY <1>14, <2>3 DEF StopMark, MarkStopping, Publish
      <3>3. Lifecycle!Stopping
        BY <2>1, <2>3, <3>1, <3>2, NoSessionIsZero
           DEF Lifecycle!Stopping, Lifecycle!Change
      <3>4. QED
        BY <2>1, <2>3, <3>3 DEF Lifecycle!Next
    <2>4. CASE active # NoSession /\ active \in stopStarted
      BY <1>14, <2>1, <2>4 DEF StopMark, Quiet, managerVars
    <2>5. QED
      BY <2>2, <2>3, <2>4
  <1>15. ASSUME NEW c \in Calls, StopCancel(c)
         PROVE  Refines
    BY <1>15 DEF StopCancel, Quiet, playback, control, managerVars
  <1>16. ASSUME NEW c \in Calls, StopEngine(c)
         PROVE  Refines
    BY <1>16 DEF StopEngine, Quiet, playback, control, managerVars
  <1>17. ASSUME NEW c \in Calls, StopWait(c)
         PROVE  Refines
    BY <1>17 DEF StopWait, Quiet, playback, control, managerVars
  <1>18. ASSUME NEW c \in Calls, BeginCall(c)
         PROVE  Refines
    BY <1>18 DEF BeginCall, Quiet, playback, control, managerVars
  <1>19. ASSUME NEW c \in Calls, Expire(c)
         PROVE  Refines
    BY <1>19 DEF Expire, Quiet, playback, control, managerVars
  <1>20. ASSUME NEW s \in Sessions, Open(s)
         PROVE  Refines
    BY <1>20 DEF Open, Quiet, commands, control, playback, managerVars
  <1>21. ASSUME NEW s \in Sessions, Sleep(s)
         PROVE  Refines
    BY <1>21 DEF Sleep, Quiet, commands, control, playback, managerVars
  <1>22. ASSUME NEW s \in Sessions, WaitUntilPlayable(s)
         PROVE  Refines
    BY <1>22 DEF WaitUntilPlayable, Quiet, commands, control, playback,
       managerVars
  <1>23. ASSUME NEW s \in Sessions, Read(s)
         PROVE  Refines
    BY <1>23 DEF Read, Quiet, commands, control, playback, managerVars
  <1>24. ASSUME NEW s \in Sessions, CheckChunk(s)
         PROVE  Refines
    BY <1>24 DEF CheckChunk, Quiet, commands, control, playback, managerVars
  <1>25. ASSUME NEW s \in Sessions, AdmitChunk(s)
         PROVE  Refines
    <2>1. CASE Playable(s)
      <3>1. /\ state = "playing" /\ active # NoSession
            /\ event'.type = "chunk.started"
            /\ UNCHANGED <<shuttingDown, state, active, nextID>>
        BY <1>25, <2>1, NameFacts DEF AdmitChunk, Playable, Publish, control
      <3>2. Lifecycle!Chunk
        BY <3>1, NoSessionIsZero DEF Lifecycle!Chunk, Lifecycle!Change
      <3>3. QED
        BY <3>1, <3>2 DEF Lifecycle!Next
    <2>2. CASE ~Playable(s)
      BY <1>25, <2>2 DEF AdmitChunk, Quiet, control, managerVars
    <2>3. QED
      BY <2>1, <2>2
  <1>26. ASSUME NEW s \in Sessions, BeginSpeak(s)
         PROVE  Refines
    BY <1>26 DEF BeginSpeak, Quiet, commands, control, playback, managerVars
  <1>27. ASSUME NEW s \in Sessions, EndSpeak(s)
         PROVE  Refines
    BY <1>27 DEF EndSpeak, Quiet, commands, control, playback, managerVars
  <1>28. ASSUME NEW s \in Sessions, SaveProgress(s)
         PROVE  Refines
    BY <1>28 DEF SaveProgress, Quiet, commands, control, playback, managerVars
  <1>29. ASSUME NEW s \in Sessions, MarkDurablePosition(s)
         PROVE  Refines
    BY <1>29 DEF MarkDurablePosition, Quiet, commands, control, playback,
       managerVars
  <1>30. ASSUME NEW s \in Sessions, UpdateProgress(s)
         PROVE  Refines
    <2>1. CASE UpdatesProgress(s)
      <3>1. /\ state \in {"playing", "paused"} /\ active # NoSession
            /\ event'.type = "progress.updated"
            /\ UNCHANGED <<shuttingDown, state, active, nextID>>
        BY <1>30, <2>1, NameFacts
           DEF UpdateProgress, UpdatesProgress, Publish, control
      <3>2. Lifecycle!Progress
        BY <3>1, NoSessionIsZero DEF Lifecycle!Progress, Lifecycle!Change
      <3>3. QED
        BY <3>1, <3>2 DEF Lifecycle!Next
    <2>2. CASE ~UpdatesProgress(s)
      BY <1>30, <2>2 DEF UpdateProgress, Quiet, control, managerVars
    <2>3. QED
      BY <2>1, <2>2
  <1>31. ASSUME NEW s \in Sessions, ValidateAtEOF(s)
         PROVE  Refines
    BY <1>31 DEF ValidateAtEOF, Quiet, commands, control, playback,
       managerVars
  <1>32. ASSUME NEW s \in Sessions, Finalize(s)
         PROVE  Refines
    <2>1. active = s /\ pc[s] = "finalize" /\ active # NoSession
      BY <1>32, NameFacts DEF Finalize, SingleOwner, Running
    <2>2. PICK ok \in BOOLEAN, closed \in BOOLEAN : EndSession(s, ok, closed)
      BY <1>32, <2>1 DEF Finalize
    <2> DEFINE e == AfterClose(Ending(s, ok), closed)
    <2>3. /\ state' = e.state /\ active' = NoSession
          /\ event'.type = EventOf(e.state)
          /\ UNCHANGED <<shuttingDown, nextID>>
      BY <1>32, <2>2 DEF Finalize, EndSession, Publish, control
    <2>4. e.state \in {"stopped", "finished", "failed"}
      BY <2>1, EndingType DEF Endings
    <2>5. state \in {"playing", "paused", "stopping"}
      BY <2>1 DEF ActiveMatchesState, LiveStates
    <2>6. e.state = "stopped" => state = "stopping"
      <3>1. Outcome(s) = "failed" => e.state = "failed"
        BY DEF AfterClose, Ending, FailedEnding
      <3>2. Outcome(s) = "finished" => e.state \in {"finished", "failed"}
        BY DEF AfterClose, Ending, FinishedEnding
      <3>3. Outcome(s) \notin {"finished", "failed"} => state = "stopping"
        BY <2>1 DEF Outcome, StoppedOnlyWhenStopping
      <3>4. QED
        BY <3>1, <3>2, <3>3
    <2>7. e.state = "finished" => state # "stopping"
      BY DEF AfterClose, Ending, StoppedEnding, Outcome
    <2> HIDE DEF e
    <2>8. CASE e.state = "stopped"
      <3>1. Lifecycle!EndStopped
        BY <2>1, <2>3, <2>6, <2>8, NoSessionIsZero
           DEF EventOf, Lifecycle!EndStopped, Lifecycle!End
      <3>2. QED
        BY <2>3, <3>1 DEF Lifecycle!Next
    <2>9. CASE e.state = "finished"
      <3>1. Lifecycle!EndFinished
        BY <2>1, <2>3, <2>5, <2>7, <2>9, NoSessionIsZero
           DEF EventOf, Lifecycle!EndFinished, Lifecycle!End
      <3>2. QED
        BY <2>3, <3>1 DEF Lifecycle!Next
    <2>10. CASE e.state = "failed"
      <3>1. Lifecycle!EndFailed
        BY <2>1, <2>3, <2>5, <2>10, NoSessionIsZero
           DEF EventOf, Lifecycle!EndFailed, Lifecycle!End, Lifecycle!Live
      <3>2. QED
        BY <2>3, <3>1 DEF Lifecycle!Next
    <2>11. QED
      BY <2>4, <2>8, <2>9, <2>10
  <1>33. ASSUME NEW s \in Sessions, CloseDone(s)
         PROVE  Refines
    BY <1>33 DEF CloseDone, Quiet, commands, control, playback, managerVars
  <1>34. CASE BeginShutdown
    <2>1. /\ shuttingDown' = TRUE
          /\ UNCHANGED <<state, active, nextID, event>>
      BY <1>34 DEF BeginShutdown, playback, managerVars
    <2>2. Lifecycle!Close
      BY <2>1 DEF Lifecycle!Close
    <2>3. QED
      BY <2>1, <2>2 DEF Lifecycle!Next
  <1>35. ASSUME NEW b \in Books, Edit(b)
         PROVE  Refines
    BY <1>35 DEF Edit, Quiet, commands, control, playback, managerVars
  <1>36. ASSUME NEW b \in Books, OtherAcquire(b)
         PROVE  Refines
    BY <1>36 DEF OtherAcquire, Quiet, commands, control, playback, managerVars
  <1>37. ASSUME NEW b \in Books, OtherSave(b)
         PROVE  Refines
    BY <1>37 DEF OtherSave, Quiet, commands, control, playback, managerVars
  <1>38. ASSUME NEW b \in Books, OtherRelease(b)
         PROVE  Refines
    BY <1>38 DEF OtherRelease, Quiet, commands, control, playback, managerVars
  <1>39. CASE UNCHANGED vars
    BY <1>39 DEF vars, control, playback, managerVars, Quiet
  <1>40. QED
    BY <1>1, <1>2, <1>3, <1>4, <1>5, <1>6, <1>6b, <1>7, <1>8, <1>9, <1>10, <1>11,
       <1>12, <1>13, <1>14, <1>15, <1>16, <1>17, <1>18, <1>19, <1>20, <1>21,
       <1>22, <1>23, <1>24, <1>25, <1>26, <1>27, <1>28, <1>29, <1>30, <1>31,
       <1>32, <1>33, <1>34, <1>35, <1>36, <1>37, <1>38, <1>39 DEF Next,
       CallStep, WorkerStep, Environment

\* Once shutdown has begun and no session is active none ever becomes active,
\* although Start looks at the flag long before it commits.
THEOREM ShutdownIsFinal == Spec => NoStartAfterShutdown
PROOF
  <1>1. TypeInv /\ IndInv /\ [Next]_vars =>
          [shuttingDown /\ active = NoSession => active' = NoSession]_vars
    BY StepRefines DEF Quiet
  <1>2. QED
    BY <1>1, Safety, PTL DEF Spec, NoStartAfterShutdown

\* Clients that follow the events see one life cycle after the other: each
\* session announced, ended once, stopped when it was stopping, and no session
\* after the shutdown began.
THEOREM Refinement == Spec => ImplementsLifecycle
PROOF
  <1>1. Init => Lifecycle!Init
    BY NoSessionIsZero DEF Init, Lifecycle!Init
  <1>2. TypeInv /\ IndInv /\ [Next]_vars =>
          [Lifecycle!Next]_(Lifecycle!lifecycle)
    BY StepRefines DEF Quiet, Lifecycle!lifecycle
  <1>3. QED
    BY <1>1, <1>2, Safety, PTL DEF Spec, ImplementsLifecycle, Lifecycle!Spec

-----------------------------------------------------------------------------
(* The leases of the manager *)

\* A step takes one lease, gives one back, or hands one from a call to the
\* session it starts.
LEMMA LeasesMove ==
    ASSUME TypeInv, IndInv, PositionInv, [Next]_vars
    PROVE  \/ UNCHANGED lease
           \/ \E b \in Books :
                \/ lease[b] = Free
                     /\ \E o \in Calls \cup {Other} : lease' = [lease EXCEPT ![b] = o]
                \/ lease[b] # Free /\ lease' = [lease EXCEPT ![b] = Free]
                \/ lease[b] \in Calls
                     /\ \E s \in Sessions : lease' = [lease EXCEPT ![b] = s]
PROOF
  <1> DEFINE Moves ==
        \/ UNCHANGED lease
        \/ \E b \in Books :
             \/ lease[b] = Free
                  /\ \E o \in Calls \cup {Other} : lease' = [lease EXCEPT ![b] = o]
             \/ lease[b] # Free /\ lease' = [lease EXCEPT ![b] = Free]
             \/ lease[b] \in Calls
                  /\ \E s \in Sessions : lease' = [lease EXCEPT ![b] = s]
  <1>0. /\ DiskOK /\ ManagerOK /\ CallsWellFormed /\ WorkersWellFormed
        /\ SingleOwner /\ LeasesOfCommands /\ LeaseFollowsSession /\ CallsOnRunes
    BY DEF TypeInv, TypeOK, IndInv, PositionInv
  <1>1. ASSUME NEW c \in Calls, AcquireLease(c) PROVE Moves
    <2>1. arg[c].id \in Books
      BY <1>0, <1>1 DEF AcquireLease, CallsWellFormed, Preparing
    <2>2. \/ UNCHANGED lease
          \/ /\ lease[arg[c].id] = Free
             /\ lease' = [lease EXCEPT ![arg[c].id] = c]
      BY <1>1 DEF AcquireLease
    <2>3. QED
      BY <2>1, <2>2
  <1>2. ASSUME NEW c \in Calls, Cleanup(c) PROVE Moves
    <2>1. lease' = LeasesWithout(c)
      BY <1>2 DEF Cleanup
    <2>2. CASE \E b \in Books : lease[b] = c
      <3>1. PICK b \in Books : lease[b] = c
        BY <2>2
      <3>2. \A d \in Books : lease[d] = c => d = b
        BY <1>0, <3>1 DEF LeasesOfCommands
      <3>3. lease' = [lease EXCEPT ![b] = Free]
        BY <1>0, <2>1, <3>1, <3>2 DEF LeasesWithout, DiskOK
      <3>4. lease[b] # Free
        BY <3>1, NameFacts
      <3>5. QED
        BY <3>3, <3>4
    <2>3. CASE ~\E b \in Books : lease[b] = c
      BY <1>0, <2>1, <2>3 DEF LeasesWithout, DiskOK
    <2>4. QED
      BY <2>2, <2>3
  <1>3. ASSUME NEW c \in Calls, CommitStart(c) PROVE Moves
    <2>1. arg[c].id \in Books /\ lease[arg[c].id] = c
      BY <1>0, <1>3 DEF CommitStart, CallsWellFormed, CallsOnRunes, CallOnRunes
    <2>2. \/ UNCHANGED lease
          \/ lease' = [lease EXCEPT ![arg[c].id] = nextID + 1]
      BY <1>3 DEF CommitStart, StartSession
    <2>3. nextID + 1 \in Sessions
      BY <1>0, <1>3, ConstantFacts, BoundAssumption
         DEF CommitStart, ManagerOK, Sessions, NoSession
    <2>4. QED
      BY <2>1, <2>2, <2>3
  <1>4. ASSUME NEW s \in Sessions, Finalize(s) PROVE Moves
    <2>1. CASE active # s
      BY <1>4, <2>1 DEF Finalize
    <2>2. CASE active = s
      <3>1. source[s].id \in Books /\ lease[source[s].id] = s
        BY <1>0, <1>4, <2>2
           DEF Finalize, SingleOwner, WorkersWellFormed, LeaseFollowsSession
      <3>2. lease' = [lease EXCEPT ![source[s].id] = Free]
        BY <1>4, <2>2 DEF Finalize, EndSession, ReleaseLease
      <3>3. lease[source[s].id] # Free
        BY <3>1, NameFacts
      <3>4. QED
        BY <3>1, <3>2, <3>3
    <2>3. QED
      BY <2>1, <2>2
  <1>5. ASSUME NEW b \in Books, OtherAcquire(b) PROVE Moves
    BY <1>5 DEF OtherAcquire
  <1>6. ASSUME NEW b \in Books, OtherRelease(b) PROVE Moves
    <2>1. lease[b] # Free /\ lease' = [lease EXCEPT ![b] = Free]
      BY <1>6, NameAssumption DEF OtherRelease
    <2>2. QED
      BY <2>1
  <1>7. ASSUME NEW c \in Calls, CallStep(c),
               ~AcquireLease(c), ~Cleanup(c), ~CommitStart(c)
        PROVE  UNCHANGED lease
    BY <1>7 DEF CallStep, Acquire, GiveUp, Return, CheckIdle, Inspect,
       CheckBoundary, Load, SavePosition, CommitPosition, Pause, Resume, StopMark, StopCancel,
       StopEngine, StopWait, diskVars
  <1>8. ASSUME NEW s \in Sessions, WorkerStep(s), ~Finalize(s)
        PROVE  UNCHANGED lease
    BY <1>8 DEF WorkerStep, Open, Sleep, WaitUntilPlayable, Read, CheckChunk,
       AdmitChunk, BeginSpeak, EndSpeak, SaveProgress, MarkDurablePosition,
       UpdateProgress, ValidateAtEOF, CloseDone, diskVars
  <1>9. CASE Environment
    <2>1. CASE \E b \in Books : OtherAcquire(b) \/ OtherRelease(b)
      BY <1>5, <1>6, <2>1
    <2>2. CASE ~\E b \in Books : OtherAcquire(b) \/ OtherRelease(b)
      <3>1. UNCHANGED lease
        BY <1>9, <2>2 DEF Environment, BeginShutdown, BeginCall, Expire, Edit,
           OtherSave, diskVars
      <3>2. QED
        BY <3>1
    <2>3. QED
      BY <2>1, <2>2
  <1>10. CASE UNCHANGED vars
    BY <1>10 DEF vars, diskVars
  <1>11. QED
    BY <1>1, <1>2, <1>3, <1>4, <1>7, <1>8, <1>9, <1>10 DEF Next

\* The manager takes leases as Lease promises them, so that the registry and the
\* lock files of ProgressLease are all it needs: whatever command fails, is
\* cancelled or stopped where, it gives back what it took, once, and never what
\* another process has.
THEOREM ManagerUsesLeases == Spec => UsesLeases
PROOF
  <1>1. Init => Leases!Init
    BY DEF Init, Leases!Init, Holders
  <1>2. TypeInv /\ IndInv /\ PositionInv /\ [Next]_vars => [Leases!Next]_Holders
    <2> SUFFICES ASSUME TypeInv, IndInv, PositionInv, [Next]_vars
                 PROVE  [Leases!Next]_Holders
      OBVIOUS
    <2> DEFINE Who(o) == IF o = Free THEN {}
                         ELSE IF o = Other THEN {"other"} ELSE {"this"}
    <2>0. lease \in [Books -> {Free, Other} \cup Calls \cup Sessions]
      BY DEF TypeInv, TypeOK, DiskOK
    <2>1. /\ Who(Free) = {} /\ Who(Other) = {"other"}
          /\ \A o \in Calls \cup Sessions : Who(o) = {"this"}
      BY NameFacts, NameAssumption
    <2>2. Holders = [b \in Books |-> Who(lease[b])]
      BY DEF Holders
    <2>3. Holders' = [b \in Books |-> Who(lease'[b])]
      BY DEF Holders
    <2>4. CASE UNCHANGED lease
      BY <2>4 DEF Holders
    <2> HIDE DEF Who
    <2>5. ASSUME NEW b \in Books, NEW o, lease' = [lease EXCEPT ![b] = o]
          PROVE  Holders' = [Holders EXCEPT ![b] = Who(o)]
      BY <2>0, <2>2, <2>3, <2>5
    <2>6. ASSUME NEW b \in Books, NEW o \in Calls \cup {Other},
                 lease[b] = Free, lease' = [lease EXCEPT ![b] = o]
          PROVE  \E h \in {"this", "other"} : Leases!Take(h, b)
      <3>1. Holders[b] = {} /\ Holders' = [Holders EXCEPT ![b] = Who(o)]
        BY <2>1, <2>2, <2>5, <2>6
      <3>2. Who(o) = {"other"} \/ Who(o) = {"this"}
        BY <2>1
      <3>3. QED
        BY <3>1, <3>2 DEF Leases!Take
    <2>7. ASSUME NEW b \in Books, lease[b] # Free, lease' = [lease EXCEPT ![b] = Free]
          PROVE  \E h \in {"this", "other"} : Leases!Give(h, b)
      <3>1. Holders[b] = {"other"} \/ Holders[b] = {"this"}
        BY <2>0, <2>1, <2>2, <2>7
      <3>2. Holders' = [Holders EXCEPT ![b] = {}]
        BY <2>1, <2>5, <2>7
      <3>3. QED
        BY <3>1, <3>2 DEF Leases!Give
    <2>8. ASSUME NEW b \in Books, NEW s \in Sessions,
                 lease[b] \in Calls, lease' = [lease EXCEPT ![b] = s]
          PROVE  UNCHANGED Holders
      <3>1. Holders' = [Holders EXCEPT ![b] = {"this"}] /\ Holders[b] = {"this"}
        BY <2>1, <2>2, <2>5, <2>8
      <3>2. QED
        BY <2>2, <3>1
    <2>9. QED
      BY <2>4, <2>6, <2>7, <2>8, LeasesMove DEF Leases!Next
  <1>3. QED
    BY <1>1, <1>2, PositionSafety, PTL DEF Spec, UsesLeases, Leases!Spec

\* Of all the goroutines that save a position, each does so while it holds the
\* lease of that very file: the worker that speaks on after its session was
\* stopped and the session that ends included.
THEOREM SavedUnderLease == Spec => SavesUnderLease
PROOF
  <1> DEFINE A == \A b \in Books : saved'[b] # saved[b] =>
                    \/ lease[b] = Other
                    \/ \E c \in Calls : lease[b] = c /\ step[c] = "save"
                    \/ lease[b] = active /\ source[active].id = b
  <1>1. TypeInv /\ IndInv /\ PositionInv /\ [Next]_vars => [A]_vars
    <2> SUFFICES ASSUME TypeInv, IndInv, PositionInv, Next, NEW b \in Books,
                        saved'[b] # saved[b]
                 PROVE  \/ lease[b] = Other
                        \/ \E c \in Calls : lease[b] = c /\ step[c] = "save"
                        \/ lease[b] = active /\ source[active].id = b
      OBVIOUS
    <2>0. /\ DiskOK /\ CallsWellFormed /\ SingleOwner /\ LeaseFollowsSession
          /\ CallsOnRunes
      BY DEF TypeInv, TypeOK, IndInv, PositionInv
    <2>1. ASSUME NEW d, NEW v, NEW p, Written(d, v, p) PROVE b = d
      BY <2>0, <2>1 DEF Written, DiskOK
    <2>2. ASSUME NEW c \in Calls, SavePosition(c)
          PROVE  lease[b] = c /\ step[c] = "save"
      <3>1. Written(arg[c].id, arg[c].ver, arg[c].pos) /\ step[c] = "save"
        BY <2>2 DEF SavePosition
      <3>2. QED
        BY <2>0, <2>1, <3>1 DEF CallsOnRunes, CallOnRunes
    <2>3. ASSUME NEW s \in Sessions, SaveProgress(s) \/ Finalize(s)
          PROVE  lease[b] = active /\ source[active].id = b
      <3>1. \E v, p : Written(source[s].id, v, p)
        BY <2>3 DEF SaveProgress, Finalize, EndSession
      <3>2. b = source[s].id
        BY <2>1, <3>1
      <3>3. active = s
        BY <2>0, <2>3 DEF SaveProgress, Finalize, SingleOwner, Running
      <3>4. QED
        BY <2>0, <3>2, <3>3 DEF LeaseFollowsSession
    <2>4. ASSUME NEW d \in Books, OtherSave(d) PROVE lease[b] = Other
      BY <2>1, <2>4 DEF OtherSave
    <2>5. CASE \E c \in Calls : CallStep(c)
      BY <2>2, <2>5 DEF CallStep, Acquire, GiveUp, Cleanup, Return, CheckIdle,
         Inspect, CheckBoundary, AcquireLease, Load, CommitStart,
         CommitPosition, Pause, Resume,
         StopMark, StopCancel, StopEngine, StopWait, diskVars
    <2>6. CASE \E s \in Sessions : WorkerStep(s)
      BY <2>3, <2>6 DEF WorkerStep, Open, Sleep, WaitUntilPlayable, Read,
         CheckChunk, AdmitChunk, BeginSpeak, EndSpeak, MarkDurablePosition,
         UpdateProgress, ValidateAtEOF, CloseDone, diskVars
    <2>7. CASE Environment
      BY <2>4, <2>7 DEF Environment, BeginShutdown, BeginCall, Expire, Edit,
         OtherAcquire, OtherRelease, diskVars
    <2>8. QED
      BY <2>5, <2>6, <2>7 DEF Next
  <1>2. QED
    BY <1>1, PositionSafety, PTL DEF Spec, SavesUnderLease

-----------------------------------------------------------------------------
(* The composition implements PlaybackManager *)

\* engine.Stop is entered and left at the step of the manager that calls it.
AskersInEngine == \A c \in Calls : asking[c] # "none" => step[c] = "engine"

\* A return of engine.Stop is the step StopEngine of the manager.
LEMMA StopReturnsIsStopEngine ==
    ASSUME NEW c \in Calls, NEW r, step[c] = "engine", StopReturns(c, r)
    PROVE  StopEngine(c)
PROOF BY DEF StopReturns, Stopped, StopEngine, Goto, engine

\* A step of an engine is a step of its manager, or leaves the manager alone.
LEMMA StepIsManagerStep ==
    ASSUME AskersInEngine, EngineNext PROVE [Next]_vars
PROOF
  <1>1. ASSUME NEW c \in Calls, EngineCallStep(c) PROVE [Next]_vars
    <2>1. CASE ManagerCallStep(c)
      BY <2>1 DEF ManagerCallStep, Next
    <2>2. CASE LookUp(c)
      <3>1. step[c] = "engine" /\ (StopReturns(c, "nil") \/ UNCHANGED vars)
        BY <2>2 DEF LookUp
      <3>2. QED
        BY <3>1, StopReturnsIsStopEngine DEF Next, CallStep
    <2>3. CASE Halt(c)
      BY <2>3 DEF Halt
    <2>4. CASE AwaitDone(c)
      <3>1. step[c] = "engine" /\ \E r \in {"nil", "context"} : StopReturns(c, r)
        BY <2>4 DEF AwaitDone, AskersInEngine
      <3>2. QED
        BY <3>1, StopReturnsIsStopEngine DEF Next, CallStep
    <2>5. QED
      BY <1>1, <2>1, <2>2, <2>3, <2>4 DEF EngineCallStep
  <1>2. ASSUME NEW s \in Sessions, EngineWorkerStep(s) PROVE [Next]_vars
    BY <1>2 DEF EngineWorkerStep, ManagerWorkerStep, Register, StartSpeaker,
                EndSpeaker, Clear, SpeakReturns, Next, WorkerStep
  <1>3. CASE Environment
    BY <1>3 DEF Next
  <1>4. QED
    BY <1>1, <1>2, <1>3 DEF EngineNext

-----------------------------------------------------------------------------
(* What the steps of the manager do to a call inside engine.Stop *)

LEMMA WorkerFrame ==
    ASSUME NEW s \in Sessions, WorkerStep(s)
    PROVE  UNCHANGED <<step, target, cancelled>>
PROOF
  BY DEF WorkerStep, Open, Sleep, WaitUntilPlayable, Read, CheckChunk,
         AdmitChunk, BeginSpeak, EndSpeak, SaveProgress, MarkDurablePosition,
         UpdateProgress, ValidateAtEOF, Finalize, CloseDone, commands, callVars,
         request, sessionVars

LEMMA EnvironmentFrame ==
    ASSUME CallOK, CallsWellFormed, Environment
    PROVE  /\ UNCHANGED <<target, cancelled>>
           /\ \A d \in Calls :
                /\ step[d] = "engine" => step'[d] = "engine"
                /\ step'[d] = "engine" => step[d] = "engine"
PROOF
  BY DEF Environment, BeginShutdown, BeginCall, Expire, Edit, OtherAcquire,
         OtherSave, OtherRelease, commands, callVars, request, playback,
         sessionVars, Goto, CallOK

\* Only the call itself moves its step and its target, and it enters
\* engine.Stop for a session it has cancelled.
LEMMA CallFrame ==
    ASSUME CallOK, NEW c \in Calls, CallStep(c), step[c] # "engine"
    PROVE  /\ cancelled \subseteq cancelled'
           /\ \A d \in Calls \ {c} : step'[d] = step[d] /\ target'[d] = target[d]
           /\ step'[c] = "engine" => target'[c] \in cancelled'
PROOF
  <1>0. step \in [Calls -> Steps] /\ target \in [Calls -> Sessions \cup {NoSession}]
    BY DEF CallOK
  <1>1. CASE StopCancel(c)
    BY <1>0, <1>1 DEF StopCancel, Goto, request
  <1>2. CASE StopMark(c) \/ StopWait(c)
    BY <1>0, <1>2 DEF StopMark, StopWait, Goto, ReplyFrom, request, playback,
                      sessionVars
  <1>3. CASE Acquire(c) \/ GiveUp(c) \/ Cleanup(c) \/ Return(c) \/ Pause(c) \/ Resume(c)
    BY <1>0, <1>3 DEF Acquire, GiveUp, Cleanup, Return, Pause, Resume, FirstStep,
                      Goto, ReplyFrom, request, playback, sessionVars
  <1>4. CASE \/ CheckIdle(c) \/ Inspect(c) \/ CheckBoundary(c)
             \/ AcquireLease(c) \/ Load(c)
             \/ CommitStart(c) \/ SavePosition(c) \/ CommitPosition(c)
    BY <1>0, <1>4 DEF CheckIdle, Inspect, CheckBoundary, AcquireLease, Load,
                      CommitStart, SavePosition, CommitPosition, Goto, ReplyFrom, request,
                      playback, sessionVars
  <1>5. QED
    BY <1>1, <1>2, <1>3, <1>4 DEF CallStep, StopEngine

-----------------------------------------------------------------------------
(* The invariant of the engine *)

LEMMA EngineInvInit ==
    ASSUME EngineInit PROVE TypeInv /\ EngineInv
PROOF
  <1>1. TypeInv
    BY TypeInit DEF EngineInit
  <1>2. EngineInv
    BY DEF EngineInit, Init, EngineInv, EngineTypeOK, AskersHold, CurrentSpeak,
           SilentAfterStop
  <1>3. QED
    BY <1>1, <1>2

\* Every step keeps the types of the engine.
LEMMA EngineTypeNext ==
    ASSUME TypeInv, EngineInv, EngineNext PROVE EngineTypeOK'
PROOF
  <1>1. EngineTypeOK /\ CallOK
    BY DEF EngineInv, TypeInv, TypeOK
  <1>2. CASE UNCHANGED speech
    BY <1>1, <1>2 DEF EngineTypeOK, speech, engine, asker
  <1>3. ASSUME NEW s \in Sessions, Register(s) \/ StartSpeaker(s) \/ EndSpeaker(s)
                 \/ Clear(s) \/ SpeakReturns(s)
        PROVE  EngineTypeOK'
    BY <1>1, <1>3 DEF EngineTypeOK, Register, Registered, StartSpeaker, EndSpeaker,
                      Clear, Cleared, SpeakReturns, SpeakGoto, asker
  <1>4. ASSUME NEW c \in Calls, LookUp(c) \/ Halt(c) \/ AwaitDone(c)
        PROVE  EngineTypeOK'
    <2>1. CASE \E r \in {"nil", "context"} : StopReturns(c, r)
      <3>1. PICK r \in {"nil", "context"} : StopReturns(c, r)
        BY <2>1
      <3>2. stopErr' \in [Sessions -> {"none", "nil", "context"}]
        BY <1>1, <3>1 DEF StopReturns, EngineTypeOK
      <3>3. QED
        BY <1>1, <3>1, <3>2 DEF StopReturns, EngineTypeOK, engine
    <2>2. CASE ~ \E r \in {"nil", "context"} : StopReturns(c, r)
      <3>1. target[c] \in Sessions
        BY <1>1, <1>4 DEF EngineInv, AskersHold, LookUp, Halt, AwaitDone, TypeInv,
                          CallsWellFormed
      <3>2. QED
        BY <1>1, <1>4, <2>2, <3>1 DEF EngineTypeOK, LookUp, Halt, AwaitDone, engine
    <2>3. QED
      BY <2>1, <2>2
  <1>5. QED
    BY <1>2, <1>3, <1>4 DEF EngineNext, EngineCallStep, EngineWorkerStep,
                            ManagerCallStep, ManagerWorkerStep

\* A step of the manager leaves the calls inside engine.Stop alone, and never
\* takes a cancellation back.
LEMMA ManagerKeepsAskers ==
    ASSUME CallOK, CallsWellFormed, EngineInv,
           \/ \E c \in Calls : ManagerCallStep(c)
           \/ \E s \in Sessions : WorkerStep(s)
           \/ Environment
    PROVE  /\ cancelled \subseteq cancelled'
           /\ \A d \in Calls :
                /\ step'[d] = "engine" => target'[d] \in cancelled'
                /\ asking[d] # "none" => /\ step'[d] = "engine"
                                        /\ target'[d] = target[d]
PROOF
  <1>1. /\ \A c \in Calls : step[c] = "engine" => target[c] \in cancelled
        /\ \A c \in Calls : asking[c] # "none" => step[c] = "engine"
    BY DEF EngineInv, AskersHold
  <1>2. ASSUME NEW c \in Calls, ManagerCallStep(c)
        PROVE  /\ cancelled \subseteq cancelled'
               /\ \A d \in Calls :
                    /\ step'[d] = "engine" => target'[d] \in cancelled'
                    /\ asking[d] # "none" => /\ step'[d] = "engine"
                                            /\ target'[d] = target[d]
    <2>1. CallStep(c) /\ step[c] # "engine"
      BY <1>2 DEF ManagerCallStep
    <2>2. /\ cancelled \subseteq cancelled'
          /\ \A d \in Calls \ {c} : step'[d] = step[d] /\ target'[d] = target[d]
          /\ step'[c] = "engine" => target'[c] \in cancelled'
      BY <2>1, CallFrame
    <2>3. QED
      BY <1>1, <2>1, <2>2
  <1>3. ASSUME NEW s \in Sessions, WorkerStep(s)
        PROVE  UNCHANGED <<step, target, cancelled>>
    BY <1>3, WorkerFrame
  <1>4. CASE Environment
    BY <1>1, <1>4, EnvironmentFrame
  <1>5. QED
    BY <1>1, <1>2, <1>3, <1>4

\* Every step keeps the invariant of the engine.
LEMMA EngineInvNext ==
    ASSUME TypeInv, EngineInv, EngineNext PROVE EngineInv'
PROOF
  <1> DEFINE Recorded == \A s \in Sessions : stopErr[s] # "none" => s \in cancelled
  <1>1. /\ EngineTypeOK' /\ CallOK /\ CallsWellFormed
        /\ EngineTypeOK /\ AskersHold /\ CurrentSpeak /\ SilentAfterStop /\ Recorded
    BY EngineTypeNext DEF EngineInv, TypeInv, TypeOK
  <1>2. ASSUME UNCHANGED speech,
               \/ \E c \in Calls : ManagerCallStep(c)
               \/ \E s \in Sessions : WorkerStep(s)
               \/ Environment
        PROVE  EngineInv'
    <2>1. /\ cancelled \subseteq cancelled'
          /\ \A d \in Calls :
               /\ step'[d] = "engine" => target'[d] \in cancelled'
               /\ asking[d] # "none" => /\ step'[d] = "engine"
                                       /\ target'[d] = target[d]
      BY <1>1, <1>2, ManagerKeepsAskers
    <2>2. AskersHold'
      BY <1>1, <1>2, <2>1 DEF AskersHold, speech, engine, asker
    <2>3. CurrentSpeak' /\ SilentAfterStop' /\ Recorded'
      BY <1>1, <1>2, <2>1 DEF CurrentSpeak, SilentAfterStop, speech, engine, asker
    <2>4. QED
      BY <1>1, <2>2, <2>3 DEF EngineInv
  <1>3. ASSUME NEW s \in Sessions, Register(s)
        PROVE  EngineInv'
    <2>1. UNCHANGED <<step, target, cancelled, asking, held, stopErr>>
      BY <1>3, WorkerFrame DEF Register, asker, BeginSpeak, commands, callVars,
                               request, sessionVars
    <2>2. /\ speak' = [speak EXCEPT ![s] = "speaker"]
          /\ turn' = [turn EXCEPT ![s] = @ + 1]
          /\ current' = [current EXCEPT ![s] = turn[s] + 1]
      BY <1>3 DEF Register, Registered, SpeakGoto
    <2>3. AskersHold'
      BY <1>1, <2>1, <2>2 DEF AskersHold, EngineTypeOK
    <2>4. CurrentSpeak' /\ SilentAfterStop' /\ Recorded'
      BY <1>1, <2>1, <2>2 DEF CurrentSpeak, SilentAfterStop, EngineTypeOK
    <2>5. QED
      BY <1>1, <2>3, <2>4 DEF EngineInv
  <1>4. ASSUME NEW s \in Sessions, StartSpeaker(s)
        PROVE  EngineInv'
    <2>1. UNCHANGED <<step, target, cancelled, asking, held, stopErr, turn, current>>
      BY <1>4 DEF StartSpeaker, asker, vars, callVars, request, playback, sessionVars
    <2>2. /\ speak[s] = "speaker"
          /\ \/ speak' = [speak EXCEPT ![s] = "failed"]
             \/ speak' = [speak EXCEPT ![s] = "audible"] /\ s \notin cancelled
      BY <1>4 DEF StartSpeaker, SpeakGoto, SpeakCancelled
    <2>3. AskersHold'
      <3>1. \A c \in Calls :
              asking[c] # "none" => target[c] \in Sessions /\ target[c] \in cancelled
        BY <1>1 DEF AskersHold, CallsWellFormed
      <3>2. ASSUME NEW t \in Sessions, t \in cancelled, speak'[t] = "audible"
            PROVE  speak[t] = "audible"
        <4>1. DOMAIN speak = Sessions
          BY <1>1 DEF EngineTypeOK
        <4>2. QED
          BY <2>2, <3>2, <4>1
      <3>3. QED
        BY <1>1, <2>1, <3>1, <3>2 DEF AskersHold
    <2>4. CurrentSpeak' /\ SilentAfterStop' /\ Recorded'
      BY <1>1, <2>1, <2>2 DEF CurrentSpeak, SilentAfterStop, EngineTypeOK
    <2>5. QED
      BY <1>1, <2>3, <2>4 DEF EngineInv
  <1>5. ASSUME NEW s \in Sessions, EndSpeaker(s) \/ Clear(s) \/ SpeakReturns(s)
        PROVE  EngineInv'
    <2>1. UNCHANGED <<step, target, cancelled, asking, held, stopErr, turn>>
      BY <1>5 DEF EndSpeaker, Clear, SpeakReturns, EndSpeak, asker, vars, callVars,
                  request, playback, sessionVars, commands
    <2>2. /\ \E n \in {"spoken", "failed", "done", "error", "none"} :
                 speak' = [speak EXCEPT ![s] = n]
          /\ \A t \in Sessions \ {s} : current'[t] = current[t]
          /\ speak'[s] \in {"spoken", "failed"} =>
               speak[s] = "audible" /\ current'[s] = current[s]
      BY <1>1, <1>5 DEF EndSpeaker, Clear, SpeakReturns, SpeakGoto, EngineTypeOK
    <2>3. AskersHold'
      BY <1>1, <2>1, <2>2 DEF AskersHold, EngineTypeOK
    <2>4. CurrentSpeak' /\ SilentAfterStop' /\ Recorded'
      BY <1>1, <2>1, <2>2 DEF CurrentSpeak, SilentAfterStop, EngineTypeOK
    <2>5. QED
      BY <1>1, <2>3, <2>4 DEF EngineInv
  <1>6. ASSUME NEW c \in Calls, LookUp(c) \/ Halt(c) \/ AwaitDone(c)
        PROVE  EngineInv'
    <2> DEFINE t == target[c]
    <2>1. step[c] = "engine" /\ t \in Sessions /\ t \in cancelled
      BY <1>1, <1>6 DEF LookUp, Halt, AwaitDone, AskersHold, CallsWellFormed
    <2>2. ASSUME NEW r \in {"nil", "context"}, StopReturns(c, r),
                 r = "nil" => speak[t] # "audible"
          PROVE  EngineInv'
      <3>1. /\ UNCHANGED <<target, cancelled, turn, current, speak>>
            /\ step' = [step EXCEPT ![c] = "wait"]
            /\ asking' = [asking EXCEPT ![c] = "none"]
            /\ held' = [held EXCEPT ![c] = 0]
            /\ stopErr' = [stopErr EXCEPT ![t] = r]
        BY <2>2 DEF StopReturns, Goto, engine, request
      <3>2. AskersHold'
        BY <1>1, <3>1 DEF AskersHold, EngineTypeOK, CallOK
      <3>3. CurrentSpeak' /\ SilentAfterStop' /\ Recorded'
        BY <1>1, <2>1, <2>2, <3>1 DEF CurrentSpeak, SilentAfterStop, EngineTypeOK
      <3>4. QED
        BY <1>1, <3>2, <3>3 DEF EngineInv
    <2>3. ASSUME UNCHANGED <<vars, turn, current, speak, stopErr>>,
                 \/ /\ asking[c] # "none"
                    /\ asking' = [asking EXCEPT ![c] = "wait"]
                    /\ UNCHANGED held
                 \/ /\ current[t] # 0
                    /\ held' = [held EXCEPT ![c] = current[t]]
                    /\ asking' = [asking EXCEPT ![c] = "cancel"]
          PROVE  EngineInv'
      <3>1. UNCHANGED <<target, cancelled, step, turn, current, speak, stopErr>>
        BY <2>3 DEF vars, callVars, request, playback, sessionVars
      <3>2. speak[t] = "audible" => current[t] = turn[t]
        BY <1>1, <2>1 DEF CurrentSpeak
      <3>3. AskersHold'
        BY <1>1, <2>1, <2>3, <3>1, <3>2 DEF AskersHold, EngineTypeOK, CallOK
      <3>4. CurrentSpeak' /\ SilentAfterStop' /\ Recorded'
        BY <1>1, <3>1 DEF CurrentSpeak, SilentAfterStop
      <3>5. QED
        BY <1>1, <3>3, <3>4 DEF EngineInv
    <2>4. CASE LookUp(c)
      <3>1. CASE current[t] = 0
        <4>1. speak[t] # "audible"
          BY <1>1, <2>1, <3>1 DEF CurrentSpeak, EngineTypeOK
        <4>2. QED
          BY <2>2, <2>4, <3>1, <4>1 DEF LookUp
      <3>2. CASE current[t] # 0
        BY <2>3, <2>4, <3>2 DEF LookUp, engine
      <3>3. QED
        BY <3>1, <3>2
    <2>5. CASE Halt(c)
      BY <2>3, <2>5 DEF Halt
    <2>6. CASE AwaitDone(c)
      <3>1. CASE DoneClosed(c) /\ StopReturns(c, "nil")
        <4>1. speak[t] # "audible"
          BY <1>1, <2>1, <2>6, <3>1 DEF DoneClosed, AwaitDone, AskersHold, EngineTypeOK
        <4>2. QED
          BY <2>2, <3>1, <4>1
      <3>2. CASE StopReturns(c, "context")
        BY <2>2, <3>2
      <3>3. QED
        BY <2>6, <3>1, <3>2 DEF AwaitDone
    <2>7. QED
      BY <1>6, <2>4, <2>5, <2>6
  <1>7. QED
    <2>1. CASE Environment /\ UNCHANGED speech
      BY <1>2, <2>1
    <2>2. ASSUME NEW c \in Calls, EngineCallStep(c) PROVE EngineInv'
      BY <1>2, <1>6, <2>2 DEF EngineCallStep, ManagerCallStep
    <2>3. ASSUME NEW s \in Sessions, EngineWorkerStep(s) PROVE EngineInv'
      BY <1>2, <1>3, <1>4, <1>5, <2>3 DEF EngineWorkerStep, ManagerWorkerStep
    <2>4. QED
      BY <2>1, <2>2, <2>3 DEF EngineNext

-----------------------------------------------------------------------------
(* The engine answers truly, and the composition is a manager *)

\* The invariants of the manager and of the engine together.
LEMMA EngineInvariant == EngineSpec => [](TypeInv /\ EngineInv)
PROOF
  <1>1. ASSUME TypeInv, EngineInv, EngineNext \/ UNCHANGED engineVars
        PROVE  TypeInv' /\ EngineInv'
    <2>1. CASE EngineNext
      <3>1. [Next]_vars
        BY <1>1, <2>1, StepIsManagerStep DEF EngineInv, AskersHold, AskersInEngine
      <3>2. TypeInv'
        BY <1>1, <3>1, TypeNext
      <3>3. QED
        BY <1>1, <2>1, <3>2, EngineInvNext
    <2>2. CASE UNCHANGED engineVars
      <3>1. UNCHANGED vars /\ UNCHANGED speech
        BY <2>2 DEF engineVars
      <3>2. TypeInv'
        BY <1>1, <3>1, TypeNext
      <3>3. UNCHANGED <<step, target, cancelled>>
        BY <3>1 DEF vars, callVars, request, playback, sessionVars
      <3>4. EngineInv'
        BY <1>1, <3>1, <3>3 DEF EngineInv, EngineTypeOK, AskersHold, CurrentSpeak,
                                SilentAfterStop, speech, engine, asker
      <3>5. QED
        BY <3>2, <3>4
    <2>3. QED
      BY <1>1, <2>1, <2>2
  <1>2. QED
    BY <1>1, EngineInvInit, PTL DEF EngineSpec

\* engine.Stop tells the truth, for every number of chunks, callers and
\* sessions: once it has answered without an error its session is silent.
THEOREM EngineSilent == EngineSpec => []SilentAfterStop
PROOF
  <1>1. EngineInv => SilentAfterStop
    BY DEF EngineInv
  <1>2. QED
    BY <1>1, EngineInvariant, PTL

\* The manager composed with its engines behaves as PlaybackManager, so every
\* safety theorem about PlaybackManager holds of the composition.
THEOREM EngineRefinesManager == EngineSpec => ImplementsManager
PROOF
  <1>1. EngineInit => Init
    BY DEF EngineInit
  <1>2. ASSUME EngineInv, EngineNext \/ UNCHANGED engineVars PROVE [Next]_vars
    <2>1. AskersInEngine
      BY <1>2 DEF EngineInv, AskersHold, AskersInEngine
    <2>2. QED
      BY <1>2, <2>1, StepIsManagerStep DEF engineVars
  <1>3. QED
    BY <1>1, <1>2, EngineInvariant, PTL DEF EngineSpec, ImplementsManager, Spec

-----------------------------------------------------------------------------
(* The server around the manager *)

\* Every step of the server is one of the manager, or leaves it alone.
LEMMA ServerStepIsManagerStep == [ServerNext]_serverVars => [Next]_vars
PROOF
  <1> SUFFICES ASSUME ServerNext PROVE [Next]_vars
    BY DEF serverVars
  <1>1. Main \in Calls /\ Requests \subseteq Calls
    BY MainAssumption DEF Requests
  <1>2. ASSUME MainStep \/ Signal \/ ListenerFails PROVE [Next]_vars
    BY <1>1, <1>2
       DEF MainStep, CloseAPI, CloseManager, CancelServe, CloseListener,
           ShutdownReturns, CallStop, Stopping, Exit, Signal, ListenerFails, Next,
           Environment
  <1>3. ASSUME NEW c \in Requests, RequestStep(c) \/ Expire(c) PROVE [Next]_vars
    BY <1>1, <1>3 DEF RequestStep, Arrive, Route, Handle, Manage, Next, Environment
  <1>4. ASSUME NEW w \in Streams, StreamStep(w) PROVE [Next]_vars
    BY <1>4 DEF StreamStep, Connect, Block, Unblock, LeaveStream
  <1>5. CASE StopTimeout
    BY <1>1, <1>5 DEF StopTimeout, Next, Environment
  <1>6. CASE UNCHANGED serverVars
    BY <1>6 DEF serverVars
  <1>7. CASE \/ \E s \in Sessions : WorkerStep(s)
             \/ \E b \in Books : Edit(b) \/ OtherAcquire(b) \/ OtherSave(b)
                                   \/ OtherRelease(b)
    BY <1>7 DEF Next, Environment
  <1>8. QED
    BY <1>2, <1>3, <1>4, <1>5, <1>6, <1>7 DEF ServerNext

\* The server with its handlers drives the manager of PlaybackManager, so what
\* is proved of the manager holds in the server.
THEOREM ServerDrivesManager == ServerSpec => Spec
PROOF
  <1>1. ServerInit => Init
    BY DEF ServerInit
  <1>2. QED
    BY <1>1, ServerStepIsManagerStep, PTL DEF ServerSpec, Spec

-----------------------------------------------------------------------------
(* What runServe relies on *)

AfterBegin == {"cancel", "shutdown", "drain", "stop", "stopping", "stopped",
               "exited"}
AfterDrain == {"stop", "stopping", "stopped", "exited"}

\* The session that was left to the final Stop, if any, is being stopped.
StopsSession == active # NoSession => active \in stopStarted

\* Where the final Stop is, and what it has found.
StopUnderWay ==
    /\ op[Main] = "stop"
    /\ step[Main] \in {"mark", "cancel", "engine", "wait", "unlock"}
    /\ step[Main] # "mark" => active \in {NoSession, target[Main]} /\ StopsSession
    /\ step[Main] = "unlock" => reply[Main] \notin {"none", "cancelled"}

\* The final Stop never waits for the gate, and past its first critical section
\* it is about the only session there still may be.
MainOrder ==
    /\ main \in {"serving", "failed", "signalled", "begin"} \cup AfterBegin
    /\ main \in AfterBegin => shuttingDown
    /\ main # "stopping" => step[Main] = "idle"
    /\ main = "stopping" => StopUnderWay
    /\ main \in {"stopped", "exited"} =>
         /\ stopReply \notin {"none", "cancelled"} /\ StopsSession
         /\ active # NoSession => stopReply = "stopping"
    /\ main \notin {"stopped", "exited"} => stopReply = "none"
    /\ exitCode # -1 => main \in {"failed", "exited"}
    /\ exitCode = 0 => main = "exited" /\ stopReply = "ok" /\ ~shutdownErr

\* Handlers and streams as the shutdown of the HTTP server sees them.
HandlersInOrder ==
    /\ handler \in [Requests -> {"none", "route", "handle", "manager"}]
    /\ stream \in [Streams -> {"none", "select", "write"}]
    /\ \A c \in Requests : handler[c] # "manager" => step[c] = "idle"
    /\ main \in AfterDrain \cup {"drain"} => ~listening
    /\ main \in AfterDrain /\ ~shutdownErr => Drained

ServerInv == MainOrder /\ HandlersInOrder

\* Once the shutdown has begun the manager may lose its session, and gets none.
LEMMA ShutdownKeeps ==
    ASSUME TypeInv, IndInv, [Next]_vars, shuttingDown
    PROVE  shuttingDown' /\ active' \in {active, NoSession}
PROOF
  <1>1. Quiet \/ (Lifecycle!Next /\ (active = NoSession => active' = NoSession))
    BY StepRefines
  <1>2. ASSUME Lifecycle!Next PROVE shuttingDown' /\ active' \in {active, NoSession}
    BY <1>2, NoSessionIsZero
       DEF Lifecycle!Next, Lifecycle!Start, Lifecycle!Pause, Lifecycle!Resume,
           Lifecycle!Stopping, Lifecycle!Chunk, Lifecycle!Progress,
           Lifecycle!Change, Lifecycle!EndStopped, Lifecycle!EndFinished,
           Lifecycle!EndFailed, Lifecycle!End, Lifecycle!Rest, Lifecycle!Close
  <1>3. QED
    BY <1>1, <1>2 DEF Quiet

\* The final Stop goes on, or returns.
LEMMA FinalStopGoesOn ==
    ASSUME TypeInv, IndInv, shuttingDown, StopUnderWay, CallStep(Main)
    PROVE  \/ StopUnderWay'
           \/ /\ step'[Main] = "idle" /\ step[Main] = "unlock"
              /\ UNCHANGED <<active, stopStarted>>
PROOF
  <1>0. /\ Main \in Calls /\ CallOK /\ SessionOK /\ CallsWellFormed /\ ManagerOK
        /\ StopFlags
    BY MainAssumption DEF TypeInv, TypeOK, IndInv
  <1>1. [Next]_vars
    BY <1>0 DEF Next
  <1>2. active' \in {active, NoSession} /\ stopStarted \subseteq stopStarted'
    BY <1>1, ShutdownKeeps, StopStartedGrows
  <1>3. CASE StopMark(Main)
    <2>1. /\ target' = [target EXCEPT ![Main] = active] /\ UNCHANGED op
          /\ step[Main] = "mark" /\ active' \in {active, NoSession}
      BY <1>2, <1>3 DEF StopMark
    <2>2. CASE active = NoSession
      <3>1. /\ reply' = [reply EXCEPT ![Main] = "ok"]
            /\ step' = [step EXCEPT ![Main] = "unlock"]
        BY <1>3, <2>2 DEF StopMark, ReplyFrom
      <3>2. QED
        BY <1>0, <2>1, <2>2, <3>1 DEF StopUnderWay, StopsSession, CallOK
    <2>3. CASE active # NoSession
      <3>1. /\ active \in stopStarted'
            /\ \E next \in {"cancel", "wait"} : step' = [step EXCEPT ![Main] = next]
        BY <1>3, <2>3 DEF StopMark, MarkStopping, Goto
      <3>2. QED
        BY <1>0, <2>1, <3>1 DEF StopUnderWay, StopsSession, CallOK
    <2>4. QED
      BY <2>2, <2>3
  <1>4. CASE StopCancel(Main) \/ StopEngine(Main)
    <2>1. /\ UNCHANGED <<op, target, active, reply, stopStarted>>
          /\ step[Main] # "mark"
          /\ \E next \in {"engine", "wait"} : step' = [step EXCEPT ![Main] = next]
      BY <1>4 DEF StopCancel, StopEngine, Goto, request, managerVars
    <2>2. QED
      BY <1>0, <2>1 DEF StopUnderWay, StopsSession, CallOK
  <1>5. CASE StopWait(Main)
    <2>1. /\ UNCHANGED <<op, target, active, stopStarted>>
          /\ step[Main] = "wait" /\ target[Main] \in Sessions
          /\ step' = [step EXCEPT ![Main] = "unlock"]
      BY <1>0, <1>5 DEF StopWait, ReplyFrom, request, playback, managerVars,
                        sessionVars, CallsWellFormed
    <2>2. \E r \in {StopReply(target[Main]), "stopping"} :
              reply' = [reply EXCEPT ![Main] = r]
      BY <1>5 DEF StopWait, ReplyFrom, ExpiredReply
    <2>3. StopReply(target[Main]) \notin {"none", "cancelled"}
      BY <1>0, <2>1 DEF StopReply, SessionOK, Errors
    <2>4. QED
      BY <1>0, <2>1, <2>2, <2>3 DEF StopUnderWay, StopsSession, CallOK
  <1>6. CASE Return(Main)
    BY <1>0, <1>6 DEF Return, Goto, CallOK, playback, managerVars, sessionVars
  <1>7. QED
    <2>1. /\ step[Main] \in {"mark", "cancel", "engine", "wait", "unlock"}
          /\ op[Main] = "stop"
      BY DEF StopUnderWay
    <2>2. ~ (\/ Acquire(Main) \/ GiveUp(Main) \/ Cleanup(Main) \/ CheckIdle(Main)
             \/ Inspect(Main) \/ CheckBoundary(Main) \/ AcquireLease(Main)
             \/ Load(Main)
             \/ CommitStart(Main) \/ SavePosition(Main) \/ CommitPosition(Main)
             \/ Pause(Main) \/ Resume(Main))
      BY <2>1 DEF Acquire, GiveUp, Cleanup, CheckIdle, Inspect, CheckBoundary,
                  AcquireLease, Load, CommitStart, SavePosition, CommitPosition, Pause, Resume
    <2>3. QED
      BY <1>3, <1>4, <1>5, <1>6, <2>2 DEF CallStep

-----------------------------------------------------------------------------
(* The invariant of the server *)

LEMMA ServerInvInit == ServerInit => ServerInv
PROOF
  <1>1. Main \in Calls /\ Requests \subseteq Calls
    BY MainAssumption DEF Requests
  <1>2. QED
    BY <1>1 DEF ServerInit, Init, ServerInv, MainOrder, AfterBegin, HandlersInOrder,
                AfterDrain

\* A step of somebody else leaves runServe where it is, and the manager as it
\* found it.
LEMMA MainWaits ==
    ASSUME TypeInv, IndInv, MainOrder, [Next]_vars, UNCHANGED mainVars,
           /\ step'[Main] = step[Main] /\ op'[Main] = op[Main]
           /\ target'[Main] = target[Main] /\ reply'[Main] = reply[Main]
    PROVE  MainOrder'
PROOF
  <1>1. UNCHANGED <<main, shutdownErr, stopReply, exitCode>>
    BY DEF mainVars
  <1>2. stopStarted \subseteq stopStarted'
    BY StopStartedGrows
  <1>3. main \in AfterBegin => shuttingDown' /\ active' \in {active, NoSession}
    BY ShutdownKeeps DEF MainOrder
  <1>4. main = "stopping" => StopUnderWay'
    BY <1>2, <1>3 DEF MainOrder, StopUnderWay, StopsSession, AfterBegin
  <1>5. main \in {"stopped", "exited"} => StopsSession' /\ active' \in {active, NoSession}
    BY <1>2, <1>3 DEF MainOrder, StopsSession, AfterBegin
  <1>6. QED
    BY <1>1, <1>3, <1>4, <1>5 DEF MainOrder, AfterBegin

\* The steps of runServe and of the listener.
LEMMA MainGoesOn ==
    ASSUME TypeInv, IndInv, MainOrder, HandlersInOrder, [Next]_vars,
           MainStep \/ Signal \/ ListenerFails, Alive
    PROVE  MainOrder' /\ HandlersInOrder'
PROOF
  <1>0. Main \in Calls /\ Requests = Calls \ {Main} /\ CallOK
    BY MainAssumption DEF Requests, TypeInv, TypeOK
  <1>1. ASSUME UNCHANGED <<vars, http>>
        PROVE  /\ UNCHANGED <<step, op, target, reply, active, stopStarted>>
               /\ UNCHANGED <<shuttingDown, handler, stream>>
    BY <1>1 DEF vars, control, playback, managerVars, sessionVars, callVars, request,
                http
  <1>2. CASE Signal \/ ListenerFails \/ CloseAPI
    BY <1>1, <1>2
       DEF Signal, ListenerFails, CloseAPI, MainGoto, MainOrder, HandlersInOrder,
           AfterBegin, AfterDrain, Drained
  <1>3. CASE CloseManager
    <2>1. /\ UNCHANGED <<callVars, shutdownErr, stopReply, exitCode, http>>
          /\ shuttingDown' /\ main = "begin" /\ main' = "cancel"
      BY <1>3 DEF CloseManager, BeginShutdown, MainGoto
    <2>2. QED
      BY <2>1 DEF MainOrder, HandlersInOrder, AfterBegin, AfterDrain, callVars, http
  <1>4. CASE CancelServe \/ CloseListener
    BY <1>1, <1>4
       DEF CancelServe, CloseListener, MainGoto, MainOrder, HandlersInOrder,
           AfterBegin, AfterDrain
  <1>5. CASE ShutdownReturns
    <2>1. /\ UNCHANGED <<vars, http, stopReply, exitCode, listening>>
          /\ main = "drain" /\ main' = "stop"
          /\ ~shutdownErr' => Drained
      BY <1>5 DEF ShutdownReturns, MainGoto, AfterShutdown
    <2>2. QED
      BY <1>1, <2>1
         DEF MainOrder, HandlersInOrder, AfterBegin, AfterDrain, Drained
  <1>6. CASE CallStop
    <2>1. /\ main = "stop" /\ main' = "stopping"
          /\ UNCHANGED <<shutdownErr, stopReply, exitCode, http, listening,
                         shuttingDown, active, stopStarted>>
      BY <1>6 DEF CallStop, MainGoto, BeginCall, control, playback, managerVars,
                  sessionVars
    <2>2. op'[Main] = "stop" /\ step'[Main] = "mark"
      <3>1. shuttingDown
        BY <2>1 DEF MainOrder, AfterBegin
      <3>2. PICK o \in Commands : /\ op' = [op EXCEPT ![Main] = o]
                                  /\ Goto(Main, IF o = "stop" /\ shuttingDown
                                                THEN "mark" ELSE "lock")
        BY <1>6 DEF CallStop, BeginCall
      <3>3. o = "stop"
        BY <1>0, <1>6, <3>2 DEF CallStop, CallOK
      <3>4. QED
        BY <1>0, <1>6, <3>1, <3>2, <3>3 DEF CallStop, Goto, CallOK
    <2>3. StopUnderWay'
      BY <2>2 DEF StopUnderWay
    <2>4. \A c \in Requests : step'[c] = step[c]
      BY <1>0, <1>6, OthersStay DEF CallStop
    <2>5. QED
      BY <2>1, <2>3, <2>4
         DEF MainOrder, HandlersInOrder, AfterBegin, AfterDrain, Drained, http
  <1>7. CASE Stopping
    <2>1. /\ main = "stopping" /\ CallStep(Main) /\ shuttingDown /\ StopUnderWay
          /\ UNCHANGED <<shutdownErr, exitCode, http, listening>>
      BY <1>7 DEF Stopping, MainOrder, AfterBegin
    <2>2. shuttingDown'
      BY <2>1, ShutdownKeeps
    <2>3. \A c \in Requests : step'[c] = step[c]
      BY <1>0, <2>1, OthersStay
    <2>4. HandlersInOrder'
      <3>1. main' \in {"stopping", "stopped"}
        BY <1>7 DEF Stopping, MainGoto
      <3>2. QED
        BY <2>1, <2>3, <3>1 DEF HandlersInOrder, AfterDrain, Drained, http
    <2>5. CASE StopUnderWay'
      <3>1. step'[Main] # "idle"
        BY <2>5 DEF StopUnderWay
      <3>2. UNCHANGED <<main, stopReply>>
        BY <1>7, <3>1 DEF Stopping
      <3>3. QED
        BY <2>1, <2>2, <2>4, <2>5, <3>2 DEF MainOrder, AfterBegin
    <2>6. CASE /\ step'[Main] = "idle" /\ step[Main] = "unlock"
               /\ UNCHANGED <<active, stopStarted>>
      <3>1. main' = "stopped" /\ stopReply' = reply[Main]
        BY <1>7, <2>6 DEF Stopping, MainGoto
      <3>2. reply[Main] # "stopping" => active = NoSession
        <4>1. /\ SingleOwner /\ StopAnswersTruly /\ op[Main] = "stop"
              /\ active \in {NoSession, target[Main]}
          BY <2>1, <2>6 DEF IndInv, StopUnderWay
        <4>2. target[Main] = NoSession \/ target[Main] \in Sessions
          BY <1>0 DEF CallOK
        <4>3. QED
          BY <1>0, <2>6, <4>1, <4>2 DEF SingleOwner, StopAnswersTruly
      <3>3. StopsSession' /\ reply[Main] \notin {"none", "cancelled"}
        BY <2>1, <2>6 DEF StopUnderWay, StopsSession
      <3>4. QED
        BY <2>1, <2>2, <2>4, <2>6, <3>1, <3>2, <3>3 DEF MainOrder, AfterBegin
    <2>7. QED
      BY <2>1, <2>5, <2>6, FinalStopGoesOn
  <1>8. CASE Exit
    <2>1. /\ main = "stopped" /\ main' = "exited" /\ exitCode' = ExitStatus
          /\ UNCHANGED <<vars, shutdownErr, stopReply, http, listening>>
      BY <1>8 DEF Exit, MainGoto
    <2>2. UNCHANGED <<step, op, target, reply, active, stopStarted, shuttingDown,
                      handler, stream>>
      BY <1>1, <2>1
    <2>3. exitCode' = 0 => stopReply' = "ok" /\ ~shutdownErr'
      BY <2>1 DEF ExitStatus
    <2>4. QED
      BY <2>1, <2>2, <2>3
         DEF MainOrder, HandlersInOrder, AfterBegin, AfterDrain, Drained, StopsSession
  <1>9. QED
    BY <1>2, <1>3, <1>4, <1>5, <1>6, <1>7, <1>8 DEF MainStep

\* The steps of the handlers.
LEMMA HandlersGoOn ==
    ASSUME CallOK, HandlersInOrder, UNCHANGED mainVars,
           \/ \E c \in Requests : RequestStep(c)
           \/ (\E c \in Requests : Expire(c)) /\ UNCHANGED http
           \/ \E w \in Streams : UNCHANGED vars /\ StreamStep(w)
           \/ UNCHANGED <<callVars, http>>
           \/ Expire(Main) /\ UNCHANGED http
    PROVE  HandlersInOrder'
PROOF
  <1>0. UNCHANGED <<main, shutdownErr, listening>>
    BY DEF mainVars
  <1>1. Main \in Calls /\ Requests = Calls \ {Main}
    BY MainAssumption DEF Requests
  <1>2. ASSUME NEW c \in Requests, RequestStep(c) PROVE HandlersInOrder'
    <2>1. UNCHANGED stream
      BY <1>2 DEF RequestStep, Arrive, Route, Handle, Manage
    <2>2. \A d \in Requests \ {c} : step'[d] = step[d]
      BY <1>1, <1>2, OthersStay
         DEF RequestStep, Arrive, Route, Handle, Manage, vars, callVars
    <2>3. PICK next \in {"none", "route", "handle", "manager"} :
              handler' = [handler EXCEPT ![c] = next]
      BY <1>2 DEF RequestStep, Arrive, Route, Handle, Manage, HandlerGoto,
                  HandlersInOrder
    <2>4. next # "manager" => step'[c] = "idle"
      BY <1>1, <1>2, <2>3
         DEF RequestStep, Arrive, Route, Handle, Manage, HandlerGoto, HandlersInOrder,
             vars, callVars, CallOK
    <2>5. handler[c] # "none" \/ listening
      BY <1>2 DEF RequestStep, Arrive, Route, Handle, Manage
    <2>6. QED
      BY <1>0, <1>1, <2>1, <2>2, <2>3, <2>4, <2>5
         DEF HandlersInOrder, Drained, AfterDrain
  <1>3. ASSUME NEW c \in Requests \cup {Main}, Expire(c), UNCHANGED http
        PROVE  HandlersInOrder'
    <2>1. UNCHANGED step
      BY <1>3 DEF Expire
    <2>2. QED
      BY <1>0, <1>3, <2>1 DEF HandlersInOrder, Drained, AfterDrain, http
  <1>4. ASSUME NEW w \in Streams, UNCHANGED vars, StreamStep(w)
        PROVE  HandlersInOrder'
    <2>1. UNCHANGED <<handler, step>>
      BY <1>4 DEF StreamStep, Connect, Block, Unblock, LeaveStream, vars, callVars
    <2>2. PICK next \in {"none", "select", "write"} :
              stream' = [stream EXCEPT ![w] = next]
      BY <1>4 DEF StreamStep, Connect, Block, Unblock, LeaveStream, StreamGoto
    <2>3. stream[w] # "none" \/ listening
      BY <1>4 DEF StreamStep, Connect, Block, Unblock, LeaveStream
    <2>4. QED
      BY <1>0, <2>1, <2>2, <2>3 DEF HandlersInOrder, Drained, AfterDrain
  <1>5. CASE UNCHANGED <<callVars, http>>
    BY <1>0, <1>5 DEF HandlersInOrder, Drained, AfterDrain, http, callVars
  <1>6. QED
    BY <1>2, <1>3, <1>4, <1>5

\* Every step keeps the invariant of the server.
LEMMA ServerInvNext ==
    ASSUME TypeInv, IndInv, ServerInv, [ServerNext]_serverVars
    PROVE  ServerInv'
PROOF
  <1>0. /\ MainOrder /\ HandlersInOrder /\ CallOK
        /\ Main \in Calls /\ Requests = Calls \ {Main}
    BY MainAssumption DEF ServerInv, Requests, TypeInv, TypeOK
  <1>1. [Next]_vars
    BY ServerStepIsManagerStep
  <1>2. CASE Alive /\ (MainStep \/ Signal \/ ListenerFails)
    BY <1>0, <1>1, <1>2, MainGoesOn DEF ServerInv
  <1>3. ASSUME UNCHANGED mainVars,
               \/ UNCHANGED callVars
               \/ \E c \in Requests : CallStep(c) \/ BeginCall(c)
               \/ \E c \in Calls : Expire(c)
        PROVE  MainOrder'
    <2>1. /\ step'[Main] = step[Main] /\ op'[Main] = op[Main]
          /\ target'[Main] = target[Main] /\ reply'[Main] = reply[Main]
      BY <1>0, <1>3, OthersStay DEF callVars, request, Expire
    <2>2. QED
      BY <1>0, <1>1, <1>3, <2>1, MainWaits
  <1>4. ASSUME NEW c \in Requests, RequestStep(c) PROVE ServerInv'
    <2>1. /\ UNCHANGED mainVars
          /\ UNCHANGED callVars \/ CallStep(c) \/ BeginCall(c)
      BY <1>4 DEF RequestStep, Arrive, Route, Handle, Manage, vars
    <2>2. QED
      BY <1>0, <1>3, <1>4, <2>1, HandlersGoOn DEF ServerInv
  <1>5. ASSUME NEW c \in Calls, Expire(c), UNCHANGED <<mainVars, http>>
        PROVE  ServerInv'
    BY <1>0, <1>3, <1>5, HandlersGoOn DEF ServerInv
  <1>6. ASSUME NEW w \in Streams, StreamStep(w) PROVE ServerInv'
    <2>1. UNCHANGED <<vars, mainVars>>
      BY <1>6 DEF StreamStep, Connect, Block, Unblock, LeaveStream
    <2>2. QED
      BY <1>0, <1>3, <1>6, <2>1, HandlersGoOn DEF ServerInv, vars
  <1>7. ASSUME UNCHANGED <<callVars, mainVars, http>> PROVE ServerInv'
    BY <1>0, <1>3, <1>7, HandlersGoOn DEF ServerInv
  <1>8. CASE UNCHANGED serverVars
    BY <1>7, <1>8 DEF serverVars, vars
  <1>9. ASSUME UNCHANGED <<mainVars, http>>,
               \/ \E s \in Sessions : WorkerStep(s)
               \/ \E b \in Books : Edit(b) \/ OtherAcquire(b) \/ OtherSave(b)
                                     \/ OtherRelease(b)
        PROVE  ServerInv'
    BY <1>7, <1>9, CallsStay
  <1>10. CASE StopTimeout /\ UNCHANGED <<mainVars, http>>
    BY <1>0, <1>5, <1>10 DEF StopTimeout
  <1>11. QED
    BY <1>0, <1>2, <1>4, <1>5, <1>6, <1>8, <1>9, <1>10 DEF ServerNext

-----------------------------------------------------------------------------
(* The end of the server *)

LEMMA ServerSafety == ServerSpec => [](TypeInv /\ IndInv /\ ServerInv)
PROOF
  <1>1. ServerSpec => [](TypeInv /\ IndInv)
    BY ServerDrivesManager, Safety, PTL
  <1>2. QED
    BY <1>1, ServerInvInit, ServerInvNext, PTL DEF ServerSpec

\* When no session is active none runs.
LEMMA NobodyRuns ==
    ASSUME IndInv, active = NoSession PROVE \A s \in Sessions : ~Running(s)
PROOF
  BY ConstantFacts, NoSessionIsZero DEF IndInv, SingleOwner, Sessions

\* For every number of requests, streams and sessions: once the final Stop has
\* answered that playback is stopped no session runs, nor ever begins.
THEOREM StopsAreFinal == ServerSpec => []StopIsFinal
PROOF
  <1>1. IndInv /\ ServerInv => StopIsFinal
    BY NobodyRuns DEF ServerInv, MainOrder, StopIsFinal
  <1>2. QED
    BY <1>1, ServerSafety, PTL

\* Nor is the process left over a session that nobody has tried to stop.
THEOREM SessionsNotForgotten == ServerSpec => []NoSessionForgotten
PROOF
  <1>1. ServerInv => NoSessionForgotten
    BY DEF ServerInv, MainOrder, NoSessionForgotten, StopsSession, Signalled
  <1>2. QED
    BY <1>1, ServerSafety, PTL

\* Exit code 0 keeps its promise: nothing cut off, nothing left running, every
\* lease given back.
THEOREM CleanExit == ServerSpec => []ExitZeroIsClean
PROOF
  <1>1. ASSUME TypeInv, IndInv, ServerInv, exitCode = 0 PROVE ExitZeroIsClean
    <2>1. /\ active = NoSession /\ Drained /\ step[Main] = "idle"
          /\ \A c \in Requests : step[c] = "idle"
      BY <1>1 DEF ServerInv, MainOrder, HandlersInOrder, AfterDrain, Drained
    <2>2. \A c \in Calls : step[c] = "idle"
      BY <2>1 DEF Requests
    <2>3. \A s \in Sessions : ~Running(s) /\ s # NoSession
      BY <1>1, <2>1, NobodyRuns, ConstantFacts, NoSessionIsZero DEF Sessions
    <2>4. ASSUME NEW b \in Books PROVE lease[b] \in {Free, Other}
      <3>1. lease[b] \in {Free, Other} \cup Calls \cup Sessions
        BY <1>1 DEF TypeInv, TypeOK, DiskOK
      <3>2. lease[b] \notin Sessions
        BY <1>1, <2>1, <2>3 DEF IndInv, LeaseFollowsSession
      <3>3. lease[b] \notin Calls
        BY <1>1, <2>2 DEF IndInv, LeasesOfCommands
      <3>4. QED
        BY <3>1, <3>2, <3>3
    <2>5. QED
      BY <2>1, <2>3, <2>4 DEF ExitZeroIsClean, Drained
  <1>2. TypeInv /\ IndInv /\ ServerInv => ExitZeroIsClean
    BY <1>1 DEF ExitZeroIsClean
  <1>3. QED
    BY <1>2, ServerSafety, PTL
=============================================================================
