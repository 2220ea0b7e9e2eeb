------------------------ MODULE PlaybackSafetyProofs ------------------------
(***************************************************************************)
(* The inductive invariants IndInv and PositionInv of PlaybackProperties    *)
(* hold for every number of books, callers, sessions and edits, and with   *)
(* them the safety invariants that the runs check on small instances:      *)
(* first the types, then what is true of the sessions and their commands,  *)
(* and last of what is spoken and of the positions shown and saved.        *)
(***************************************************************************)
EXTENDS PlaybackProperties, TLAPS

-----------------------------------------------------------------------------
(* Types *)

\* The offsets of a book are offsets, and offsets are positions.
LEMMA OffsetFacts ==
    /\ Offsets \subseteq Positions /\ 0 \in Offsets
    /\ \A b \in Books : /\ Size[b] \in Offsets
                        /\ \A v \in Versions : Boundaries[b][v] \subseteq Offsets
                        /\ \A v \in Versions : \A p \in Boundaries[b][v] : p <= Size[b]
                        /\ \A p \in 0..(Size[b] + 1) : p \in Positions
                        /\ \A p \in 0..Size[b] : p \in Offsets
    /\ \A p \in Positions : p \in Nat
PROOF
  <1>1. Offsets \subseteq Positions
    BY BookAssumption DEF Offsets, Positions
  <1>2. 0 \in Offsets /\ \A p \in Positions : p \in Nat
    BY BookAssumption DEF Offsets, Positions
  <1>3. ASSUME NEW b \in Books
        PROVE  /\ Size[b] \in Offsets
               /\ \A v \in Versions : Boundaries[b][v] \subseteq Offsets
               /\ \A v \in Versions : \A p \in Boundaries[b][v] : p <= Size[b]
               /\ \A p \in 0..(Size[b] + 1) : p \in Positions
               /\ \A p \in 0..Size[b] : p \in Offsets
    <2>1. /\ Size[b] \in Nat
          /\ \A v \in Versions : Boundaries[b][v] \subseteq Nat
      BY BookAssumption
    <2>2. \A p \in 0..(Size[b] + 1) : p \in Positions
      BY DEF Positions
    <2>3. \A p \in 0..Size[b] : p \in Offsets
      BY DEF Offsets
    <2>4. QED
      BY <2>1, <2>2, <2>3, BookAssumption
  <1>4. QED
    BY <1>1, <1>2, <1>3

\* The values the variables start from have their types.
LEMMA ConstantFacts ==
    /\ NoArg \in Arguments /\ NoCopy \in Copies /\ NoResult \in Results
    /\ NoFile \in [ver : Versions \cup {-1}, pos : Offsets]
    /\ NoSession \notin Sessions /\ NoSession = 0
    /\ \A s \in Sessions : s \in Nat /\ s > 0
    /\ \A v \in Versions : v \in Nat
PROOF
  <1>1. 0 \in Offsets /\ 0 \in Positions /\ 0 \in Versions
    BY BoundAssumption DEF Offsets, Positions, Versions
  <1>2. NoSession \notin Sessions /\ \A s \in Sessions : s \in Nat /\ s > 0
    BY BoundAssumption DEF Sessions, NoSession
  <1>3. QED
    BY <1>1, <1>2
       DEF NoArg, Arguments, NoCopy, Copies, NoResult, Results, Errors, NoFile,
           NoSession, Versions

\* A group of variables that does not change keeps its type.
LEMMA TypeFrames ==
    /\ ControlOK /\ UNCHANGED control => ControlOK'
    /\ ManagerOK /\ UNCHANGED managerVars => ManagerOK'
    /\ SessionOK /\ UNCHANGED sessionVars => SessionOK'
    /\ WorkerOK /\ UNCHANGED workerVars => WorkerOK'
    /\ CallOK /\ UNCHANGED callVars => CallOK'
    /\ DiskOK /\ UNCHANGED diskVars => DiskOK'
    /\ CallsWellFormed /\ UNCHANGED <<callVars, nextID>> => CallsWellFormed'
    /\ WorkersWellFormed /\ UNCHANGED workerVars => WorkersWellFormed'
PROOF
  <1> USE DEF control, managerVars, sessionVars, workerVars, reading, chunk,
              callVars, request, diskVars
  <1>1. ControlOK /\ UNCHANGED control => ControlOK'
    BY DEF ControlOK
  <1>2. ManagerOK /\ UNCHANGED managerVars => ManagerOK'
    BY DEF ManagerOK
  <1>3. SessionOK /\ UNCHANGED sessionVars => SessionOK'
    BY DEF SessionOK
  <1>4. WorkerOK /\ UNCHANGED workerVars => WorkerOK'
    BY DEF WorkerOK
  <1>5. CallOK /\ UNCHANGED callVars => CallOK'
    BY DEF CallOK
  <1>6. DiskOK /\ UNCHANGED diskVars => DiskOK'
    BY DEF DiskOK
  <1>7. CallsWellFormed /\ UNCHANGED <<callVars, nextID>> => CallsWellFormed'
    BY DEF CallsWellFormed, Preparing
  <1>8. WorkersWellFormed /\ UNCHANGED workerVars => WorkersWellFormed'
    BY DEF WorkersWellFormed, Running
  <1>9. QED
    BY <1>1, <1>2, <1>3, <1>4, <1>5, <1>6, <1>7, <1>8


\* A step that only moves its call on, with an answer or without, keeps the types.
LEMMA CallMoves ==
    ASSUME CallOK, NEW c \in Calls, UNCHANGED request,
           \E n \in Steps : step' = [step EXCEPT ![c] = n],
           \/ UNCHANGED reply
           \/ \E r \in Replies : reply' = [reply EXCEPT ![c] = r]
    PROVE  CallOK'
PROOF
  <1>1. step' \in [Calls -> Steps] /\ reply' \in [Calls -> Replies]
    BY DEF CallOK
  <1>2. QED
    BY <1>1 DEF CallOK, request

\* What publishLocked sends is a snapshot.
LEMMA PublishType ==
    ASSUME state' \in States, book' \in Copies, currentByte' \in Offsets,
           lastErr' \in Errors, NEW type \in EventTypes, Publish(type)
    PROVE  event' \in [type : EventTypes, snapshot : Snapshots]
PROOF
  <1>1. book'.id \in Books \cup {NoBook}
    BY DEF Copies
  <1>2. Snapshot' \in Snapshots
    BY <1>1 DEF Snapshot, Snapshots
  <1>3. QED
    BY <1>2 DEF Publish

\* A save leaves a progress file.
LEMMA WrittenType ==
    ASSUME DiskOK, NEW b \in Books, NEW v \in Versions, NEW p \in Offsets,
           Written(b, v, p)
    PROVE  saved' \in [Books -> [ver : Versions \cup {-1}, pos : Offsets]]
PROOF
  <1>1. [ver |-> v, pos |-> p] \in [ver : Versions \cup {-1}, pos : Offsets]
    OBVIOUS
  <1>2. QED
    BY <1>1 DEF Written, DiskOK

\* A worker that returns its result keeps its types.
LEMMA FinishType ==
    ASSUME WorkerOK, NEW s \in Sessions,
           NEW st \in {"stopped", "finished", "failed"}, NEW p \in Offsets,
           NEW e \in Errors, Finish(s, st, p, e), UNCHANGED <<sleeping, reading>>
    PROVE  WorkerOK'
PROOF
  <1>1. [state |-> st, position |-> p, err |-> e] \in Results
    BY DEF Results
  <1>2. result' \in [Sessions -> Results]
    BY <1>1 DEF Finish, WorkerOK
  <1>3. /\ end' \in [Sessions -> Positions]
        /\ text' \in [Sessions -> {"none", "registered", "edited"}]
    BY OffsetFacts DEF Finish, DropChunk, WorkerOK
  <1>4. pc' \in [Sessions -> PCs]
    BY DEF Finish, WorkerGoto, WorkerOK, PCs
  <1>5. QED
    BY <1>2, <1>3, <1>4 DEF WorkerOK, reading

\* A worker that goes on with its chunk keeps its types.
LEMMA ContinueType ==
    ASSUME WorkerOK, NEW s \in Sessions, NEW n \in PCs, Continue(s, n),
           UNCHANGED <<sleeping, reading>>
    PROVE  WorkerOK'
PROOF BY DEF WorkerOK, Continue, WorkerGoto, chunk, reading

\* A call that answers keeps its types.
LEMMA ReplyType ==
    ASSUME CallOK, NEW c \in Calls, NEW r \in Replies, NEW n \in Steps,
           ReplyFrom(c, r, n)
    PROVE  step' \in [Calls -> Steps] /\ reply' \in [Calls -> Replies]
PROOF BY DEF CallOK, ReplyFrom

\* A call that goes to another step keeps its type.
LEMMA GotoType ==
    ASSUME CallOK, NEW c \in Calls, NEW n \in Steps, Goto(c, n)
    PROVE  step' \in [Calls -> Steps]
PROOF BY DEF CallOK, Goto

\* What a session leaves behind when it ends.
Endings == [state : {"stopped", "finished", "failed"}, at : Offsets,
            durable : Offsets, err : Errors]

\* What a session ends with, whatever becomes of its files, has its type.
LEMMA EndingType ==
    ASSUME ManagerOK, WorkerOK, WorkersWellFormed, NEW s \in Sessions,
           pc[s] = "finalize", NEW ok \in BOOLEAN, NEW closed \in BOOLEAN
    PROVE  AfterClose(Ending(s, ok), closed) \in Endings
PROOF
  <1>1. /\ source[s].id \in Books /\ result[s] \in Results
        /\ durablePosition \in Offsets
    BY DEF ManagerOK, WorkerOK, WorkersWellFormed, Running
  <1>2. Ending(s, ok) \in Endings
    BY <1>1, OffsetFacts
       DEF Ending, FinishedEnding, FailedEnding, StoppedEnding, StopPosition,
           Endings, Results, Errors
  <1>3. QED
    BY <1>2 DEF AfterClose, Endings, Errors

\* Every step keeps the types.
LEMMA TypeNext == TypeInv /\ [Next]_vars => TypeInv'
PROOF
  <1> SUFFICES ASSUME TypeInv, [Next]_vars PROVE TypeInv'
    OBVIOUS
  <1>0. /\ ControlOK /\ ManagerOK /\ SessionOK /\ WorkerOK /\ CallOK /\ DiskOK
        /\ CallsWellFormed /\ WorkersWellFormed
    BY DEF TypeInv, TypeOK
  <1>a. nextID \in Nat /\ NoSession <= nextID
    BY ConstantFacts, <1>0 DEF ManagerOK
  <1> USE <1>0, <1>a
  <1>1. ASSUME NEW c \in Calls, Acquire(c)
        PROVE  TypeInv'
    <2>1. ControlOK'
      BY <1>1 DEF Acquire, Goto, ReplyFrom, FirstStep, ControlOK, playback,
         commands, control, CallsWellFormed
    <2>2. CallOK'
      <3>1. UNCHANGED request
        BY <1>1 DEF Acquire, request
      <3>2. \E n \in Steps : step' = [step EXCEPT ![c] = n]
        BY <1>1 DEF Acquire, Goto, ReplyFrom, Steps, FirstStep
      <3>3. \/ UNCHANGED reply
            \/ \E r \in Replies : reply' = [reply EXCEPT ![c] = r]
        BY <1>1 DEF Acquire, ReplyFrom, Replies, FirstStep
      <3>4. QED
        BY <3>1, <3>2, <3>3, CallMoves
    <2>3. CallsWellFormed'
      BY <1>1 DEF Acquire, Goto, ReplyFrom, FirstStep, CallsWellFormed,
         CallOK, Preparing, playback, commands, callVars, request,
         managerVars, Ops
    <2>4. UNCHANGED <<managerVars, sessionVars, workerVars, diskVars>>
      BY <1>1 DEF Acquire, Goto, ReplyFrom, FirstStep, playback, commands,
         workerVars, callVars, managerVars, sessionVars
    <2>5. QED
      BY <2>1, <2>2, <2>3, <2>4, TypeFrames DEF TypeInv, TypeOK
  <1>2. ASSUME NEW c \in Calls, GiveUp(c)
        PROVE  TypeInv'
    <2>1. CallOK'
      BY <1>2 DEF GiveUp, ReplyFrom, CallOK, Steps, Replies, Ops, Arguments,
         playback, commands, callVars, request
    <2>2. CallsWellFormed'
      BY <1>2 DEF GiveUp, ReplyFrom, CallsWellFormed, CallOK, Preparing,
         playback, commands, callVars, request, managerVars
    <2>3. UNCHANGED <<control, managerVars, sessionVars, workerVars, diskVars>>
      BY <1>2 DEF GiveUp, ReplyFrom, playback, commands, workerVars, callVars,
         managerVars, sessionVars
    <2>4. QED
      BY <2>1, <2>2, <2>3, TypeFrames DEF TypeInv, TypeOK
  <1>3. ASSUME NEW c \in Calls, Cleanup(c)
        PROVE  TypeInv'
    <2>1. CallOK'
      BY <1>3 DEF Cleanup, Goto, LeasesWithout, CallOK, Steps, Replies, Ops,
         Arguments, playback, commands, callVars, request
    <2>2. CallsWellFormed'
      BY <1>3 DEF Cleanup, Goto, LeasesWithout, CallsWellFormed, CallOK,
         Preparing, playback, commands, callVars, request, managerVars
    <2>3. DiskOK'
      BY <1>3 DEF Cleanup, Goto, LeasesWithout, DiskOK, playback, commands,
         diskVars
    <2>4. UNCHANGED <<control, managerVars, sessionVars, workerVars>>
      BY <1>3 DEF Cleanup, Goto, LeasesWithout, playback, commands,
         workerVars, callVars, managerVars, sessionVars
    <2>5. QED
      BY <2>1, <2>2, <2>3, <2>4, TypeFrames DEF TypeInv, TypeOK
  <1>4. ASSUME NEW c \in Calls, Return(c)
        PROVE  TypeInv'
    <2>1. ControlOK'
      BY <1>4, OffsetFacts, ConstantFacts DEF Return, Goto, GateWithout,
         NoArg, ControlOK, playback, commands, control
    <2>2. CallOK'
      BY <1>4, OffsetFacts, ConstantFacts DEF Return, Goto, GateWithout,
         NoArg, CallOK, Steps, Replies, Ops, Arguments, playback, commands,
         callVars, request
    <2>3. CallsWellFormed'
      BY <1>4, OffsetFacts, ConstantFacts DEF Return, Goto, GateWithout,
         NoArg, CallsWellFormed, CallOK, Preparing, playback, commands,
         callVars, request, managerVars
    <2>4. UNCHANGED <<managerVars, sessionVars, workerVars, diskVars>>
      BY <1>4 DEF Return, Goto, GateWithout, NoArg, playback, commands,
         workerVars, callVars, managerVars, sessionVars
    <2>5. QED
      BY <2>1, <2>2, <2>3, <2>4, TypeFrames DEF TypeInv, TypeOK
  <1>5. ASSUME NEW c \in Calls, CheckIdle(c)
        PROVE  TypeInv'
    <2>1. CallOK'
      BY <1>5 DEF CheckIdle, Goto, ReplyFrom, Busy, CallOK, Steps, Replies,
         Ops, Arguments, playback, commands, callVars, request
    <2>2. CallsWellFormed'
      BY <1>5 DEF CheckIdle, Goto, ReplyFrom, Busy, CallsWellFormed, CallOK,
         Preparing, playback, commands, callVars, request, managerVars
    <2>3. UNCHANGED <<control, managerVars, sessionVars, workerVars, diskVars>>
      BY <1>5 DEF CheckIdle, Goto, ReplyFrom, Busy, playback, commands,
         workerVars, callVars, managerVars, sessionVars
    <2>4. QED
      BY <2>1, <2>2, <2>3, TypeFrames DEF TypeInv, TypeOK
  <1>6. ASSUME NEW c \in Calls, Inspect(c)
        PROVE  TypeInv'
    <2>1. CallOK'
      <3>1. UNCHANGED request
        BY <1>6 DEF Inspect, request
      <3>2. \E n \in Steps : step' = [step EXCEPT ![c] = n]
        BY <1>6 DEF Inspect, Goto, ReplyFrom, Steps
      <3>3. \/ UNCHANGED reply
            \/ \E r \in Replies : reply' = [reply EXCEPT ![c] = r]
        BY <1>6 DEF Inspect, ReplyFrom, Replies
      <3>4. QED
        BY <3>1, <3>2, <3>3, CallMoves
    <2>2. CallsWellFormed'
      <3>1. /\ arg[c].id \in Books /\ op[c] \in {"start", "set"}
            /\ op[c] = "start" => arg[c].pos \in Offsets
        BY <1>6, OffsetFacts DEF Inspect, CallsWellFormed, Preparing
      <3>2. QED
        BY <1>6, <3>1
           DEF Inspect, Goto, ReplyFrom, CallOK, CallsWellFormed, Preparing,
               playback, managerVars, request
    <2>3. UNCHANGED <<control, managerVars, sessionVars, workerVars, diskVars>>
      BY <1>6 DEF Inspect, Goto, ReplyFrom, playback, commands, workerVars,
         callVars, managerVars, sessionVars
    <2>4. QED
      BY <2>1, <2>2, <2>3, TypeFrames DEF TypeInv, TypeOK
  <1>6b. ASSUME NEW c \in Calls, CheckBoundary(c)
         PROVE  TypeInv'
    <2>1. CallOK'
      <3>1. UNCHANGED request
        BY <1>6b DEF CheckBoundary, request
      <3>2. \E n \in Steps : step' = [step EXCEPT ![c] = n]
        BY <1>6b DEF CheckBoundary, Goto, ReplyFrom, Steps
      <3>3. \/ UNCHANGED reply
            \/ \E r \in Replies : reply' = [reply EXCEPT ![c] = r]
        BY <1>6b DEF CheckBoundary, ReplyFrom, Replies
      <3>4. QED
        BY <3>1, <3>2, <3>3, CallMoves
    <2>2. CallsWellFormed'
      <3>1. arg[c].id \in Books /\ op[c] = "set"
        BY <1>6b DEF CheckBoundary, CallsWellFormed, Preparing
      <3>2. StandsOnRune(arg[c].id, arg[c].pos) => arg[c].pos \in Offsets
        BY <3>1, OffsetFacts DEF StandsOnRune, DiskOK
      <3>3. QED
        BY <1>6b, <3>1, <3>2
           DEF CheckBoundary, Goto, ReplyFrom, CallOK, CallsWellFormed,
               Preparing, playback, managerVars, request
    <2>3. UNCHANGED <<control, managerVars, sessionVars, workerVars, diskVars>>
      BY <1>6b DEF CheckBoundary, Goto, ReplyFrom, playback, commands, workerVars,
         callVars, managerVars, sessionVars
    <2>4. QED
      BY <2>1, <2>2, <2>3, TypeFrames DEF TypeInv, TypeOK
  <1>7. ASSUME NEW c \in Calls, AcquireLease(c)
        PROVE  TypeInv'
    <2>1. CallOK'
      <3>1. UNCHANGED request
        BY <1>7 DEF AcquireLease, request
      <3>2. \E n \in Steps : step' = [step EXCEPT ![c] = n]
        BY <1>7 DEF AcquireLease, Goto, ReplyFrom, Steps
      <3>3. \/ UNCHANGED reply
            \/ \E r \in Replies : reply' = [reply EXCEPT ![c] = r]
        BY <1>7 DEF AcquireLease, ReplyFrom, Replies
      <3>4. QED
        BY <3>1, <3>2, <3>3, CallMoves
    <2>2. CallsWellFormed'
      BY <1>7, OffsetFacts, ConstantFacts DEF AcquireLease, Goto, ReplyFrom,
         CallsWellFormed, CallOK, Preparing, playback, commands, callVars,
         request, managerVars
    <2>3. DiskOK'
      BY <1>7, OffsetFacts, ConstantFacts DEF AcquireLease, Goto, ReplyFrom,
         DiskOK, playback, commands, diskVars, CallsWellFormed, CallOK,
         Preparing
    <2>4. UNCHANGED <<control, managerVars, sessionVars, workerVars>>
      BY <1>7 DEF AcquireLease, Goto, ReplyFrom, playback, commands,
         workerVars, callVars, managerVars, sessionVars
    <2>5. QED
      BY <2>1, <2>2, <2>3, <2>4, TypeFrames DEF TypeInv, TypeOK
  <1>8. ASSUME NEW c \in Calls, Load(c)
        PROVE  TypeInv'
    <2>1. CallOK'
      <3>1. /\ arg[c].id \in Books /\ op[c] \in {"start", "set"}
            /\ arg[c].pos \in Offsets
        BY <1>8 DEF Load, CallsWellFormed, Preparing
      <3>2. CASE UNCHANGED arg
        BY <1>8, <3>2 DEF Load, Goto, ReplyFrom, CallOK, Steps, Replies,
           request
      <3>3. ASSUME arg' = [arg EXCEPT ![c] = [id |-> @.id, ver |-> @.ver,
                             pos |-> ResumePoint(@.id, saved[arg[c].id])]]
            PROVE  CallOK'
        <4>1. ResumePoint(arg[c].id, saved[arg[c].id]) \in Offsets
          BY <3>1, OffsetFacts DEF ResumePoint, DiskOK
        <4>2. QED
          BY <1>8, <3>3, <4>1, OffsetFacts
             DEF Load, Goto, ReplyFrom, CallOK, Steps, Replies, Arguments
      <3>4. QED
        BY <1>8, <3>2, <3>3 DEF Load
    <2>2. CallsWellFormed'
      <3>1. /\ arg[c].id \in Books /\ op[c] \in {"start", "set"}
            /\ arg[c].pos \in Offsets
        BY <1>8 DEF Load, CallsWellFormed, Preparing
      <3>2. CASE UNCHANGED arg
        BY <1>8, <3>1, <3>2 DEF Load, Goto, ReplyFrom, CallOK, CallsWellFormed,
           Preparing, playback, managerVars
      <3>3. ASSUME arg' = [arg EXCEPT ![c] = [id |-> @.id, ver |-> @.ver,
                             pos |-> ResumePoint(@.id, saved[arg[c].id])]]
            PROVE  CallsWellFormed'
        <4>1. ResumePoint(arg[c].id, saved[arg[c].id]) \in Offsets
          BY <3>1, OffsetFacts DEF ResumePoint, DiskOK
        <4>2. QED
          BY <1>8, <3>1, <3>3, <4>1 DEF Load, Goto, ReplyFrom, CallOK,
             Arguments, CallsWellFormed, Preparing, playback, managerVars
      <3>4. QED
        BY <1>8, <3>2, <3>3 DEF Load
    <2>3. UNCHANGED <<control, managerVars, sessionVars, workerVars, diskVars>>
      BY <1>8 DEF Load, Goto, ReplyFrom, ResumePoint, playback, commands,
         workerVars, callVars, managerVars, sessionVars
    <2>4. QED
      BY <2>1, <2>2, <2>3, TypeFrames DEF TypeInv, TypeOK
  <1>9. ASSUME NEW c \in Calls, CommitStart(c)
        PROVE  TypeInv'
    <2>1. ManagerOK'
      <3>1. /\ arg[c].id \in Books /\ arg[c].ver \in Versions
            /\ arg[c].pos \in Offsets
            /\ nextID + 1 \in Sessions
        BY <1>9, BoundAssumption
           DEF CommitStart, CallsWellFormed, Preparing, CallOK, Arguments,
               Sessions
      <3>2. CASE UNCHANGED managerVars
        BY <3>2, TypeFrames
      <3>3. CASE StartSession(c)
        <4>1. /\ state' \in States /\ book' \in Copies /\ lastErr' \in Errors
              /\ currentByte' \in Offsets /\ durablePosition' \in Offsets
          BY <3>3, <3>1 DEF StartSession, States, Copies, Errors
        <4>2. QED
          BY <3>3, <3>1, <4>1, PublishType DEF StartSession, ManagerOK, EventTypes
      <3>4. QED
        BY <1>9, <3>2, <3>3 DEF CommitStart
    <2>2. WorkerOK'
      <3>1. /\ arg[c].id \in Books /\ arg[c].ver \in Versions
            /\ arg[c].pos \in Offsets
            /\ nextID + 1 \in Sessions
        BY <1>9, BoundAssumption
           DEF CommitStart, CallsWellFormed, Preparing, CallOK, Arguments,
               Sessions
      <3>2. CASE UNCHANGED <<pc, source, pos>>
        BY <1>9, <3>2, TypeFrames DEF CommitStart, workerVars, reading, chunk
      <3>3. CASE StartSession(c)
        BY <1>9, <3>3, <3>1
           DEF CommitStart, StartSession, WorkerOK, Copies, PCs
      <3>4. QED
        BY <1>9, <3>2, <3>3 DEF CommitStart
    <2>3. CallOK'
      <3>1. UNCHANGED request
        BY <1>9 DEF CommitStart, request
      <3>2. \E n \in Steps : step' = [step EXCEPT ![c] = n]
        BY <1>9 DEF CommitStart, Goto, ReplyFrom, Steps, Refusal, Busy
      <3>3. \/ UNCHANGED reply
            \/ \E r \in Replies : reply' = [reply EXCEPT ![c] = r]
        BY <1>9 DEF CommitStart, ReplyFrom, Replies, Refusal, Busy
      <3>4. QED
        BY <3>1, <3>2, <3>3, CallMoves
    <2>4. DiskOK'
      <3>1. /\ arg[c].id \in Books /\ arg[c].ver \in Versions
            /\ arg[c].pos \in Offsets
            /\ nextID + 1 \in Sessions
        BY <1>9, BoundAssumption
           DEF CommitStart, CallsWellFormed, Preparing, CallOK, Arguments,
               Sessions
      <3>2. CASE StartSession(c)
        BY <1>9, <3>2, <3>1 DEF CommitStart, StartSession, DiskOK
      <3>3. CASE UNCHANGED lease
        BY <1>9, <3>3 DEF CommitStart, DiskOK
      <3>4. QED
        BY <1>9, <3>2, <3>3 DEF CommitStart
    <2>5. CallsWellFormed'
      BY <1>9, OffsetFacts, ConstantFacts DEF CommitStart, StartSession,
         ReplyFrom, Refusal, Busy, Publish, Snapshot, CallsWellFormed, CallOK,
         Preparing, playback, commands, callVars, request, managerVars
    <2>6. WorkersWellFormed'
      BY <1>9, OffsetFacts, ConstantFacts DEF CommitStart, StartSession,
         ReplyFrom, Refusal, Busy, Publish, Snapshot, WorkersWellFormed,
         WorkerOK, Running, playback, commands, workerVars, reading, chunk,
         CallsWellFormed, CallOK, Preparing
    <2>7. UNCHANGED <<control, sessionVars>>
      BY <1>9 DEF CommitStart, StartSession, ReplyFrom, Refusal, Busy,
         Publish, Snapshot, playback, commands, workerVars, callVars,
         managerVars, sessionVars
    <2>8. QED
      BY <2>1, <2>2, <2>3, <2>4, <2>5, <2>6, <2>7, TypeFrames DEF TypeInv,
         TypeOK
  <1>10. ASSUME NEW c \in Calls, SavePosition(c)
         PROVE  TypeInv'
    <2>1. CallOK'
      <3>1. UNCHANGED request
        BY <1>10 DEF SavePosition, request
      <3>2. \E n \in Steps : step' = [step EXCEPT ![c] = n]
        BY <1>10 DEF SavePosition, Goto, ReplyFrom, Steps
      <3>3. \/ UNCHANGED reply
            \/ \E r \in Replies : reply' = [reply EXCEPT ![c] = r]
        BY <1>10 DEF SavePosition, ReplyFrom, Replies
      <3>4. QED
        BY <3>1, <3>2, <3>3, CallMoves
    <2>2. CallsWellFormed'
      BY <1>10, OffsetFacts, ConstantFacts DEF SavePosition, Goto, ReplyFrom,
         Written, CallsWellFormed, CallOK, Preparing, playback, commands,
         callVars, request, managerVars
    <2>3. DiskOK'
      <3>1. /\ arg[c].id \in Books /\ arg[c].ver \in Versions
            /\ arg[c].pos \in Offsets
        BY <1>10 DEF SavePosition, CallsWellFormed, Preparing, CallOK, Arguments
      <3>2. QED
        BY <1>10, <3>1, WrittenType DEF SavePosition, DiskOK
    <2>4. UNCHANGED <<control, managerVars, sessionVars, workerVars>>
      BY <1>10 DEF SavePosition, Goto, ReplyFrom, Written, playback, commands,
         workerVars, callVars, managerVars, sessionVars
    <2>5. QED
      BY <2>1, <2>2, <2>3, <2>4, TypeFrames DEF TypeInv, TypeOK
  <1>11. ASSUME NEW c \in Calls, CommitPosition(c)
         PROVE  TypeInv'
    <2>1. ManagerOK'
      <3>1. /\ arg[c].id \in Books /\ arg[c].ver \in Versions
            /\ arg[c].pos \in Offsets
        BY <1>11 DEF CommitPosition, CallsWellFormed, Preparing, CallOK,
           Arguments
      <3>2. /\ state' \in States /\ book' \in Copies /\ lastErr' \in Errors
            /\ currentByte' \in Offsets /\ durablePosition' \in Offsets
        BY <1>11, <3>1 DEF CommitPosition, States, Copies, Errors
      <3>3. QED
        BY <1>11, <3>2, PublishType DEF CommitPosition, ManagerOK, EventTypes
    <2>2. CallOK'
      BY <1>11, OffsetFacts, ConstantFacts DEF CommitPosition, ReplyFrom,
         Publish, Snapshot, CallOK, Steps, Replies, Ops, Arguments, playback,
         commands, callVars, request, CallsWellFormed
    <2>3. CallsWellFormed'
      BY <1>11, OffsetFacts, ConstantFacts DEF CommitPosition, ReplyFrom,
         Publish, Snapshot, CallsWellFormed, CallOK, Preparing, playback,
         commands, callVars, request, managerVars
    <2>4. UNCHANGED <<control, sessionVars, workerVars, diskVars>>
      BY <1>11 DEF CommitPosition, ReplyFrom, Publish, Snapshot, playback,
         commands, workerVars, callVars, managerVars, sessionVars
    <2>5. QED
      BY <2>1, <2>2, <2>3, <2>4, TypeFrames DEF TypeInv, TypeOK
  <1>12. ASSUME NEW c \in Calls, Pause(c)
         PROVE  TypeInv'
    <2>1. ManagerOK'
      BY <1>12 DEF Pause, CanPause, ReplyFrom, Publish, Snapshot, ManagerOK,
         States, Errors, EventTypes, Snapshots, Copies, playback, commands,
         managerVars
    <2>2. CallOK'
      BY <1>12 DEF Pause, CanPause, ReplyFrom, Publish, Snapshot, CallOK,
         Steps, Replies, Ops, Arguments, playback, commands, callVars, request
    <2>3. CallsWellFormed'
      BY <1>12 DEF Pause, CanPause, ReplyFrom, Publish, Snapshot,
         CallsWellFormed, CallOK, Preparing, playback, commands, callVars,
         request, managerVars
    <2>4. UNCHANGED <<control, sessionVars, workerVars, diskVars>>
      BY <1>12 DEF Pause, CanPause, ReplyFrom, Publish, Snapshot, playback,
         commands, workerVars, callVars, managerVars, sessionVars
    <2>5. QED
      BY <2>1, <2>2, <2>3, <2>4, TypeFrames DEF TypeInv, TypeOK
  <1>13. ASSUME NEW c \in Calls, Resume(c)
         PROVE  TypeInv'
    <2>1. ManagerOK'
      BY <1>13 DEF Resume, CanResume, Broadcast, ReplyFrom, Publish, Snapshot,
         ManagerOK, States, Errors, EventTypes, Snapshots, Copies, playback,
         commands, managerVars
    <2>2. WorkerOK'
      BY <1>13 DEF Resume, CanResume, Broadcast, ReplyFrom, Publish, Snapshot,
         WorkerOK, PCs, Results, playback, commands, workerVars, reading,
         chunk
    <2>3. CallOK'
      BY <1>13 DEF Resume, CanResume, Broadcast, ReplyFrom, Publish, Snapshot,
         CallOK, Steps, Replies, Ops, Arguments, playback, commands, callVars,
         request
    <2>4. CallsWellFormed'
      BY <1>13 DEF Resume, CanResume, Broadcast, ReplyFrom, Publish, Snapshot,
         CallsWellFormed, CallOK, Preparing, playback, commands, callVars,
         request, managerVars
    <2>5. WorkersWellFormed'
      BY <1>13 DEF Resume, CanResume, Broadcast, ReplyFrom, Publish, Snapshot,
         WorkersWellFormed, WorkerOK, Running, playback, commands, workerVars,
         reading, chunk
    <2>6. UNCHANGED <<control, sessionVars, diskVars>>
      BY <1>13 DEF Resume, CanResume, Broadcast, ReplyFrom, Publish, Snapshot,
         playback, commands, workerVars, callVars, managerVars, sessionVars
    <2>7. QED
      BY <2>1, <2>2, <2>3, <2>4, <2>5, <2>6, TypeFrames DEF TypeInv, TypeOK
  <1>14. ASSUME NEW c \in Calls, StopMark(c)
         PROVE  TypeInv'
    <2>1. ManagerOK'
      BY <1>14, OffsetFacts, ConstantFacts DEF StopMark, MarkIdle,
         MarkStopping, Broadcast, ReplyFrom, Goto, Publish, Snapshot,
         ManagerOK, States, Errors, EventTypes, Snapshots, Copies, playback,
         commands, managerVars, CallsWellFormed, CallOK, Preparing
    <2>2. SessionOK'
      BY <1>14 DEF StopMark, MarkStopping, SessionOK, ManagerOK
    <2>3. WorkerOK'
      BY <1>14, OffsetFacts, ConstantFacts DEF StopMark, MarkIdle,
         MarkStopping, Broadcast, ReplyFrom, Goto, Publish, Snapshot,
         WorkerOK, PCs, Results, playback, commands, workerVars, reading,
         chunk, CallsWellFormed, CallOK, Preparing
    <2>4. CallOK'
      BY <1>14 DEF StopMark, ReplyFrom, Goto, CallOK, ManagerOK, Steps,
         Replies
    <2>5. CallsWellFormed'
      <3>1. /\ nextID' = nextID /\ active <= nextID
            /\ active \in Sessions \cup {NoSession}
        BY <1>14 DEF StopMark, MarkIdle, MarkStopping, managerVars, ManagerOK,
           CallsWellFormed
      <3>2. QED
        BY <1>14, <3>1 DEF StopMark, ReplyFrom, Goto, CallOK, CallsWellFormed,
           Preparing
    <2>6. WorkersWellFormed'
      BY <1>14, OffsetFacts, ConstantFacts DEF StopMark, MarkIdle,
         MarkStopping, Broadcast, ReplyFrom, Goto, Publish, Snapshot,
         WorkersWellFormed, WorkerOK, Running, playback, commands, workerVars,
         reading, chunk, CallsWellFormed, CallOK, Preparing
    <2>7. UNCHANGED <<control, diskVars>>
      BY <1>14 DEF StopMark, MarkIdle, MarkStopping, Broadcast, ReplyFrom,
         Goto, Publish, Snapshot, playback, commands, workerVars, callVars,
         managerVars, sessionVars
    <2>8. QED
      BY <2>1, <2>2, <2>3, <2>4, <2>5, <2>6, <2>7, TypeFrames DEF TypeInv,
         TypeOK
  <1>15. ASSUME NEW c \in Calls, StopCancel(c)
         PROVE  TypeInv'
    <2>1. SessionOK'
      BY <1>15 DEF StopCancel, Goto, SessionOK, Errors, playback, commands,
         sessionVars, CallsWellFormed
    <2>2. CallOK'
      BY <1>15 DEF StopCancel, Goto, CallOK, Steps, Replies, Ops, Arguments,
         playback, commands, callVars, request, CallsWellFormed
    <2>3. CallsWellFormed'
      BY <1>15 DEF StopCancel, Goto, CallsWellFormed, CallOK, Preparing,
         playback, commands, callVars, request, managerVars
    <2>4. UNCHANGED <<control, managerVars, workerVars, diskVars>>
      BY <1>15 DEF StopCancel, Goto, playback, commands, workerVars, callVars,
         managerVars, sessionVars
    <2>5. QED
      BY <2>1, <2>2, <2>3, <2>4, TypeFrames DEF TypeInv, TypeOK
  <1>16. ASSUME NEW c \in Calls, StopEngine(c)
         PROVE  TypeInv'
    <2>1. SessionOK'
      BY <1>16 DEF StopEngine, Goto, SessionOK, Errors, playback, commands,
         sessionVars, CallsWellFormed
    <2>2. CallOK'
      BY <1>16 DEF StopEngine, Goto, CallOK, Steps, Replies, Ops, Arguments,
         playback, commands, callVars, request, CallsWellFormed
    <2>3. CallsWellFormed'
      BY <1>16 DEF StopEngine, Goto, CallsWellFormed, CallOK, Preparing,
         playback, commands, callVars, request, managerVars
    <2>4. UNCHANGED <<control, managerVars, workerVars, diskVars>>
      BY <1>16 DEF StopEngine, Goto, playback, commands, workerVars, callVars,
         managerVars, sessionVars
    <2>5. QED
      BY <2>1, <2>2, <2>3, <2>4, TypeFrames DEF TypeInv, TypeOK
  <1>17. ASSUME NEW c \in Calls, StopWait(c)
         PROVE  TypeInv'
    <2>1. CallOK'
      <3>1. target[c] \in Sessions
        BY <1>17 DEF StopWait, CallsWellFormed
      <3>2. StopReply(target[c]) \in Replies /\ ExpiredReply(c) \in Replies
        BY <3>1 DEF StopReply, ExpiredReply, SessionOK, Errors, Replies
      <3>3. QED
        BY <1>17, <3>2 DEF StopWait, ReplyFrom, CallOK, Steps, request
    <2>2. CallsWellFormed'
      BY <1>17 DEF StopWait, ReplyFrom, StopReply, ExpiredReply,
         CallsWellFormed, CallOK, Preparing, playback, commands, callVars,
         request, managerVars
    <2>3. UNCHANGED <<control, managerVars, sessionVars, workerVars, diskVars>>
      BY <1>17 DEF StopWait, ReplyFrom, StopReply, ExpiredReply, playback,
         commands, workerVars, callVars, managerVars, sessionVars
    <2>4. QED
      BY <2>1, <2>2, <2>3, TypeFrames DEF TypeInv, TypeOK
  <1>18. ASSUME NEW s \in Sessions, Open(s)
         PROVE  TypeInv'
    <2>1. WorkerOK'
      <3>1. /\ source[s].id \in Books /\ pos[s] \in Offsets
            /\ UNCHANGED <<sleeping, reading>>
        BY <1>18 DEF Open, WorkersWellFormed, Running, WorkerOK, commands
      <3>2. \/ Continue(s, "wait")
          \/ Finish(s, "failed", pos[s], "modified")
          \/ Finish(s, "stopped", 0, "none")
          \/ Finish(s, "failed", pos[s], "internal")
        BY <1>18 DEF Open, FinishUnlessCancelled
      <3>3. QED
        BY <3>1, <3>2, FinishType, ContinueType, OffsetFacts DEF Errors, PCs
    <2>2. WorkersWellFormed'
      BY <1>18, OffsetFacts, ConstantFacts DEF Open, FinishUnlessCancelled,
         WorkerGoto, Finish, Continue, DropChunk, WorkersWellFormed, WorkerOK,
         Running, playback, commands, workerVars, reading, chunk
    <2>3. UNCHANGED <<control, managerVars, sessionVars, callVars, diskVars, nextID>>
      BY <1>18 DEF Open, FinishUnlessCancelled, WorkerGoto, Finish, Continue,
         DropChunk, playback, commands, workerVars, callVars, managerVars,
         sessionVars
    <2>4. QED
      BY <2>1, <2>2, <2>3, TypeFrames DEF TypeInv, TypeOK
  <1>19. ASSUME NEW s \in Sessions, Sleep(s)
         PROVE  TypeInv'
    <2>1. WorkerOK'
      BY <1>19 DEF Sleep, WorkerOK, PCs, Results, playback, commands,
         workerVars, reading, chunk
    <2>2. WorkersWellFormed'
      BY <1>19 DEF Sleep, WorkersWellFormed, WorkerOK, Running, playback,
         commands, workerVars, reading, chunk
    <2>3. UNCHANGED <<control, managerVars, sessionVars, callVars, diskVars, nextID>>
      BY <1>19 DEF Sleep, playback, commands, workerVars, callVars,
         managerVars, sessionVars
    <2>4. QED
      BY <2>1, <2>2, <2>3, TypeFrames DEF TypeInv, TypeOK
  <1>20. ASSUME NEW s \in Sessions, WaitUntilPlayable(s)
         PROVE  TypeInv'
    <2>1. WorkerOK'
      <3>1. /\ source[s].id \in Books /\ pos[s] \in Offsets
            /\ UNCHANGED <<sleeping, reading>>
        BY <1>20 DEF WaitUntilPlayable, WorkersWellFormed, Running, WorkerOK, commands
      <3>2. \/ Continue(s, "read")
          \/ Finish(s, "stopped", 0, "none")
        BY <1>20 DEF WaitUntilPlayable
      <3>3. QED
        BY <3>1, <3>2, FinishType, ContinueType, OffsetFacts DEF Errors, PCs
    <2>2. WorkersWellFormed'
      BY <1>20, OffsetFacts, ConstantFacts DEF WaitUntilPlayable, WorkerGoto,
         Finish, Continue, DropChunk, WorkersWellFormed, WorkerOK, Running,
         playback, commands, workerVars, reading, chunk
    <2>3. UNCHANGED <<control, managerVars, sessionVars, callVars, diskVars, nextID>>
      BY <1>20 DEF WaitUntilPlayable, WorkerGoto, Finish, Continue, DropChunk,
         playback, commands, workerVars, callVars, managerVars, sessionVars
    <2>4. QED
      BY <2>1, <2>2, <2>3, TypeFrames DEF TypeInv, TypeOK
  <1>21. ASSUME NEW s \in Sessions, Read(s)
         PROVE  TypeInv'
    <2>1. WorkerOK'
      <3>1. /\ source[s].id \in Books /\ source[s].ver \in Versions
            /\ pos[s] \in Offsets /\ currentByte \in Offsets
            /\ UNCHANGED <<sleeping, reading>>
        BY <1>21 DEF Read, WorkersWellFormed, Running, WorkerOK, ManagerOK,
           Copies, commands
      <3>2. CASE Continue(s, "eof") \/ Finish(s, "failed", currentByte, "internal")
        BY <3>1, <3>2, FinishType, ContinueType DEF Errors, PCs
      <3>3. ASSUME NEW e \in ChunkEnds(s),
                   end' = [end EXCEPT ![s] = e[1]],
                   text' = [text EXCEPT ![s] = e[2]],
                   WorkerGoto(s, "check"), UNCHANGED result
            PROVE  WorkerOK'
        <4>1. /\ Size[source[s].id] \in Nat /\ pos[s] \in Nat
              /\ \A p \in Boundaries[source[s].id][source[s].ver] : p \in Positions
              /\ \A p \in (pos[s] + 1)..(Size[source[s].id] + 1) : p \in Positions
          BY <3>1, OffsetFacts
        <4>2. e[1] \in Positions /\ e[2] \in {"registered", "edited"}
          BY <3>3, <4>1 DEF ChunkEnds
        <4>3. QED
          BY <3>1, <3>3, <4>2 DEF WorkerOK, WorkerGoto, PCs, reading
      <3>4. QED
        BY <1>21, <3>2, <3>3 DEF Read
    <2>2. WorkersWellFormed'
      BY <1>21, OffsetFacts, ConstantFacts DEF Read, ChunkEnds, WorkerGoto,
         Finish, Continue, DropChunk, WorkersWellFormed, WorkerOK, Running,
         playback, commands, workerVars, reading, chunk
    <2>3. UNCHANGED <<control, managerVars, sessionVars, callVars, diskVars, nextID>>
      BY <1>21 DEF Read, ChunkEnds, WorkerGoto, Finish, Continue, DropChunk,
         playback, commands, workerVars, callVars, managerVars, sessionVars
    <2>4. QED
      BY <2>1, <2>2, <2>3, TypeFrames DEF TypeInv, TypeOK
  <1>22. ASSUME NEW s \in Sessions, CheckChunk(s)
         PROVE  TypeInv'
    <2>1. WorkerOK'
      <3>1. /\ source[s].id \in Books /\ pos[s] \in Offsets
            /\ UNCHANGED <<sleeping, reading>>
        BY <1>22 DEF CheckChunk, WorkersWellFormed, Running, WorkerOK, commands
      <3>2. \/ Continue(s, "admit")
          \/ Finish(s, "failed", pos[s], "modified")
        BY <1>22 DEF CheckChunk
      <3>3. QED
        BY <3>1, <3>2, FinishType, ContinueType, OffsetFacts DEF Errors, PCs
    <2>2. WorkersWellFormed'
      BY <1>22, OffsetFacts, ConstantFacts DEF CheckChunk, ChunkValid,
         WorkerGoto, Finish, Continue, DropChunk, WorkersWellFormed, WorkerOK,
         Running, playback, commands, workerVars, reading, chunk
    <2>3. UNCHANGED <<control, managerVars, sessionVars, callVars, diskVars, nextID>>
      BY <1>22 DEF CheckChunk, ChunkValid, WorkerGoto, Finish, Continue,
         DropChunk, playback, commands, workerVars, callVars, managerVars,
         sessionVars
    <2>4. QED
      BY <2>1, <2>2, <2>3, TypeFrames DEF TypeInv, TypeOK
  <1>23. ASSUME NEW s \in Sessions, AdmitChunk(s)
         PROVE  TypeInv'
    <2>1. ManagerOK'
      BY <1>23, OffsetFacts, ConstantFacts DEF AdmitChunk, WorkerGoto, Finish,
         Continue, DropChunk, Publish, Snapshot, ManagerOK, States, Errors,
         EventTypes, Snapshots, Copies, playback, commands, managerVars,
         WorkersWellFormed, Running, WorkerOK
    <2>2. WorkerOK'
      <3>1. /\ source[s].id \in Books /\ pos[s] \in Offsets
            /\ UNCHANGED <<sleeping, reading>>
        BY <1>23 DEF AdmitChunk, WorkersWellFormed, Running, WorkerOK, commands
      <3>2. \/ Continue(s, "speak")
          \/ Finish(s, "stopped", 0, "none")
        BY <1>23 DEF AdmitChunk
      <3>3. QED
        BY <3>1, <3>2, FinishType, ContinueType, OffsetFacts DEF Errors, PCs
    <2>3. WorkersWellFormed'
      BY <1>23, OffsetFacts, ConstantFacts DEF AdmitChunk, WorkerGoto, Finish,
         Continue, DropChunk, Publish, Snapshot, WorkersWellFormed, WorkerOK,
         Running, playback, commands, workerVars, reading, chunk
    <2>4. UNCHANGED <<control, sessionVars, callVars, diskVars, nextID>>
      BY <1>23 DEF AdmitChunk, WorkerGoto, Finish, Continue, DropChunk,
         Publish, Snapshot, playback, commands, workerVars, callVars,
         managerVars, sessionVars
    <2>5. QED
      BY <2>1, <2>2, <2>3, <2>4, TypeFrames DEF TypeInv, TypeOK
  <1>24. ASSUME NEW s \in Sessions, BeginSpeak(s)
         PROVE  TypeInv'
    <2>1. WorkerOK'
      BY <1>24 DEF BeginSpeak, WorkerGoto, WorkerOK, PCs, Results, playback,
         commands, workerVars, reading, chunk
    <2>2. WorkersWellFormed'
      BY <1>24 DEF BeginSpeak, WorkerGoto, WorkersWellFormed, WorkerOK,
         Running, playback, commands, workerVars, reading, chunk
    <2>3. UNCHANGED <<control, managerVars, sessionVars, callVars, diskVars, nextID>>
      BY <1>24 DEF BeginSpeak, WorkerGoto, playback, commands, workerVars,
         callVars, managerVars, sessionVars
    <2>4. QED
      BY <2>1, <2>2, <2>3, TypeFrames DEF TypeInv, TypeOK
  <1>25. ASSUME NEW s \in Sessions, EndSpeak(s)
         PROVE  TypeInv'
    <2>1. WorkerOK'
      <3>1. /\ source[s].id \in Books /\ pos[s] \in Offsets
            /\ UNCHANGED <<sleeping, reading>>
        BY <1>25 DEF EndSpeak, WorkersWellFormed, Running, WorkerOK, commands
      <3>2. \/ Continue(s, "save")
          \/ Finish(s, "stopped", 0, "none")
          \/ Finish(s, "failed", pos[s], "internal")
        BY <1>25 DEF EndSpeak
      <3>3. QED
        BY <3>1, <3>2, FinishType, ContinueType, OffsetFacts DEF Errors, PCs
    <2>2. WorkersWellFormed'
      BY <1>25, OffsetFacts, ConstantFacts DEF EndSpeak, WorkerGoto, Finish,
         Continue, DropChunk, WorkersWellFormed, WorkerOK, Running, playback,
         commands, workerVars, reading, chunk
    <2>3. UNCHANGED <<control, managerVars, sessionVars, callVars, diskVars, nextID>>
      BY <1>25 DEF EndSpeak, WorkerGoto, Finish, Continue, DropChunk,
         playback, commands, workerVars, callVars, managerVars, sessionVars
    <2>4. QED
      BY <2>1, <2>2, <2>3, TypeFrames DEF TypeInv, TypeOK
  <1>26. ASSUME NEW s \in Sessions, SaveProgress(s)
         PROVE  TypeInv'
    <2>1. WorkerOK'
      <3>1. /\ source[s].id \in Books /\ pos[s] \in Offsets
            /\ UNCHANGED <<sleeping, reading>>
        BY <1>26 DEF SaveProgress, WorkersWellFormed, Running, WorkerOK, commands
      <3>2. \/ Continue(s, "mark")
          \/ Finish(s, "failed", pos[s], "internal")
        BY <1>26 DEF SaveProgress
      <3>3. QED
        BY <3>1, <3>2, FinishType, ContinueType, OffsetFacts DEF Errors, PCs
    <2>2. DiskOK'
      <3>1. /\ source[s].id \in Books /\ source[s].ver \in Versions
            /\ end[s] \in Offsets
        BY <1>26 DEF SaveProgress, WorkersWellFormed, Running, WorkerOK, Copies
      <3>2. QED
        BY <1>26, <3>1, WrittenType DEF SaveProgress, DiskOK
    <2>3. WorkersWellFormed'
      BY <1>26, OffsetFacts, ConstantFacts DEF SaveProgress, Written,
         WorkerGoto, Finish, Continue, DropChunk, WorkersWellFormed, WorkerOK,
         Running, playback, commands, workerVars, reading, chunk
    <2>4. UNCHANGED <<control, managerVars, sessionVars, callVars, nextID>>
      BY <1>26 DEF SaveProgress, Written, WorkerGoto, Finish, Continue,
         DropChunk, playback, commands, workerVars, callVars, managerVars,
         sessionVars
    <2>5. QED
      BY <2>1, <2>2, <2>3, <2>4, TypeFrames DEF TypeInv, TypeOK
  <1>27. ASSUME NEW s \in Sessions, MarkDurablePosition(s)
         PROVE  TypeInv'
    <2>1. ManagerOK'
      <3>1. end[s] \in Offsets
        BY <1>27 DEF MarkDurablePosition, WorkersWellFormed
      <3>2. QED
        BY <1>27, <3>1 DEF MarkDurablePosition, DurableAfter, ManagerOK
    <2>2. WorkerOK'
      BY <1>27, OffsetFacts, ConstantFacts DEF MarkDurablePosition,
         DurableAfter, WorkerGoto, DropChunk, WorkerOK, PCs, Results,
         playback, commands, workerVars, reading, chunk, WorkersWellFormed,
         Running
    <2>3. WorkersWellFormed'
      BY <1>27, OffsetFacts, ConstantFacts DEF MarkDurablePosition,
         DurableAfter, WorkerGoto, DropChunk, WorkersWellFormed, WorkerOK,
         Running, playback, commands, workerVars, reading, chunk
    <2>4. UNCHANGED <<control, sessionVars, callVars, diskVars, nextID>>
      BY <1>27 DEF MarkDurablePosition, DurableAfter, WorkerGoto, DropChunk,
         playback, commands, workerVars, callVars, managerVars, sessionVars
    <2>5. QED
      BY <2>1, <2>2, <2>3, <2>4, TypeFrames DEF TypeInv, TypeOK
  <1>28. ASSUME NEW s \in Sessions, UpdateProgress(s)
         PROVE  TypeInv'
    <2>1. ManagerOK'
      <3>1. CASE UNCHANGED managerVars
        BY <3>1, TypeFrames
      <3>2. CASE /\ currentByte' = pos[s] /\ Publish("progress.updated")
                 /\ UNCHANGED <<state, book, durablePosition, lastErr, active,
                                nextID>>
        BY <3>2, PublishType DEF ManagerOK, WorkerOK, EventTypes
      <3>3. QED
        BY <1>28, <3>1, <3>2 DEF UpdateProgress
    <2>2. WorkerOK'
      BY <1>28, OffsetFacts, ConstantFacts DEF UpdateProgress, WorkerGoto,
         Publish, Snapshot, WorkerOK, PCs, Results, playback, commands,
         workerVars, reading, chunk
    <2>3. WorkersWellFormed'
      BY <1>28, OffsetFacts, ConstantFacts DEF UpdateProgress, WorkerGoto,
         Publish, Snapshot, WorkersWellFormed, WorkerOK, Running, playback,
         commands, workerVars, reading, chunk
    <2>4. UNCHANGED <<control, sessionVars, callVars, diskVars, nextID>>
      BY <1>28 DEF UpdateProgress, WorkerGoto, Publish, Snapshot, playback,
         commands, workerVars, callVars, managerVars, sessionVars
    <2>5. QED
      BY <2>1, <2>2, <2>3, <2>4, TypeFrames DEF TypeInv, TypeOK
  <1>29. ASSUME NEW s \in Sessions, ValidateAtEOF(s)
         PROVE  TypeInv'
    <2>1. WorkerOK'
      <3>1. /\ source[s].id \in Books /\ pos[s] \in Offsets
            /\ UNCHANGED <<sleeping, reading>>
        BY <1>29 DEF ValidateAtEOF, WorkersWellFormed, Running, WorkerOK, commands
      <3>2. \/ Finish(s, "finished", Size[source[s].id], "none")
          \/ Finish(s, "stopped", 0, "none")
          \/ Finish(s, "failed", pos[s], "modified")
        BY <1>29 DEF ValidateAtEOF, FinishUnlessCancelled
      <3>3. QED
        BY <3>1, <3>2, FinishType, ContinueType, OffsetFacts DEF Errors, PCs
    <2>2. WorkersWellFormed'
      BY <1>29, OffsetFacts, ConstantFacts DEF ValidateAtEOF,
         FinishUnlessCancelled, WorkerGoto, Finish, Continue, DropChunk,
         WorkersWellFormed, WorkerOK, Running, playback, commands, workerVars,
         reading, chunk
    <2>3. UNCHANGED <<control, managerVars, sessionVars, callVars, diskVars, nextID>>
      BY <1>29 DEF ValidateAtEOF, FinishUnlessCancelled, WorkerGoto, Finish,
         Continue, DropChunk, playback, commands, workerVars, callVars,
         managerVars, sessionVars
    <2>4. QED
      BY <2>1, <2>2, <2>3, TypeFrames DEF TypeInv, TypeOK
  <1>30. ASSUME NEW s \in Sessions, Finalize(s)
         PROVE  TypeInv'
    <2>1. ManagerOK'
      <3>1. CASE active # s
        BY <1>30, <3>1 DEF Finalize, ManagerOK, managerVars
      <3>2. ASSUME NEW ok \in BOOLEAN, NEW closed \in BOOLEAN,
                   EndSession(s, ok, closed)
            PROVE  ManagerOK'
        <4>1. AfterClose(Ending(s, ok), closed) \in Endings
          BY <1>30, EndingType DEF Finalize
        <4>2. PICK e \in Endings :
                 /\ state' = e.state /\ currentByte' = e.at
                 /\ durablePosition' = e.durable /\ lastErr' = e.err
                 /\ active' = NoSession /\ UNCHANGED <<book, nextID>>
                 /\ Publish(EventOf(e.state))
          BY <3>2, <4>1 DEF EndSession
        <4>3. /\ state' \in States /\ book' \in Copies /\ lastErr' \in Errors
              /\ currentByte' \in Offsets /\ durablePosition' \in Offsets
              /\ EventOf(e.state) \in EventTypes
          BY <4>2 DEF Endings, States, EventOf, EventTypes, ManagerOK
        <4>4. QED
          BY <4>2, <4>3, PublishType DEF ManagerOK
      <3>3. QED
        BY <1>30, <3>1, <3>2 DEF Finalize
    <2>2. SessionOK'
      <3>1. CASE active # s
        BY <1>30, <3>1 DEF Finalize, SessionOK
      <3>2. ASSUME NEW ok \in BOOLEAN, NEW closed \in BOOLEAN,
                   EndSession(s, ok, closed)
            PROVE  SessionOK'
        <4>1. AfterClose(Ending(s, ok), closed).err \in Errors
          BY <1>30, EndingType DEF Finalize, Endings
        <4>2. QED
          BY <1>30, <3>2, <4>1 DEF Finalize, EndSession, SessionOK
      <3>3. QED
        BY <1>30, <3>1, <3>2 DEF Finalize
    <2>3. WorkerOK'
      BY <1>30 DEF Finalize, EndSession, WorkerGoto, Publish, Snapshot,
         WorkerOK, PCs, Results, playback, commands, workerVars, reading,
         chunk, WorkersWellFormed, Running
    <2>4. DiskOK'
      <3>1. CASE active # s
        BY <1>30, <3>1 DEF Finalize, DiskOK
      <3>2. ASSUME NEW ok \in BOOLEAN, NEW closed \in BOOLEAN,
                   EndSession(s, ok, closed)
            PROVE  DiskOK'
        <4>1. /\ source[s].id \in Books /\ source[s].ver \in Versions
              /\ LastPosition(s) \in Offsets
          BY <1>30, OffsetFacts
             DEF Finalize, WorkersWellFormed, Running, WorkerOK, Copies,
                 LastPosition, StopPosition, Results, ManagerOK
        <4>2. saved' \in [Books -> [ver : Versions \cup {-1}, pos : Offsets]]
          BY <3>2, <4>1, WrittenType DEF EndSession, DiskOK
        <4>3. QED
          BY <1>30, <3>2, <4>2 DEF Finalize, EndSession, ReleaseLease, DiskOK
      <3>3. QED
        BY <1>30, <3>1, <3>2 DEF Finalize
    <2>5. WorkersWellFormed'
      BY <1>30 DEF Finalize, EndSession, WorkerGoto, Publish, Snapshot,
         WorkersWellFormed, WorkerOK, Running, playback, commands, workerVars,
         reading, chunk
    <2>6. UNCHANGED <<control, callVars, nextID>>
      BY <1>30 DEF Finalize, EndSession, WorkerGoto, Publish, Snapshot,
         playback, commands, workerVars, callVars, managerVars, sessionVars
    <2>7. QED
      BY <2>1, <2>2, <2>3, <2>4, <2>5, <2>6, TypeFrames DEF TypeInv, TypeOK
  <1>31. ASSUME NEW s \in Sessions, CloseDone(s)
         PROVE  TypeInv'
    <2>1. SessionOK'
      BY <1>31, OffsetFacts, ConstantFacts DEF CloseDone, WorkerGoto, NoCopy,
         NoResult, Copies, SessionOK, Errors, playback, commands, sessionVars
    <2>2. WorkerOK'
      BY <1>31, OffsetFacts, ConstantFacts DEF CloseDone, WorkerGoto, NoCopy,
         NoResult, Copies, WorkerOK, PCs, Results, playback, commands,
         workerVars, reading, chunk
    <2>3. WorkersWellFormed'
      BY <1>31, OffsetFacts, ConstantFacts DEF CloseDone, WorkerGoto, NoCopy,
         NoResult, Copies, WorkersWellFormed, WorkerOK, Running, playback,
         commands, workerVars, reading, chunk
    <2>4. UNCHANGED <<control, managerVars, callVars, diskVars, nextID>>
      BY <1>31 DEF CloseDone, WorkerGoto, NoCopy, NoResult, Copies, playback,
         commands, workerVars, callVars, managerVars, sessionVars
    <2>5. QED
      BY <2>1, <2>2, <2>3, <2>4, TypeFrames DEF TypeInv, TypeOK
  <1>32. ASSUME BeginShutdown
         PROVE  TypeInv'
    <2>1. ControlOK'
      BY <1>32 DEF BeginShutdown, ControlOK, playback, commands, control
    <2>2. UNCHANGED <<managerVars, sessionVars, workerVars, callVars, diskVars, nextID>>
      BY <1>32 DEF BeginShutdown, playback, commands, workerVars, callVars,
         managerVars, sessionVars
    <2>3. QED
      BY <2>1, <2>2, TypeFrames DEF TypeInv, TypeOK
  <1>33. ASSUME NEW c \in Calls, BeginCall(c)
         PROVE  TypeInv'
    <2>1. CallOK'
      <3>0. PICK o \in Commands : \E a \in Args(o) :
               /\ op' = [op EXCEPT ![c] = o] /\ arg' = [arg EXCEPT ![c] = a]
               /\ Goto(c, IF o = "stop" /\ shuttingDown THEN "mark" ELSE "lock")
        BY <1>33 DEF BeginCall
      <3>1. PICK a \in Args(o) :
               /\ op' = [op EXCEPT ![c] = o] /\ arg' = [arg EXCEPT ![c] = a]
               /\ Goto(c, IF o = "stop" /\ shuttingDown THEN "mark" ELSE "lock")
        BY <3>0
      <3>2. o \in Ops /\ a \in Arguments
        BY <3>1, CommandAssumption, ConstantFacts, OffsetFacts
           DEF Ops, Args, Arguments
      <3>3. QED
        BY <1>33, <3>1, <3>2 DEF BeginCall, Goto, CallOK, Steps
    <2>2. CallsWellFormed'
      <3>0. PICK o \in Commands : \E a \in Args(o) :
               /\ op' = [op EXCEPT ![c] = o] /\ arg' = [arg EXCEPT ![c] = a]
               /\ Goto(c, IF o = "stop" /\ shuttingDown THEN "mark" ELSE "lock")
        BY <1>33 DEF BeginCall
      <3>1. PICK a \in Args(o) :
               /\ op' = [op EXCEPT ![c] = o] /\ arg' = [arg EXCEPT ![c] = a]
               /\ Goto(c, IF o = "stop" /\ shuttingDown THEN "mark" ELSE "lock")
        BY <3>0
      <3>2. /\ o \in {"start", "pause", "resume", "stop", "set"}
            /\ o \in {"start", "set"} => a.id \in Books
            /\ o = "start" => a.pos = 0
        BY <3>1, CommandAssumption DEF Args
      <3>3. QED
        BY <1>33, <3>1, <3>2
           DEF BeginCall, Goto, CallOK, CallsWellFormed, Preparing, playback,
               managerVars
    <2>3. UNCHANGED <<control, managerVars, sessionVars, workerVars, diskVars>>
      BY <1>33 DEF BeginCall, Goto, Args, NoArg, playback, commands,
         workerVars, callVars, managerVars, sessionVars
    <2>4. QED
      BY <2>1, <2>2, <2>3, TypeFrames DEF TypeInv, TypeOK
  <1>34. ASSUME NEW c \in Calls, Expire(c)
         PROVE  TypeInv'
    <2>1. CallOK'
      BY <1>34 DEF Expire, CallOK, Steps, Replies, Ops, Arguments, playback,
         commands, callVars, request
    <2>2. CallsWellFormed'
      BY <1>34 DEF Expire, CallsWellFormed, CallOK, Preparing, playback,
         commands, callVars, request, managerVars
    <2>3. UNCHANGED <<control, managerVars, sessionVars, workerVars, diskVars>>
      BY <1>34 DEF Expire, playback, commands, workerVars, callVars,
         managerVars, sessionVars
    <2>4. QED
      BY <2>1, <2>2, <2>3, TypeFrames DEF TypeInv, TypeOK
  <1>35. ASSUME NEW b \in Books, Edit(b)
         PROVE  TypeInv'
    <2>1. WorkerOK'
      BY <1>35 DEF Edit, OpenFiles, Versions, WorkerOK, PCs, Results,
         playback, commands, workerVars, reading, chunk
    <2>2. DiskOK'
      <3>1. file[b] \in Nat /\ file[b] + 1 \in Versions
        BY <1>35, BoundAssumption DEF Edit, DiskOK, Versions
      <3>2. QED
        BY <1>35, <3>1 DEF Edit, DiskOK
    <2>3. WorkersWellFormed'
      BY <1>35 DEF Edit, OpenFiles, Versions, WorkersWellFormed, WorkerOK,
         Running, playback, commands, workerVars, reading, chunk
    <2>4. UNCHANGED <<control, managerVars, sessionVars, callVars, nextID>>
      BY <1>35 DEF Edit, OpenFiles, Versions, playback, commands, workerVars,
         callVars, managerVars, sessionVars
    <2>5. QED
      BY <2>1, <2>2, <2>3, <2>4, TypeFrames DEF TypeInv, TypeOK
  <1>36. ASSUME NEW b \in Books, OtherAcquire(b)
         PROVE  TypeInv'
    <2>1. DiskOK'
      BY <1>36 DEF OtherAcquire, DiskOK, playback, commands, diskVars
    <2>2. UNCHANGED <<control, managerVars, sessionVars, workerVars, callVars, nextID>>
      BY <1>36 DEF OtherAcquire, playback, commands, workerVars, callVars,
         managerVars, sessionVars
    <2>3. QED
      BY <2>1, <2>2, TypeFrames DEF TypeInv, TypeOK
  <1>37. ASSUME NEW b \in Books, OtherSave(b)
         PROVE  TypeInv'
    <2>1. DiskOK'
      <3>1. PICK v \in 0..file[b] : \E w \in v..file[b] :
                \E p \in Boundaries[b][w] : Written(b, v, p)
        BY <1>37 DEF OtherSave
      <3>2. PICK w \in v..file[b] : \E p \in Boundaries[b][w] : Written(b, v, p)
        BY <3>1
      <3>3. PICK p \in Boundaries[b][w] : Written(b, v, p)
        BY <3>2
      <3>4. v \in Versions /\ w \in Versions
        BY BoundAssumption DEF DiskOK, Versions
      <3>5. p \in Offsets
        BY <3>4, OffsetFacts
      <3>6. QED
        BY <1>37, <3>3, <3>4, <3>5, WrittenType DEF OtherSave, DiskOK
    <2>2. UNCHANGED <<control, managerVars, sessionVars, workerVars, callVars, nextID>>
      BY <1>37 DEF OtherSave, Written, playback, commands, workerVars,
         callVars, managerVars, sessionVars
    <2>3. QED
      BY <2>1, <2>2, TypeFrames DEF TypeInv, TypeOK
  <1>38. ASSUME NEW b \in Books, OtherRelease(b)
         PROVE  TypeInv'
    <2>1. DiskOK'
      BY <1>38 DEF OtherRelease, DiskOK, playback, commands, diskVars
    <2>2. UNCHANGED <<control, managerVars, sessionVars, workerVars, callVars, nextID>>
      BY <1>38 DEF OtherRelease, playback, commands, workerVars, callVars,
         managerVars, sessionVars
    <2>3. QED
      BY <2>1, <2>2, TypeFrames DEF TypeInv, TypeOK
  <1>39. CASE UNCHANGED vars
    BY <1>39, TypeFrames
       DEF vars, playback, callVars, managerVars, TypeInv, TypeOK
  <1>40. QED
    BY <1>1, <1>2, <1>3, <1>4, <1>5, <1>6, <1>6b, <1>7, <1>8, <1>9, <1>10, <1>11,
       <1>12, <1>13, <1>14, <1>15, <1>16, <1>17, <1>18, <1>19, <1>20, <1>21,
       <1>22, <1>23, <1>24, <1>25, <1>26, <1>27, <1>28, <1>29, <1>30, <1>31,
       <1>32, <1>33, <1>34, <1>35, <1>36, <1>37, <1>38, <1>39 DEF Next,
       CallStep, WorkerStep, Environment

\* The manager starts well typed.
LEMMA TypeInit == Init => TypeInv
PROOF
  <1> SUFFICES ASSUME Init PROVE TypeInv
    OBVIOUS
  <1>1. Snapshot \in Snapshots
    BY OffsetFacts DEF Init, Snapshot, Snapshots, NoCopy, States, Errors
  <1>2. ControlOK /\ ManagerOK
    <2>1. ControlOK
      BY DEF Init, ControlOK
    <2>2. event \in [type : EventTypes, snapshot : Snapshots]
      BY <1>1 DEF Init, EventTypes
    <2>3. active = 0 /\ nextID = 0 /\ NoSession = 0
      BY ConstantFacts DEF Init
    <2>4. QED
      BY <2>1, <2>2, <2>3, OffsetFacts, ConstantFacts
         DEF Init, ManagerOK, States, Errors
  <1>3. SessionOK
    BY DEF Init, SessionOK, Errors
  <1>4. WorkerOK /\ WorkersWellFormed
    BY OffsetFacts, ConstantFacts
       DEF Init, WorkerOK, WorkersWellFormed, Running, PCs, NoResult
  <1>5. CallOK /\ CallsWellFormed
    BY OffsetFacts, ConstantFacts
       DEF Init, CallOK, CallsWellFormed, Preparing, Steps, Replies, Ops
  <1>6. DiskOK
    BY OffsetFacts, ConstantFacts, BoundAssumption DEF Init, DiskOK, Versions
  <1>7. QED
    BY <1>2, <1>3, <1>4, <1>5, <1>6 DEF TypeInv, TypeOK

\* Every variable of the manager, of its calls, of its sessions and of the
\* files has its type, and calls and workers carry what their step needs.
THEOREM TypeCorrect == Spec => []TypeOK
PROOF
  <1>1. Spec => []TypeInv
    BY TypeInit, TypeNext, PTL DEF Spec
  <1>2. TypeInv => TypeOK
    BY DEF TypeInv
  <1>3. QED
    BY <1>1, <1>2, PTL

-----------------------------------------------------------------------------
(* Sessions and their commands *)

\* A part of the invariant whose variables do not change goes on to hold.
LEMMA IndFrames ==
    /\ ActiveMatchesState /\ UNCHANGED <<state, active>> => ActiveMatchesState'
    /\ SingleOwner /\ UNCHANGED <<pc, active>> => SingleOwner'
    /\ SessionsInOrder
         /\ UNCHANGED <<pc, nextID, cancelled, stopStarted, stopFinished, done>>
         => SessionsInOrder'
    /\ StopFlags
         /\ UNCHANGED <<cancelled, stopStarted, stopFinished, active, state>>
         => StopFlags'
    /\ StoppedOnlyWhenStopping /\ UNCHANGED <<pc, result, state>>
         => StoppedOnlyWhenStopping'
    /\ GateOfCommands /\ UNCHANGED <<step, gate>> => GateOfCommands'
    /\ LeasesOfCommands /\ UNCHANGED <<lease, step, arg>> => LeasesOfCommands'
    /\ LeaseFollowsSession /\ UNCHANGED <<lease, active, source>>
         => LeaseFollowsSession'
    /\ CommandHasIdleManager /\ UNCHANGED <<step, gate, active, state>>
         => CommandHasIdleManager'
    /\ NoLostWakeup /\ UNCHANGED <<sleeping, pc, state, cancelled, active>>
         => NoLostWakeup'
    /\ StopOwnsItsSession
         /\ UNCHANGED <<step, active, target, state, stopStarted, stopFinished>>
         => StopOwnsItsSession'
    /\ StopAnswersTruly /\ UNCHANGED <<op, step, target, reply, pc>>
         => StopAnswersTruly'
    /\ AnnouncedIsCurrent
         /\ UNCHANGED <<event, state, book, currentByte, lastErr>>
         => AnnouncedIsCurrent'
    /\ ErrorMatchesState /\ UNCHANGED <<state, lastErr>> => ErrorMatchesState'
PROOF
  <1>1. ActiveMatchesState /\ UNCHANGED <<state, active>> => ActiveMatchesState'
    BY DEF ActiveMatchesState
  <1>2. SingleOwner /\ UNCHANGED <<pc, active>> => SingleOwner'
    BY DEF SingleOwner, Running
  <1>3. SessionsInOrder
          /\ UNCHANGED <<pc, nextID, cancelled, stopStarted, stopFinished, done>>
          => SessionsInOrder'
    BY DEF SessionsInOrder
  <1>4. StopFlags
          /\ UNCHANGED <<cancelled, stopStarted, stopFinished, active, state>>
          => StopFlags'
    BY DEF StopFlags
  <1>5. StoppedOnlyWhenStopping /\ UNCHANGED <<pc, result, state>>
          => StoppedOnlyWhenStopping'
    BY DEF StoppedOnlyWhenStopping
  <1>6. GateOfCommands /\ UNCHANGED <<step, gate>> => GateOfCommands'
    BY DEF GateOfCommands, Preparing
  <1>7. LeasesOfCommands /\ UNCHANGED <<lease, step, arg>> => LeasesOfCommands'
    BY DEF LeasesOfCommands
  <1>8. LeaseFollowsSession /\ UNCHANGED <<lease, active, source>>
          => LeaseFollowsSession'
    BY DEF LeaseFollowsSession
  <1>9. CommandHasIdleManager /\ UNCHANGED <<step, gate, active, state>>
          => CommandHasIdleManager'
    BY DEF CommandHasIdleManager
  <1>10. NoLostWakeup /\ UNCHANGED <<sleeping, pc, state, cancelled, active>>
           => NoLostWakeup'
    BY DEF NoLostWakeup, MustSleep
  <1>11. StopOwnsItsSession
           /\ UNCHANGED <<step, active, target, state, stopStarted, stopFinished>>
           => StopOwnsItsSession'
    BY DEF StopOwnsItsSession
  <1>12. StopAnswersTruly /\ UNCHANGED <<op, step, target, reply, pc>>
           => StopAnswersTruly'
    BY DEF StopAnswersTruly, Running
  <1>13. AnnouncedIsCurrent
           /\ UNCHANGED <<event, state, book, currentByte, lastErr>>
           => AnnouncedIsCurrent'
    BY DEF AnnouncedIsCurrent, Snapshot
  <1>14. ErrorMatchesState /\ UNCHANGED <<state, lastErr>> => ErrorMatchesState'
    BY DEF ErrorMatchesState
  <1>15. QED
    BY <1>1, <1>2, <1>3, <1>4, <1>5, <1>6, <1>7, <1>8, <1>9, <1>10, <1>11,
       <1>12, <1>13, <1>14

\* The values that stand for nobody, for a call and for a session differ.
LEMMA NameFacts ==
    /\ \A c \in Calls : c # Nobody /\ c # Free /\ c # Other /\ c \notin Sessions
    /\ \A s \in Sessions : s # Free /\ s # Other /\ s # NoSession
PROOF
  <1>1. \A s \in Sessions : s # Free /\ s # Other
    BY NameAssumption
  <1>2. \A c \in Calls : c # Nobody /\ c # Free /\ c # Other /\ c \notin Sessions
    BY NameAssumption
  <1>3. QED
    BY <1>1, <1>2, ConstantFacts

\* What is published is current.
LEMMA PublishCurrent ==
    ASSUME NEW type, Publish(type) PROVE AnnouncedIsCurrent'
PROOF BY DEF Publish, AnnouncedIsCurrent

\* A session whose context is cancelled while it runs is being stopped.
LEMMA CancelledIsStopping ==
    ASSUME SingleOwner, StopFlags, NEW s \in Sessions, Running(s), s \in cancelled
    PROVE  state = "stopping"
PROOF BY NameFacts DEF SingleOwner, StopFlags

\* The worker of s goes on to another step before its end, or to its
\* finalisation with a result that the state allows.
WorkerMoves(s) ==
    \E n \in PCs \ {"none", "close", "dead"} :
        /\ pc' = [pc EXCEPT ![s] = n]
        /\ n = "finalize" =>
             result'[s].state \in {"finished", "failed"} \/ state = "stopping"
        /\ \A t \in Sessions \ {s} : result'[t] = result[t]

\* A worker that goes to a step that ends nothing makes a move.
LEMMA GotoMoves ==
    ASSUME WorkerOK, NEW s \in Sessions,
           NEW n \in PCs \ {"none", "close", "dead", "finalize"},
           WorkerGoto(s, n), UNCHANGED result
    PROVE  WorkerMoves(s)
PROOF BY DEF WorkerGoto, WorkerMoves, WorkerOK

\* A worker that finishes or fails makes a move.
LEMMA FinishMoves ==
    ASSUME WorkerOK, NEW s \in Sessions, NEW st, NEW p, NEW e,
           Finish(s, st, p, e),
           st \in {"finished", "failed"} \/ state = "stopping"
    PROVE  WorkerMoves(s)
PROOF
  <1>1. /\ pc' = [pc EXCEPT ![s] = "finalize"]
        /\ result'[s].state = st
        /\ \A t \in Sessions \ {s} : result'[t] = result[t]
    BY DEF Finish, WorkerGoto, WorkerOK
  <1>2. "finalize" \in PCs \ {"none", "close", "dead"}
    BY DEF PCs
  <1>3. QED
    BY <1>1, <1>2 DEF WorkerMoves

\* A worker that fails, or stops because it was cancelled, makes a move.
LEMMA FinishUnlessCancelledMoves ==
    ASSUME WorkerOK, SingleOwner, StopFlags, NEW s \in Sessions, Running(s),
           NEW p, NEW e, FinishUnlessCancelled(s, p, e)
    PROVE  WorkerMoves(s)
PROOF
  <1>1. CASE s \in cancelled
    <2>1. Finish(s, "stopped", 0, "none") /\ state = "stopping"
      BY <1>1, CancelledIsStopping DEF FinishUnlessCancelled
    <2>2. QED
      BY <2>1, FinishMoves
  <1>2. CASE s \notin cancelled
    <2>1. Finish(s, "failed", p, e)
      BY <1>2 DEF FinishUnlessCancelled
    <2>2. QED
      BY <2>1, FinishMoves
  <1>3. QED
    BY <1>1, <1>2

\* A move of an awake worker disturbs nothing that depends on its step.
LEMMA WorkerMove ==
    ASSUME WorkerOK, CallOK, SingleOwner, SessionsInOrder,
           StoppedOnlyWhenStopping, NoLostWakeup, StopAnswersTruly,
           NEW s \in Sessions, Running(s), s \notin sleeping, WorkerMoves(s),
           UNCHANGED <<state, active, nextID, sleeping, op, step, target, reply,
                       cancelled, stopStarted, stopFinished, done>>
    PROVE  /\ SingleOwner' /\ SessionsInOrder' /\ StoppedOnlyWhenStopping'
           /\ NoLostWakeup' /\ StopAnswersTruly'
PROOF
  <1>1. PICK n \in PCs \ {"none", "close", "dead"} :
            /\ pc' = [pc EXCEPT ![s] = n]
            /\ n = "finalize" =>
                 result'[s].state \in {"finished", "failed"} \/ state = "stopping"
            /\ \A t \in Sessions \ {s} : result'[t] = result[t]
    BY DEF WorkerMoves
  <1>2. /\ pc'[s] = n
        /\ \A t \in Sessions \ {s} : pc'[t] = pc[t]
        /\ \A t \in Sessions : Running(t)' <=> Running(t)
    BY <1>1 DEF WorkerOK, Running
  <1>3. SingleOwner'
    BY <1>2 DEF SingleOwner
  <1>4. SessionsInOrder'
    BY <1>2 DEF SessionsInOrder, Running
  <1>5. StoppedOnlyWhenStopping'
    BY <1>1, <1>2 DEF StoppedOnlyWhenStopping
  <1>6. NoLostWakeup'
    BY <1>2 DEF NoLostWakeup, MustSleep, WorkerOK
  <1>7. StopAnswersTruly'
    <2> SUFFICES ASSUME NEW c \in Calls,
                        (op[c] = "stop" /\ step[c] = "unlock"
                           /\ target[c] # NoSession /\ reply[c] # "stopping")'
                 PROVE  ~Running(target[c])'
      BY DEF StopAnswersTruly
    <2>1. ~Running(target[c]) /\ target[c] \in Sessions
      BY DEF StopAnswersTruly, CallOK
    <2>2. QED
      BY <1>2, <2>1
  <1>8. QED
    BY <1>3, <1>4, <1>5, <1>6, <1>7

\* No worker is about to end stopped unless the state is "stopping".
LEMMA NothingStopped ==
    ASSUME StoppedOnlyWhenStopping, state # "stopping", UNCHANGED <<pc, result>>
    PROVE  StoppedOnlyWhenStopping'
PROOF BY DEF StoppedOnlyWhenStopping

\* Every step keeps the invariant.
LEMMA IndNext == TypeInv /\ TypeInv' /\ IndInv /\ [Next]_vars => IndInv'
PROOF
  <1> SUFFICES ASSUME TypeInv, TypeInv', IndInv, [Next]_vars PROVE IndInv'
    OBVIOUS
  <1>0. /\ ControlOK /\ ManagerOK /\ SessionOK /\ WorkerOK /\ CallOK /\ DiskOK
        /\ CallsWellFormed /\ WorkersWellFormed
        /\ ActiveMatchesState /\ SingleOwner
        /\ SessionsInOrder /\ StopFlags /\ StoppedOnlyWhenStopping
        /\ GateOfCommands /\ LeasesOfCommands /\ LeaseFollowsSession
        /\ CommandHasIdleManager /\ NoLostWakeup /\ StopOwnsItsSession
        /\ StopAnswersTruly /\ AnnouncedIsCurrent /\ ErrorMatchesState
    BY DEF TypeInv, TypeOK, IndInv
  <1> USE <1>0
  <1>1. ASSUME NEW c \in Calls, Acquire(c)
        PROVE  IndInv'
    <2>1. GateOfCommands'
      BY <1>1, NameFacts DEF Acquire, Goto, ReplyFrom, FirstStep,
         GateOfCommands, Preparing, CallOK, playback
    <2>2. LeasesOfCommands'
      BY <1>1 DEF Acquire, Goto, ReplyFrom, FirstStep, LeasesOfCommands,
         DiskOK, CallOK, playback, diskVars, request
    <2>3. CommandHasIdleManager'
      BY <1>1, NameFacts DEF Acquire, Goto, ReplyFrom, FirstStep,
         CommandHasIdleManager, LiveStates, CallOK, playback, managerVars
    <2>4. StopOwnsItsSession'
      BY <1>1 DEF Acquire, Goto, ReplyFrom, FirstStep, StopOwnsItsSession,
         CallOK, playback, managerVars, request, sessionVars
    <2>5. StopAnswersTruly'
      BY <1>1 DEF Acquire, Goto, ReplyFrom, FirstStep, StopAnswersTruly,
         Running, CallOK, WorkerOK, playback, request, workerVars
    <2>6. UNCHANGED <<state, book, currentByte, lastErr, active, nextID,
                     event, cancelled, stopStarted, stopFinished, done, pc,
                     sleeping, source, result, lease>>
      BY <1>1 DEF Acquire, Goto, ReplyFrom, FirstStep, playback, managerVars,
         sessionVars, workerVars, reading, chunk, diskVars
    <2>7. QED
      BY <2>1, <2>2, <2>3, <2>4, <2>5, <2>6, IndFrames DEF IndInv
  <1>2. ASSUME NEW c \in Calls, GiveUp(c)
        PROVE  IndInv'
    <2>1. GateOfCommands'
      BY <1>2 DEF GiveUp, ReplyFrom, GateOfCommands, Preparing, CallOK,
         playback, control
    <2>2. LeasesOfCommands'
      BY <1>2 DEF GiveUp, ReplyFrom, LeasesOfCommands, DiskOK, CallOK,
         playback, diskVars, request
    <2>3. CommandHasIdleManager'
      BY <1>2 DEF GiveUp, ReplyFrom, CommandHasIdleManager, LiveStates,
         CallOK, playback, control, managerVars
    <2>4. StopOwnsItsSession'
      BY <1>2 DEF GiveUp, ReplyFrom, StopOwnsItsSession, CallOK, playback,
         managerVars, request, sessionVars
    <2>5. StopAnswersTruly'
      BY <1>2 DEF GiveUp, ReplyFrom, StopAnswersTruly, Running, CallOK,
         WorkerOK, playback, request, workerVars, CallsWellFormed, Preparing
    <2>6. UNCHANGED <<state, book, currentByte, lastErr, active, nextID,
                     event, cancelled, stopStarted, stopFinished, done, pc,
                     sleeping, source, result, lease>>
      BY <1>2 DEF GiveUp, ReplyFrom, playback, managerVars, sessionVars,
         workerVars, reading, chunk, diskVars
    <2>7. QED
      BY <2>1, <2>2, <2>3, <2>4, <2>5, <2>6, IndFrames DEF IndInv
  <1>3. ASSUME NEW c \in Calls, Cleanup(c)
        PROVE  IndInv'
    <2>1. GateOfCommands'
      BY <1>3 DEF Cleanup, Goto, LeasesWithout, GateOfCommands, Preparing,
         CallOK, playback, control
    <2>2. LeasesOfCommands'
      BY <1>3, NameFacts DEF Cleanup, Goto, LeasesWithout, LeasesOfCommands,
         DiskOK, CallOK, playback, request
    <2>3. LeaseFollowsSession'
      BY <1>3, NameFacts DEF Cleanup, Goto, LeasesWithout,
         LeaseFollowsSession, DiskOK, WorkerOK, playback, managerVars,
         reading, workerVars
    <2>4. CommandHasIdleManager'
      BY <1>3 DEF Cleanup, Goto, LeasesWithout, CommandHasIdleManager,
         LiveStates, CallOK, playback, control, managerVars
    <2>5. StopOwnsItsSession'
      BY <1>3 DEF Cleanup, Goto, LeasesWithout, StopOwnsItsSession, CallOK,
         playback, managerVars, request, sessionVars
    <2>6. StopAnswersTruly'
      BY <1>3 DEF Cleanup, Goto, LeasesWithout, StopAnswersTruly, Running,
         CallOK, WorkerOK, playback, request, workerVars, CallsWellFormed,
         Preparing
    <2>7. UNCHANGED <<state, book, currentByte, lastErr, active, nextID,
                     event, cancelled, stopStarted, stopFinished, done, pc,
                     sleeping, result>>
      BY <1>3 DEF Cleanup, Goto, LeasesWithout, playback, managerVars,
         sessionVars, workerVars, chunk
    <2>8. QED
      BY <2>1, <2>2, <2>3, <2>4, <2>5, <2>6, <2>7, IndFrames DEF IndInv
  <1>4. ASSUME NEW c \in Calls, Return(c)
        PROVE  IndInv'
    <2>1. GateOfCommands'
      BY <1>4 DEF Return, Goto, GateWithout, GateOfCommands, Preparing,
         CallOK, playback
    <2>2. LeasesOfCommands'
      BY <1>4 DEF Return, Goto, GateWithout, LeasesOfCommands, DiskOK, CallOK,
         playback, diskVars
    <2>3. CommandHasIdleManager'
      BY <1>4 DEF Return, Goto, GateWithout, CommandHasIdleManager,
         LiveStates, CallOK, playback, managerVars
    <2>4. StopOwnsItsSession'
      BY <1>4 DEF Return, Goto, GateWithout, StopOwnsItsSession, CallOK,
         playback, managerVars, sessionVars
    <2>5. StopAnswersTruly'
      BY <1>4 DEF Return, Goto, GateWithout, StopAnswersTruly, Running,
         CallOK, WorkerOK, playback, workerVars
    <2>6. UNCHANGED <<state, book, currentByte, lastErr, active, nextID,
                     event, cancelled, stopStarted, stopFinished, done, pc,
                     sleeping, source, result, lease>>
      BY <1>4 DEF Return, Goto, GateWithout, playback, managerVars,
         sessionVars, workerVars, reading, chunk, diskVars
    <2>7. QED
      BY <2>1, <2>2, <2>3, <2>4, <2>5, <2>6, IndFrames DEF IndInv
  <1>5. ASSUME NEW c \in Calls, CheckIdle(c)
        PROVE  IndInv'
    <2>1. GateOfCommands'
      BY <1>5 DEF CheckIdle, Goto, ReplyFrom, GateOfCommands, Preparing,
         CallOK, playback, control
    <2>2. LeasesOfCommands'
      BY <1>5 DEF CheckIdle, Goto, ReplyFrom, LeasesOfCommands, DiskOK,
         CallOK, playback, diskVars, request
    <2>3. CommandHasIdleManager'
      BY <1>5 DEF CheckIdle, Goto, ReplyFrom, CommandHasIdleManager,
         LiveStates, CallOK, playback, control, managerVars, Busy,
         GateOfCommands, Preparing
    <2>4. StopOwnsItsSession'
      BY <1>5 DEF CheckIdle, Goto, ReplyFrom, StopOwnsItsSession, CallOK,
         playback, managerVars, request, sessionVars
    <2>5. StopAnswersTruly'
      BY <1>5 DEF CheckIdle, Goto, ReplyFrom, StopAnswersTruly, Running,
         CallOK, WorkerOK, playback, request, workerVars, CallsWellFormed,
         Preparing
    <2>6. UNCHANGED <<state, book, currentByte, lastErr, active, nextID,
                     event, cancelled, stopStarted, stopFinished, done, pc,
                     sleeping, source, result, lease>>
      BY <1>5 DEF CheckIdle, Goto, ReplyFrom, playback, managerVars,
         sessionVars, workerVars, reading, chunk, diskVars
    <2>7. QED
      BY <2>1, <2>2, <2>3, <2>4, <2>5, <2>6, IndFrames DEF IndInv
  <1>6. ASSUME NEW c \in Calls, Inspect(c)
        PROVE  IndInv'
    <2>1. GateOfCommands'
      BY <1>6 DEF Inspect, Goto, ReplyFrom, GateOfCommands, Preparing, CallOK,
         playback, control
    <2>2. LeasesOfCommands'
      BY <1>6 DEF Inspect, Goto, ReplyFrom, LeasesOfCommands, DiskOK, CallOK,
         playback, diskVars, request
    <2>3. CommandHasIdleManager'
      BY <1>6 DEF Inspect, Goto, ReplyFrom, CommandHasIdleManager, LiveStates,
         CallOK, playback, control, managerVars
    <2>4. StopOwnsItsSession'
      BY <1>6 DEF Inspect, Goto, ReplyFrom, StopOwnsItsSession, CallOK,
         playback, managerVars, request, sessionVars
    <2>5. StopAnswersTruly'
      BY <1>6 DEF Inspect, Goto, ReplyFrom, StopAnswersTruly, Running, CallOK,
         WorkerOK, playback, request, workerVars, CallsWellFormed, Preparing
    <2>6. UNCHANGED <<state, book, currentByte, lastErr, active, nextID,
                     event, cancelled, stopStarted, stopFinished, done, pc,
                     sleeping, source, result, lease>>
      BY <1>6 DEF Inspect, Goto, ReplyFrom, playback, managerVars,
         sessionVars, workerVars, reading, chunk, diskVars
    <2>7. QED
      BY <2>1, <2>2, <2>3, <2>4, <2>5, <2>6, IndFrames DEF IndInv
  <1>6b. ASSUME NEW c \in Calls, CheckBoundary(c)
         PROVE  IndInv'
    <2>1. GateOfCommands'
      BY <1>6b DEF CheckBoundary, Goto, ReplyFrom, GateOfCommands, Preparing, CallOK,
         playback, control
    <2>2. LeasesOfCommands'
      BY <1>6b DEF CheckBoundary, Goto, ReplyFrom, LeasesOfCommands, DiskOK, CallOK,
         playback, diskVars, request
    <2>3. CommandHasIdleManager'
      BY <1>6b DEF CheckBoundary, Goto, ReplyFrom, CommandHasIdleManager, LiveStates,
         CallOK, playback, control, managerVars
    <2>4. StopOwnsItsSession'
      BY <1>6b DEF CheckBoundary, Goto, ReplyFrom, StopOwnsItsSession, CallOK,
         playback, managerVars, request, sessionVars
    <2>5. StopAnswersTruly'
      BY <1>6b DEF CheckBoundary, Goto, ReplyFrom, StopAnswersTruly, Running, CallOK,
         WorkerOK, playback, request, workerVars, CallsWellFormed, Preparing
    <2>6. UNCHANGED <<state, book, currentByte, lastErr, active, nextID,
                     event, cancelled, stopStarted, stopFinished, done, pc,
                     sleeping, source, result, lease>>
      BY <1>6b DEF CheckBoundary, Goto, ReplyFrom, playback, managerVars,
         sessionVars, workerVars, reading, chunk, diskVars
    <2>7. QED
      BY <2>1, <2>2, <2>3, <2>4, <2>5, <2>6, IndFrames DEF IndInv
  <1>7. ASSUME NEW c \in Calls, AcquireLease(c)
        PROVE  IndInv'
    <2>1. GateOfCommands'
      BY <1>7 DEF AcquireLease, Goto, ReplyFrom, GateOfCommands, Preparing,
         CallOK, playback, control
    <2>2. LeasesOfCommands'
      BY <1>7 DEF AcquireLease, Goto, ReplyFrom, LeasesOfCommands, DiskOK,
         CallOK, playback, request
    <2>3. LeaseFollowsSession'
      BY <1>7, NameFacts DEF AcquireLease, Goto, ReplyFrom,
         LeaseFollowsSession, DiskOK, WorkerOK, playback, managerVars,
         reading, workerVars
    <2>4. CommandHasIdleManager'
      BY <1>7 DEF AcquireLease, Goto, ReplyFrom, CommandHasIdleManager,
         LiveStates, CallOK, playback, control, managerVars
    <2>5. StopOwnsItsSession'
      BY <1>7 DEF AcquireLease, Goto, ReplyFrom, StopOwnsItsSession, CallOK,
         playback, managerVars, request, sessionVars
    <2>6. StopAnswersTruly'
      BY <1>7 DEF AcquireLease, Goto, ReplyFrom, StopAnswersTruly, Running,
         CallOK, WorkerOK, playback, request, workerVars, CallsWellFormed,
         Preparing
    <2>7. UNCHANGED <<state, book, currentByte, lastErr, active, nextID,
                     event, cancelled, stopStarted, stopFinished, done, pc,
                     sleeping, result>>
      BY <1>7 DEF AcquireLease, Goto, ReplyFrom, playback, managerVars,
         sessionVars, workerVars, chunk
    <2>8. QED
      BY <2>1, <2>2, <2>3, <2>4, <2>5, <2>6, <2>7, IndFrames DEF IndInv
  <1>8. ASSUME NEW c \in Calls, Load(c)
        PROVE  IndInv'
    <2>1. GateOfCommands'
      BY <1>8 DEF Load, Goto, ReplyFrom, GateOfCommands, Preparing, CallOK,
         playback, control
    <2>2. LeasesOfCommands'
      BY <1>8 DEF Load, Goto, ReplyFrom, LeasesOfCommands, DiskOK, CallOK,
         playback, diskVars
    <2>3. CommandHasIdleManager'
      BY <1>8 DEF Load, Goto, ReplyFrom, CommandHasIdleManager, LiveStates,
         CallOK, playback, control, managerVars
    <2>4. StopOwnsItsSession'
      BY <1>8 DEF Load, Goto, ReplyFrom, StopOwnsItsSession, CallOK, playback,
         managerVars, request, sessionVars
    <2>5. StopAnswersTruly'
      BY <1>8 DEF Load, Goto, ReplyFrom, StopAnswersTruly, Running, CallOK,
         WorkerOK, playback, request, workerVars, CallsWellFormed, Preparing
    <2>6. UNCHANGED <<state, book, currentByte, lastErr, active, nextID,
                     event, cancelled, stopStarted, stopFinished, done, pc,
                     sleeping, source, result, lease>>
      BY <1>8 DEF Load, Goto, ReplyFrom, playback, managerVars, sessionVars,
         workerVars, reading, chunk, diskVars
    <2>7. QED
      BY <2>1, <2>2, <2>3, <2>4, <2>5, <2>6, IndFrames DEF IndInv
  <1>9. ASSUME NEW c \in Calls, CommitStart(c)
        PROVE  IndInv'
    <2>1. CASE Refusal # "none"
      <3>1. /\ step' = [step EXCEPT ![c] = "cleanup"]
            /\ UNCHANGED <<gate, op, arg, target, managerVars, sessionVars,
                           sleeping, pc, source, result, lease>>
        BY <1>9, <2>1 DEF CommitStart, ReplyFrom, control, request
      <3>2. GateOfCommands'
        BY <1>9, <3>1 DEF CommitStart, GateOfCommands, Preparing, CallOK
      <3>3. LeasesOfCommands'
        BY <1>9, <3>1 DEF CommitStart, LeasesOfCommands, CallOK
      <3>4. CommandHasIdleManager'
        BY <3>1 DEF CommandHasIdleManager, CallOK, managerVars
      <3>5. StopOwnsItsSession'
        BY <3>1 DEF StopOwnsItsSession, CallOK, managerVars, sessionVars
      <3>6. StopAnswersTruly'
        BY <1>9, <3>1 DEF CommitStart, ReplyFrom, StopAnswersTruly, Running, CallOK
      <3>7. QED
        BY <3>1, <3>2, <3>3, <3>4, <3>5, <3>6, IndFrames
           DEF IndInv, managerVars, sessionVars
    <2>2. CASE Refusal = "none"
      <3> DEFINE s == nextID + 1
      <3>1. /\ active = NoSession /\ state \notin LiveStates
            /\ gate = c /\ arg[c].id \in Books
        BY <1>9 DEF CommitStart, CommandHasIdleManager, CallsWellFormed
      <3>2. s \in Sessions /\ s > nextID
        BY <1>9, BoundAssumption DEF CommitStart, ManagerOK, Sessions, NoSession
      <3>3. /\ pc[s] = "none"
            /\ s \notin cancelled \cup stopStarted \cup stopFinished
            /\ \A t \in Sessions : ~Running(t)
        BY <3>1, <3>2, NameFacts DEF SessionsInOrder, SingleOwner
      <3>4. /\ nextID' = s /\ active' = s /\ state' = "playing"
            /\ lastErr' = "none" /\ Publish("playback.started")
            /\ lease' = [lease EXCEPT ![arg[c].id] = s]
            /\ pc' = [pc EXCEPT ![s] = "open"]
            /\ source' = [source EXCEPT ![s] = [id |-> arg[c].id, ver |-> arg[c].ver]]
            /\ step' = [step EXCEPT ![c] = "unlock"]
            /\ reply' = [reply EXCEPT ![c] = "ok"]
        BY <1>9, <2>2 DEF CommitStart, StartSession, ReplyFrom
      <3>5. UNCHANGED <<gate, op, arg, target, cancelled, stopStarted,
                        stopFinished, done, sleeping, result>>
        BY <1>9 DEF CommitStart, control, sessionVars, request
      <3>6. /\ pc'[s] = "open"
            /\ \A t \in Sessions \ {s} : pc'[t] = pc[t]
            /\ \A t \in Sessions : Running(t)' <=> t = s
        BY <3>2, <3>3, <3>4 DEF WorkerOK, Running
      <3> HIDE DEF s
      <3>7. ActiveMatchesState'
        BY <3>2, <3>4, NameFacts DEF ActiveMatchesState, LiveStates
      <3>8. SingleOwner'
        BY <3>4, <3>6 DEF SingleOwner
      <3>9. SessionsInOrder'
        <4> SUFFICES ASSUME NEW t \in Sessions
                     PROVE  /\ t > nextID' => /\ pc'[t] = "none"
                                              /\ t \notin (cancelled \cup stopStarted \cup stopFinished)'
                            /\ t \in done' => pc'[t] = "dead"
          BY DEF SessionsInOrder
        <4>1. CASE t = s
          BY <3>2, <3>3, <3>4, <3>5, <4>1, ConstantFacts DEF SessionsInOrder
        <4>2. CASE t # s
          <5>1. t > nextID' => t > nextID
            BY <3>2, <3>4, ConstantFacts DEF s, ManagerOK
          <5>2. QED
            BY <3>5, <3>6, <4>2, <5>1 DEF SessionsInOrder
        <4>3. QED
          BY <4>1, <4>2
      <3>10. StopFlags'
        BY <3>2, <3>3, <3>4, <3>5 DEF StopFlags
      <3>11. StoppedOnlyWhenStopping'
        BY <3>3, <3>6 DEF StoppedOnlyWhenStopping, Running
      <3>12. GateOfCommands'
        BY <3>4, <3>5 DEF GateOfCommands, Preparing, CallOK
      <3>13. LeasesOfCommands'
        <4> SUFFICES ASSUME NEW d \in Calls, NEW b \in Books, lease'[b] = d
                     PROVE  /\ step'[d] \in {"load", "save", "commit", "cleanup"}
                            /\ arg'[d].id = b
          BY DEF LeasesOfCommands
        <4>1. b # arg[c].id /\ lease[b] = d
          BY <3>1, <3>2, <3>4, NameFacts DEF DiskOK
        <4>2. d # c
          BY <4>1 DEF LeasesOfCommands
        <4>3. QED
          BY <3>4, <3>5, <4>1, <4>2 DEF LeasesOfCommands, CallOK
      <3>14. LeaseFollowsSession'
        <4> SUFFICES ASSUME NEW t \in Sessions, NEW b \in Books
                     PROVE  lease'[b] = t <=> active' = t /\ source'[t].id = b
          BY DEF LeaseFollowsSession
        <4>1. lease[b] # t
          BY <3>1, NameFacts DEF LeaseFollowsSession
        <4>2. lease'[b] = t <=> b = arg[c].id /\ t = s
          BY <3>1, <3>2, <3>4, <4>1 DEF DiskOK
        <4>3. t = s => source'[t].id = arg[c].id
          BY <3>2, <3>4 DEF WorkerOK
        <4>4. QED
          BY <3>4, <4>2, <4>3
      <3>15. CommandHasIdleManager'
        BY <3>1, <3>4, <3>5 DEF CommandHasIdleManager, CallOK
      <3>16. NoLostWakeup'
        BY <3>1, <3>5, NameFacts DEF NoLostWakeup, MustSleep, WorkerOK
      <3>17. StopOwnsItsSession'
        BY <3>1, <3>4, <3>5, NameFacts
           DEF StopOwnsItsSession, CallOK, CallsWellFormed
      <3>18. StopAnswersTruly'
        <4> SUFFICES ASSUME NEW d \in Calls,
                            (op[d] = "stop" /\ step[d] = "unlock"
                               /\ target[d] # NoSession /\ reply[d] # "stopping")'
                     PROVE  ~Running(target[d])'
          BY DEF StopAnswersTruly
        <4>1. target[d] \in Sessions /\ target[d] # s
          BY <3>2, <3>5, ConstantFacts DEF CallOK, CallsWellFormed, ManagerOK
        <4>2. QED
          BY <3>5, <3>6, <4>1
      <3>19. AnnouncedIsCurrent'
        BY <3>4, PublishCurrent
      <3>20. ErrorMatchesState'
        BY <3>4 DEF ErrorMatchesState
      <3>21. QED
        BY <3>7, <3>8, <3>9, <3>10, <3>11, <3>12, <3>13, <3>14, <3>15, <3>16,
           <3>17, <3>18, <3>19, <3>20 DEF IndInv
    <2>3. QED
      BY <2>1, <2>2
  <1>10. ASSUME NEW c \in Calls, SavePosition(c)
         PROVE  IndInv'
    <2>1. GateOfCommands'
      BY <1>10 DEF SavePosition, Goto, ReplyFrom, GateOfCommands, Preparing,
         CallOK, playback, control
    <2>2. LeasesOfCommands'
      BY <1>10 DEF SavePosition, Goto, ReplyFrom, LeasesOfCommands, DiskOK,
         CallOK, playback, diskVars, request
    <2>3. CommandHasIdleManager'
      BY <1>10 DEF SavePosition, Goto, ReplyFrom, CommandHasIdleManager,
         LiveStates, CallOK, playback, control, managerVars
    <2>4. StopOwnsItsSession'
      BY <1>10 DEF SavePosition, Goto, ReplyFrom, StopOwnsItsSession, CallOK,
         playback, managerVars, request, sessionVars
    <2>5. StopAnswersTruly'
      BY <1>10 DEF SavePosition, Goto, ReplyFrom, StopAnswersTruly, Running,
         CallOK, WorkerOK, playback, request, workerVars, CallsWellFormed,
         Preparing
    <2>6. UNCHANGED <<state, book, currentByte, lastErr, active, nextID,
                     event, cancelled, stopStarted, stopFinished, done, pc,
                     sleeping, source, result, lease>>
      BY <1>10 DEF SavePosition, Goto, ReplyFrom, playback, managerVars,
         sessionVars, workerVars, reading, chunk, diskVars
    <2>7. QED
      BY <2>1, <2>2, <2>3, <2>4, <2>5, <2>6, IndFrames DEF IndInv
  <1>11. ASSUME NEW c \in Calls, CommitPosition(c)
         PROVE  IndInv'
    <2>1. active = NoSession /\ state \notin LiveStates /\ gate = c
      BY <1>11 DEF CommitPosition, CommandHasIdleManager
    <2>2. \A s \in Sessions : ~Running(s) /\ s \notin sleeping
      BY <2>1, NameFacts DEF SingleOwner, NoLostWakeup, MustSleep
    <2>3. /\ state' = "stopped" /\ lastErr' = "none"
          /\ step' = [step EXCEPT ![c] = "cleanup"]
          /\ reply' = [reply EXCEPT ![c] = "ok"]
          /\ UNCHANGED <<gate, op, arg, target, active, nextID, cancelled,
                         stopStarted, stopFinished, done, pc, sleeping, source,
                         result, lease>>
      BY <1>11 DEF CommitPosition, ReplyFrom, control, sessionVars, workerVars,
         reading, chunk, request, diskVars
    <2>4. ActiveMatchesState'
      BY <2>1, <2>3 DEF ActiveMatchesState, LiveStates
    <2>5. SingleOwner' /\ SessionsInOrder' /\ LeaseFollowsSession'
      BY <2>3, IndFrames
    <2>6. StopFlags'
      BY <2>1, <2>3 DEF StopFlags
    <2>7. StoppedOnlyWhenStopping'
      BY <2>2, <2>3 DEF StoppedOnlyWhenStopping, Running
    <2>8. GateOfCommands'
      BY <1>11, <2>1, <2>3 DEF CommitPosition, GateOfCommands, Preparing, CallOK
    <2>9. LeasesOfCommands'
      BY <1>11, <2>3 DEF CommitPosition, LeasesOfCommands, CallOK
    <2>10. CommandHasIdleManager'
      BY <2>1, <2>3 DEF CommandHasIdleManager, CallOK, LiveStates
    <2>11. NoLostWakeup'
      BY <2>2, <2>3 DEF NoLostWakeup, WorkerOK
    <2>12. StopOwnsItsSession'
      BY <2>1, <2>3, NameFacts DEF StopOwnsItsSession, CallOK, CallsWellFormed
    <2>13. StopAnswersTruly'
      <3> SUFFICES ASSUME NEW d \in Calls,
                          (op[d] = "stop" /\ step[d] = "unlock"
                             /\ target[d] # NoSession /\ reply[d] # "stopping")'
                   PROVE  ~Running(target[d])'
        BY DEF StopAnswersTruly
      <3>1. QED
        BY <2>2, <2>3 DEF CallOK, Running
    <2>14. AnnouncedIsCurrent'
      BY <1>11, PublishCurrent DEF CommitPosition
    <2>15. ErrorMatchesState'
      BY <2>3 DEF ErrorMatchesState, LiveStates
    <2>16. QED
      BY <2>4, <2>5, <2>6, <2>7, <2>8, <2>9, <2>10, <2>11, <2>12, <2>13, <2>14,
         <2>15 DEF IndInv
  <1>12. ASSUME NEW c \in Calls, Pause(c)
         PROVE  IndInv'
    <2>1. ActiveMatchesState'
      BY <1>12 DEF Pause, CanPause, ReplyFrom, ActiveMatchesState, LiveStates,
         playback, managerVars
    <2>2. StopFlags'
      BY <1>12 DEF Pause, CanPause, ReplyFrom, StopFlags, playback,
         sessionVars, managerVars
    <2>3. StoppedOnlyWhenStopping'
      <3>1. CASE CanPause
        BY <1>12, <3>1, NothingStopped DEF Pause, CanPause, workerVars, chunk
      <3>2. CASE ~CanPause
        BY <1>12, <3>2, IndFrames DEF Pause, managerVars, workerVars, chunk
      <3>3. QED
        BY <3>1, <3>2
    <2>4. GateOfCommands'
      BY <1>12 DEF Pause, CanPause, ReplyFrom, GateOfCommands, Preparing,
         CallOK, playback, control
    <2>5. LeasesOfCommands'
      BY <1>12 DEF Pause, CanPause, ReplyFrom, LeasesOfCommands, DiskOK,
         CallOK, playback, diskVars, request
    <2>6. CommandHasIdleManager'
      BY <1>12 DEF Pause, CanPause, ReplyFrom, CommandHasIdleManager,
         LiveStates, CallOK, playback, control, managerVars
    <2>7. NoLostWakeup'
      BY <1>12 DEF Pause, CanPause, ReplyFrom, NoLostWakeup, MustSleep,
         WorkerOK, playback, workerVars, sessionVars, managerVars
    <2>8. StopOwnsItsSession'
      BY <1>12 DEF Pause, CanPause, ReplyFrom, StopOwnsItsSession, CallOK,
         playback, managerVars, request, sessionVars
    <2>9. StopAnswersTruly'
      BY <1>12 DEF Pause, CanPause, ReplyFrom, StopAnswersTruly, Running,
         CallOK, WorkerOK, playback, request, workerVars
    <2>10. AnnouncedIsCurrent'
      BY <1>12, PublishCurrent, IndFrames DEF Pause, managerVars
    <2>11. ErrorMatchesState'
      BY <1>12 DEF Pause, CanPause, ReplyFrom, ErrorMatchesState, LiveStates,
         playback, managerVars
    <2>12. UNCHANGED <<active, nextID, cancelled, stopStarted, stopFinished,
                     done, pc, source, lease>>
      BY <1>12 DEF Pause, CanPause, ReplyFrom, playback, managerVars,
         sessionVars, workerVars, reading, diskVars, chunk
    <2>13. QED
      BY <2>1, <2>2, <2>3, <2>4, <2>5, <2>6, <2>7, <2>8, <2>9, <2>10, <2>11,
         <2>12, IndFrames DEF IndInv
  <1>13. ASSUME NEW c \in Calls, Resume(c)
         PROVE  IndInv'
    <2>1. ActiveMatchesState'
      BY <1>13 DEF Resume, CanResume, ReplyFrom, Broadcast,
         ActiveMatchesState, LiveStates, playback, managerVars
    <2>2. StopFlags'
      BY <1>13 DEF Resume, CanResume, ReplyFrom, Broadcast, StopFlags,
         playback, sessionVars, managerVars
    <2>3. StoppedOnlyWhenStopping'
      <3>1. CASE CanResume
        BY <1>13, <3>1, NothingStopped DEF Resume, CanResume, workerVars, chunk
      <3>2. CASE ~CanResume
        BY <1>13, <3>2, IndFrames DEF Resume, managerVars, workerVars, chunk
      <3>3. QED
        BY <3>1, <3>2
    <2>4. GateOfCommands'
      BY <1>13 DEF Resume, CanResume, ReplyFrom, Broadcast, GateOfCommands,
         Preparing, CallOK, playback, control
    <2>5. LeasesOfCommands'
      BY <1>13 DEF Resume, CanResume, ReplyFrom, Broadcast, LeasesOfCommands,
         DiskOK, CallOK, playback, diskVars, request
    <2>6. CommandHasIdleManager'
      BY <1>13 DEF Resume, CanResume, ReplyFrom, Broadcast,
         CommandHasIdleManager, LiveStates, CallOK, playback, control,
         managerVars
    <2>7. NoLostWakeup'
      BY <1>13 DEF Resume, CanResume, ReplyFrom, Broadcast, NoLostWakeup,
         MustSleep, WorkerOK, playback, workerVars, sessionVars, managerVars
    <2>8. StopOwnsItsSession'
      BY <1>13 DEF Resume, CanResume, ReplyFrom, Broadcast,
         StopOwnsItsSession, CallOK, playback, managerVars, request,
         sessionVars
    <2>9. StopAnswersTruly'
      BY <1>13 DEF Resume, CanResume, ReplyFrom, Broadcast, StopAnswersTruly,
         Running, CallOK, WorkerOK, playback, request, workerVars
    <2>10. AnnouncedIsCurrent'
      BY <1>13, PublishCurrent, IndFrames DEF Resume, managerVars
    <2>11. ErrorMatchesState'
      BY <1>13 DEF Resume, CanResume, ReplyFrom, Broadcast, ErrorMatchesState,
         LiveStates, playback, managerVars
    <2>12. UNCHANGED <<active, nextID, cancelled, stopStarted, stopFinished,
                     done, pc, source, lease>>
      BY <1>13 DEF Resume, CanResume, ReplyFrom, Broadcast, playback,
         managerVars, sessionVars, workerVars, reading, diskVars, chunk
    <2>13. QED
      BY <2>1, <2>2, <2>3, <2>4, <2>5, <2>6, <2>7, <2>8, <2>9, <2>10, <2>11,
         <2>12, IndFrames DEF IndInv
  <1>14. ASSUME NEW c \in Calls, StopMark(c)
         PROVE  IndInv'
    <2>1. /\ UNCHANGED <<gate, op, arg, active, nextID, cancelled, stopFinished,
                         done, pc, source, result, lease>>
          /\ target' = [target EXCEPT ![c] = active]
          /\ op[c] = "stop"
      BY <1>14 DEF StopMark, MarkIdle, MarkStopping, managerVars, control, reading,
         chunk, diskVars, CallsWellFormed
    <2>2. SingleOwner' /\ LeaseFollowsSession'
      BY <2>1, IndFrames
    <2>3. CASE active = NoSession
      <3>1. /\ state' = "stopped" /\ lastErr' = "none"
            /\ Publish("playback.stopped")
            /\ step' = [step EXCEPT ![c] = "unlock"]
            /\ UNCHANGED <<stopStarted, sleeping>>
        BY <1>14, <2>3 DEF StopMark, MarkIdle, ReplyFrom
      <3>2. \A s \in Sessions : ~Running(s) /\ s \notin sleeping
        BY <2>3, NameFacts DEF SingleOwner, NoLostWakeup, MustSleep
      <3>3. ActiveMatchesState' /\ ErrorMatchesState'
        BY <2>1, <2>3, <3>1 DEF ActiveMatchesState, ErrorMatchesState, LiveStates
      <3>4. SessionsInOrder' /\ StopFlags'
        BY <2>1, <2>3, <3>1 DEF SessionsInOrder, StopFlags
      <3>5. StoppedOnlyWhenStopping'
        BY <2>1, <3>2 DEF StoppedOnlyWhenStopping, Running
      <3>6. GateOfCommands' /\ LeasesOfCommands'
        BY <1>14, <2>1, <3>1
           DEF StopMark, GateOfCommands, Preparing, LeasesOfCommands, CallOK
      <3>7. CommandHasIdleManager'
        BY <2>1, <2>3, <3>1 DEF CommandHasIdleManager, CallOK, LiveStates
      <3>8. NoLostWakeup'
        BY <3>1, <3>2 DEF NoLostWakeup, WorkerOK
      <3>9. StopOwnsItsSession'
        BY <2>1, <2>3, <3>1, NameFacts
           DEF StopOwnsItsSession, CallOK, CallsWellFormed
      <3>10. StopAnswersTruly'
        <4> SUFFICES ASSUME NEW d \in Calls,
                            (op[d] = "stop" /\ step[d] = "unlock"
                               /\ target[d] # NoSession /\ reply[d] # "stopping")'
                     PROVE  ~Running(target[d])'
          BY DEF StopAnswersTruly
        <4>1. target'[d] \in Sessions
          BY <2>1, <2>3 DEF CallOK
        <4>2. QED
          BY <2>1, <3>2, <4>1 DEF Running
      <3>11. AnnouncedIsCurrent'
        BY <3>1, PublishCurrent
      <3>12. QED
        BY <2>2, <3>3, <3>4, <3>5, <3>6, <3>7, <3>8, <3>9, <3>10, <3>11
           DEF IndInv
    <2>4. CASE active # NoSession /\ active \notin stopStarted
      <3>1. /\ state' = "stopping" /\ lastErr' = "none"
            /\ Publish("playback.stopping") /\ sleeping' = {}
            /\ stopStarted' = stopStarted \cup {active}
            /\ step' = [step EXCEPT ![c] = "cancel"] /\ UNCHANGED reply
        BY <1>14, <2>4 DEF StopMark, MarkStopping, Broadcast, Goto
      <3>2. active \in Sessions /\ active <= nextID
        BY <2>4 DEF ManagerOK
      <3>3. ActiveMatchesState' /\ ErrorMatchesState'
        BY <2>1, <2>4, <3>1 DEF ActiveMatchesState, ErrorMatchesState, LiveStates
      <3>4. SessionsInOrder'
        BY <2>1, <3>1, <3>2, ConstantFacts DEF SessionsInOrder, ManagerOK
      <3>5. StopFlags'
        BY <2>1, <3>1 DEF StopFlags
      <3>6. StoppedOnlyWhenStopping' /\ NoLostWakeup'
        BY <3>1 DEF StoppedOnlyWhenStopping, NoLostWakeup
      <3>7. GateOfCommands' /\ LeasesOfCommands'
        BY <1>14, <2>1, <3>1
           DEF StopMark, GateOfCommands, Preparing, LeasesOfCommands, CallOK
      <3>8. CommandHasIdleManager'
        BY <2>1, <2>4, <3>1 DEF CommandHasIdleManager, CallOK
      <3>9. StopOwnsItsSession'
        <4> SUFFICES ASSUME NEW d \in Calls, step'[d] \in {"cancel", "engine"}
                     PROVE  /\ active' = target'[d] /\ state' = "stopping"
                            /\ target'[d] \in stopStarted' \ stopFinished'
                            /\ \A e \in Calls \ {d} :
                                 step'[e] \in {"cancel", "engine"} =>
                                   target'[e] # target'[d]
          BY DEF StopOwnsItsSession
        <4>1. \A e \in Calls \ {c} : step[e] \notin {"cancel", "engine"}
          BY <2>4 DEF StopOwnsItsSession
        <4>2. d = c
          BY <3>1, <4>1 DEF CallOK
        <4>3. active \notin stopFinished
          BY <2>4 DEF StopFlags
        <4>4. QED
          BY <2>1, <3>1, <4>1, <4>2, <4>3 DEF CallOK
      <3>10. StopAnswersTruly'
        BY <2>1, <3>1 DEF StopAnswersTruly, Running, CallOK
      <3>11. AnnouncedIsCurrent'
        BY <3>1, PublishCurrent
      <3>12. QED
        BY <2>2, <3>3, <3>4, <3>5, <3>6, <3>7, <3>8, <3>9, <3>10, <3>11
           DEF IndInv
    <2>5. CASE active # NoSession /\ active \in stopStarted
      <3>1. /\ step' = [step EXCEPT ![c] = "wait"]
            /\ UNCHANGED <<reply, managerVars, stopStarted, sleeping>>
        BY <1>14, <2>5 DEF StopMark, Goto
      <3>2. GateOfCommands' /\ LeasesOfCommands'
        BY <1>14, <2>1, <3>1
           DEF StopMark, GateOfCommands, Preparing, LeasesOfCommands, CallOK
      <3>3. CommandHasIdleManager'
        BY <2>1, <3>1 DEF CommandHasIdleManager, CallOK, managerVars
      <3>4. StopOwnsItsSession'
        BY <2>1, <3>1 DEF StopOwnsItsSession, CallOK, managerVars
      <3>5. StopAnswersTruly'
        BY <2>1, <3>1 DEF StopAnswersTruly, Running, CallOK
      <3>6. QED
        BY <2>1, <2>2, <3>1, <3>2, <3>3, <3>4, <3>5, IndFrames
           DEF IndInv, managerVars
    <2>6. QED
      BY <2>3, <2>4, <2>5
  <1>15. ASSUME NEW c \in Calls, StopCancel(c)
         PROVE  IndInv'
    <2>1. SessionsInOrder'
      BY <1>15 DEF StopCancel, Goto, SessionsInOrder, WorkerOK, playback,
         workerVars, managerVars, sessionVars, CallsWellFormed,
         StopOwnsItsSession, ManagerOK
    <2>2. StopFlags'
      BY <1>15 DEF StopCancel, Goto, StopFlags, playback, sessionVars,
         managerVars, CallsWellFormed, StopOwnsItsSession, CallOK
    <2>3. GateOfCommands'
      BY <1>15 DEF StopCancel, Goto, GateOfCommands, Preparing, CallOK,
         playback, control
    <2>4. LeasesOfCommands'
      BY <1>15 DEF StopCancel, Goto, LeasesOfCommands, DiskOK, CallOK,
         playback, diskVars, request
    <2>5. CommandHasIdleManager'
      BY <1>15 DEF StopCancel, Goto, CommandHasIdleManager, LiveStates,
         CallOK, playback, control, managerVars
    <2>6. NoLostWakeup'
      BY <1>15 DEF StopCancel, Goto, NoLostWakeup, MustSleep, WorkerOK,
         playback, workerVars, managerVars, CallsWellFormed,
         StopOwnsItsSession, CallOK
    <2>7. StopOwnsItsSession'
      BY <1>15 DEF StopCancel, Goto, StopOwnsItsSession, CallOK, playback,
         managerVars, request, sessionVars
    <2>8. StopAnswersTruly'
      BY <1>15 DEF StopCancel, Goto, StopAnswersTruly, Running, CallOK,
         WorkerOK, playback, request, workerVars
    <2>9. UNCHANGED <<state, book, currentByte, lastErr, active, event, pc,
                     source, result, lease>>
      BY <1>15 DEF StopCancel, Goto, playback, managerVars, workerVars,
         reading, chunk, diskVars
    <2>10. QED
      BY <2>1, <2>2, <2>3, <2>4, <2>5, <2>6, <2>7, <2>8, <2>9, IndFrames DEF
         IndInv
  <1>16. ASSUME NEW c \in Calls, StopEngine(c)
         PROVE  IndInv'
    <2>1. SessionsInOrder'
      BY <1>16 DEF StopEngine, Goto, SessionsInOrder, WorkerOK, playback,
         workerVars, managerVars, sessionVars, CallsWellFormed,
         StopOwnsItsSession, ManagerOK
    <2>2. StopFlags'
      BY <1>16 DEF StopEngine, Goto, StopFlags, playback, sessionVars,
         managerVars, CallsWellFormed, StopOwnsItsSession, CallOK
    <2>3. GateOfCommands'
      BY <1>16 DEF StopEngine, Goto, GateOfCommands, Preparing, CallOK,
         playback, control
    <2>4. LeasesOfCommands'
      BY <1>16 DEF StopEngine, Goto, LeasesOfCommands, DiskOK, CallOK,
         playback, diskVars, request
    <2>5. CommandHasIdleManager'
      BY <1>16 DEF StopEngine, Goto, CommandHasIdleManager, LiveStates,
         CallOK, playback, control, managerVars
    <2>6. StopOwnsItsSession'
      BY <1>16 DEF StopEngine, Goto, StopOwnsItsSession, CallOK, playback,
         managerVars, request, sessionVars
    <2>7. StopAnswersTruly'
      BY <1>16 DEF StopEngine, Goto, StopAnswersTruly, Running, CallOK,
         WorkerOK, playback, request, workerVars
    <2>8. UNCHANGED <<state, book, currentByte, lastErr, active, event,
                     cancelled, pc, sleeping, source, result, lease>>
      BY <1>16 DEF StopEngine, Goto, playback, managerVars, sessionVars,
         workerVars, reading, chunk, diskVars
    <2>9. QED
      BY <2>1, <2>2, <2>3, <2>4, <2>5, <2>6, <2>7, <2>8, IndFrames DEF IndInv
  <1>17. ASSUME NEW c \in Calls, StopWait(c)
         PROVE  IndInv'
    <2>1. GateOfCommands'
      BY <1>17 DEF StopWait, ReplyFrom, GateOfCommands, Preparing, CallOK,
         playback, control
    <2>2. LeasesOfCommands'
      BY <1>17 DEF StopWait, ReplyFrom, LeasesOfCommands, DiskOK, CallOK,
         playback, diskVars, request
    <2>3. CommandHasIdleManager'
      BY <1>17 DEF StopWait, ReplyFrom, CommandHasIdleManager, LiveStates,
         CallOK, playback, control, managerVars
    <2>4. StopOwnsItsSession'
      BY <1>17 DEF StopWait, ReplyFrom, StopOwnsItsSession, CallOK, playback,
         managerVars, request, sessionVars
    <2>5. StopAnswersTruly'
      BY <1>17 DEF StopWait, ReplyFrom, StopAnswersTruly, Running, CallOK,
         WorkerOK, playback, request, workerVars, ExpiredReply, SingleOwner,
         SessionsInOrder, CallsWellFormed
    <2>6. UNCHANGED <<state, book, currentByte, lastErr, active, nextID,
                     event, cancelled, stopStarted, stopFinished, done, pc,
                     sleeping, source, result, lease>>
      BY <1>17 DEF StopWait, ReplyFrom, playback, managerVars, sessionVars,
         workerVars, reading, chunk, diskVars
    <2>7. QED
      BY <2>1, <2>2, <2>3, <2>4, <2>5, <2>6, IndFrames DEF IndInv
  <1>18. ASSUME NEW c \in Calls, BeginCall(c)
         PROVE  IndInv'
    <2>1. GateOfCommands'
      BY <1>18 DEF BeginCall, Goto, GateOfCommands, Preparing, CallOK,
         playback, control
    <2>2. LeasesOfCommands'
      BY <1>18 DEF BeginCall, Goto, LeasesOfCommands, DiskOK, CallOK,
         playback, diskVars
    <2>3. CommandHasIdleManager'
      BY <1>18 DEF BeginCall, Goto, CommandHasIdleManager, LiveStates, CallOK,
         playback, control, managerVars
    <2>4. StopOwnsItsSession'
      BY <1>18 DEF BeginCall, Goto, StopOwnsItsSession, CallOK, playback,
         managerVars, request, sessionVars
    <2>5. StopAnswersTruly'
      BY <1>18 DEF BeginCall, Goto, StopAnswersTruly, Running, CallOK,
         WorkerOK, playback, request, workerVars
    <2>6. UNCHANGED <<state, book, currentByte, lastErr, active, nextID,
                     event, cancelled, stopStarted, stopFinished, done, pc,
                     sleeping, source, result, lease>>
      BY <1>18 DEF BeginCall, Goto, playback, managerVars, sessionVars,
         workerVars, reading, chunk, diskVars
    <2>7. QED
      BY <2>1, <2>2, <2>3, <2>4, <2>5, <2>6, IndFrames DEF IndInv
  <1>19. ASSUME NEW c \in Calls, Expire(c)
         PROVE  IndInv'
    <2>1. UNCHANGED <<gate, step, op, arg, target, reply, state, book,
                     currentByte, lastErr, active, nextID, event, cancelled,
                     stopStarted, stopFinished, done, pc, sleeping, source,
                     result, lease>>
      BY <1>19 DEF Expire, playback, commands, control, callVars, request,
         managerVars, sessionVars, workerVars, reading, chunk, diskVars
    <2>2. QED
      BY <2>1, IndFrames DEF IndInv
  <1>20. ASSUME NEW s \in Sessions, Open(s)
         PROVE  IndInv'
    <2>1. Running(s) /\ s \notin sleeping
      BY <1>20 DEF Open, Running, NoLostWakeup
    <2>2. WorkerMoves(s)
      <3>1. CASE Continue(s, "wait")
        BY <3>1, GotoMoves DEF Continue, chunk, PCs
      <3>2. CASE Finish(s, "failed", pos[s], "modified")
        BY <3>2, FinishMoves
      <3>3. CASE FinishUnlessCancelled(s, pos[s], "internal")
        BY <3>3, <2>1, FinishUnlessCancelledMoves
      <3>4. QED
        BY <1>20, <3>1, <3>2, <3>3 DEF Open
    <2>3. UNCHANGED <<state, active, nextID, sleeping, op, step, target,
                      reply, cancelled, stopStarted, stopFinished, done,
                      gate, lease, arg, source, event, book, currentByte,
                      lastErr>>
      BY <1>20 DEF Open, commands, control, managerVars, sessionVars, callVars,
         request, diskVars, reading
    <2>4. /\ SingleOwner' /\ SessionsInOrder' /\ StoppedOnlyWhenStopping'
          /\ NoLostWakeup' /\ StopAnswersTruly'
      BY <2>1, <2>2, <2>3, WorkerMove
    <2>5. QED
      BY <2>3, <2>4, IndFrames DEF IndInv
  <1>21. ASSUME NEW s \in Sessions, Sleep(s)
         PROVE  IndInv'
    <2>1. NoLostWakeup'
      BY <1>21 DEF Sleep, NoLostWakeup, MustSleep, WorkerOK, playback,
         commands, workerVars, managerVars, sessionVars
    <2>2. UNCHANGED <<gate, step, op, arg, target, reply, state, book,
                     currentByte, lastErr, active, nextID, event, cancelled,
                     stopStarted, stopFinished, done, pc, source, result,
                     lease>>
      BY <1>21 DEF Sleep, playback, commands, control, callVars, request,
         managerVars, sessionVars, workerVars, reading, chunk, diskVars
    <2>3. QED
      BY <2>1, <2>2, IndFrames DEF IndInv
  <1>22. ASSUME NEW s \in Sessions, WaitUntilPlayable(s)
         PROVE  IndInv'
    <2>1. Running(s) /\ s \notin sleeping
      BY <1>22 DEF WaitUntilPlayable, Running, Awake
    <2>2. WorkerMoves(s)
      <3>1. CASE Playable(s)
        BY <1>22, <3>1, GotoMoves DEF WaitUntilPlayable, Continue, chunk, PCs
      <3>2. CASE ~Playable(s)
        <4>1. state = "stopping"
          BY <1>22, <2>1, <3>2, CancelledIsStopping, NameFacts
             DEF WaitUntilPlayable, Playable, Awake, MustSleep, SingleOwner,
                 ActiveMatchesState, LiveStates
        <4>2. QED
          BY <1>22, <3>2, <4>1, FinishMoves DEF WaitUntilPlayable
      <3>3. QED
        BY <3>1, <3>2
    <2>3. UNCHANGED <<state, active, nextID, sleeping, op, step, target,
                      reply, cancelled, stopStarted, stopFinished, done,
                      gate, lease, arg, source, event, book, currentByte,
                      lastErr>>
      BY <1>22 DEF WaitUntilPlayable, commands, control, managerVars,
         sessionVars, callVars, request, diskVars, reading
    <2>4. /\ SingleOwner' /\ SessionsInOrder' /\ StoppedOnlyWhenStopping'
          /\ NoLostWakeup' /\ StopAnswersTruly'
      BY <2>1, <2>2, <2>3, WorkerMove
    <2>5. QED
      BY <2>3, <2>4, IndFrames DEF IndInv
  <1>23. ASSUME NEW s \in Sessions, Read(s)
         PROVE  IndInv'
    <2>1. Running(s) /\ s \notin sleeping
      BY <1>23 DEF Read, Running, NoLostWakeup
    <2>2. WorkerMoves(s)
      <3>1. CASE WorkerGoto(s, "check") /\ UNCHANGED result
        BY <3>1, GotoMoves DEF PCs
      <3>2. CASE Continue(s, "eof")
        BY <3>2, GotoMoves DEF Continue, chunk, PCs
      <3>3. CASE Finish(s, "failed", currentByte, "internal")
        BY <3>3, FinishMoves
      <3>4. QED
        BY <1>23, <3>1, <3>2, <3>3 DEF Read
    <2>3. UNCHANGED <<state, active, nextID, sleeping, op, step, target,
                      reply, cancelled, stopStarted, stopFinished, done,
                      gate, lease, arg, source, event, book, currentByte,
                      lastErr>>
      BY <1>23 DEF Read, commands, control, managerVars, sessionVars, callVars,
         request, diskVars, reading
    <2>4. /\ SingleOwner' /\ SessionsInOrder' /\ StoppedOnlyWhenStopping'
          /\ NoLostWakeup' /\ StopAnswersTruly'
      BY <2>1, <2>2, <2>3, WorkerMove
    <2>5. QED
      BY <2>3, <2>4, IndFrames DEF IndInv
  <1>24. ASSUME NEW s \in Sessions, CheckChunk(s)
         PROVE  IndInv'
    <2>1. Running(s) /\ s \notin sleeping
      BY <1>24 DEF CheckChunk, Running, NoLostWakeup
    <2>2. WorkerMoves(s)
      <3>1. CASE Continue(s, "admit")
        BY <3>1, GotoMoves DEF Continue, chunk, PCs
      <3>2. CASE Finish(s, "failed", pos[s], "modified")
        BY <3>2, FinishMoves
      <3>3. QED
        BY <1>24, <3>1, <3>2 DEF CheckChunk
    <2>3. UNCHANGED <<state, active, nextID, sleeping, op, step, target,
                      reply, cancelled, stopStarted, stopFinished, done,
                      gate, lease, arg, source, event, book, currentByte,
                      lastErr>>
      BY <1>24 DEF CheckChunk, commands, control, managerVars, sessionVars,
         callVars, request, diskVars, reading
    <2>4. /\ SingleOwner' /\ SessionsInOrder' /\ StoppedOnlyWhenStopping'
          /\ NoLostWakeup' /\ StopAnswersTruly'
      BY <2>1, <2>2, <2>3, WorkerMove
    <2>5. QED
      BY <2>3, <2>4, IndFrames DEF IndInv
  <1>25. ASSUME NEW s \in Sessions, AdmitChunk(s)
         PROVE  IndInv'
    <2>1. Running(s) /\ s \notin sleeping
      BY <1>25 DEF AdmitChunk, Running, Awake
    <2>2. WorkerMoves(s)
      <3>1. CASE Playable(s)
        BY <1>25, <3>1, GotoMoves DEF AdmitChunk, Continue, chunk, PCs
      <3>2. CASE ~Playable(s)
        <4>1. state = "stopping"
          BY <1>25, <2>1, <3>2, CancelledIsStopping, NameFacts
             DEF AdmitChunk, Playable, Awake, MustSleep, SingleOwner,
                 ActiveMatchesState, LiveStates
        <4>2. QED
          BY <1>25, <3>2, <4>1, FinishMoves DEF AdmitChunk
      <3>3. QED
        BY <3>1, <3>2
    <2>3. UNCHANGED <<state, active, nextID, sleeping, op, step, target,
                      reply, cancelled, stopStarted, stopFinished, done,
                      gate, lease, arg, source, lastErr>>
      BY <1>25 DEF AdmitChunk, commands, control, managerVars, sessionVars,
         callVars, request, diskVars, reading
    <2>4. /\ SingleOwner' /\ SessionsInOrder' /\ StoppedOnlyWhenStopping'
          /\ NoLostWakeup' /\ StopAnswersTruly'
      BY <2>1, <2>2, <2>3, WorkerMove
    <2>5. AnnouncedIsCurrent'
      BY <1>25, PublishCurrent, IndFrames DEF AdmitChunk, managerVars
    <2>6. QED
      BY <2>3, <2>4, <2>5, IndFrames DEF IndInv
  <1>26. ASSUME NEW s \in Sessions, BeginSpeak(s)
         PROVE  IndInv'
    <2>1. Running(s) /\ s \notin sleeping
      BY <1>26 DEF BeginSpeak, Running, NoLostWakeup
    <2>2. WorkerMoves(s)
      BY <1>26, GotoMoves DEF BeginSpeak, chunk, PCs
    <2>3. UNCHANGED <<state, active, nextID, sleeping, op, step, target,
                      reply, cancelled, stopStarted, stopFinished, done,
                      gate, lease, arg, source, event, book, currentByte,
                      lastErr>>
      BY <1>26 DEF BeginSpeak, commands, control, managerVars, sessionVars,
         callVars, request, diskVars, reading
    <2>4. /\ SingleOwner' /\ SessionsInOrder' /\ StoppedOnlyWhenStopping'
          /\ NoLostWakeup' /\ StopAnswersTruly'
      BY <2>1, <2>2, <2>3, WorkerMove
    <2>5. QED
      BY <2>3, <2>4, IndFrames DEF IndInv
  <1>27. ASSUME NEW s \in Sessions, EndSpeak(s)
         PROVE  IndInv'
    <2>1. Running(s) /\ s \notin sleeping
      BY <1>27 DEF EndSpeak, Running, NoLostWakeup
    <2>2. WorkerMoves(s)
      <3>1. CASE s \in cancelled /\ Finish(s, "stopped", 0, "none")
        BY <2>1, <3>1, CancelledIsStopping, FinishMoves
      <3>2. CASE Continue(s, "save")
        BY <3>2, GotoMoves DEF Continue, chunk, PCs
      <3>3. CASE Finish(s, "failed", pos[s], "internal")
        BY <3>3, FinishMoves
      <3>4. QED
        BY <1>27, <3>1, <3>2, <3>3 DEF EndSpeak
    <2>3. UNCHANGED <<state, active, nextID, sleeping, op, step, target,
                      reply, cancelled, stopStarted, stopFinished, done,
                      gate, lease, arg, source, event, book, currentByte,
                      lastErr>>
      BY <1>27 DEF EndSpeak, commands, control, managerVars, sessionVars,
         callVars, request, diskVars, reading
    <2>4. /\ SingleOwner' /\ SessionsInOrder' /\ StoppedOnlyWhenStopping'
          /\ NoLostWakeup' /\ StopAnswersTruly'
      BY <2>1, <2>2, <2>3, WorkerMove
    <2>5. QED
      BY <2>3, <2>4, IndFrames DEF IndInv
  <1>28. ASSUME NEW s \in Sessions, SaveProgress(s)
         PROVE  IndInv'
    <2>1. Running(s) /\ s \notin sleeping
      BY <1>28 DEF SaveProgress, Running, NoLostWakeup
    <2>2. WorkerMoves(s)
      <3>1. CASE Continue(s, "mark")
        BY <3>1, GotoMoves DEF Continue, chunk, PCs
      <3>2. CASE Finish(s, "failed", pos[s], "internal")
        BY <3>2, FinishMoves
      <3>3. QED
        BY <1>28, <3>1, <3>2 DEF SaveProgress
    <2>3. UNCHANGED <<state, active, nextID, sleeping, op, step, target,
                      reply, cancelled, stopStarted, stopFinished, done,
                      gate, lease, arg, source, event, book, currentByte,
                      lastErr>>
      BY <1>28 DEF SaveProgress, commands, control, managerVars, sessionVars,
         callVars, request, diskVars, reading, Written
    <2>4. /\ SingleOwner' /\ SessionsInOrder' /\ StoppedOnlyWhenStopping'
          /\ NoLostWakeup' /\ StopAnswersTruly'
      BY <2>1, <2>2, <2>3, WorkerMove
    <2>5. QED
      BY <2>3, <2>4, IndFrames DEF IndInv
  <1>29. ASSUME NEW s \in Sessions, MarkDurablePosition(s)
         PROVE  IndInv'
    <2>1. Running(s) /\ s \notin sleeping
      BY <1>29 DEF MarkDurablePosition, Running, NoLostWakeup
    <2>2. WorkerMoves(s)
      BY <1>29, GotoMoves DEF MarkDurablePosition, PCs
    <2>3. UNCHANGED <<state, active, nextID, sleeping, op, step, target,
                      reply, cancelled, stopStarted, stopFinished, done,
                      gate, lease, arg, source, event, book, currentByte,
                      lastErr>>
      BY <1>29 DEF MarkDurablePosition, commands, control, managerVars,
         sessionVars, callVars, request, diskVars, reading
    <2>4. /\ SingleOwner' /\ SessionsInOrder' /\ StoppedOnlyWhenStopping'
          /\ NoLostWakeup' /\ StopAnswersTruly'
      BY <2>1, <2>2, <2>3, WorkerMove
    <2>5. QED
      BY <2>3, <2>4, IndFrames DEF IndInv
  <1>30. ASSUME NEW s \in Sessions, UpdateProgress(s)
         PROVE  IndInv'
    <2>1. Running(s) /\ s \notin sleeping
      BY <1>30 DEF UpdateProgress, Running, NoLostWakeup
    <2>2. WorkerMoves(s)
      BY <1>30, GotoMoves DEF UpdateProgress, chunk, PCs
    <2>3. UNCHANGED <<state, active, nextID, sleeping, op, step, target,
                      reply, cancelled, stopStarted, stopFinished, done,
                      gate, lease, arg, source, lastErr>>
      BY <1>30 DEF UpdateProgress, commands, control, managerVars, sessionVars,
         callVars, request, diskVars, reading
    <2>4. /\ SingleOwner' /\ SessionsInOrder' /\ StoppedOnlyWhenStopping'
          /\ NoLostWakeup' /\ StopAnswersTruly'
      BY <2>1, <2>2, <2>3, WorkerMove
    <2>5. AnnouncedIsCurrent'
      BY <1>30, PublishCurrent, IndFrames DEF UpdateProgress, managerVars
    <2>6. QED
      BY <2>3, <2>4, <2>5, IndFrames DEF IndInv
  <1>31. ASSUME NEW s \in Sessions, ValidateAtEOF(s)
         PROVE  IndInv'
    <2>1. Running(s) /\ s \notin sleeping
      BY <1>31 DEF ValidateAtEOF, Running, NoLostWakeup
    <2>2. WorkerMoves(s)
      <3>1. CASE Finish(s, "finished", Size[source[s].id], "none")
        BY <3>1, FinishMoves
      <3>2. CASE FinishUnlessCancelled(s, pos[s], "modified")
        BY <3>2, <2>1, FinishUnlessCancelledMoves
      <3>3. QED
        BY <1>31, <3>1, <3>2 DEF ValidateAtEOF
    <2>3. UNCHANGED <<state, active, nextID, sleeping, op, step, target,
                      reply, cancelled, stopStarted, stopFinished, done,
                      gate, lease, arg, source, event, book, currentByte,
                      lastErr>>
      BY <1>31 DEF ValidateAtEOF, commands, control, managerVars, sessionVars,
         callVars, request, diskVars, reading
    <2>4. /\ SingleOwner' /\ SessionsInOrder' /\ StoppedOnlyWhenStopping'
          /\ NoLostWakeup' /\ StopAnswersTruly'
      BY <2>1, <2>2, <2>3, WorkerMove
    <2>5. QED
      BY <2>3, <2>4, IndFrames DEF IndInv
  <1>32. ASSUME NEW s \in Sessions, Finalize(s)
         PROVE  IndInv'
    <2>1. active = s /\ pc[s] = "finalize" /\ s # NoSession
      BY <1>32, NameFacts DEF Finalize, SingleOwner, Running
    <2>2. /\ pc' = [pc EXCEPT ![s] = "close"]
          /\ UNCHANGED <<gate, step, op, arg, target, reply, cancelled,
                         stopStarted, stopFinished, done, sleeping, source,
                         result>>
      BY <1>32 DEF Finalize, WorkerGoto, control, reading, chunk, callVars, request
    <2>3. PICK ok \in BOOLEAN, closed \in BOOLEAN : EndSession(s, ok, closed)
      BY <1>32, <2>1 DEF Finalize
    <2> DEFINE e == AfterClose(Ending(s, ok), closed)
    <2>4. /\ state' = e.state /\ lastErr' = e.err
          /\ active' = NoSession /\ UNCHANGED nextID
          /\ lease' = [lease EXCEPT ![source[s].id] = Free]
          /\ Publish(EventOf(e.state))
      BY <2>3 DEF EndSession, ReleaseLease
    <2>5. e \in Endings
      BY <2>1, EndingType
    <2>6. (e.state = "failed" => e.err # "none")
          /\ (e.state = "finished" => e.err = "none")
      <3>1. result[s].state = "failed" => result[s].err # "none"
        BY DEF WorkersWellFormed
      <3>2. CASE Outcome(s) = "finished"
        BY <3>2 DEF AfterClose, Ending, FinishedEnding
      <3>3. CASE Outcome(s) = "failed"
        BY <3>1, <3>3 DEF AfterClose, Ending, FailedEnding, Outcome
      <3>4. CASE Outcome(s) \notin {"finished", "failed"}
        BY <3>4 DEF AfterClose, Ending, StoppedEnding
      <3>5. QED
        BY <3>2, <3>3, <3>4
    <2>7. \A d \in Calls : step[d] \notin {"cancel", "engine"}
      <3> SUFFICES ASSUME NEW d \in Calls, step[d] \in {"cancel", "engine"}
                   PROVE  FALSE
        OBVIOUS
      <3>1. /\ active = target[d] /\ state = "stopping"
            /\ target[d] \in stopStarted \ stopFinished
        BY DEF StopOwnsItsSession
      <3>2. StopPending(s)
        BY <2>1, <3>1 DEF StopPending
      <3>3. QED
        BY <1>32, <2>1, <3>1, <3>2 DEF Finalize, Outcome
    <2>8. source[s].id \in Books
      BY <2>1 DEF WorkersWellFormed, Running
    <2>9. /\ \A t \in Sessions \ {s} : pc'[t] = pc[t]
          /\ pc'[s] = "close"
          /\ \A t \in Sessions : ~Running(t)'
      <3>1. \A t \in Sessions \ {s} : ~Running(t)
        BY <2>1 DEF SingleOwner
      <3>2. QED
        BY <2>2, <3>1 DEF WorkerOK, Running
    <2> HIDE DEF e
    <2>10. ActiveMatchesState' /\ ErrorMatchesState'
      BY <2>4, <2>5, <2>6
         DEF ActiveMatchesState, ErrorMatchesState, Endings, LiveStates
    <2>11. SingleOwner'
      BY <2>4, <2>9, NameFacts DEF SingleOwner
    <2>12. SessionsInOrder'
      BY <2>1, <2>2, <2>4, <2>9 DEF SessionsInOrder
    <2>13. StopFlags'
      BY <2>2, <2>4 DEF StopFlags
    <2>14. StoppedOnlyWhenStopping'
      BY <2>9 DEF StoppedOnlyWhenStopping, Running
    <2>15. LeasesOfCommands'
      BY <2>2, <2>4, <2>8, NameFacts DEF LeasesOfCommands, DiskOK
    <2>16. LeaseFollowsSession'
      <3> SUFFICES ASSUME NEW t \in Sessions, NEW b \in Books
                   PROVE  lease'[b] # t /\ active' # t
        BY DEF LeaseFollowsSession
      <3>1. lease[b] = t => b = source[s].id
        BY <2>1 DEF LeaseFollowsSession
      <3>2. QED
        BY <2>4, <2>8, <3>1, NameFacts DEF DiskOK
    <2>17. CommandHasIdleManager'
      BY <2>1, <2>2 DEF CommandHasIdleManager
    <2>18. NoLostWakeup'
      BY <2>1, <2>2 DEF NoLostWakeup, MustSleep
    <2>19. StopOwnsItsSession'
      BY <2>2, <2>7 DEF StopOwnsItsSession
    <2>20. StopAnswersTruly'
      BY <2>2, <2>9 DEF StopAnswersTruly, CallOK
    <2>21. GateOfCommands'
      BY <2>2, IndFrames
    <2>22. AnnouncedIsCurrent'
      BY <2>4, PublishCurrent
    <2>23. QED
      BY <2>10, <2>11, <2>12, <2>13, <2>14, <2>15, <2>16, <2>17, <2>18, <2>19,
         <2>20, <2>21, <2>22 DEF IndInv
  <1>33. ASSUME NEW s \in Sessions, CloseDone(s)
         PROVE  IndInv'
    <2>1. SingleOwner'
      BY <1>33 DEF CloseDone, WorkerGoto, SingleOwner, Running, WorkerOK,
         playback, commands, managerVars
    <2>2. SessionsInOrder'
      BY <1>33 DEF CloseDone, WorkerGoto, SessionsInOrder, WorkerOK, playback,
         commands, managerVars, sessionVars
    <2>3. StoppedOnlyWhenStopping'
      BY <1>33 DEF CloseDone, WorkerGoto, StoppedOnlyWhenStopping, WorkerOK,
         playback, commands, managerVars
    <2>4. LeaseFollowsSession'
      BY <1>33, NameFacts DEF CloseDone, WorkerGoto, LeaseFollowsSession,
         DiskOK, WorkerOK, playback, commands, diskVars, managerVars,
         SingleOwner, Running
    <2>5. NoLostWakeup'
      BY <1>33 DEF CloseDone, WorkerGoto, NoLostWakeup, MustSleep, WorkerOK,
         playback, commands, workerVars, managerVars, sessionVars
    <2>6. StopAnswersTruly'
      BY <1>33 DEF CloseDone, WorkerGoto, StopAnswersTruly, Running, CallOK,
         WorkerOK, playback, commands, request, callVars
    <2>7. UNCHANGED <<gate, step, arg, target, state, book, currentByte,
                     lastErr, active, event, cancelled, stopStarted,
                     stopFinished, lease>>
      BY <1>33 DEF CloseDone, WorkerGoto, playback, commands, control,
         callVars, request, managerVars, sessionVars, diskVars
    <2>8. QED
      BY <2>1, <2>2, <2>3, <2>4, <2>5, <2>6, <2>7, IndFrames DEF IndInv
  <1>34. CASE BeginShutdown
    <2>1. UNCHANGED <<gate, step, op, arg, target, reply, state, book,
                     currentByte, lastErr, active, nextID, event, cancelled,
                     stopStarted, stopFinished, done, pc, sleeping, source,
                     result, lease>>
      BY <1>34 DEF BeginShutdown, playback, commands, control, callVars,
         request, managerVars, sessionVars, workerVars, reading, chunk,
         diskVars
    <2>2. QED
      BY <2>1, IndFrames DEF IndInv
  <1>35. ASSUME NEW b \in Books, Edit(b)
         PROVE  IndInv'
    <2>1. UNCHANGED <<gate, step, op, arg, target, reply, state, book,
                     currentByte, lastErr, active, nextID, event, cancelled,
                     stopStarted, stopFinished, done, pc, sleeping, source,
                     result, lease>>
      BY <1>35 DEF Edit, playback, commands, control, callVars, request,
         managerVars, sessionVars, workerVars, reading, chunk, diskVars
    <2>2. QED
      BY <2>1, IndFrames DEF IndInv
  <1>36. ASSUME NEW b \in Books, OtherAcquire(b)
         PROVE  IndInv'
    <2>1. LeasesOfCommands'
      BY <1>36, NameFacts DEF OtherAcquire, LeasesOfCommands, DiskOK, CallOK,
         playback, commands, callVars, request
    <2>2. LeaseFollowsSession'
      BY <1>36, NameFacts DEF OtherAcquire, LeaseFollowsSession, DiskOK,
         WorkerOK, playback, commands, managerVars, reading, workerVars
    <2>3. UNCHANGED <<gate, step, op, target, reply, state, book,
                     currentByte, lastErr, active, nextID, event, cancelled,
                     stopStarted, stopFinished, done, pc, sleeping, result>>
      BY <1>36 DEF OtherAcquire, playback, commands, control, callVars,
         request, managerVars, sessionVars, workerVars, chunk
    <2>4. QED
      BY <2>1, <2>2, <2>3, IndFrames DEF IndInv
  <1>37. ASSUME NEW b \in Books, OtherSave(b)
         PROVE  IndInv'
    <2>1. UNCHANGED <<gate, step, op, arg, target, reply, state, book,
                     currentByte, lastErr, active, nextID, event, cancelled,
                     stopStarted, stopFinished, done, pc, sleeping, source,
                     result, lease>>
      BY <1>37 DEF OtherSave, playback, commands, control, callVars, request,
         managerVars, sessionVars, workerVars, reading, chunk, diskVars
    <2>2. QED
      BY <2>1, IndFrames DEF IndInv
  <1>38. ASSUME NEW b \in Books, OtherRelease(b)
         PROVE  IndInv'
    <2>1. LeasesOfCommands'
      BY <1>38, NameFacts DEF OtherRelease, LeasesOfCommands, DiskOK, CallOK,
         playback, commands, callVars, request
    <2>2. LeaseFollowsSession'
      BY <1>38, NameFacts DEF OtherRelease, LeaseFollowsSession, DiskOK,
         WorkerOK, playback, commands, managerVars, reading, workerVars
    <2>3. UNCHANGED <<gate, step, op, target, reply, state, book,
                     currentByte, lastErr, active, nextID, event, cancelled,
                     stopStarted, stopFinished, done, pc, sleeping, result>>
      BY <1>38 DEF OtherRelease, playback, commands, control, callVars,
         request, managerVars, sessionVars, workerVars, chunk
    <2>4. QED
      BY <2>1, <2>2, <2>3, IndFrames DEF IndInv
  <1>39. CASE UNCHANGED vars
    BY <1>39, IndFrames DEF vars, control, playback, managerVars, sessionVars,
       workerVars, reading, chunk, callVars, request, diskVars, IndInv
  <1>40. QED
    BY <1>1, <1>2, <1>3, <1>4, <1>5, <1>6, <1>6b, <1>7, <1>8, <1>9, <1>10, <1>11,
       <1>12, <1>13, <1>14, <1>15, <1>16, <1>17, <1>18, <1>19, <1>20, <1>21,
       <1>22, <1>23, <1>24, <1>25, <1>26, <1>27, <1>28, <1>29, <1>30, <1>31,
       <1>32, <1>33, <1>34, <1>35, <1>36, <1>37, <1>38, <1>39 DEF Next,
       CallStep, WorkerStep, Environment

\* The manager starts with the invariant.
LEMMA IndInit == Init => IndInv
PROOF
  <1> SUFFICES ASSUME Init PROVE IndInv
    OBVIOUS
  <1>1. /\ active = NoSession /\ nextID = NoSession /\ state = "stopped"
        /\ lastErr = "none" /\ gate = Nobody /\ sleeping = {} /\ done = {}
        /\ cancelled = {} /\ stopStarted = {} /\ stopFinished = {}
        /\ event.snapshot = Snapshot
        /\ \A s \in Sessions : pc[s] = "none"
        /\ \A c \in Calls : step[c] = "idle" /\ op[c] = "none"
        /\ \A b \in Books : lease[b] = Free
    BY ConstantFacts DEF Init
  <1>2. /\ ActiveMatchesState /\ SingleOwner /\ SessionsInOrder /\ StopFlags
        /\ StoppedOnlyWhenStopping
    BY <1>1, NameFacts
       DEF ActiveMatchesState, LiveStates, SingleOwner, Running,
           SessionsInOrder, StopFlags, StoppedOnlyWhenStopping
  <1>3. /\ GateOfCommands /\ LeasesOfCommands /\ LeaseFollowsSession
        /\ CommandHasIdleManager
    BY <1>1, NameFacts
       DEF GateOfCommands, Preparing, LeasesOfCommands, LeaseFollowsSession,
           CommandHasIdleManager
  <1>4. /\ NoLostWakeup /\ StopOwnsItsSession /\ StopAnswersTruly
        /\ AnnouncedIsCurrent /\ ErrorMatchesState
    BY <1>1 DEF NoLostWakeup, StopOwnsItsSession, StopAnswersTruly,
                AnnouncedIsCurrent, ErrorMatchesState, LiveStates
  <1>5. QED
    BY <1>2, <1>3, <1>4 DEF IndInv

\* The inductive invariant, with the types it rests on, always holds.
THEOREM Safety == Spec => [](TypeInv /\ IndInv)
PROOF
  <1>1. Init => TypeInv /\ IndInv
    BY TypeInit, IndInit
  <1>2. TypeInv /\ IndInv /\ [Next]_vars => (TypeInv /\ IndInv)'
    BY TypeNext, IndNext
  <1>3. QED
    BY <1>1, <1>2, PTL DEF Spec

\* A session is active exactly while the state is a live one, and the active
\* session is the one whose worker has not been finalised: never two workers.
THEOREM OneSession == Spec => [](ActiveMatchesState /\ SingleOwner)
PROOF
  <1>1. TypeInv /\ IndInv => ActiveMatchesState /\ SingleOwner
    BY DEF IndInv
  <1>2. QED
    BY <1>1, Safety, PTL

\* The progress lease is the active session's, or a command's that has the
\* idle manager for itself, so no command meets a lease of its own process.
THEOREM LeaseDiscipline ==
    Spec => [](LeaseFollowsSession /\ CommandHasIdleManager /\ NoSelfInUse)
PROOF
  <1>1. TypeInv /\ IndInv => LeaseFollowsSession /\ CommandHasIdleManager
    BY DEF IndInv
  <1>2. TypeInv /\ IndInv => NoSelfInUse
    <2> SUFFICES ASSUME TypeInv, IndInv, NEW c \in Calls, step[c] = "lease"
                 PROVE  lease[arg[c].id] \in {Free, Other}
      BY DEF NoSelfInUse
    <2>1. /\ DiskOK /\ CallsWellFormed
          /\ LeaseFollowsSession /\ LeasesOfCommands
          /\ CommandHasIdleManager /\ GateOfCommands
      BY DEF TypeInv, TypeOK, IndInv
    <2>2. arg[c].id \in Books /\ active = NoSession /\ gate = c
      BY <2>1 DEF CallsWellFormed, Preparing, CommandHasIdleManager
    <2>3. lease[arg[c].id] \notin Sessions
      BY <2>1, <2>2, NameFacts DEF LeaseFollowsSession
    <2>4. lease[arg[c].id] \notin Calls
      <3> SUFFICES ASSUME NEW d \in Calls, lease[arg[c].id] = d PROVE FALSE
        OBVIOUS
      <3>1. step[d] \in {"load", "save", "commit", "cleanup"}
        BY <2>1, <2>2 DEF LeasesOfCommands
      <3>2. gate = d
        BY <2>1, <3>1 DEF GateOfCommands, Preparing
      <3>3. QED
        BY <2>2, <3>1, <3>2
    <2>5. QED
      BY <2>1, <2>2, <2>3, <2>4 DEF DiskOK
  <1>3. QED
    BY <1>1, <1>2, Safety, PTL

\* A paused worker that need not wait is never left in cond.Wait.
THEOREM WakeupsReach == Spec => []NoLostWakeup
PROOF
  <1>1. TypeInv /\ IndInv => NoLostWakeup
    BY DEF IndInv
  <1>2. QED
    BY <1>1, Safety, PTL

\* A Stop keeps its session until engine.Stop has returned, and a Stop that
\* does not answer "stopping" leaves no session running.
THEOREM StopsAreTrue == Spec => [](StopOwnsItsSession /\ StopAnswersTruly)
PROOF
  <1>1. TypeInv /\ IndInv => StopOwnsItsSession /\ StopAnswersTruly
    BY DEF IndInv
  <1>2. QED
    BY <1>1, Safety, PTL

\* The last event shows the manager as it is, and a failure shows its error.
THEOREM AnnouncementsAreTrue == Spec => [](AnnouncedIsCurrent /\ ErrorMatchesState)
PROOF
  <1>1. TypeInv /\ IndInv => AnnouncedIsCurrent /\ ErrorMatchesState
    BY DEF IndInv
  <1>2. QED
    BY <1>1, Safety, PTL

-----------------------------------------------------------------------------
(* Positions: what a step need not disturb *)

\* A part of the invariant whose variables do not change goes on to hold.
LEMMA PositionFrames ==
    /\ CallsOnRunes /\ UNCHANGED <<step, op, arg, file, saved, lease>> =>
         CallsOnRunes'
    /\ WorkersOnRunes /\ UNCHANGED <<workerVars, file>> => WorkersOnRunes'
    /\ SessionOnRunes /\ UNCHANGED <<managerVars, workerVars, saved>> =>
         SessionOnRunes'
    /\ PositionsOnRunes /\ UNCHANGED <<managerVars, saved, file>> =>
         PositionsOnRunes'
PROOF
  <1>1. CallsOnRunes /\ UNCHANGED <<step, op, arg, file, saved, lease>> =>
          CallsOnRunes'
    BY DEF CallsOnRunes, CallOnRunes, ResumesAt, ResumePoint, OnRune
  <1>2. WorkersOnRunes /\ UNCHANGED <<workerVars, file>> => WorkersOnRunes'
    BY DEF WorkersOnRunes, WorkerOnRunes, HoldsChunk, ChunkRegistered, Running,
           OnRune, workerVars, reading, chunk
  <1>3. SessionOnRunes /\ UNCHANGED <<managerVars, workerVars, saved>> =>
          SessionOnRunes'
    BY DEF SessionOnRunes, ResumesAt, ResumePoint, managerVars, workerVars,
           reading, chunk
  <1>4. PositionsOnRunes /\ UNCHANGED <<managerVars, saved, file>> =>
          PositionsOnRunes'
    BY DEF PositionsOnRunes, OnRune, managerVars
  <1>5. QED
    BY <1>1, <1>2, <1>3, <1>4

\* A position on a rune stays so while the book is edited: versions only rise.
LEMMA RunesStay ==
    ASSUME NEW b \in Books, NEW v \in Int, NEW p, file[b] \in Int,
           file'[b] \in Int, file[b] <= file'[b], OnRune(b, v, p)
    PROVE  OnRune(b, v, p)'
PROOF BY DEF OnRune

\* While a session is active no call is at its file work.
LEMMA BusyCalls ==
    ASSUME CallsOnRunes, CommandHasIdleManager, active # NoSession,
           UNCHANGED <<step, op, arg, file>>
    PROVE  CallsOnRunes'
PROOF
  <1>1. \A c \in Calls : step[c] \notin {"lease", "load", "save", "commit"}
    BY DEF CommandHasIdleManager
  <1>2. QED
    BY <1>1 DEF CallsOnRunes, CallOnRunes

\* A call moves; the progress files and leases of the others stay.
LEMMA OneCallMoves ==
    ASSUME CallsOnRunes, NEW c \in Calls, CallOnRunes(c)', UNCHANGED file,
           \A d \in Calls \ {c} : UNCHANGED <<step[d], op[d], arg[d]>>,
           UNCHANGED <<saved, lease>> \/ \A d \in Calls \ {c} : ~Preparing(d)
    PROVE  CallsOnRunes'
PROOF
  <1> SUFFICES ASSUME NEW d \in Calls \ {c} PROVE CallOnRunes(d)'
    BY DEF CallsOnRunes
  <1>1. CASE UNCHANGED <<saved, lease>>
    BY <1>1 DEF CallsOnRunes, CallOnRunes, ResumesAt, ResumePoint, OnRune
  <1>2. CASE ~Preparing(d)
    BY <1>2 DEF CallsOnRunes, CallOnRunes, Preparing
  <1>3. QED
    BY <1>1, <1>2

\* Who holds the gate is alone with the files.
LEMMA AloneWithGate ==
    ASSUME GateOfCommands, NEW c \in Calls, Preparing(c) \/ step[c] = "cleanup"
    PROVE  \A d \in Calls \ {c} : ~Preparing(d)
PROOF BY DEF GateOfCommands

\* A worker moves; the others stay.
LEMMA OneWorkerMoves ==
    ASSUME WorkersOnRunes, NEW s \in Sessions, WorkerOnRunes(s)', UNCHANGED file,
           \A t \in Sessions \ {s} :
             /\ UNCHANGED <<pc[t], pos[t], source[t], end[t], text[t], result[t]>>
             /\ t \in edited' => t \in edited
             /\ t \in edited => t \in edited'
    PROVE  WorkersOnRunes'
PROOF
  <1> SUFFICES ASSUME NEW t \in Sessions \ {s} PROVE WorkerOnRunes(t)'
    BY DEF WorkersOnRunes
  <1>1. WorkerOnRunes(t)
    BY DEF WorkersOnRunes
  <1>2. QED
    BY <1>1 DEF WorkerOnRunes, HoldsChunk, ChunkRegistered, Running, OnRune

\* What is known of a worker that runs.
LEMMA RunningFacts ==
    ASSUME TypeInv, IndInv, PositionInv, NEW s \in Sessions, Running(s)
    PROVE  /\ active = s /\ active # NoSession /\ state \in LiveStates
           /\ source[s].id \in Books /\ book = source[s]
           /\ lease[source[s].id] = s
           /\ OnRune(source[s].id, source[s].ver, pos[s]) /\ pos[s] \in Nat
           /\ source[s].ver \in Versions /\ Size[source[s].id] \in Nat
           /\ durablePosition = pos[s]
PROOF
  <1>1. active = s /\ active # NoSession /\ state \in LiveStates
    BY NameFacts DEF IndInv, SingleOwner, ActiveMatchesState
  <1>2. source[s].id \in Books /\ book = source[s] /\ durablePosition = pos[s]
    BY <1>1 DEF TypeInv, WorkersWellFormed, PositionInv, SessionOnRunes
  <1>3. lease[source[s].id] = s
    BY <1>1, <1>2 DEF IndInv, LeaseFollowsSession
  <1>4. OnRune(source[s].id, source[s].ver, pos[s])
    BY DEF PositionInv, WorkersOnRunes, WorkerOnRunes
  <1>5. source[s].ver \in Versions /\ pos[s] \in Nat
    BY <1>2, OffsetFacts DEF TypeInv, TypeOK, WorkerOK, Copies
  <1>6. QED
    BY <1>1, <1>2, <1>3, <1>4, <1>5, BookAssumption

-----------------------------------------------------------------------------
(* The worker *)

\* A worker that goes on between two saves, or gives up, disturbs nothing.
LEMMA WorkerGoesOn ==
    ASSUME TypeInv, IndInv, PositionInv, NEW s \in Sessions, Running(s),
           {pc[s], pc'[s]} \cap {"mark", "update"} = {},
           UNCHANGED <<state, book, durablePosition, active, step, op, arg,
                       file, saved, lease, source, pos, edited>>,
           currentByte' \in {currentByte, pos[s]},
           \A t \in Sessions \ {s} :
             UNCHANGED <<pc[t], end[t], text[t], result[t]>>,
           WorkerOnRunes(s)',
           pc'[s] = "finalize" /\ result'[s].state = "failed"
               /\ state # "stopping" => result'[s].position = pos[s]
    PROVE  PositionInv'
PROOF
  <1>1. /\ active = s /\ active # NoSession /\ source[s].id \in Books
        /\ book = source[s] /\ OnRune(source[s].id, source[s].ver, pos[s])
    BY RunningFacts
  <1>2. CallsOnRunes'
    BY <1>1, BusyCalls DEF PositionInv, IndInv
  <1>3. WorkersOnRunes'
    BY OneWorkerMoves DEF PositionInv
  <1>4. SessionOnRunes'
    BY <1>1 DEF PositionInv, SessionOnRunes, ResumesAt, ResumePoint
  <1>5. PositionsOnRunes'
    BY <1>1 DEF PositionInv, PositionsOnRunes, OnRune
  <1>6. QED
    BY <1>2, <1>3, <1>4, <1>5 DEF PositionInv

\* What a worker's step to its finalisation leaves alone and does.
LEMMA FinishGoesOn ==
    ASSUME TypeInv, IndInv, PositionInv, NEW s \in Sessions, Running(s),
           pc[s] \notin {"mark", "update"},
           UNCHANGED <<state, book, durablePosition, currentByte, active, step,
                       op, arg, file, saved, lease, source, pos, edited>>,
           NEW st, NEW p, NEW e, Finish(s, st, p, e),
           st = "finished" => pos[s] = Size[source[s].id],
           st = "failed" /\ state # "stopping" => p = pos[s]
    PROVE  PositionInv'
PROOF
  <1>1. WorkerOK
    BY DEF TypeInv, TypeOK
  <1>2. /\ pc'[s] = "finalize"
        /\ result'[s] = [state |-> st, position |-> p, err |-> e]
        /\ \A t \in Sessions \ {s} :
             UNCHANGED <<pc[t], end[t], text[t], result[t]>>
    BY <1>1 DEF Finish, WorkerGoto, DropChunk, WorkerOK
  <1>3. WorkerOnRunes(s)'
    <2>1. WorkerOnRunes(s)
      BY DEF PositionInv, WorkersOnRunes
    <2>2. QED
      BY <1>2, <2>1 DEF WorkerOnRunes, HoldsChunk, Running, OnRune
  <1>4. QED
    BY <1>2, <1>3, WorkerGoesOn

\* A worker goes on with the chunk it has, or before it has read one.
LEMMA ContinueGoesOn ==
    ASSUME TypeInv, IndInv, PositionInv, NEW s \in Sessions, Running(s),
           pc[s] \notin {"mark", "update", "finalize"},
           UNCHANGED <<state, book, durablePosition, active, step, op, arg,
                       file, saved, lease, source, pos, edited>>,
           currentByte' \in {currentByte, pos[s]},
           NEW next \in {"wait", "read", "eof", "admit", "speak", "speaking",
                         "save"},
           Continue(s, next),
           next \in {"admit", "speak", "speaking", "save"} => ChunkRegistered(s),
           next = "eof" => pos[s] = Size[source[s].id] \/ s \in edited,
           pc[s] = "open" => pos[s] \in Boundaries[source[s].id][source[s].ver]
    PROVE  PositionInv'
PROOF
  <1>1. WorkerOK
    BY DEF TypeInv, TypeOK
  <1>2. /\ pc'[s] = next
        /\ \A t \in Sessions \ {s} :
             UNCHANGED <<pc[t], end[t], text[t], result[t]>>
        /\ UNCHANGED <<end[s], text[s], result[s]>>
    BY <1>1 DEF Continue, WorkerGoto, WorkerOK, chunk
  <1>3. WorkerOnRunes(s)'
    <2>1. WorkerOnRunes(s)
      BY DEF PositionInv, WorkersOnRunes
    <2>2. result'[s].state # "finished" /\ Running(s)' /\ pc'[s] # "none"
      BY <1>2, <2>1 DEF WorkerOnRunes, Running
    <2>3. HoldsChunk(s)' => ChunkRegistered(s)'
      BY <1>2 DEF HoldsChunk, ChunkRegistered
    <2>4. /\ pos[s] \in Boundaries[source[s].id][source[s].ver]
          /\ source[s].ver <= file[source[s].id]
          /\ s \in edited => source[s].ver < file[source[s].id]
      BY <2>1 DEF WorkerOnRunes
    <2>5. pc'[s] = "eof" => pos[s] = Size[source[s].id] \/ s \in edited
      BY <1>2
    <2>6. pc'[s] # "check"
      BY <1>2
    <2>7. QED
      BY <2>2, <2>3, <2>4, <2>5, <2>6 DEF WorkerOnRunes, OnRune
  <1>4. QED
    BY <1>2, <1>3, WorkerGoesOn

\* Between two saves the worker keeps to the runes.
WorkerWorks(s) ==
    Open(s) \/ WaitUntilPlayable(s) \/ Read(s) \/ CheckChunk(s) \/ AdmitChunk(s)
      \/ BeginSpeak(s) \/ EndSpeak(s) \/ ValidateAtEOF(s)

LEMMA WorkerWorksOnRunes ==
    ASSUME TypeInv, IndInv, PositionInv, NEW s \in Sessions, WorkerWorks(s)
    PROVE  PositionInv'
PROOF
  <1>1. Running(s)
    BY DEF WorkerWorks, Open, WaitUntilPlayable, Read, CheckChunk, AdmitChunk,
           BeginSpeak, EndSpeak, ValidateAtEOF, Running
  <1>2. /\ active = s /\ source[s].id \in Books /\ book = source[s]
        /\ OnRune(source[s].id, source[s].ver, pos[s])
    BY <1>1, RunningFacts
  <1>3. WorkerOnRunes(s)
    BY DEF PositionInv, WorkersOnRunes
  <1>4. s \in cancelled => state = "stopping"
    BY <1>1, CancelledIsStopping DEF IndInv
  <1>5. source[s].ver \in Nat /\ file[source[s].id] \in Nat
    BY <1>2, ConstantFacts DEF TypeInv, TypeOK, WorkerOK, DiskOK, Copies
  <1> USE DEF commands, control, managerVars, sessionVars, callVars, request,
              reading, diskVars
  <1>6. CASE Open(s)
    <2>1. CASE Unchanged(s) /\ Continue(s, "wait")
      <3>1. pos[s] \in Boundaries[source[s].id][source[s].ver]
        BY <1>2, <1>5, <2>1 DEF OnRune, Unchanged
      <3>2. QED
        BY <1>1, <1>6, <2>1, <3>1, ContinueGoesOn DEF Open
    <2>2. CASE \/ Finish(s, "failed", pos[s], "modified")
               \/ FinishUnlessCancelled(s, pos[s], "internal")
      BY <1>1, <1>6, <2>2, FinishGoesOn DEF Open, FinishUnlessCancelled
    <2>3. QED
      BY <1>6, <2>1, <2>2 DEF Open
  <1>7. CASE WaitUntilPlayable(s)
    <2>1. CASE Continue(s, "read")
      BY <1>1, <1>7, <2>1, ContinueGoesOn DEF WaitUntilPlayable
    <2>2. CASE Finish(s, "stopped", 0, "none")
      BY <1>1, <1>7, <2>2, FinishGoesOn DEF WaitUntilPlayable
    <2>3. QED
      BY <1>7, <2>1, <2>2 DEF WaitUntilPlayable
  <1>8. CASE Read(s)
    <2>1. CASE \E e \in ChunkEnds(s) :
                 /\ end' = [end EXCEPT ![s] = e[1]]
                 /\ text' = [text EXCEPT ![s] = e[2]]
                 /\ WorkerGoto(s, "check") /\ UNCHANGED result
      <3>1. PICK e \in ChunkEnds(s) :
                 /\ end' = [end EXCEPT ![s] = e[1]]
                 /\ text' = [text EXCEPT ![s] = e[2]]
                 /\ WorkerGoto(s, "check") /\ UNCHANGED result
        BY <2>1
      <3>2. WorkerOK
        BY DEF TypeInv, TypeOK
      <3>3. /\ pc'[s] = "check" /\ end'[s] = e[1] /\ text'[s] = e[2]
            /\ \A t \in Sessions \ {s} :
                 UNCHANGED <<pc[t], end[t], text[t], result[t]>>
        BY <3>1, <3>2 DEF WorkerGoto, WorkerOK
      <3>4. \/ /\ e[1] \in Boundaries[source[s].id][source[s].ver] /\ e[1] > pos[s]
               /\ e[2] = "registered"
            \/ s \in edited
        BY <3>1 DEF ChunkEnds
      <3>5. WorkerOnRunes(s)'
        <4>1. result'[s].state # "finished" /\ Running(s)'
          BY <1>3, <1>8, <3>1, <3>3 DEF WorkerOnRunes, Running, Read
        <4>2. ChunkRegistered(s)' \/ s \in edited
          BY <1>8, <3>3, <3>4 DEF ChunkRegistered, Read
        <4>3. /\ pos[s] \in Boundaries[source[s].id][source[s].ver]
              /\ source[s].ver <= file[source[s].id]
              /\ s \in edited => source[s].ver < file[source[s].id]
          BY <1>1, <1>3, <1>8 DEF WorkerOnRunes, Read
        <4>4. UNCHANGED <<source, pos, edited, file>>
          BY <1>8 DEF Read
        <4>5. QED
          BY <3>3, <4>1, <4>2, <4>3, <4>4 DEF WorkerOnRunes, OnRune
      <3>6. QED
        BY <1>1, <1>8, <3>3, <3>5, WorkerGoesOn DEF Read
    <2>2. CASE AtEOF(s) /\ Continue(s, "eof")
      BY <1>1, <1>8, <2>2, ContinueGoesOn DEF Read, AtEOF
    <2>3. CASE Finish(s, "failed", currentByte, "internal")
      <3>1. state # "stopping" => currentByte = pos[s]
        BY <1>2, <1>8, NameFacts DEF PositionInv, SessionOnRunes, Read
      <3>2. QED
        BY <1>1, <1>8, <2>3, <3>1, FinishGoesOn DEF Read
    <2>4. QED
      BY <1>8, <2>1, <2>2, <2>3 DEF Read
  <1>9. CASE CheckChunk(s)
    <2>1. CASE ChunkValid(s)
      <3>1. ChunkRegistered(s)
        BY <1>3, <1>9, <2>1 DEF CheckChunk, ChunkValid, WorkerOnRunes, HoldsChunk
      <3>2. QED
        BY <1>1, <1>9, <2>1, <3>1, ContinueGoesOn DEF CheckChunk
    <2>2. CASE ~ChunkValid(s)
      BY <1>1, <1>9, <2>2, FinishGoesOn DEF CheckChunk
    <2>3. QED
      BY <2>1, <2>2
  <1>10. CASE AdmitChunk(s)
    <2>1. ChunkRegistered(s)
      BY <1>3, <1>10 DEF AdmitChunk, WorkerOnRunes, HoldsChunk
    <2>2. CASE Playable(s)
      <3>1. currentByte' = pos[s] /\ Continue(s, "speak")
        BY <1>10, <2>2 DEF AdmitChunk
      <3>2. QED
        BY <1>1, <1>10, <2>1, <2>2, <3>1, ContinueGoesOn DEF AdmitChunk
    <2>3. CASE ~Playable(s)
      BY <1>1, <1>10, <2>3, FinishGoesOn DEF AdmitChunk
    <2>4. QED
      BY <2>2, <2>3
  <1>11. CASE BeginSpeak(s)
    <2>1. ChunkRegistered(s)
      BY <1>3, <1>11 DEF BeginSpeak, WorkerOnRunes, HoldsChunk
    <2>2. Continue(s, "speaking")
      BY <1>11 DEF BeginSpeak, Continue
    <2>3. QED
      BY <1>1, <1>11, <2>1, <2>2, ContinueGoesOn DEF BeginSpeak
  <1>12. CASE EndSpeak(s)
    <2>1. ChunkRegistered(s)
      BY <1>3, <1>12 DEF EndSpeak, WorkerOnRunes, HoldsChunk
    <2>2. CASE Continue(s, "save")
      BY <1>1, <1>12, <2>1, <2>2, ContinueGoesOn DEF EndSpeak
    <2>3. CASE \/ Finish(s, "stopped", 0, "none")
               \/ Finish(s, "failed", pos[s], "internal")
      BY <1>1, <1>12, <2>3, FinishGoesOn DEF EndSpeak
    <2>4. QED
      BY <1>12, <2>2, <2>3 DEF EndSpeak
  <1>13. CASE ValidateAtEOF(s)
    <2>1. CASE Unchanged(s) /\ Finish(s, "finished", Size[source[s].id], "none")
      <3>1. pos[s] = Size[source[s].id]
        BY <1>1, <1>3, <1>5, <1>13, <2>1
           DEF ValidateAtEOF, WorkerOnRunes, Unchanged
      <3>2. QED
        BY <1>1, <1>13, <2>1, <3>1, FinishGoesOn DEF ValidateAtEOF
    <2>2. CASE FinishUnlessCancelled(s, pos[s], "modified")
      BY <1>1, <1>13, <2>2, FinishGoesOn DEF ValidateAtEOF, FinishUnlessCancelled
    <2>3. QED
      BY <1>13, <2>1, <2>2 DEF ValidateAtEOF
  <1>14. QED
    BY <1>6, <1>7, <1>8, <1>9, <1>10, <1>11, <1>12, <1>13 DEF WorkerWorks

\* After the chunk the worker saves its end and stands on it.
LEMMA SaveOnRunes ==
    ASSUME TypeInv, IndInv, PositionInv, NEW s \in Sessions, SaveProgress(s)
    PROVE  PositionInv'
PROOF
  <1>1. Running(s) /\ pc[s] = "save"
    BY DEF SaveProgress, Running
  <1>2. /\ active = s /\ active # NoSession /\ source[s].id \in Books
        /\ book = source[s] /\ OnRune(source[s].id, source[s].ver, pos[s])
    BY <1>1, RunningFacts
  <1>3. WorkerOnRunes(s) /\ ChunkRegistered(s)
    BY <1>1 DEF PositionInv, WorkersOnRunes, WorkerOnRunes, HoldsChunk
  <1>4. CASE Finish(s, "failed", pos[s], "internal") /\ UNCHANGED saved
    BY <1>1, <1>4, FinishGoesOn
       DEF SaveProgress, commands, control, managerVars, sessionVars, callVars,
           request, reading
  <1>5. CASE Written(source[s].id, source[s].ver, end[s]) /\ Continue(s, "mark")
    <2>1. WorkerOK /\ DiskOK
      BY DEF TypeInv, TypeOK
    <2>2. /\ pc' = [pc EXCEPT ![s] = "mark"] /\ pc'[s] = "mark"
          /\ UNCHANGED <<end, text, result, source, pos, edited, file, step, op,
                         arg, state, book, durablePosition, active, currentByte>>
      BY <1>5, <2>1
         DEF SaveProgress, Continue, WorkerGoto, WorkerOK, chunk, reading,
             commands, managerVars, callVars, request
    <2>3. /\ saved'[source[s].id] = [ver |-> source[s].ver, pos |-> end[s]]
          /\ \A b \in Books \ {source[s].id} : saved'[b] = saved[b]
      BY <1>2, <1>5, <2>1 DEF Written, DiskOK
    <2>4. CallsOnRunes'
      BY <1>2, <2>2, BusyCalls DEF PositionInv, IndInv
    <2>5. WorkersOnRunes'
      <3>1. ChunkRegistered(s)' /\ Running(s)'
        BY <1>3, <2>2 DEF ChunkRegistered, Running
      <3>2. WorkerOnRunes(s)'
        BY <1>1, <1>3, <2>2, <3>1 DEF WorkerOnRunes, OnRune
      <3>3. \A t \in Sessions \ {s} : pc'[t] = pc[t]
        BY <2>2
      <3>4. QED
        BY <2>2, <3>2, <3>3, OneWorkerMoves DEF PositionInv
    <2>6. SessionOnRunes'
      <3>1. ResumesAt(book.id, book.ver, end[s])'
        <4>1. source[s].ver # -1
          BY <1>2, <2>1, ConstantFacts DEF WorkerOK, Copies
        <4>2. QED
          BY <1>2, <2>2, <2>3, <4>1 DEF ResumesAt, ResumePoint, Again, NoFile
      <3>2. QED
        BY <1>1, <1>2, <2>2, <3>1 DEF PositionInv, SessionOnRunes
    <2>7. PositionsOnRunes'
      <3>1. OnRune(source[s].id, source[s].ver, end[s])
        BY <1>3 DEF ChunkRegistered, OnRune
      <3>2. QED
        BY <2>2, <2>3, <3>1 DEF PositionInv, PositionsOnRunes, OnRune
    <2>8. QED
      BY <2>4, <2>5, <2>6, <2>7 DEF PositionInv
  <1>6. QED
    BY <1>4, <1>5 DEF SaveProgress

\* Its end becomes the durable position, and the position of the worker.
LEMMA MarkOnRunes ==
    ASSUME TypeInv, IndInv, PositionInv, NEW s \in Sessions,
           MarkDurablePosition(s)
    PROVE  PositionInv'
PROOF
  <1>1. Running(s) /\ pc[s] = "mark"
    BY DEF MarkDurablePosition, Running
  <1>2. /\ active = s /\ active # NoSession /\ source[s].id \in Books
        /\ book = source[s]
    BY <1>1, RunningFacts
  <1>3. WorkerOnRunes(s) /\ end[s] \in Boundaries[source[s].id][source[s].ver]
    BY <1>1 DEF PositionInv, WorkersOnRunes, WorkerOnRunes, HoldsChunk,
                ChunkRegistered
  <1>4. WorkerOK
    BY DEF TypeInv, TypeOK
  <1>5. /\ durablePosition' = end[s] /\ pos'[s] = end[s] /\ pc'[s] = "update"
        /\ \A t \in Sessions \ {s} :
             UNCHANGED <<pc[t], pos[t], end[t], text[t]>>
        /\ UNCHANGED <<result, source, edited, file, saved, lease, step, op, arg,
                       state, book, active, currentByte>>
    BY <1>2, <1>4
       DEF MarkDurablePosition, DurableAfter, WorkerGoto, DropChunk, WorkerOK,
           callVars, request, diskVars
  <1>6. CallsOnRunes'
    BY <1>2, <1>5, BusyCalls DEF PositionInv, IndInv
  <1>7. WorkersOnRunes'
    <2>1. WorkerOnRunes(s)'
      BY <1>1, <1>3, <1>5 DEF WorkerOnRunes, HoldsChunk, Running, OnRune
    <2>2. QED
      BY <1>5, <2>1, OneWorkerMoves DEF PositionInv
  <1>8. SessionOnRunes'
    BY <1>1, <1>2, <1>5 DEF PositionInv, SessionOnRunes, ResumesAt, ResumePoint
  <1>9. PositionsOnRunes'
    BY <1>2, <1>3, <1>5 DEF PositionInv, PositionsOnRunes, OnRune
  <1>10. QED
    BY <1>6, <1>7, <1>8, <1>9 DEF PositionInv

\* The position shown follows, unless the session is being stopped.
LEMMA UpdateOnRunes ==
    ASSUME TypeInv, IndInv, PositionInv, NEW s \in Sessions, UpdateProgress(s)
    PROVE  PositionInv'
PROOF
  <1>1. Running(s) /\ pc[s] = "update"
    BY DEF UpdateProgress, Running
  <1>2. /\ active = s /\ active # NoSession /\ source[s].id \in Books
        /\ book = source[s] /\ OnRune(source[s].id, source[s].ver, pos[s])
        /\ state \in LiveStates
    BY <1>1, RunningFacts
  <1>3. WorkerOK /\ WorkerOnRunes(s)
    BY DEF TypeInv, TypeOK, PositionInv, WorkersOnRunes
  <1>4. /\ pc'[s] = "wait"
        /\ \A t \in Sessions \ {s} : UNCHANGED pc[t]
        /\ UNCHANGED <<result, end, text, pos, source, edited, file, saved, lease,
                       step, op, arg, state, book, active, durablePosition>>
        /\ currentByte' \in {currentByte, pos[s]}
        /\ state # "stopping" => currentByte' = pos[s]
    BY <1>2, <1>3
       DEF UpdateProgress, UpdatesProgress, WorkerGoto, WorkerOK, LiveStates,
           managerVars, reading, chunk, callVars, request, diskVars
  <1>5. CallsOnRunes'
    BY <1>2, <1>4, BusyCalls DEF PositionInv, IndInv
  <1>6. WorkersOnRunes'
    <2>1. WorkerOnRunes(s)'
      BY <1>1, <1>3, <1>4 DEF WorkerOnRunes, HoldsChunk, Running, OnRune
    <2>2. QED
      BY <1>4, <2>1, OneWorkerMoves DEF PositionInv
  <1>7. SessionOnRunes'
    BY <1>1, <1>2, <1>4 DEF PositionInv, SessionOnRunes, ResumesAt, ResumePoint
  <1>8. PositionsOnRunes'
    BY <1>2, <1>4 DEF PositionInv, PositionsOnRunes, OnRune
  <1>9. QED
    BY <1>5, <1>6, <1>7, <1>8 DEF PositionInv

\* The end of a session writes and shows a position of its book.
LEMMA FinalizeOnRunes ==
    ASSUME TypeInv, TypeInv', IndInv, IndInv', PositionInv, NEW s \in Sessions,
           Finalize(s)
    PROVE  PositionInv'
PROOF
  <1>1. Running(s) /\ pc[s] = "finalize"
    BY DEF Finalize, Running
  <1>2. /\ active = s /\ active # NoSession /\ source[s].id \in Books
        /\ book = source[s] /\ durablePosition = pos[s]
        /\ \A p \in {0, pos[s], Size[source[s].id]} :
             OnRune(source[s].id, source[s].ver, p)
    BY <1>1, RunningFacts, BookAssumption DEF OnRune
  <1>3. WorkerOK /\ DiskOK /\ WorkerOnRunes(s)
    BY DEF TypeInv, TypeOK, PositionInv, WorkersOnRunes
  <1>4. PICK ok, closed \in BOOLEAN : EndSession(s, ok, closed)
    BY <1>2 DEF Finalize
  <1>5. /\ active' = NoSession /\ book' = book
        /\ pc'[s] = "close" /\ \A t \in Sessions \ {s} : UNCHANGED pc[t]
        /\ UNCHANGED <<result, end, text, pos, source, edited, file, step, op, arg>>
    BY <1>3, <1>4
       DEF EndSession, Finalize, WorkerGoto, WorkerOK, reading, chunk, callVars,
           request
  <1>6. Outcome(s) = "failed" =>
            result[s].state = "failed" /\ result[s].position = pos[s]
    BY <1>1, <1>2 DEF Outcome, PositionInv, SessionOnRunes
  <1>7. LastPosition(s) \in {0, pos[s]}
    BY <1>2, <1>6 DEF LastPosition, StopPosition
  <1>8. /\ currentByte' \in {pos[s], Size[source[s].id]}
        /\ durablePosition' \in {0, pos[s]}
    <2>1. LET e == Ending(s, ok) IN /\ e.at \in {pos[s], Size[source[s].id]}
                                    /\ e.durable \in {0, pos[s]}
      BY <1>2, <1>6 DEF Ending, FinishedEnding, FailedEnding, StoppedEnding,
                        StopPosition
    <2>2. QED
      BY <1>4, <2>1 DEF EndSession, AfterClose
  <1>9. \A b \in Books : \/ saved'[b] = saved[b]
                         \/ /\ b = source[s].id
                            /\ saved'[b] = [ver |-> source[s].ver,
                                            pos |-> LastPosition(s)]
    <2>1. \/ UNCHANGED saved
          \/ saved' = [saved EXCEPT ![source[s].id] =
                         [ver |-> source[s].ver, pos |-> LastPosition(s)]]
      BY <1>4 DEF EndSession, Written
    <2>2. CASE saved' = [saved EXCEPT ![source[s].id] =
                          [ver |-> source[s].ver, pos |-> LastPosition(s)]]
      <3>1. saved'[source[s].id] = [ver |-> source[s].ver, pos |-> LastPosition(s)]
        BY <1>2, <1>3, <2>2 DEF DiskOK
      <3>2. \A b \in Books \ {source[s].id} : saved'[b] = saved[b]
        BY <1>3, <2>2 DEF DiskOK
      <3>3. QED
        BY <3>1, <3>2
    <2>3. QED
      BY <2>1, <2>2
  <1>10. CallsOnRunes'
    BY <1>2, <1>5, BusyCalls DEF PositionInv, IndInv
  <1>11. WorkersOnRunes'
    <2>1. WorkerOnRunes(s)'
      BY <1>1, <1>3, <1>5 DEF WorkerOnRunes, HoldsChunk, Running, OnRune
    <2>2. QED
      BY <1>5, <2>1, OneWorkerMoves DEF PositionInv
  <1>12. SessionOnRunes'
    BY <1>5 DEF SessionOnRunes
  <1>13. PositionsOnRunes'
    <2>1. \A b \in Books : OnRune(b, saved[b].ver, saved[b].pos)'
      BY <1>2, <1>5, <1>7, <1>9 DEF PositionInv, PositionsOnRunes, OnRune
    <2>2. QED
      BY <1>2, <1>5, <1>8, <2>1 DEF PositionsOnRunes, OnRune
  <1>14. QED
    BY <1>10, <1>11, <1>12, <1>13 DEF PositionInv

\* The goroutine ends.
LEMMA CloseOnRunes ==
    ASSUME TypeInv, IndInv, PositionInv, NEW s \in Sessions, CloseDone(s)
    PROVE  PositionInv'
PROOF
  <1>1. pc[s] = "close" /\ ~Running(s) /\ active # s
    BY NameFacts DEF CloseDone, Running, IndInv, SingleOwner
  <1>2. WorkerOK
    BY DEF TypeInv, TypeOK
  <1>3. /\ pc'[s] = "dead" /\ result'[s] = NoResult /\ s \notin edited'
        /\ \A t \in Sessions \ {s} :
             /\ UNCHANGED <<pc[t], pos[t], source[t], end[t], text[t], result[t]>>
             /\ t \in edited' <=> t \in edited
        /\ UNCHANGED <<file, saved, lease, step, op, arg, state, book, active,
                       currentByte, durablePosition>>
    BY <1>2 DEF CloseDone, WorkerGoto, WorkerOK, managerVars, callVars, request,
                diskVars
  <1>4. CallsOnRunes' /\ PositionsOnRunes'
    BY <1>3 DEF PositionInv, CallsOnRunes, CallOnRunes, ResumesAt, ResumePoint,
                PositionsOnRunes, OnRune
  <1>5. WorkersOnRunes'
    <2>1. WorkerOnRunes(s)'
      BY <1>3 DEF WorkerOnRunes, HoldsChunk, Running, NoResult
    <2>2. QED
      BY <1>3, <2>1, OneWorkerMoves DEF PositionInv
  <1>6. SessionOnRunes'
    <2>1. active # NoSession => active \in Sessions \ {s}
      BY <1>1 DEF TypeInv, TypeOK, ManagerOK
    <2>2. QED
      BY <1>3, <2>1 DEF PositionInv, SessionOnRunes, ResumesAt, ResumePoint
  <1>7. QED
    BY <1>4, <1>5, <1>6 DEF PositionInv

-----------------------------------------------------------------------------
(* The calls *)

\* What a call carries, and that the positions of its book are positions.
LEMMA CallFacts ==
    ASSUME TypeInv, NEW c \in Calls, op[c] \in {"start", "set"}
    PROVE  /\ arg[c].id \in Books /\ arg[c].ver \in Versions
           /\ arg[c].ver # -1 /\ saved[arg[c].id].pos \in Offsets
           /\ Size[arg[c].id] \in Nat
           /\ {0, Size[arg[c].id]} \subseteq Boundaries[arg[c].id][arg[c].ver]
           /\ arg[c].ver \in Int /\ file[arg[c].id] \in Int
PROOF
  <1>1. arg[c].id \in Books
    BY DEF TypeInv, CallsWellFormed
  <1>2. arg[c].ver \in Versions /\ arg[c].ver # -1
    BY ConstantFacts DEF TypeInv, TypeOK, CallOK, Arguments
  <1>3. saved[arg[c].id].pos \in Offsets /\ file[arg[c].id] \in Versions
    BY <1>1 DEF TypeInv, TypeOK, DiskOK
  <1>4. QED
    BY <1>1, <1>2, <1>3, BookAssumption, ConstantFacts

\* A position looked up at the path is on a rune of an inspected version, unless
\* that version is gone.
LEMMA LookedUp ==
    ASSUME NEW b \in Books, NEW v \in Int, file[b] \in Int, v <= file[b],
           NEW p, StandsOnRune(b, p)
    PROVE  OnRune(b, v, p)
PROOF BY DEF StandsOnRune, OnRune

\* Calls outside the files and the manager: they only change where they are.
CallOnly(c) ==
    \/ BeginCall(c) \/ Expire(c) \/ Acquire(c) \/ GiveUp(c) \/ Return(c)
    \/ CheckIdle(c) \/ Inspect(c) \/ CheckBoundary(c) \/ Load(c)
    \/ StopCancel(c) \/ StopEngine(c) \/ StopWait(c)

LEMMA CallOnlyLeaves ==
    ASSUME NEW c \in Calls, CallOnly(c)
    PROVE  /\ UNCHANGED <<managerVars, workerVars, diskVars>>
           /\ TypeInv => \A d \in Calls \ {c} :
                            UNCHANGED <<step[d], op[d], arg[d]>>
PROOF
  <1>1. UNCHANGED <<managerVars, workerVars, diskVars>>
    BY DEF CallOnly, BeginCall, Expire, Acquire, GiveUp, Return, CheckIdle,
           Inspect, CheckBoundary, Load, StopCancel, StopEngine, StopWait,
           playback
  <1>2. ASSUME TypeInv, NEW d \in Calls \ {c}
        PROVE  UNCHANGED <<step[d], op[d], arg[d]>>
    <2>1. CallOK
      BY <1>2 DEF TypeInv, TypeOK
    <2>2. CASE BeginCall(c)
      BY <2>1, <2>2 DEF BeginCall, Goto, CallOK
    <2>3. CASE Acquire(c) \/ GiveUp(c) \/ CheckIdle(c)
      BY <2>1, <2>3 DEF Acquire, GiveUp, CheckIdle, ReplyFrom, Goto, CallOK, request
    <2>4. CASE Return(c) \/ Expire(c)
      BY <2>1, <2>4 DEF Return, Expire, Goto, CallOK
    <2>5. CASE Inspect(c) \/ CheckBoundary(c) \/ Load(c)
      BY <2>1, <2>5 DEF Inspect, CheckBoundary, Load, ReplyFrom, Goto, CallOK,
                        request
    <2>6. CASE StopCancel(c) \/ StopEngine(c) \/ StopWait(c)
      BY <2>1, <2>6 DEF StopCancel, StopEngine, StopWait, ReplyFrom, Goto,
                        CallOK, request
    <2>7. QED
      BY <2>2, <2>3, <2>4, <2>5, <2>6 DEF CallOnly
  <1>3. QED
    BY <1>1, <1>2

LEMMA CallOnlyOnRunes ==
    ASSUME TypeInv, IndInv, PositionInv, NEW c \in Calls, CallOnly(c)
    PROVE  PositionInv'
PROOF
  <1>1. /\ UNCHANGED <<managerVars, workerVars, diskVars>>
        /\ UNCHANGED <<file, saved, lease>>
        /\ \A d \in Calls \ {c} : UNCHANGED <<step[d], op[d], arg[d]>>
    BY CallOnlyLeaves DEF diskVars
  <1>2. WorkersOnRunes' /\ SessionOnRunes' /\ PositionsOnRunes'
    BY <1>1, PositionFrames DEF PositionInv
  <1>3. CallOnRunes(c) /\ CallOK
    BY DEF PositionInv, CallsOnRunes, TypeInv, TypeOK
  <1>4. CallOnRunes(c)'
    <2> USE DEF ReplyFrom, Goto, CallOK, request
    <2>1. CASE BeginCall(c)
      BY <1>1, <1>3, <2>1 DEF BeginCall, CallOnRunes
    <2>2. CASE Expire(c)
      BY <1>1, <1>3, <2>2 DEF Expire, CallOnRunes, OnRune, ResumesAt, ResumePoint
    <2>3. CASE Acquire(c) \/ GiveUp(c) \/ CheckIdle(c) \/ StopCancel(c)
                 \/ StopEngine(c) \/ StopWait(c)
      <3>1. step'[c] \notin {"lease", "load", "save", "commit"} /\ UNCHANGED arg
        BY <1>3, <2>3
           DEF Acquire, GiveUp, CheckIdle, StopCancel, StopEngine, StopWait,
               FirstStep
      <3>2. QED
        BY <1>1, <1>3, <3>1 DEF CallOnRunes
    <2>4. CASE Return(c)
      <3>1. step'[c] = "idle" /\ arg'[c] = NoArg
        BY <1>3, <2>4 DEF Return
      <3>2. QED
        BY <1>1, <3>1, BookAssumption DEF CallOnRunes, NoArg
    <2>5. CASE Inspect(c)
      <3>1. /\ UNCHANGED <<arg, op>> /\ op[c] \in {"start", "set"}
            /\ op[c] = "start" => arg[c].pos = 0
            /\ step'[c] \in {"lease", "boundary", "unlock"}
            /\ step'[c] = "lease" => op[c] = "start"
        BY <1>3, <2>5 DEF Inspect, TypeInv, CallsWellFormed, Preparing
      <3>2. OnRune(arg[c].id, arg[c].ver, 0)
        BY <3>1, CallFacts DEF OnRune
      <3>3. QED
        BY <1>1, <1>3, <3>1, <3>2 DEF CallOnRunes, OnRune
    <2>6. CASE CheckBoundary(c)
      <3>1. /\ UNCHANGED <<arg, op>> /\ op[c] \in {"start", "set"}
            /\ step'[c] \in {"lease", "unlock"}
            /\ step'[c] = "lease" => StandsOnRune(arg[c].id, arg[c].pos)
        BY <1>3, <2>6 DEF CheckBoundary, TypeInv, CallsWellFormed, Preparing
      <3>2. step'[c] = "lease" => OnRune(arg[c].id, arg[c].ver, arg[c].pos)
        BY <1>3, <3>1, CallFacts, LookedUp DEF CallOnRunes
      <3>3. QED
        BY <1>1, <1>3, <3>1, <3>2 DEF CallOnRunes, OnRune
    <2>7. CASE Load(c)
      <3>1. op[c] \in {"start", "set"} /\ UNCHANGED op
        BY <2>7 DEF Load, TypeInv, CallsWellFormed, Preparing
      <3>2. CASE step'[c] = "cleanup" /\ UNCHANGED arg
        BY <1>1, <1>3, <3>2 DEF CallOnRunes
      <3>3. CASE /\ step'[c] = "commit"
                 /\ saved[arg[c].id] = NoFile \/ saved[arg[c].id].ver = arg[c].ver
                 /\ StandsOnRune(arg[c].id, saved[arg[c].id].pos)
                 /\ arg'[c] = [id |-> arg[c].id, ver |-> arg[c].ver,
                               pos |-> ResumePoint(arg[c].id, saved[arg[c].id])]
        <4>1. arg[c].ver <= file[arg[c].id]
          BY <1>3, <3>1, CallFacts DEF CallOnRunes
        <4>2. OnRune(arg[c].id, arg[c].ver,
                     ResumePoint(arg[c].id, saved[arg[c].id]))
          <5>1. OnRune(arg[c].id, arg[c].ver, saved[arg[c].id].pos)
            BY <3>1, <3>3, <4>1, CallFacts, LookedUp
          <5>2. OnRune(arg[c].id, arg[c].ver, 0)
            BY <3>1, CallFacts DEF OnRune
          <5>3. QED
            BY <5>1, <5>2 DEF ResumePoint
        <4>3. lease[arg[c].id] = c
          BY <1>3, <2>7 DEF CallOnRunes, Load
        <4>4. ResumesAt(arg[c].id, arg[c].ver,
                        ResumePoint(arg[c].id, saved[arg[c].id]))
          BY <3>1, <3>3, CallFacts DEF ResumesAt, ResumePoint, Again
        <4>5. ResumesAt(arg[c].id, arg[c].ver, arg[c].pos)'
          BY <1>1, <3>3, <4>4 DEF ResumesAt, ResumePoint
        <4>6. QED
          BY <1>1, <3>3, <4>1, <4>2, <4>3, <4>5 DEF CallOnRunes, OnRune
      <3>4. QED
        BY <1>3, <2>7, <3>2, <3>3 DEF Load
    <2>8. QED
      BY <2>1, <2>2, <2>3, <2>4, <2>5, <2>6, <2>7 DEF CallOnly
  <1>5. CallsOnRunes'
    BY <1>1, <1>4, OneCallMoves DEF PositionInv
  <1>6. QED
    BY <1>2, <1>5 DEF PositionInv

\* The calls take and give back leases, and SetPosition saves.
LEMMA CallFilesOnRunes ==
    ASSUME TypeInv, IndInv, PositionInv, NEW c \in Calls,
           AcquireLease(c) \/ Cleanup(c) \/ SavePosition(c)
    PROVE  PositionInv'
PROOF
  <1>1. /\ Preparing(c) \/ step[c] = "cleanup"
        /\ CallOK /\ DiskOK /\ CallOnRunes(c)
    BY DEF AcquireLease, Cleanup, SavePosition, Preparing, TypeInv, TypeOK,
           CallsWellFormed, PositionInv, CallsOnRunes
  <1>2. op[c] \in {"start", "set"} /\ arg[c].id \in Books
    BY <1>1 DEF TypeInv, CallsWellFormed
  <1>3. /\ UNCHANGED <<managerVars, workerVars, file, op, arg>>
        /\ \A d \in Calls \ {c} : UNCHANGED <<step[d], op[d], arg[d]>>
    BY <1>1 DEF AcquireLease, Cleanup, SavePosition, ReplyFrom, Goto, CallOK,
                request, playback
  <1>4. \A d \in Calls \ {c} : ~Preparing(d)
    BY <1>1, AloneWithGate DEF IndInv
  <1>5. WorkersOnRunes'
    BY <1>3, PositionFrames DEF PositionInv
  <1>6. CallOnRunes(c)'
    <2>1. CASE AcquireLease(c)
      BY <1>1, <1>2, <1>3, <2>1
         DEF AcquireLease, CallOnRunes, OnRune, ReplyFrom, Goto, CallOK, DiskOK
    <2>2. CASE Cleanup(c)
      BY <1>1, <1>2, <1>3, <2>2 DEF Cleanup, CallOnRunes, Goto, CallOK
    <2>3. CASE SavePosition(c)
      BY <1>1, <1>2, <1>3, <2>3
         DEF SavePosition, CallOnRunes, OnRune, ReplyFrom, Goto, CallOK
    <2>4. QED
      BY <2>1, <2>2, <2>3
  <1>7. CallsOnRunes'
    BY <1>3, <1>4, <1>6, OneCallMoves DEF PositionInv
  <1>8. CASE UNCHANGED saved
    BY <1>3, <1>5, <1>7, <1>8, PositionFrames DEF PositionInv
  <1>9. CASE SavePosition(c) /\ Written(arg[c].id, arg[c].ver, arg[c].pos)
    <2>1. active = NoSession /\ OnRune(arg[c].id, arg[c].ver, arg[c].pos)
      BY <1>1, <1>9 DEF SavePosition, IndInv, CommandHasIdleManager, CallOnRunes
    <2>2. SessionOnRunes'
      BY <1>3, <2>1 DEF SessionOnRunes, managerVars
    <2>3. PositionsOnRunes'
      BY <1>1, <1>3, <1>9, <2>1
         DEF PositionInv, PositionsOnRunes, OnRune, Written, DiskOK, managerVars
    <2>4. QED
      BY <1>5, <1>7, <2>2, <2>3 DEF PositionInv
  <1>10. QED
    BY <1>8, <1>9 DEF AcquireLease, Cleanup, SavePosition

\* A session begins where its progress file says, and on a rune.
LEMMA CommitStartOnRunes ==
    ASSUME TypeInv, IndInv, PositionInv, NEW c \in Calls, CommitStart(c)
    PROVE  PositionInv'
PROOF
  <1>1. /\ step[c] = "commit" /\ op[c] = "start" /\ Preparing(c)
        /\ CallOK /\ DiskOK /\ WorkerOK /\ ManagerOK /\ CallOnRunes(c)
        /\ active = NoSession
    BY DEF CommitStart, Preparing, TypeInv, TypeOK, PositionInv, CallsOnRunes,
           IndInv, CommandHasIdleManager
  <1>2. /\ arg[c].id \in Books /\ arg[c].ver <= file[arg[c].id]
        /\ OnRune(arg[c].id, arg[c].ver, arg[c].pos)
        /\ ResumesAt(arg[c].id, arg[c].ver, arg[c].pos)
    BY <1>1, CallFacts DEF CallOnRunes
  <1>3. /\ UNCHANGED <<file, saved, op, arg, end, text, result, edited>>
        /\ step'[c] \in {"unlock", "cleanup"}
        /\ \A d \in Calls \ {c} : UNCHANGED <<step[d], op[d], arg[d]>>
    BY <1>1 DEF CommitStart, ReplyFrom, CallOK, request
  <1>4. \A d \in Calls \ {c} : ~Preparing(d)
    BY <1>1, AloneWithGate DEF IndInv
  <1>5. CallsOnRunes'
    <2>1. CallOnRunes(c)'
      BY <1>1, <1>3 DEF CallOnRunes
    <2>2. QED
      BY <1>3, <1>4, <2>1, OneCallMoves DEF PositionInv
  <1>6. CASE UNCHANGED <<managerVars, lease, pc, source, pos>>
    BY <1>3, <1>5, <1>6, PositionFrames
       DEF PositionInv, CommitStart, workerVars, reading, chunk
  <1>7. CASE StartSession(c)
    <2>1. PICK s \in Sessions : s = nextID + 1 /\ s # NoSession /\ s > nextID
      <3>1. nextID \in Nat
        <4>1. nextID \in Sessions \cup {NoSession}
          BY <1>1 DEF ManagerOK
        <4>2. QED
          BY <4>1, ConstantFacts
      <3>2. nextID < MaxSessions
        BY DEF CommitStart
      <3>3. QED
        BY <3>1, <3>2, BoundAssumption DEF Sessions, NoSession
    <2> DEFINE copy == [id |-> arg[c].id, ver |-> arg[c].ver]
    <2>2. /\ active' = s /\ book' = copy /\ state' = "playing"
          /\ currentByte' = arg[c].pos /\ durablePosition' = arg[c].pos
          /\ pc'[s] = "open" /\ source'[s] = copy /\ pos'[s] = arg[c].pos
          /\ \A t \in Sessions \ {s} : UNCHANGED <<pc[t], source[t], pos[t]>>
      BY <1>1, <1>7, <2>1 DEF StartSession, WorkerOK
    <2>3. pc[s] = "none" /\ s \notin edited /\ result[s].state # "finished"
      BY <2>1 DEF IndInv, SessionsInOrder, PositionInv, WorkersOnRunes,
                  WorkerOnRunes
    <2>4. WorkersOnRunes'
      <3>1. WorkerOnRunes(s)'
        BY <1>2, <1>3, <2>2, <2>3 DEF WorkerOnRunes, HoldsChunk, Running, OnRune
      <3>2. QED
        BY <1>3, <2>1, <2>2, <3>1, OneWorkerMoves DEF PositionInv
    <2>5. SessionOnRunes'
      BY <1>2, <1>3, <2>2 DEF SessionOnRunes, ResumesAt, ResumePoint
    <2>6. PositionsOnRunes'
      BY <1>2, <1>3, <2>2 DEF PositionInv, PositionsOnRunes, OnRune
    <2>7. QED
      BY <1>5, <2>4, <2>5, <2>6 DEF PositionInv
  <1>8. QED
    BY <1>6, <1>7 DEF CommitStart

\* SetPosition shows the position it has saved; no session is active.
LEMMA CommitPositionOnRunes ==
    ASSUME TypeInv, IndInv, PositionInv, NEW c \in Calls, CommitPosition(c)
    PROVE  PositionInv'
PROOF
  <1>1. /\ step[c] = "commit" /\ op[c] = "set" /\ Preparing(c)
        /\ CallOK /\ CallOnRunes(c) /\ active = NoSession
        /\ OnRune(arg[c].id, arg[c].ver, arg[c].pos)
    BY DEF CommitPosition, Preparing, TypeInv, TypeOK, PositionInv, CallsOnRunes,
           CallOnRunes, IndInv, CommandHasIdleManager
  <1>2. /\ UNCHANGED <<file, saved, lease, op, arg, workerVars, active>>
        /\ step'[c] = "cleanup"
        /\ \A d \in Calls \ {c} : UNCHANGED <<step[d], op[d], arg[d]>>
        /\ book'.id = arg[c].id /\ book'.ver = arg[c].ver
        /\ currentByte' = arg[c].pos /\ durablePosition' = arg[c].pos
    BY <1>1 DEF CommitPosition, ReplyFrom, CallOK, request, diskVars
  <1>3. CallsOnRunes'
    <2>1. CallOnRunes(c)'
      BY <1>1, <1>2 DEF CallOnRunes
    <2>2. QED
      BY <1>2, <2>1, OneCallMoves DEF PositionInv
  <1>4. WorkersOnRunes'
    BY <1>2, PositionFrames DEF PositionInv
  <1>5. SessionOnRunes'
    BY <1>1, <1>2 DEF SessionOnRunes
  <1>6. PositionsOnRunes'
    BY <1>1, <1>2 DEF PositionInv, PositionsOnRunes, OnRune
  <1>7. QED
    BY <1>3, <1>4, <1>5, <1>6 DEF PositionInv

\* Pause, Resume and the first section of Stop move no position.
LEMMA StateCallsOnRunes ==
    ASSUME TypeInv, IndInv, PositionInv, NEW c \in Calls,
           Pause(c) \/ Resume(c) \/ StopMark(c)
    PROVE  PositionInv'
PROOF
  <1>1. CallOK
    BY DEF TypeInv, TypeOK
  <1>2. /\ UNCHANGED <<book, currentByte, durablePosition, active, pc, reading,
                       chunk, file, saved, lease, op, arg>>
        /\ step'[c] \in {"unlock", "cancel", "wait"}
        /\ \A d \in Calls \ {c} : UNCHANGED <<step[d], op[d], arg[d]>>
    <2>1. UNCHANGED <<book, currentByte, durablePosition, active, pc, reading,
                      chunk, file, saved, lease, op, arg>>
      BY DEF Pause, Resume, StopMark, MarkIdle, MarkStopping, request, workerVars,
             managerVars, diskVars
    <2>2. \E next \in {"unlock", "cancel", "wait"} :
            step' = [step EXCEPT ![c] = next]
      BY DEF Pause, Resume, StopMark, ReplyFrom, Goto
    <2>3. QED
      BY <1>1, <2>1, <2>2 DEF CallOK
  <1>3. active # NoSession /\ state' # "stopping" => state # "stopping"
    BY DEF Pause, Resume, StopMark, MarkStopping, CanPause, CanResume, managerVars
  <1>4. CallsOnRunes'
    <2>1. CallOnRunes(c)'
      BY <1>2 DEF PositionInv, CallsOnRunes, CallOnRunes
    <2>2. QED
      BY <1>2, <2>1, OneCallMoves DEF PositionInv
  <1>5. WorkersOnRunes'
    BY <1>2 DEF PositionInv, WorkersOnRunes, WorkerOnRunes, HoldsChunk,
                ChunkRegistered, Running, OnRune, reading, chunk
  <1>6. SessionOnRunes'
    BY <1>2, <1>3
       DEF PositionInv, SessionOnRunes, ResumesAt, ResumePoint, reading, chunk
  <1>7. PositionsOnRunes'
    BY <1>2 DEF PositionInv, PositionsOnRunes, OnRune
  <1>8. QED
    BY <1>4, <1>5, <1>6, <1>7 DEF PositionInv

-----------------------------------------------------------------------------
(* The editor and the other process *)

\* A later version of a book makes no position worse.
LEMMA EditOnRunes ==
    ASSUME TypeInv, IndInv, PositionInv, NEW b \in Books, Edit(b)
    PROVE  PositionInv'
PROOF
  <1>1. /\ UNCHANGED <<managerVars, pc, source, pos, end, text, result, step, op,
                       arg, saved, lease>>
        /\ edited' \in {edited, edited \cup OpenFiles(b)}
    BY DEF Edit, commands, callVars, request
  <1>2. /\ \A x \in Books : file[x] \in Nat /\ file'[x] \in Nat
                            /\ file[x] <= file'[x]
        /\ file[b] < file'[b]
    <2>1. DiskOK /\ \A x \in Books : file[x] \in Nat
      BY ConstantFacts DEF TypeInv, TypeOK, DiskOK
    <2>2. file' = [file EXCEPT ![b] = file[b] + 1]
      BY DEF Edit
    <2>3. QED
      BY <2>1, <2>2 DEF DiskOK
  <1>3. CallsOnRunes'
    <2> SUFFICES ASSUME NEW c \in Calls PROVE CallOnRunes(c)'
      BY DEF CallsOnRunes
    <2>1. CallOnRunes(c) /\ arg[c].ver \in Nat
      BY ConstantFacts
         DEF PositionInv, CallsOnRunes, TypeInv, TypeOK, CallOK, Arguments
    <2>2. arg[c].id \in Books => arg[c].ver <= file'[arg[c].id]
      BY <1>2, <2>1 DEF CallOnRunes
    <2>3. step[c] \in {"lease", "load", "save", "commit"} =>
            OnRune(arg[c].id, arg[c].ver, arg[c].pos)'
      <3>1. step[c] \in {"lease", "load", "save", "commit"} =>
              arg[c].id \in Books
        BY DEF TypeInv, CallsWellFormed, Preparing
      <3>2. step[c] \in {"lease", "load", "save", "commit"} =>
              OnRune(arg[c].id, arg[c].ver, arg[c].pos)
        BY <2>1 DEF CallOnRunes
      <3>3. QED
        BY <1>1, <1>2, <2>1, <3>1, <3>2 DEF OnRune
    <2>4. QED
      BY <1>1, <2>1, <2>2, <2>3 DEF CallOnRunes, ResumesAt, ResumePoint
  <1>4. WorkersOnRunes'
    <2> SUFFICES ASSUME NEW s \in Sessions PROVE WorkerOnRunes(s)'
      BY DEF WorkersOnRunes
    <2>1. WorkerOnRunes(s) /\ source[s].ver \in Nat
      BY ConstantFacts
         DEF PositionInv, WorkersOnRunes, TypeInv, TypeOK, WorkerOK, Copies
    <2>2. Running(s) => source[s].id \in Books
      BY DEF TypeInv, WorkersWellFormed
    <2>3. s \in edited => s \in edited'
      BY <1>1
    <2>4. s \in edited' => s \in edited \/ (source[s].id = b /\ pc[s] # "none")
      BY <1>1 DEF OpenFiles
    <2>5. Running(s) => source[s].ver <= file'[source[s].id]
      BY <1>2, <2>1, <2>2 DEF WorkerOnRunes
    <2>6. s \in edited' /\ Running(s) => source[s].ver < file'[source[s].id]
      BY <1>2, <2>1, <2>2, <2>4 DEF WorkerOnRunes
    <2>7. s \in edited' => pc[s] # "none"
      BY <2>1, <2>4 DEF WorkerOnRunes
    <2>8. UNCHANGED <<Running(s), HoldsChunk(s), ChunkRegistered(s)>>
      BY <1>1 DEF Running, HoldsChunk, ChunkRegistered
    <2>9. Running(s) => OnRune(source[s].id, source[s].ver, pos[s])'
      BY <1>1, <1>2, <2>1, <2>2 DEF WorkerOnRunes, OnRune
    <2>10. QED
      BY <1>1, <2>1, <2>3, <2>5, <2>6, <2>7, <2>8, <2>9 DEF WorkerOnRunes
  <1>5. SessionOnRunes'
    BY <1>1 DEF PositionInv, SessionOnRunes, ResumesAt, ResumePoint, managerVars
  <1>6. PositionsOnRunes'
    <2>1. /\ book.id \in Books => book.ver \in Int
          /\ \A x \in Books : saved[x].ver \in Int
      BY ConstantFacts DEF TypeInv, TypeOK, ManagerOK, DiskOK, Copies
    <2>2. \A x \in Books : OnRune(x, saved[x].ver, saved[x].pos)'
      BY <1>1, <1>2, <2>1 DEF PositionInv, PositionsOnRunes, OnRune
    <2>3. ASSUME book.id \in Books, NEW p \in {currentByte, durablePosition}
          PROVE  OnRune(book.id, book.ver, p)'
      BY <1>1, <1>2, <2>1, <2>3, RunesStay
         DEF PositionInv, PositionsOnRunes, managerVars
    <2>4. QED
      BY <1>1, <2>2, <2>3 DEF PositionsOnRunes, managerVars
  <1>7. QED
    BY <1>3, <1>4, <1>5, <1>6 DEF PositionInv

\* The other process writes only under the lease, so to no session's file.
LEMMA OtherOnRunes ==
    ASSUME TypeInv, IndInv, PositionInv, NEW b \in Books,
           OtherAcquire(b) \/ OtherSave(b) \/ OtherRelease(b)
    PROVE  PositionInv'
PROOF
  <1>1. /\ UNCHANGED <<managerVars, workerVars, step, op, arg, file>> /\ DiskOK
        /\ lease[b] \in {Free, Other}
    BY DEF OtherAcquire, OtherSave, OtherRelease, playback, callVars, request,
           TypeInv, TypeOK
  <1>2. /\ \A x \in Books \ {b} : saved'[x] = saved[x] /\ lease'[x] = lease[x]
        /\ \/ saved'[b] = saved[b]
           \/ OnRune(b, saved'[b].ver, saved'[b].pos)
    <2>1. CASE UNCHANGED saved
      BY <1>1, <2>1 DEF OtherAcquire, OtherSave, OtherRelease, DiskOK
    <2>2. CASE OtherSave(b)
      <3>1. PICK v \in 0..file[b] : \E w \in v..file[b] :
              \E p \in Boundaries[b][w] : Written(b, v, p)
        BY <2>2 DEF OtherSave
      <3>2. PICK w \in v..file[b] : \E p \in Boundaries[b][w] : Written(b, v, p)
        BY <3>1
      <3>3. PICK p \in Boundaries[b][w] : Written(b, v, p)
        BY <3>2
      <3>4. file[b] \in Nat
        BY <1>1, ConstantFacts DEF DiskOK
      <3>5. OnRune(b, v, p)
        BY <3>4 DEF OnRune
      <3>6. QED
        BY <1>1, <2>2, <3>3, <3>5 DEF OtherSave, Written, DiskOK
    <2>3. QED
      BY <2>1, <2>2 DEF OtherAcquire, OtherRelease
  <1>3. CallsOnRunes'
    <2> SUFFICES ASSUME NEW c \in Calls PROVE CallOnRunes(c)'
      BY DEF CallsOnRunes
    <2>1. CallOnRunes(c)
      BY DEF PositionInv, CallsOnRunes
    <2>2. CASE step[c] \in {"load", "save", "commit"}
      <3>1. arg[c].id \in Books /\ lease[arg[c].id] = c
        BY <2>1, <2>2 DEF CallOnRunes, TypeInv, CallsWellFormed, Preparing
      <3>2. arg[c].id # b
        BY <1>1, <3>1, NameFacts
      <3>3. QED
        BY <1>1, <1>2, <2>1, <3>1, <3>2
           DEF CallOnRunes, OnRune, ResumesAt, ResumePoint
    <2>3. CASE step[c] \notin {"load", "save", "commit"}
      BY <1>1, <2>1, <2>3 DEF CallOnRunes, OnRune
    <2>4. QED
      BY <2>2, <2>3
  <1>4. WorkersOnRunes'
    BY <1>1, PositionFrames DEF PositionInv
  <1>5. SessionOnRunes'
    <2> SUFFICES ASSUME active # NoSession PROVE SessionOnRunes'
      BY <1>1 DEF SessionOnRunes, managerVars
    <2>1. active \in Sessions /\ Running(active)
      BY DEF TypeInv, TypeOK, ManagerOK, IndInv, SingleOwner
    <2>2. book.id \in Books /\ lease[book.id] = active
      BY <2>1, RunningFacts
    <2>3. book.id # b
      BY <1>1, <2>1, <2>2, NameFacts
    <2>4. QED
      BY <1>1, <1>2, <2>2, <2>3
         DEF PositionInv, SessionOnRunes, ResumesAt, ResumePoint, managerVars,
             workerVars, reading, chunk
  <1>6. PositionsOnRunes'
    BY <1>1, <1>2 DEF PositionInv, PositionsOnRunes, OnRune, managerVars
  <1>7. QED
    BY <1>3, <1>4, <1>5, <1>6 DEF PositionInv

-----------------------------------------------------------------------------
(* The theorems *)

LEMMA PositionInit == TypeInv /\ Init => PositionInv
PROOF
  <1> SUFFICES ASSUME TypeInv, Init PROVE PositionInv
    OBVIOUS
  <1>1. CallsOnRunes
    BY BookAssumption DEF Init, CallsOnRunes, CallOnRunes, NoArg
  <1>2. WorkersOnRunes
    BY DEF Init, WorkersOnRunes, WorkerOnRunes, HoldsChunk, Running, NoResult
  <1>3. SessionOnRunes
    BY DEF Init, SessionOnRunes
  <1>4. PositionsOnRunes
    BY BookAssumption, BoundAssumption
       DEF Init, PositionsOnRunes, OnRune, NoCopy, NoFile, Versions
  <1>5. QED
    BY <1>1, <1>2, <1>3, <1>4 DEF PositionInv

LEMMA PositionNext ==
    TypeInv /\ TypeInv' /\ IndInv /\ IndInv' /\ PositionInv /\ [Next]_vars =>
        PositionInv'
PROOF
  <1> SUFFICES ASSUME TypeInv, TypeInv', IndInv, IndInv', PositionInv, [Next]_vars
               PROVE  PositionInv'
    OBVIOUS
  <1>1. CASE UNCHANGED <<managerVars, workerVars, step, op, arg, diskVars>>
    BY <1>1, PositionFrames DEF PositionInv, diskVars
  <1>2. CASE \E c \in Calls : CallStep(c)
    <2>1. PICK c \in Calls : CallStep(c)
      BY <1>2
    <2>2. CASE CallOnly(c)
      BY <2>2, CallOnlyOnRunes
    <2>3. CASE AcquireLease(c) \/ Cleanup(c) \/ SavePosition(c)
      BY <2>3, CallFilesOnRunes
    <2>4. CASE CommitStart(c)
      BY <2>4, CommitStartOnRunes
    <2>5. CASE CommitPosition(c)
      BY <2>5, CommitPositionOnRunes
    <2>6. CASE Pause(c) \/ Resume(c) \/ StopMark(c)
      BY <2>6, StateCallsOnRunes
    <2>7. QED
      BY <2>1, <2>2, <2>3, <2>4, <2>5, <2>6 DEF CallStep, CallOnly
  <1>3. CASE \E s \in Sessions : WorkerStep(s)
    <2>1. PICK s \in Sessions : WorkerStep(s)
      BY <1>3
    <2>2. CASE WorkerWorks(s)
      BY <2>2, WorkerWorksOnRunes
    <2>3. CASE Sleep(s)
      <3>1. UNCHANGED <<managerVars, pc, reading, chunk, callVars, diskVars>>
        BY <2>3 DEF Sleep, commands
      <3>2. QED
        BY <3>1 DEF PositionInv, CallsOnRunes, CallOnRunes, WorkersOnRunes,
                    WorkerOnRunes, SessionOnRunes, PositionsOnRunes, ResumesAt,
                    ResumePoint, HoldsChunk, ChunkRegistered, Running, OnRune,
                    managerVars, reading, chunk, callVars, request, diskVars
    <2>4. CASE SaveProgress(s)
      BY <2>4, SaveOnRunes
    <2>5. CASE MarkDurablePosition(s)
      BY <2>5, MarkOnRunes
    <2>6. CASE UpdateProgress(s)
      BY <2>6, UpdateOnRunes
    <2>7. CASE Finalize(s)
      BY <2>7, FinalizeOnRunes
    <2>8. CASE CloseDone(s)
      BY <2>8, CloseOnRunes
    <2>9. QED
      BY <2>1, <2>2, <2>3, <2>4, <2>5, <2>6, <2>7, <2>8
         DEF WorkerStep, WorkerWorks
  <1>4. CASE Environment
    <2>1. CASE BeginShutdown
      BY <1>1, <2>1 DEF BeginShutdown, playback, callVars, request
    <2>2. CASE \E c \in Calls : BeginCall(c) \/ Expire(c)
      BY <2>2, CallOnlyOnRunes DEF CallOnly
    <2>3. CASE \E b \in Books : Edit(b) \/ OtherAcquire(b) \/ OtherSave(b)
                                   \/ OtherRelease(b)
      BY <2>3, EditOnRunes, OtherOnRunes
    <2>4. QED
      BY <1>4, <2>1, <2>2, <2>3 DEF Environment
  <1>5. CASE UNCHANGED vars
    BY <1>1, <1>5 DEF vars, playback, callVars, request
  <1>6. QED
    BY <1>2, <1>3, <1>4, <1>5 DEF Next

\* The invariant of positions always holds.
THEOREM PositionSafety == Spec => [](TypeInv /\ IndInv /\ PositionInv)
PROOF
  <1>1. Init => TypeInv /\ IndInv /\ PositionInv
    BY TypeInit, IndInit, PositionInit
  <1>2. TypeInv /\ IndInv /\ PositionInv /\ [Next]_vars =>
          (TypeInv /\ IndInv /\ PositionInv)'
    BY TypeNext, IndNext, PositionNext
  <1>3. QED
    BY <1>1, <1>2, PTL DEF Spec

\* Positions shown and saved for the version of a book at its path are on runes
\* of it, though SetPosition looks at the byte in whatever version it finds by
\* then: a session or a command line reader that takes one up can read there.
THEOREM PositionsAreOnRunes == Spec => []PositionsOnRunes
PROOF
  <1>1. PositionInv => PositionsOnRunes
    BY DEF PositionInv
  <1>2. QED
    BY <1>1, PositionSafety, PTL

\* What the speaker gets is text of the registered version, a chunk that starts
\* and ends on runes of it and moves the position on, whenever the book is edited.
THEOREM SpokenText == Spec => []SpokenIsRegistered
PROOF
  <1>1. PositionInv => SpokenIsRegistered
    <2> SUFFICES ASSUME PositionInv, NEW s \in Sessions,
                        pc[s] \in {"speak", "speaking"}
                 PROVE  /\ ChunkRegistered(s)
                        /\ pos[s] \in Boundaries[source[s].id][source[s].ver]
      BY DEF SpokenIsRegistered, ChunkRegistered
    <2>1. WorkerOnRunes(s) /\ HoldsChunk(s) /\ Running(s)
      BY DEF PositionInv, WorkersOnRunes, HoldsChunk, Running
    <2>2. QED
      BY <2>1 DEF WorkerOnRunes
  <1>2. QED
    BY <1>1, PositionSafety, PTL

\* A session that finishes has played its book to the last byte.
THEOREM WholeBook == Spec => []FinishedMeansWholeBook
PROOF
  <1>1. PositionInv => FinishedMeansWholeBook
    BY DEF PositionInv, WorkersOnRunes, WorkerOnRunes, FinishedMeansWholeBook
  <1>2. QED
    BY <1>1, PositionSafety, PTL

\* If the process dies at any moment of a session the next one resumes where the
\* last spoken chunk ended.
THEOREM CrashSafety == Spec => []CrashResumesAtDurable
PROOF
  <1>1. TypeInv /\ IndInv /\ PositionInv => CrashResumesAtDurable
    BY DEF PositionInv, SessionOnRunes, ResumesAt, CrashResumesAtDurable
  <1>2. QED
    BY <1>1, PositionSafety, PTL

\* The durable position of a session never falls, but to 0 at the end of the
\* book.
THEOREM DurableRises == Spec => DurableNeverMovesBack
PROOF
  <1>1. TypeInv /\ IndInv /\ PositionInv /\ [Next]_vars =>
          [active # NoSession /\ durablePosition' < durablePosition =>
             durablePosition = Size[book.id] /\ durablePosition' = 0]_vars
    <2> SUFFICES ASSUME TypeInv, IndInv, PositionInv, Next, active # NoSession,
                        durablePosition' < durablePosition
                 PROVE  durablePosition = Size[book.id] /\ durablePosition' = 0
      BY DEF vars, playback, managerVars
    <2>1. active \in Sessions /\ Running(active)
      BY DEF TypeInv, TypeOK, ManagerOK, IndInv, SingleOwner
    <2>2. PICK s \in Sessions : s = active
      BY <2>1
    <2>3. /\ durablePosition = pos[s] /\ book = source[s] /\ pos[s] \in Nat
          /\ \A t \in Sessions : Running(t) => t = s
          /\ \A c \in Calls : step[c] # "commit"
      BY <2>1, <2>2, RunningFacts DEF IndInv, SingleOwner, CommandHasIdleManager
    <2>4. durablePosition' # durablePosition
      BY <2>3
    <2>5. \E t \in Sessions : MarkDurablePosition(t) \/ Finalize(t)
      <3>1. ~\E c \in Calls : CallStep(c)
        BY <2>3, <2>4
           DEF CallStep, Acquire, GiveUp, Cleanup, Return, CheckIdle, Inspect,
               CheckBoundary, AcquireLease, Load, CommitStart, SavePosition, CommitPosition,
               Pause, Resume, StopMark, StopCancel, StopEngine, StopWait,
               MarkIdle, MarkStopping, playback, managerVars
      <3>2. ~Environment
        BY <2>4 DEF Environment, BeginShutdown, BeginCall, Expire, Edit,
                    OtherAcquire, OtherSave, OtherRelease, playback, commands,
                    managerVars
      <3>3. PICK t \in Sessions : WorkerStep(t)
        BY <3>1, <3>2 DEF Next
      <3>4. MarkDurablePosition(t) \/ Finalize(t)
        BY <2>4, <3>3
           DEF WorkerStep, Open, Sleep, WaitUntilPlayable, Read, CheckChunk,
               AdmitChunk, BeginSpeak, EndSpeak, SaveProgress, UpdateProgress,
               ValidateAtEOF, CloseDone, commands, managerVars
      <3>5. QED
        BY <3>4
    <2>6. PICK t \in Sessions : MarkDurablePosition(t) \/ Finalize(t)
      BY <2>5
    <2>7. t = s
      BY <2>3, <2>6 DEF MarkDurablePosition, Finalize, Running
    <2>8. CASE MarkDurablePosition(s)
      <3>1. end[s] > pos[s] /\ end[s] \in Boundaries[source[s].id][source[s].ver]
        BY <2>8 DEF MarkDurablePosition, PositionInv, WorkersOnRunes,
                    WorkerOnRunes, HoldsChunk, ChunkRegistered
      <3>2. end[s] \in Nat
        BY <2>1, <2>2, <3>1, RunningFacts, BookAssumption
      <3>3. QED
        BY <2>2, <2>3, <2>8, <3>1, <3>2 DEF MarkDurablePosition, DurableAfter
    <2>9. CASE Finalize(s)
      <3>1. PICK ok, closed \in BOOLEAN : EndSession(s, ok, closed)
        BY <2>2, <2>9 DEF Finalize
      <3>2. durablePosition' = Ending(s, ok).durable
        BY <3>1 DEF EndSession, AfterClose
      <3>3. Outcome(s) = "failed" => result[s].position = pos[s]
        BY <2>1, <2>2, <2>9 DEF Finalize, Outcome, PositionInv, SessionOnRunes
      <3>4. Outcome(s) = "finished"
        BY <2>3, <2>4, <3>2, <3>3
           DEF Ending, FailedEnding, StoppedEnding, StopPosition
      <3>5. result[s].state = "finished"
        BY <3>4 DEF Outcome
      <3>6. pos[s] = Size[source[s].id]
        BY <3>5 DEF PositionInv, WorkersOnRunes, WorkerOnRunes
      <3>7. durablePosition' = 0
        BY <2>4, <3>2, <3>4 DEF Ending, FinishedEnding
      <3>8. QED
        BY <2>3, <3>6, <3>7
    <2>10. QED
      BY <2>6, <2>7, <2>8, <2>9
  <1>2. QED
    BY <1>1, PositionSafety, PTL DEF Spec, DurableNeverMovesBack
-----------------------------------------------------------------------------
(* Who waits for whom *)

\* A call moves nobody else.
LEMMA OthersStay ==
    ASSUME CallOK, NEW c \in Calls, NEW d \in Calls \ {c},
           CallStep(c) \/ BeginCall(c) \/ Expire(c)
    PROVE  /\ step'[d] = step[d] /\ op'[d] = op[d]
           /\ target'[d] = target[d] /\ reply'[d] = reply[d]
PROOF
  <1>1. CASE Acquire(c) \/ GiveUp(c) \/ Cleanup(c) \/ Return(c) \/ Pause(c)
               \/ Resume(c) \/ BeginCall(c) \/ Expire(c)
    BY <1>1 DEF CallOK, Acquire, GiveUp, Cleanup, Return, Pause, Resume, BeginCall,
                Expire, Goto, ReplyFrom, request
  <1>2. CASE StopMark(c) \/ StopCancel(c) \/ StopEngine(c) \/ StopWait(c)
    BY <1>2 DEF CallOK, StopMark, StopCancel, StopEngine, StopWait, Goto, ReplyFrom,
                request
  <1>3. CASE \/ CheckIdle(c) \/ Inspect(c) \/ CheckBoundary(c)
             \/ AcquireLease(c) \/ Load(c)
             \/ CommitStart(c) \/ SavePosition(c) \/ CommitPosition(c)
    BY <1>3 DEF CallOK, CheckIdle, Inspect, CheckBoundary, AcquireLease, Load, CommitStart,
                SavePosition, CommitPosition, Goto, ReplyFrom, request
  <1>4. QED
    BY <1>1, <1>2, <1>3 DEF CallStep

\* Nor do workers, the environment and the shutdown flag.
LEMMA CallsStay ==
    ASSUME \/ \E s \in Sessions : WorkerStep(s)
           \/ \E b \in Books : Edit(b) \/ OtherAcquire(b) \/ OtherSave(b)
                                 \/ OtherRelease(b)
           \/ BeginShutdown
    PROVE  UNCHANGED callVars
PROOF
  <1>1. ASSUME NEW s \in Sessions, WorkerStep(s) PROVE UNCHANGED callVars
    BY <1>1 DEF WorkerStep, Open, Sleep, WaitUntilPlayable, Read, CheckChunk,
                AdmitChunk, BeginSpeak, EndSpeak, SaveProgress, MarkDurablePosition,
                UpdateProgress, ValidateAtEOF, Finalize, CloseDone, commands
  <1>2. QED
    BY <1>1 DEF Edit, OtherAcquire, OtherSave, OtherRelease, BeginShutdown, commands

\* What was marked to be stopped stays so.
LEMMA StopStartedGrows ==
    ASSUME [Next]_vars PROVE stopStarted \subseteq stopStarted'
PROOF
  <1>1. ASSUME NEW s \in Sessions, WorkerStep(s) PROVE UNCHANGED stopStarted
    BY <1>1 DEF WorkerStep, Open, Sleep, WaitUntilPlayable, Read, CheckChunk,
                AdmitChunk, BeginSpeak, EndSpeak, SaveProgress, MarkDurablePosition,
                UpdateProgress, ValidateAtEOF, Finalize, CloseDone, commands,
                sessionVars
  <1>2. CASE Environment
    BY <1>2 DEF Environment, BeginShutdown, BeginCall, Expire, Edit, OtherAcquire,
                OtherSave, OtherRelease, commands, playback, sessionVars
  <1>3. ASSUME NEW c \in Calls, CallStep(c) PROVE stopStarted \subseteq stopStarted'
    <2>1. CASE StopMark(c)
      BY <2>1 DEF StopMark, MarkStopping
    <2>2. CASE StopCancel(c) \/ StopEngine(c) \/ StopWait(c) \/ Acquire(c)
                 \/ GiveUp(c) \/ Cleanup(c) \/ Return(c) \/ Pause(c) \/ Resume(c)
      BY <2>2 DEF StopCancel, StopEngine, StopWait, Acquire, GiveUp, Cleanup, Return,
                  Pause, Resume, playback, sessionVars
    <2>3. CASE \/ CheckIdle(c) \/ Inspect(c) \/ CheckBoundary(c)
               \/ AcquireLease(c) \/ Load(c)
               \/ CommitStart(c) \/ SavePosition(c) \/ CommitPosition(c)
      BY <2>3 DEF CheckIdle, Inspect, CheckBoundary, AcquireLease, Load, CommitStart,
                  SavePosition, CommitPosition, playback, sessionVars
    <2>4. QED
      BY <1>3, <2>1, <2>2, <2>3 DEF CallStep
  <1>4. CASE UNCHANGED vars
    BY <1>4 DEF vars, playback, sessionVars
  <1>5. QED
    BY <1>1, <1>2, <1>3, <1>4 DEF Next

\* What the worker of s does to the things that others wait for.
LEMMA WorkerWaits ==
    ASSUME WorkerOK, NEW s \in Sessions, WorkerStep(s)
    PROVE  /\ UNCHANGED <<gate, stopStarted, stopFinished, nextID>>
           /\ WorkersTellTheirEnd => WorkersTellTheirEnd'
PROOF
  <1> USE DEF WorkersTellTheirEnd, WorkerOK, WorkerGoto, commands, control, managerVars, sessionVars
  <1>1. CASE Open(s) \/ ValidateAtEOF(s)
    BY <1>1 DEF Open, ValidateAtEOF, Continue, FinishUnlessCancelled, Finish
  <1>2. CASE Sleep(s) \/ WaitUntilPlayable(s) \/ Read(s) \/ CheckChunk(s)
    BY <1>2 DEF Sleep, WaitUntilPlayable, Read, CheckChunk, Continue, Finish
  <1>3. CASE AdmitChunk(s) \/ BeginSpeak(s) \/ EndSpeak(s) \/ SaveProgress(s)
    BY <1>3 DEF AdmitChunk, BeginSpeak, EndSpeak, SaveProgress, Continue, Finish
  <1>4. CASE MarkDurablePosition(s) \/ UpdateProgress(s)
    BY <1>4 DEF MarkDurablePosition, UpdateProgress
  <1>5. CASE Finalize(s)
    BY <1>5 DEF Finalize, EndSession
  <1>6. CASE CloseDone(s)
    BY <1>6 DEF CloseDone
  <1>7. QED
    BY <1>1, <1>2, <1>3, <1>4, <1>5, <1>6 DEF WorkerStep

\* What a call may do without anybody waiting in vain: it leaves the gate to the
\* others, waits only for what is told to stop, and does not leave a session it
\* has marked before engine.Stop has returned.
LEMMA CallGoesOn ==
    ASSUME WaitInv, NEW c \in Calls,
           \A d \in Calls \ {c} : /\ step'[d] = step[d] /\ target'[d] = target[d]
                                  /\ gate' = d => gate = d,
           gate' = c => step'[c] \notin {"idle", "lock"},
           step'[c] = "wait" => target'[c] \in stopStarted',
           stopStarted \subseteq stopStarted',
           \A s \in stopStarted' \ stopFinished' :
              \/ /\ s \in stopStarted \ stopFinished
                 /\ step[c] \in {"cancel", "engine"} => target[c] # s
              \/ step'[c] \in {"cancel", "engine"} /\ target'[c] = s,
           WorkersTellTheirEnd'
    PROVE  WaitInv'
PROOF
  <1>1. GateIsLeft'
    BY DEF WaitInv, GateIsLeft
  <1>2. WaitersFollowStop'
    BY DEF WaitInv, WaitersFollowStop
  <1>3. StopsAreDriven'
    <2> SUFFICES ASSUME NEW s \in stopStarted' \ stopFinished' PROVE StopAtWork(s)'
      BY DEF StopsAreDriven
    <2>1. CASE step'[c] \in {"cancel", "engine"} /\ target'[c] = s
      BY <2>1 DEF StopAtWork
    <2>2. CASE /\ s \in stopStarted \ stopFinished
               /\ step[c] \in {"cancel", "engine"} => target[c] # s
      <3>1. PICK d \in Calls : step[d] \in {"cancel", "engine"} /\ target[d] = s
        BY <2>2 DEF WaitInv, StopsAreDriven, StopAtWork
      <3>2. d # c
        BY <2>2, <3>1
      <3>3. QED
        BY <3>1, <3>2 DEF StopAtWork
    <2>3. QED
      BY <2>1, <2>2
  <1>4. QED
    BY <1>1, <1>2, <1>3 DEF WaitInv

\* Each step of a call is of that kind.
LEMMA CallWaits ==
    ASSUME TypeInv, IndInv, WaitInv, NEW c \in Calls, CallStep(c)
    PROVE  WaitInv'
PROOF
  <1>0. /\ CallOK /\ ManagerOK /\ SessionOK /\ WorkerOK /\ CallsWellFormed
        /\ StopOwnsItsSession /\ GateIsLeft /\ WorkersTellTheirEnd
    BY DEF TypeInv, TypeOK, IndInv, WaitInv
  <1>1. \A d \in Calls \ {c} : step'[d] = step[d] /\ target'[d] = target[d]
    BY <1>0, OthersStay
  <1>2. ASSUME UNCHANGED <<pc, nextID, done>> PROVE WorkersTellTheirEnd'
    BY <1>0, <1>2 DEF WorkersTellTheirEnd
  <1>3. CASE \/ GiveUp(c) \/ Cleanup(c) \/ CheckIdle(c) \/ Inspect(c)
             \/ CheckBoundary(c) \/ AcquireLease(c) \/ Load(c) \/ SavePosition(c)
             \/ CommitPosition(c) \/ Pause(c) \/ Resume(c)
    <2>1. /\ UNCHANGED <<gate, stopStarted, stopFinished, pc, nextID, done>>
          /\ step[c] \notin {"wait", "cancel", "engine"}
          /\ step'[c] \notin {"idle", "lock", "wait", "cancel", "engine"}
      <3> USE <1>0 DEF CallOK, ReplyFrom, Goto, control, playback, managerVars,
                       sessionVars, workerVars, request
      <3>1. CASE GiveUp(c) \/ Cleanup(c) \/ CheckIdle(c) \/ Pause(c) \/ Resume(c)
        BY <3>1 DEF GiveUp, Cleanup, CheckIdle, Pause, Resume
      <3>2. CASE \/ Inspect(c) \/ CheckBoundary(c) \/ AcquireLease(c) \/ Load(c)
                 \/ SavePosition(c) \/ CommitPosition(c)
        BY <3>2 DEF Inspect, CheckBoundary, AcquireLease, Load, SavePosition,
                    CommitPosition
      <3>3. QED
        BY <1>3, <3>1, <3>2
    <2>2. QED
      BY <1>1, <1>2, <2>1, CallGoesOn
  <1>4. CASE CommitStart(c)
    <2>1. /\ UNCHANGED <<gate, stopStarted, stopFinished, done>>
          /\ step[c] = "commit" /\ step'[c] \in {"unlock", "cleanup"}
      BY <1>0, <1>4 DEF CommitStart, ReplyFrom, CallOK, control, sessionVars
    <2>2. WorkersTellTheirEnd'
      <3>1. CASE UNCHANGED <<pc, nextID>>
        BY <1>2, <2>1, <3>1
      <3>2. CASE StartSession(c)
        <4>1. /\ nextID' = nextID + 1 /\ pc' = [pc EXCEPT ![nextID + 1] = "open"]
              /\ nextID \in Nat
          BY <1>0, <3>2, ConstantFacts DEF StartSession, ManagerOK, Sessions
        <4>2. QED
          BY <1>0, <2>1, <4>1 DEF WorkersTellTheirEnd, WorkerOK, Sessions
      <3>3. QED
        BY <1>4, <3>1, <3>2 DEF CommitStart, managerVars
    <2>3. QED
      BY <1>1, <2>1, <2>2, CallGoesOn
  <1>5. CASE Acquire(c)
    <2>1. /\ gate' = c /\ step[c] = "lock"
          /\ UNCHANGED <<stopStarted, stopFinished, pc, nextID, done>>
          /\ step'[c] \in {"unlock", "check", "mark", "apply"}
      BY <1>0, <1>5 DEF Acquire, FirstStep, ReplyFrom, Goto, CallOK, playback,
                        managerVars, sessionVars, workerVars
    <2>2. QED
      BY <1>1, <1>2, <2>1, CallGoesOn
  <1>6. CASE Return(c)
    <2>1. /\ gate' # c /\ gate' \in {gate, Nobody} /\ step[c] = "unlock"
          /\ step'[c] = "idle"
          /\ UNCHANGED <<stopStarted, stopFinished, pc, nextID, done>>
      BY <1>0, <1>6, NameFacts DEF Return, GateWithout, Goto, CallOK, playback,
                                   managerVars, sessionVars, workerVars
    <2>2. \A d \in Calls \ {c} : gate' = d => gate = d
      BY <2>1, NameFacts
    <2>3. QED
      BY <1>1, <1>2, <2>1, <2>2, CallGoesOn
  <1>7. CASE StopMark(c)
    <2>1. /\ UNCHANGED <<gate, stopFinished, pc, nextID, done>>
          /\ target'[c] = active /\ step[c] = "mark"
      BY <1>0, <1>7 DEF StopMark, MarkIdle, MarkStopping, CallOK, control,
                        managerVars
    <2>2. \/ UNCHANGED stopStarted /\ step'[c] = "unlock"
          \/ stopStarted' = stopStarted \cup {active} /\ step'[c] = "cancel"
          \/ UNCHANGED stopStarted /\ active \in stopStarted /\ step'[c] = "wait"
      BY <1>0, <1>7 DEF StopMark, MarkStopping, ReplyFrom, Goto, CallOK
    <2>3. QED
      BY <1>1, <1>2, <2>1, <2>2, CallGoesOn
  <1>8. CASE StopCancel(c)
    <2>1. /\ UNCHANGED <<gate, stopStarted, stopFinished, pc, nextID, done, target>>
          /\ step[c] = "cancel" /\ step'[c] = "engine"
      BY <1>0, <1>8 DEF StopCancel, Goto, CallOK, control, managerVars, workerVars,
                        request
    <2>2. QED
      BY <1>1, <1>2, <2>1, CallGoesOn
  <1>9. CASE StopEngine(c)
    <2>1. /\ UNCHANGED <<gate, stopStarted, pc, nextID, done, target>>
          /\ stopFinished' = stopFinished \cup {target[c]}
          /\ step[c] = "engine" /\ step'[c] = "wait"
      BY <1>0, <1>9 DEF StopEngine, Goto, CallOK, control, managerVars, workerVars,
                        request
    <2>2. target[c] \in stopStarted
      BY <1>0, <2>1 DEF StopOwnsItsSession
    <2>3. QED
      BY <1>1, <1>2, <2>1, <2>2, CallGoesOn
  <1>10. CASE StopWait(c)
    <2>1. /\ UNCHANGED <<gate, stopStarted, stopFinished, pc, nextID, done>>
          /\ step[c] = "wait" /\ step'[c] = "unlock"
      BY <1>0, <1>10 DEF StopWait, ReplyFrom, CallOK, control, playback,
                         managerVars, sessionVars, workerVars
    <2>2. QED
      BY <1>1, <1>2, <2>1, CallGoesOn
  <1>11. QED
    BY <1>3, <1>4, <1>5, <1>6, <1>7, <1>8, <1>9, <1>10 DEF CallStep

\* A call that enters has nothing that anybody waits for.
LEMMA EnvironmentWaits ==
    ASSUME TypeInv, WaitInv, Environment PROVE WaitInv'
PROOF
  <1>0. CallOK /\ CallsWellFormed
    BY DEF TypeInv, TypeOK
  <1>1. UNCHANGED <<gate, stopStarted, stopFinished, pc, nextID, done, target>>
    BY DEF Environment, BeginShutdown, BeginCall, Expire, Edit, OtherAcquire,
           OtherSave, OtherRelease, commands, control, callVars, request, playback,
           managerVars, sessionVars, workerVars
  <1>2. WorkersTellTheirEnd'
    BY <1>1 DEF WaitInv, WorkersTellTheirEnd
  <1>3. ASSUME NEW c \in Calls, BeginCall(c) PROVE WaitInv'
    <2>1. \A d \in Calls \ {c} : step'[d] = step[d] /\ target'[d] = target[d]
      BY <1>0, <1>3, OthersStay
    <2>2. step[c] = "idle" /\ step'[c] \in {"mark", "lock"} /\ gate # c
      BY <1>0, <1>3 DEF BeginCall, Goto, CallOK, WaitInv, GateIsLeft
    <2>3. QED
      BY <1>1, <1>2, <2>1, <2>2, CallGoesOn
  <1>4. CASE UNCHANGED step
    BY <1>1, <1>2, <1>4 DEF WaitInv, GateIsLeft, WaitersFollowStop, StopsAreDriven,
                            StopAtWork
  <1>5. QED
    BY <1>3, <1>4 DEF Environment, BeginShutdown, Expire, Edit, OtherAcquire,
                      OtherSave, OtherRelease, commands, callVars

\* Every step keeps who waits for whom in order.
LEMMA WaitNext ==
    ASSUME TypeInv, IndInv, WaitInv, [Next]_vars PROVE WaitInv'
PROOF
  <1>1. ASSUME NEW s \in Sessions, WorkerStep(s) PROVE WaitInv'
    <2>1. UNCHANGED <<step, target>>
      BY <1>1, CallsStay DEF callVars, request
    <2>2. /\ UNCHANGED <<gate, stopStarted, stopFinished>>
          /\ WorkersTellTheirEnd'
      BY <1>1, WorkerWaits DEF TypeInv, TypeOK, WaitInv
    <2>3. QED
      BY <2>1, <2>2 DEF WaitInv, GateIsLeft, WaitersFollowStop, StopsAreDriven,
                        StopAtWork
  <1>2. CASE UNCHANGED vars
    BY <1>2 DEF vars, control, playback, managerVars, sessionVars, workerVars,
                callVars, request, WaitInv, GateIsLeft, WaitersFollowStop,
                StopsAreDriven, StopAtWork, WorkersTellTheirEnd
  <1>3. QED
    BY <1>1, <1>2, CallWaits, EnvironmentWaits DEF Next

LEMMA WaitInit == Init => WaitInv
PROOF
  <1> SUFFICES ASSUME Init PROVE WaitInv
    OBVIOUS
  <1>1. /\ gate = Nobody /\ nextID = 0 /\ stopStarted = {}
        /\ \A s \in Sessions : pc[s] = "none" /\ s > 0
        /\ \A c \in Calls : step[c] = "idle" /\ c # Nobody
    BY NameFacts DEF Init, Sessions
  <1>2. \A s \in Sessions : ~(s <= nextID)
    BY <1>1 DEF Sessions
  <1>3. QED
    BY <1>1, <1>2 DEF WaitInv, GateIsLeft, WaitersFollowStop, StopsAreDriven,
                      WorkersTellTheirEnd

\* Nobody waits in vain, in any interleaving of any number of commands: a worker
\* that sleeps must sleep; controlMu is held by somebody who is past the wait
\* for it; and a Stop waits for a session that goes on by itself, or whose Stop
\* goes on.  This is the part of StopCompletes and CallsReturn that needs no
\* fairness: a circle in which the finalizer waits for stopDone, the Stop for
\* the worker and the worker for a Resume never closes.
THEOREM NoWaitCycle == Spec => []NobodyWaitsInVain
PROOF
  <1>1. ASSUME TypeInv, IndInv, WaitInv PROVE NobodyWaitsInVain
    <2>1. ASSUME NEW s \in stopStarted \ done PROVE GoesOn(s) \/ StopAtWork(s)
      <3>1. /\ s \in Sessions /\ nextID \in Sessions \cup {NoSession}
            /\ SessionsInOrder /\ StopFlags /\ NoLostWakeup
        BY <1>1, <2>1 DEF TypeInv, TypeOK, SessionOK, ManagerOK, IndInv
      <3>2. s <= nextID
        BY <2>1, <3>1, ConstantFacts DEF SessionsInOrder, Sessions
      <3>3. pc[s] \notin {"none", "dead"}
        BY <1>1, <2>1, <3>1, <3>2 DEF WaitInv, WorkersTellTheirEnd
      <3>4. s \notin sleeping
        BY <2>1, <3>1, NameFacts DEF NoLostWakeup, MustSleep, StopFlags
      <3>5. StopPending(s) => StopAtWork(s)
        BY <1>1, <2>1 DEF StopPending, WaitInv, StopsAreDriven
      <3>6. QED
        BY <3>3, <3>4, <3>5 DEF GoesOn
    <2>2. QED
      BY <1>1, <2>1 DEF NobodyWaitsInVain, IndInv, WaitInv, GateIsLeft,
                        WaitersFollowStop
  <1>2. Init => TypeInv /\ IndInv /\ WaitInv
    BY TypeInit, IndInit, WaitInit
  <1>3. TypeInv /\ IndInv /\ WaitInv /\ [Next]_vars => (TypeInv /\ IndInv /\ WaitInv)'
    BY TypeNext, IndNext, WaitNext
  <1>4. QED
    BY <1>1, <1>2, <1>3, PTL DEF Spec
=============================================================================
