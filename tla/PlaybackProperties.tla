------------------------- MODULE PlaybackProperties -------------------------
(***************************************************************************)
(* What is required of the playback manager of PlaybackManager.            *)
(***************************************************************************)
EXTENDS PlaybackManager

-----------------------------------------------------------------------------
(* Invariants *)

Copies == [id : Books \cup {NoBook}, ver : Versions]
Snapshots == [state : States, book : Books \cup {NoBook}, byte : Offsets,
              code : Errors]
Results == [state : {"none", "stopped", "finished", "failed"},
            position : Offsets, err : Errors]
Arguments == [id : Books \cup {NoBook}, ver : Versions, pos : Positions]

\* Every variable has its type.
ControlOK == gate \in Calls \cup {Nobody} /\ shuttingDown \in BOOLEAN

ManagerOK ==
    /\ state \in States /\ book \in Copies
    /\ currentByte \in Offsets /\ durablePosition \in Offsets
    /\ lastErr \in Errors
    /\ nextID \in Sessions \cup {NoSession}
    /\ active \in Sessions \cup {NoSession} /\ active <= nextID
    /\ event \in [type : EventTypes, snapshot : Snapshots]

SessionOK ==
    /\ cancelled \subseteq Sessions /\ stopStarted \subseteq Sessions
    /\ stopFinished \subseteq Sessions /\ engineStopErr \subseteq Sessions
    /\ done \subseteq Sessions
    /\ finalErr \in [Sessions -> Errors]

WorkerOK ==
    /\ pc \in [Sessions -> PCs]
    /\ sleeping \subseteq Sessions
    /\ source \in [Sessions -> Copies]
    /\ pos \in [Sessions -> Offsets] /\ edited \subseteq Sessions
    /\ end \in [Sessions -> Positions]
    /\ text \in [Sessions -> {"none", "registered", "edited"}]
    /\ result \in [Sessions -> Results]

CallOK ==
    /\ step \in [Calls -> Steps] /\ reply \in [Calls -> Replies]
    /\ op \in [Calls -> Ops] /\ arg \in [Calls -> Arguments]
    /\ target \in [Calls -> Sessions \cup {NoSession}]
    /\ expired \subseteq Calls

DiskOK ==
    /\ file \in [Books -> Versions]
    /\ saved \in [Books -> [ver : Versions \cup {-1}, pos : Offsets]]
    /\ lease \in [Books -> {Free, Other} \cup Calls \cup Sessions]

TypeOK == ControlOK /\ ManagerOK /\ SessionOK /\ WorkerOK /\ CallOK /\ DiskOK

\* A session is active exactly while the state is a live one, so that the
\* "active" and "stopping" refusals never contradict the snapshot a client has.
ActiveMatchesState == active # NoSession <=> state \in LiveStates

\* A worker that has not been finalised belongs to the active session: never
\* two workers, never an active session without the worker that will end it.
Running(s) == pc[s] \notin {"none", "close", "dead"}
SingleOwner == \A s \in Sessions : Running(s) <=> active = s

\* The progress lease of a book is a session's exactly while that session is
\* active on it: a terminal event is never seen before the lease is free.
LeaseFollowsSession ==
    \A s \in Sessions, b \in Books :
        lease[b] = s <=> active = s /\ source[s].id = b

\* Start and SetPosition never meet a lease of this very process, so "in_use"
\* (HTTP 409) always means another process.
NoSelfInUse ==
    \A c \in Calls : step[c] = "lease" => lease[arg[c].id] \in {Free, Other}

\* From its idle check to its last step a Start or a SetPosition has the manager
\* for itself: no session runs whose position or progress file it could move.
CommandHasIdleManager ==
    \A c \in Calls :
        step[c] \in {"inspect", "boundary", "lease", "load", "save", "commit"} =>
            /\ gate = c
            /\ active = NoSession /\ state \notin LiveStates

\* No lost wake-up: a worker in cond.Wait is one that must wait, whatever
\* Resume, Stop and cancellation did since it looked.
NoLostWakeup ==
    \A s \in sleeping : pc[s] \in {"wait", "admit"} /\ MustSleep(s)

\* Between the first critical section of Stop and the return of engine.Stop the
\* session cannot be finalised, and no second Stop cancels it.
StopOwnsItsSession ==
    \A c \in Calls :
        step[c] \in {"cancel", "engine"} =>
            /\ active = target[c] /\ state = "stopping"
            /\ target[c] \in stopStarted \ stopFinished
            /\ \A d \in Calls \ {c} :
                 step[d] \in {"cancel", "engine"} => target[d] # target[c]

\* A Stop that does not answer "stopping" found its session over: nothing is
\* spoken and nothing saved for it any more.
StopAnswersTruly ==
    \A c \in Calls :
        op[c] = "stop" /\ step[c] = "unlock" /\ target[c] # NoSession
            /\ reply[c] # "stopping" => ~Running(target[c])

\* The worker of s has a next step to take: it is not in cond.Wait, nor in the
\* loop on stopDone.
GoesOn(s) ==
    /\ pc[s] \notin {"none", "dead"} /\ s \notin sleeping
    /\ ~(pc[s] = "finalize" /\ active = s /\ StopPending(s))

\* A Stop is on its way through s, where it waits for nothing but the engine.
StopAtWork(s) ==
    \E c \in Calls : step[c] \in {"cancel", "engine"} /\ target[c] = s

\* Nobody waits in vain: no worker sleeps that need not; whoever holds
\* controlMu has left the wait for it and gives it back when it returns; who
\* waits for a session waits for one that is told to stop; and such a session
\* goes on by itself, or waits for a Stop that does.
NobodyWaitsInVain ==
    /\ NoLostWakeup
    /\ \A c \in Calls : gate = c => step[c] \notin {"idle", "lock"}
    /\ \A c \in Calls : step[c] = "wait" => target[c] \in stopStarted
    /\ \A s \in stopStarted \ done : GoesOn(s) \/ StopAtWork(s)

\* Every change of what a snapshot shows is announced in the critical section
\* that made it: the last event always shows the manager as it is.
AnnouncedIsCurrent == event.snapshot = Snapshot

\* A failed session has an error to show, a session that plays, is paused, is
\* stopping or has finished shows none.
ErrorMatchesState ==
    /\ state = "failed" => lastErr # "none"
    /\ state \in LiveStates \cup {"finished"} => lastErr = "none"

\* Only the text of the registered version of the book is ever spoken, in
\* chunks that start and end on rune boundaries of that version, whenever the
\* file is edited and whatever position was saved for it.
SpokenIsRegistered ==
    \A s \in Sessions : pc[s] \in {"speak", "speaking"} =>
        /\ text[s] = "registered"
        /\ {pos[s], end[s]} \subseteq Boundaries[source[s].id][source[s].ver]
        /\ end[s] > pos[s]

\* A session finishes only when every byte of the book was played, even if an
\* edit made its open file end early.
FinishedMeansWholeBook ==
    \A s \in Sessions :
        result[s].state = "finished" => pos[s] = Size[source[s].id]

\* Position p of version v of b starts a rune, or v is no longer at the path.
OnRune(b, v, p) == v < file[b] \/ p \in Boundaries[b][v]

\* The positions shown and saved for the version of a book that is at its path
\* are rune boundaries of it.  An edit between the inspection of SetPosition and
\* its look at the byte may leave a position inside a rune, but only for a
\* version that is gone and that every Start refuses.
PositionsOnRunes ==
    /\ book.id \in Books =>
         \A p \in {currentByte, durablePosition} : OnRune(book.id, book.ver, p)
    /\ \A b \in Books : OnRune(b, saved[b].ver, saved[b].pos)

Again(b, p) == IF p = Size[b] THEN 0 ELSE p

\* A crash at any moment of a session resumes where the last spoken chunk
\* ended; only between Save and markDurablePosition is the file ahead.
CrashResumesAtDurable ==
    active # NoSession =>
        LET b == book.id IN
        /\ saved[b] = NoFile \/ saved[b].ver = book.ver
        /\ ResumePoint(b, saved[b]) \in
             {Again(b, durablePosition)} \cup
               (IF pc[active] = "mark" THEN {Again(b, end[active])} ELSE {})

-----------------------------------------------------------------------------
(* The inductive invariant behind the invariants above *)

Preparing(c) ==
    step[c] \in {"check", "inspect", "boundary", "lease", "load", "save", "commit"}

\* What a call in flight carries at each of its steps.
CallsWellFormed ==
    \A c \in Calls :
        /\ step[c] = "idle" <=> op[c] = "none"
        /\ op[c] \in {"start", "set"} => arg[c].id \in Books
        /\ Preparing(c) \/ step[c] = "cleanup" => op[c] \in {"start", "set"}
        /\ step[c] \in {"mark", "cancel", "engine", "wait"} => op[c] = "stop"
        /\ step[c] = "boundary" => op[c] = "set"
        /\ step[c] \in {"lock", "check", "inspect"} /\ op[c] = "start" =>
             arg[c].pos = 0
        /\ step[c] \in {"lease", "load", "save", "commit"} =>
             arg[c].pos \in Offsets
        /\ step[c] \in {"cancel", "engine", "wait"} => target[c] \in Sessions
        /\ step[c] \in {"idle", "lock", "mark"} => target[c] = NoSession
        /\ target[c] <= nextID

\* What a worker carries at each of its steps.
WorkersWellFormed ==
    \A s \in Sessions :
        /\ Running(s) => source[s].id \in Books
        /\ pc[s] \in {"admit", "speak", "speaking", "save", "mark"} =>
             end[s] \in Offsets
        /\ result[s].state = "failed" => result[s].err # "none"

\* Sessions not started yet have nothing; sessions done have ended.
SessionsInOrder ==
    \A s \in Sessions :
        /\ s > nextID => /\ pc[s] = "none"
                         /\ s \notin cancelled \cup stopStarted \cup stopFinished
        /\ s \in done => pc[s] = "dead"

\* The flags of a session follow the order in which Stop raises them.
StopFlags ==
    /\ cancelled \subseteq stopStarted /\ stopFinished \subseteq stopStarted
    /\ active # NoSession => (active \in stopStarted <=> state = "stopping")

\* A worker gives up as "stopped" only in a session that is being stopped.
StoppedOnlyWhenStopping ==
    \A s \in Sessions :
        pc[s] = "finalize" /\ result[s].state \notin {"finished", "failed"} =>
            state = "stopping"

\* Who is past its idle check holds the gate, and a lease held by a call is
\* that of the book it is about.
GateOfCommands ==
    \A c \in Calls : Preparing(c) \/ step[c] = "cleanup" => gate = c
LeasesOfCommands ==
    \A c \in Calls, b \in Books :
        lease[b] = c => /\ step[c] \in {"load", "save", "commit", "cleanup"}
                        /\ arg[c].id = b

TypeInv == TypeOK /\ CallsWellFormed /\ WorkersWellFormed

IndInv ==
    /\ ActiveMatchesState /\ SingleOwner
    /\ SessionsInOrder /\ StopFlags /\ StoppedOnlyWhenStopping
    /\ GateOfCommands /\ LeasesOfCommands /\ LeaseFollowsSession
    /\ CommandHasIdleManager
    /\ NoLostWakeup /\ StopOwnsItsSession /\ StopAnswersTruly
    /\ AnnouncedIsCurrent /\ ErrorMatchesState

-----------------------------------------------------------------------------
(* The inductive invariant behind who waits for whom *)

GateIsLeft == \A c \in Calls : gate = c => step[c] \notin {"idle", "lock"}
WaitersFollowStop == \A c \in Calls : step[c] = "wait" => target[c] \in stopStarted

\* A Stop that has not left engine.Stop is still there to do so.
StopsAreDriven == \A s \in stopStarted \ stopFinished : StopAtWork(s)

\* A session that was started has a worker until its end is told.
WorkersTellTheirEnd ==
    \A s \in Sessions : /\ s <= nextID => pc[s] # "none"
                        /\ pc[s] = "dead" => s \in done

WaitInv == GateIsLeft /\ WaitersFollowStop /\ StopsAreDriven /\ WorkersTellTheirEnd

-----------------------------------------------------------------------------
(* The inductive invariant behind the properties of positions *)

\* The progress file of b is of version v, if there is one, and a session that
\* loads it begins at p.
ResumesAt(b, v, p) ==
    /\ saved[b] = NoFile \/ saved[b].ver = v
    /\ ResumePoint(b, saved[b]) = Again(b, p)

\* A Start or a SetPosition has a position of its book that nobody can move in
\* the progress file, for it holds the lease.
CallOnRunes(c) ==
    /\ arg[c].id \in Books => arg[c].ver <= file[arg[c].id]
    /\ step[c] \in {"lease", "load", "save", "commit"} =>
         OnRune(arg[c].id, arg[c].ver, arg[c].pos)
    /\ step[c] \in {"load", "save", "commit"} => lease[arg[c].id] = c
    /\ step[c] = "save" => op[c] = "set"
    /\ step[c] = "commit" /\ op[c] = "start" =>
         ResumesAt(arg[c].id, arg[c].ver, arg[c].pos)

HoldsChunk(s) == pc[s] \in {"check", "admit", "speak", "speaking", "save", "mark"}
ChunkRegistered(s) ==
    /\ text[s] = "registered"
    /\ end[s] \in Boundaries[source[s].id][source[s].ver] /\ end[s] > pos[s]

\* A worker that has opened its book stands on a rune of it; what it has read
\* is a chunk of the registered version, unless it has still to find the file
\* edited.
WorkerOnRunes(s) ==
    /\ Running(s) => /\ OnRune(source[s].id, source[s].ver, pos[s])
                     /\ source[s].ver <= file[source[s].id]
    /\ Running(s) /\ pc[s] \notin {"open", "finalize"} =>
         pos[s] \in Boundaries[source[s].id][source[s].ver]
    /\ s \in edited => /\ pc[s] # "none"
                       /\ Running(s) => source[s].ver < file[source[s].id]
    /\ HoldsChunk(s) => ChunkRegistered(s) \/ (pc[s] = "check" /\ s \in edited)
    /\ pc[s] = "eof" => pos[s] = Size[source[s].id] \/ s \in edited
    /\ result[s].state = "finished" =>
         pc[s] \in {"finalize", "close"} /\ pos[s] = Size[source[s].id]

\* The manager follows the worker of its session.
SessionOnRunes ==
    active # NoSession =>
        /\ book = source[active]
        /\ durablePosition = pos[active]
        /\ state # "stopping" =>
             /\ pc[active] # "update" => currentByte = pos[active]
             /\ pc[active] = "finalize" /\ result[active].state = "failed" =>
                  result[active].position = pos[active]
        /\ ResumesAt(book.id, book.ver,
                     IF pc[active] = "mark" THEN end[active] ELSE pos[active])

CallsOnRunes == \A c \in Calls : CallOnRunes(c)
WorkersOnRunes == \A s \in Sessions : WorkerOnRunes(s)
PositionInv ==
    CallsOnRunes /\ WorkersOnRunes /\ SessionOnRunes /\ PositionsOnRunes

-----------------------------------------------------------------------------
(* Action properties *)

\* Once shutdown has begun and no session is active none ever becomes active.
NoStartAfterShutdown ==
    [][shuttingDown /\ active = NoSession => active' = NoSession]_vars

\* While a session lives, and when it ends, its durable position never moves
\* back, except that a book played to its end starts over.
DurableNeverMovesBack ==
    [][active # NoSession /\ durablePosition' < durablePosition =>
         durablePosition = Size[book.id] /\ durablePosition' = 0]_vars

-----------------------------------------------------------------------------
(* Refinement *)

\* The manager implements the life cycle its events describe to clients.
Lifecycle == INSTANCE PlaybackLifecycle
               WITH closed <- shuttingDown, lastID <- nextID,
                    announced <- event.type
ImplementsLifecycle == Lifecycle!Spec

\* Towards other processes the manager is one holder of the leases of Lease: it
\* gives back what it took, when a command fails or its session ends, and never
\* takes what another process has.
Holders == [b \in Books |-> IF lease[b] = Free THEN {}
                           ELSE IF lease[b] = Other THEN {"other"} ELSE {"this"}]
Leases == INSTANCE Lease WITH Owners <- {"this", "other"}, Files <- Books,
                              Together <- {}, held <- Holders
UsesLeases == Leases!Spec

\* A progress file is written only by who holds its lease, the session itself
\* when it ends included.
SavesUnderLease ==
    [][\A b \in Books : saved'[b] # saved[b] =>
         \/ lease[b] = Other
         \/ \E c \in Calls : lease[b] = c /\ step[c] = "save"
         \/ lease[b] = active /\ source[active].id = b]_vars

-----------------------------------------------------------------------------
(* Liveness *)

\* A session whose stop was announced is over in the end, paused or speaking.
StopCompletes == \A s \in Sessions : s \in stopStarted ~> s \in done

\* Every call returns: no command holds controlMu or waits for it for ever.
CallsReturn == \A c \in Calls : step[c] # "idle" ~> step[c] = "idle"
=============================================================================
