-------------------------- MODULE PlaybackManager --------------------------
(***************************************************************************)
(* The playback manager of src/internal/playback/manager.go: commands      *)
(* serialised by controlMu (a one-slot channel whose acquisition a context  *)
(* can abandon), the session worker goroutine, and the mutex mu with its    *)
(* condition variable.  Every critical section of mu is one action; file    *)
(* system work outside mu is a step of its own, so that edits of the book,  *)
(* other processes and the other goroutines may come in between.            *)
(***************************************************************************)
EXTENDS Integers, FiniteSets

CONSTANTS
    Books,        \* registered books
    Size,         \* Size[b]: bytes of b, the same in every version of b
    Boundaries,   \* Boundaries[b][v]: the offsets of version v that start a UTF-8 rune
    Calls,        \* goroutines that call the manager (HTTP handlers)
    Nobody, NoBook, Free,
    Other,        \* another process of the program
    Shared,       \* the books that Other plays too
    Commands,     \* the commands the calls issue
    MaxSessions,  \* bound: sessions started
    MaxEdits      \* bound: times a book file is edited

Sessions == 1..MaxSessions
NoSession == 0
Versions == 0..MaxEdits

ASSUME BookAssumption ==
    /\ Size \in [Books -> Nat]
    /\ Boundaries \in [Books -> [Versions -> SUBSET Nat]]
    /\ \A b \in Books, v \in Versions :
         /\ {0, Size[b]} \subseteq Boundaries[b][v]
         /\ \A p \in Boundaries[b][v] : p <= Size[b]
    /\ NoBook \notin Books
    /\ Shared \subseteq Books

ASSUME CommandAssumption ==
    Commands \subseteq {"start", "pause", "resume", "stop", "set"}

ASSUME BoundAssumption == MaxSessions \in Nat /\ MaxEdits \in Nat

ASSUME NameAssumption ==
    /\ Nobody \notin Calls
    /\ Free # Other
    /\ {Free, Other} \cap Calls = {}
    /\ ({Free, Other} \cup Calls) \cap Sessions = {}

VARIABLES
    gate,             \* controlMu: the call that holds it, or Nobody
    shuttingDown,     \* the atomic flag
    \* PlaybackManager, under mu
    state, book, currentByte, durablePosition, lastErr, active, nextID,
    event,            \* the last event handed to the broker
    \* playbackSession, as the sets of sessions whose flag is up
    cancelled, stopStarted, stopFinished, engineStopErr, done,
    finalErr,
    \* the worker goroutine of each session
    pc, sleeping, source, pos, end, text, result,
    edited,           \* sessions whose open file was edited in place
    \* the calls in flight
    step, op, arg, target, expired, reply,
    \* the file system
    file,             \* file[b]: version of the book at its path
    saved,            \* saved[b]: the progress file of b
    lease             \* lease[b]: who holds the progress lease of b

control == <<gate, shuttingDown>>
request == <<op, arg, target, expired>>
managerVars == <<state, book, currentByte, durablePosition, lastErr, active,
                 nextID, event>>
sessionVars == <<cancelled, stopStarted, stopFinished, engineStopErr, done,
                 finalErr>>
reading == <<source, pos, edited>>
chunk == <<end, text, result>>
workerVars == <<pc, sleeping, reading, chunk>>
callVars == <<step, reply, request>>
diskVars == <<file, saved, lease>>
\* What the calls outside their critical sections, and the worker outside its
\* own, leave alone.
playback == <<managerVars, sessionVars, workerVars>>
commands == <<control, managerVars, sessionVars, callVars>>
vars == <<control, playback, callVars, diskVars>>

-----------------------------------------------------------------------------
(* Values *)

States == {"stopped", "stopping", "playing", "paused", "finished", "failed"}
LiveStates == {"playing", "paused", "stopping"}
Errors == {"none", "modified", "internal"}
EventTypes == {"playback.snapshot", "playback.started", "playback.paused",
               "playback.resumed", "playback.stopping", "playback.stopped",
               "playback.finished", "playback.failed", "position.updated",
               "chunk.started", "progress.updated"}
Replies == {"none", "ok", "shutting_down", "stopping", "active", "not_playing",
            "not_paused", "modified", "in_use", "cancelled", "bad_position",
            "mismatch", "internal"}
Ops == {"none", "start", "pause", "resume", "stop", "set"}
Steps == {"idle", "lock", "check", "inspect", "boundary", "lease", "load", "save",
          "commit", "apply", "mark", "cancel", "engine", "wait", "cleanup", "unlock"}
PCs == {"none", "open", "wait", "read", "check", "admit", "speak", "speaking",
        "save", "mark", "update", "eof", "finalize", "close", "dead"}
Offsets == {0} \cup UNION {0..Size[b] : b \in Books}
Positions == {0} \cup UNION {0..(Size[b] + 1) : b \in Books}   \* one past the end

NoResult == [state |-> "none", position |-> 0, err |-> "none"]
NoCopy == [id |-> NoBook, ver |-> 0]
NoArg == [id |-> NoBook, ver |-> 0, pos |-> 0]
NoFile == [ver |-> -1, pos |-> 0]

Snapshot == [state |-> state, book |-> book.id, byte |-> currentByte,
             code |-> lastErr]

\* publishLocked: the snapshot sent is taken after the assignments around it.
Publish(type) == event' = [type |-> type, snapshot |-> Snapshot']

\* cond.Broadcast wakes every waiter.
MutedBroadcast == UNCHANGED sleeping   \* mutant: forgotten
Broadcast == sleeping' = {}

Init ==
    /\ gate = Nobody
    /\ shuttingDown = FALSE
    /\ state = "stopped" /\ book = NoCopy
    /\ currentByte = 0 /\ durablePosition = 0
    /\ lastErr = "none" /\ active = NoSession /\ nextID = 0
    /\ event = [type |-> "playback.snapshot", snapshot |-> Snapshot]
    /\ cancelled = {} /\ stopStarted = {} /\ stopFinished = {}
    /\ engineStopErr = {} /\ done = {}
    /\ finalErr = [s \in Sessions |-> "none"]
    /\ pc = [s \in Sessions |-> "none"]
    /\ sleeping = {} /\ edited = {}
    /\ source = [s \in Sessions |-> NoCopy]
    /\ pos = [s \in Sessions |-> 0]
    /\ end = [s \in Sessions |-> 0]
    /\ text = [s \in Sessions |-> "none"]
    /\ result = [s \in Sessions |-> NoResult]
    /\ step = [c \in Calls |-> "idle"]
    /\ op = [c \in Calls |-> "none"]
    /\ arg = [c \in Calls |-> NoArg]
    /\ target = [c \in Calls |-> NoSession]
    /\ expired = {}
    /\ reply = [c \in Calls |-> "none"]
    /\ file = [b \in Books |-> 0]
    /\ saved = [b \in Books |-> NoFile]
    /\ lease = [b \in Books |-> Free]

-----------------------------------------------------------------------------
(* Calls: entering, waiting for controlMu, returning *)

Goto(c, next) == step' = [step EXCEPT ![c] = next]

\* A command that ends: its deferred functions run from step `next` on.
ReplyFrom(c, r, next) ==
    /\ reply' = [reply EXCEPT ![c] = r]
    /\ step' = [step EXCEPT ![c] = next]

\* What a call is made with.  The handler copied the book from the store some
\* time ago, so its version may be stale.
Args(o) == IF o = "start" THEN [id : Books, ver : Versions, pos : {0}]
           ELSE IF o = "set" THEN [id : Books, ver : Versions, pos : Positions]
           ELSE {NoArg}

SessionsAskedFor == nextID + Cardinality({c \in Calls : op[c] = "start"})

BeginCall(c) ==
    /\ step[c] = "idle"
    /\ \E o \in Commands : \E a \in Args(o) :
        /\ a.id \in Books => a.ver <= file[a.id]
        /\ o = "start" => SessionsAskedFor < MaxSessions
        /\ op' = [op EXCEPT ![c] = o]
        /\ arg' = [arg EXCEPT ![c] = a]
        \* Stop skips the gate once shutdown has begun.
        /\ Goto(c, IF o = "stop" /\ shuttingDown THEN "mark" ELSE "lock")
    /\ UNCHANGED <<control, playback, target, expired, reply, diskVars>>

\* The context of a call ends: client gone, handler timeout.
Expire(c) ==
    /\ op[c] \in {"start", "stop", "set"}
    /\ step[c] \notin {"cleanup", "unlock"}
    /\ c \notin expired
    /\ expired' = expired \cup {c}
    /\ UNCHANGED <<control, playback, step, op, arg, target, reply, diskVars>>

\* Where a command goes on once it holds the gate.
FirstStep(o) == IF o \in {"start", "set"} THEN "check"
                ELSE IF o = "stop" THEN "mark" ELSE "apply"

\* The gate is taken and shuttingDown read; Stop does not read it again.
Acquire(c) ==
    /\ step[c] = "lock"
    /\ gate = Nobody
    /\ c \notin expired
    /\ gate' = c
    /\ IF shuttingDown /\ op[c] # "stop"
         THEN ReplyFrom(c, "shutting_down", "unlock")
         ELSE Goto(c, FirstStep(op[c])) /\ UNCHANGED reply
    /\ UNCHANGED <<shuttingDown, playback, request, diskVars>>

\* LockContext abandons the wait, or gives the gate back, when ctx has ended.
GiveUp(c) ==
    /\ step[c] = "lock"
    /\ c \in expired
    /\ ReplyFrom(c, "cancelled", "unlock")
    /\ UNCHANGED <<control, playback, request, diskVars>>

LeasesWithout(c) == [b \in Books |-> IF lease[b] = c THEN Free ELSE lease[b]]

\* The deferred lease.Close of Start (when it still owns it) and SetPosition.
Cleanup(c) ==
    /\ step[c] = "cleanup"
    /\ lease' = LeasesWithout(c)
    /\ Goto(c, "unlock")
    /\ UNCHANGED <<control, playback, request, reply, file, saved>>

MutantGateWithout(c) == gate   \* mutant: the gate is not given back
GateWithout(c) == IF gate = c THEN Nobody ELSE gate

\* The deferred controlMu.Unlock, and the return to the caller.
Return(c) ==
    /\ step[c] = "unlock"
    /\ gate' = GateWithout(c)
    /\ Goto(c, "idle")
    /\ op' = [op EXCEPT ![c] = "none"]
    /\ arg' = [arg EXCEPT ![c] = NoArg]
    /\ target' = [target EXCEPT ![c] = NoSession]
    /\ expired' = expired \ {c}
    /\ reply' = [reply EXCEPT ![c] = "none"]
    /\ UNCHANGED <<shuttingDown, playback, diskVars>>

-----------------------------------------------------------------------------
(* Start and SetPosition *)

\* What a command that needs an idle manager finds under mu.
Busy == IF state = "stopping" THEN "stopping"
        ELSE IF active # NoSession \/ state \in {"playing", "paused"}
        THEN "active" ELSE "none"

MutantRefusal == Busy   \* mutant: shuttingDown is not read again
\* Start asks once more before it commits: BeginShutdown may have come since.
Refusal == IF shuttingDown THEN "shutting_down" ELSE Busy

CheckIdle(c) ==
    /\ step[c] = "check"
    /\ IF Busy = "none"
         THEN Goto(c, "inspect") /\ UNCHANGED reply
         ELSE ReplyFrom(c, Busy, "unlock")
    /\ UNCHANGED <<control, playback, request, diskVars>>

\* InspectFileContext and SameFile.
Inspect(c) ==
    /\ step[c] = "inspect"
    /\ \/ /\ arg[c].ver = file[arg[c].id]
          /\ Goto(c, IF op[c] = "start" THEN "lease" ELSE "boundary")
          /\ UNCHANGED reply
       \/ arg[c].ver # file[arg[c].id] /\ ReplyFrom(c, "modified", "unlock")
       \/ c \in expired /\ ReplyFrom(c, "cancelled", "unlock")
       \/ ReplyFrom(c, "internal", "unlock")   \* the file cannot be read
    /\ UNCHANGED <<control, playback, request, diskVars>>

MutantStandsOnRune(b, p) == TRUE   \* mutant: the byte is not looked at
\* IsFileUTF8Boundary opens the path once more: it looks into the version that
\* is there by now, which need not be the one inspected.
StandsOnRune(b, p) == p \in Boundaries[b][file[b]]

\* The bounds of the position, its rune boundary, and the context.
CheckBoundary(c) ==
    LET b == arg[c].id  p == arg[c].pos IN
    /\ step[c] = "boundary"
    /\ \/ /\ StandsOnRune(b, p) /\ c \notin expired
          /\ Goto(c, "lease") /\ UNCHANGED reply
       \/ /\ StandsOnRune(b, p) /\ c \in expired
          /\ ReplyFrom(c, "cancelled", "unlock")
       \/ ~StandsOnRune(b, p) /\ ReplyFrom(c, "bad_position", "unlock")
       \/ p \in 1..(Size[b] - 1) /\ ReplyFrom(c, "internal", "unlock")
    /\ UNCHANGED <<control, playback, request, diskVars>>

AcquireLease(c) ==
    /\ step[c] = "lease"
    /\ \/ /\ lease[arg[c].id] = Free
          /\ lease' = [lease EXCEPT ![arg[c].id] = c]
          /\ Goto(c, IF op[c] = "start" THEN "load" ELSE "save")
          /\ UNCHANGED reply
       \/ /\ lease[arg[c].id] # Free
          /\ ReplyFrom(c, "in_use", "unlock") /\ UNCHANGED lease
       \/ ReplyFrom(c, "internal", "unlock") /\ UNCHANGED lease
    /\ UNCHANGED <<control, playback, request, file, saved>>

\* The position progress.Load returns for a progress file f of book b.
ResumePoint(b, f) == IF f = NoFile \/ f.pos = Size[b] THEN 0 ELSE f.pos

\* The progress file cannot change under the lease, so that one step stands for
\* reading it and for the look into the book that follows.
Load(c) ==
    /\ step[c] = "load"
    /\ LET f == saved[arg[c].id]
           fits == f = NoFile \/ f.ver = arg[c].ver IN
       \/ /\ fits /\ StandsOnRune(arg[c].id, f.pos)
          /\ c \notin expired
          /\ arg' = [arg EXCEPT ![c] = [id |-> @.id, ver |-> @.ver,
                                        pos |-> ResumePoint(@.id, f)]]
          /\ Goto(c, "commit") /\ UNCHANGED reply
       \/ /\ fits /\ ~StandsOnRune(arg[c].id, f.pos)
          /\ ReplyFrom(c, "bad_position", "cleanup") /\ UNCHANGED arg
       \/ ~fits /\ ReplyFrom(c, "mismatch", "cleanup") /\ UNCHANGED arg
       \/ c \in expired /\ ReplyFrom(c, "cancelled", "cleanup") /\ UNCHANGED arg
       \/ ReplyFrom(c, "internal", "cleanup") /\ UNCHANGED arg
    /\ UNCHANGED <<control, playback, op, target, expired, diskVars>>

\* The final critical section of Start: the session becomes active, the lease
\* passes to it and its worker is spawned.
StartSession(c) ==
    LET s == nextID + 1
        copy == [id |-> arg[c].id, ver |-> arg[c].ver] IN
    /\ nextID' = s
    /\ state' = "playing" /\ book' = copy
    /\ currentByte' = arg[c].pos /\ durablePosition' = arg[c].pos
    /\ lastErr' = "none" /\ active' = s
    /\ Publish("playback.started")
    /\ lease' = [lease EXCEPT ![copy.id] = s]
    /\ pc' = [pc EXCEPT ![s] = "open"]
    /\ source' = [source EXCEPT ![s] = copy]
    /\ pos' = [pos EXCEPT ![s] = arg[c].pos]

CommitStart(c) ==
    /\ step[c] = "commit" /\ op[c] = "start"
    /\ nextID < MaxSessions   \* the bound; BeginCall keeps it true
    /\ IF Refusal = "none"
         THEN /\ StartSession(c)
              /\ ReplyFrom(c, "ok", "unlock")
         ELSE /\ ReplyFrom(c, Refusal, "cleanup")
              /\ UNCHANGED <<managerVars, lease, pc, source, pos>>
    /\ UNCHANGED <<control, sessionVars, sleeping, end, text, result, edited,
                   request, file, saved>>

\* The progress file as Save leaves it; Reset saves position 0.
Written(b, v, p) == saved' = [saved EXCEPT ![b] = [ver |-> v, pos |-> p]]

SavePosition(c) ==
    /\ step[c] = "save"
    /\ \/ Written(arg[c].id, arg[c].ver, arg[c].pos)
            /\ Goto(c, "commit") /\ UNCHANGED reply
       \/ ReplyFrom(c, "internal", "cleanup") /\ UNCHANGED saved
    /\ UNCHANGED <<control, playback, request, file, lease>>

CommitPosition(c) ==
    /\ step[c] = "commit" /\ op[c] = "set"
    /\ state' = "stopped"
    /\ book' = [id |-> arg[c].id, ver |-> arg[c].ver]
    /\ currentByte' = arg[c].pos /\ durablePosition' = arg[c].pos
    /\ lastErr' = "none"
    /\ Publish("position.updated")
    /\ ReplyFrom(c, "ok", "cleanup")
    /\ UNCHANGED <<control, active, nextID, sessionVars, workerVars, request,
                   diskVars>>

-----------------------------------------------------------------------------
(* Pause, Resume, Stop, BeginShutdown *)

CanPause == state = "playing"

Pause(c) ==
    /\ step[c] = "apply" /\ op[c] = "pause"
    /\ IF CanPause
         THEN /\ state' = "paused"
              /\ UNCHANGED <<book, currentByte, durablePosition, lastErr,
                             active, nextID>>
              /\ Publish("playback.paused")
              /\ ReplyFrom(c, "ok", "unlock")
         ELSE ReplyFrom(c, "not_playing", "unlock") /\ UNCHANGED managerVars
    /\ UNCHANGED <<control, sessionVars, workerVars, request, diskVars>>

CanResume == state = "paused"

Resume(c) ==
    /\ step[c] = "apply" /\ op[c] = "resume"
    /\ IF CanResume
         THEN /\ state' = "playing"
              /\ UNCHANGED <<book, currentByte, durablePosition, lastErr,
                             active, nextID>>
              /\ Broadcast
              /\ Publish("playback.resumed")
              /\ ReplyFrom(c, "ok", "unlock")
         ELSE /\ ReplyFrom(c, "not_paused", "unlock")
              /\ UNCHANGED <<managerVars, sleeping>>
    /\ UNCHANGED <<control, sessionVars, pc, reading, chunk, request, diskVars>>

\* The first critical section of Stop: only the first Stop of a session
\* announces it and goes on to cancel it, the others just wait.
MarkStopping(s) ==
    /\ stopStarted' = stopStarted \cup {s}
    /\ state' = "stopping" /\ lastErr' = "none"
    /\ Broadcast
    /\ UNCHANGED <<book, currentByte, durablePosition, active, nextID>>
    /\ Publish("playback.stopping")

\* mutant: an idle Stop changes the state without an event
MutantMarkIdle ==
    /\ state' = "stopped" /\ lastErr' = "none"
    /\ UNCHANGED <<book, currentByte, durablePosition, active, nextID, event>>

MarkIdle ==
    /\ state' = "stopped" /\ lastErr' = "none"
    /\ UNCHANGED <<book, currentByte, durablePosition, active, nextID>>
    /\ Publish("playback.stopped")

StopMark(c) ==
    /\ step[c] = "mark"
    /\ target' = [target EXCEPT ![c] = active]
    /\ IF active = NoSession
         THEN /\ MarkIdle
              /\ ReplyFrom(c, "ok", "unlock")
              /\ UNCHANGED <<stopStarted, sleeping>>
         ELSE /\ UNCHANGED reply
              /\ IF active \notin stopStarted
                   THEN MarkStopping(active) /\ Goto(c, "cancel")
                   ELSE /\ Goto(c, "wait")
                        /\ UNCHANGED <<managerVars, stopStarted, sleeping>>
    /\ UNCHANGED <<control, cancelled, stopFinished, engineStopErr, done,
                   finalErr, pc, reading, chunk, op, arg, expired, diskVars>>

StopCancel(c) ==
    /\ step[c] = "cancel"
    /\ cancelled' = cancelled \cup {target[c]}
    /\ Goto(c, "engine")
    /\ UNCHANGED <<control, managerVars, stopStarted, stopFinished,
                   engineStopErr, done, finalErr, workerVars, request, reply,
                   diskVars>>

\* engine.Stop returns, and the manager relies on nothing about when
\* (PlaybackEngine has its steps): with nil, with the error of an ended ctx,
\* which terminalEngineStopError drops, or with an error of its own.
StopEngine(c) ==
    /\ step[c] = "engine"
    /\ \/ UNCHANGED engineStopErr
       \/ engineStopErr' = engineStopErr \cup {target[c]}
    /\ stopFinished' = stopFinished \cup {target[c]}
    /\ Goto(c, "wait")
    /\ UNCHANGED <<control, managerVars, cancelled, stopStarted, done,
                   finalErr, workerVars, request, reply, diskVars>>

\* waitForSessionStop.  An ended context loses against a closed done channel.
StopReply(s) == IF finalErr[s] = "none" THEN "ok" ELSE finalErr[s]

\* mutant: the end of the context is taken for the end of the session
MutantExpiredReply(c) == StopReply(target[c])
ExpiredReply(c) == IF active # target[c] THEN StopReply(target[c]) ELSE "stopping"

StopWait(c) ==
    /\ step[c] = "wait"
    /\ \/ /\ target[c] \in done
          /\ ReplyFrom(c, StopReply(target[c]), "unlock")
       \/ /\ c \in expired /\ target[c] \notin done
          /\ ReplyFrom(c, ExpiredReply(c), "unlock")
    /\ UNCHANGED <<control, playback, request, diskVars>>

BeginShutdown ==
    /\ ~shuttingDown
    /\ shuttingDown' = TRUE
    /\ UNCHANGED <<gate, playback, callVars, diskVars>>

-----------------------------------------------------------------------------
(* The worker: play and runPlayback *)

WorkerGoto(s, next) == pc' = [pc EXCEPT ![s] = next]

\* The chunk variable of the loop goes out of scope.
DropChunk(s) ==
    /\ end' = [end EXCEPT ![s] = 0]
    /\ text' = [text EXCEPT ![s] = "none"]

\* mutant: a stopped worker leaves without finalizeSession
MutantFinish(s, st, p, e) ==
    /\ WorkerGoto(s, IF st = "stopped" THEN "close" ELSE "finalize")
    /\ result' = [result EXCEPT ![s] = [state |-> st, position |-> p, err |-> e]]
    /\ DropChunk(s)

\* runPlayback returns sessionResult{st, p, e}; finalizeSession comes next.
Finish(s, st, p, e) ==
    /\ WorkerGoto(s, "finalize")
    /\ result' = [result EXCEPT ![s] = [state |-> st, position |-> p, err |-> e]]
    /\ DropChunk(s)

\* The worker goes on to its next step with the chunk it has.
Continue(s, next) == WorkerGoto(s, next) /\ UNCHANGED chunk

\* A failed open, or a failed revalidation, of a cancelled session is a stop.
FinishUnlessCancelled(s, p, e) ==
    IF s \in cancelled THEN Finish(s, "stopped", 0, "none")
                       ELSE Finish(s, "failed", p, e)

MutantUnchanged(s) == TRUE   \* mutant: the identity is not compared
Unchanged(s) == file[source[s].id] = source[s].ver

\* OpenStableReadContext and the identity check.
Open(s) ==
    /\ pc[s] = "open"
    /\ \/ Unchanged(s) /\ Continue(s, "wait")
       \/ ~Unchanged(s) /\ Finish(s, "failed", pos[s], "modified")
       \/ FinishUnlessCancelled(s, pos[s], "internal")
    /\ UNCHANGED <<commands, sleeping, reading, diskVars>>

\* The condition of the cond.Wait loops, and of going on after them.
MustSleep(s) == state = "paused" /\ s \notin cancelled /\ active = s
Playable(s) == s \notin cancelled /\ state = "playing" /\ active = s

Sleep(s) ==
    /\ pc[s] \in {"wait", "admit"}
    /\ s \notin sleeping
    /\ MustSleep(s)
    /\ sleeping' = sleeping \cup {s}
    /\ UNCHANGED <<commands, pc, reading, chunk, diskVars>>

Awake(s) == s \notin sleeping /\ ~MustSleep(s)

WaitUntilPlayable(s) ==
    /\ pc[s] = "wait"
    /\ Awake(s)
    /\ IF Playable(s) THEN Continue(s, "read")
                      ELSE Finish(s, "stopped", 0, "none")
    /\ UNCHANGED <<commands, sleeping, reading, diskVars>>

\* reader.Next.  The next chunk starts at pos[s], where the last one ended; from
\* inside a rune there is none.  Of a file edited in place it may return
\* anything, or the end of the file.
ChunkEnds(s) ==
    LET b == source[s].id
        runes == Boundaries[b][source[s].ver] IN
    {<<e, "registered">> : e \in {p \in runes : pos[s] \in runes /\ p > pos[s]}}
      \cup (IF s \in edited
              THEN {<<e, "edited">> : e \in (pos[s] + 1)..(Size[b] + 1)} ELSE {})

AtEOF(s) == pos[s] = Size[source[s].id] \/ s \in edited

Read(s) ==
    /\ pc[s] = "read"
    /\ \/ \E e \in ChunkEnds(s) :
            /\ end' = [end EXCEPT ![s] = e[1]]
            /\ text' = [text EXCEPT ![s] = e[2]]
            /\ WorkerGoto(s, "check") /\ UNCHANGED result
       \/ AtEOF(s) /\ Continue(s, "eof")
       \/ Finish(s, "failed", currentByte, "internal")
    /\ UNCHANGED <<commands, sleeping, reading, diskVars>>

\* mutant: only the bound is checked
MutantChunkValid(s) == end[s] <= Size[source[s].id]

\* The bound of the book and validatePlaybackBookMetadata on the open file:
\* every edit changes its size or modification time.
ChunkValid(s) == end[s] <= Size[source[s].id] /\ s \notin edited

CheckChunk(s) ==
    /\ pc[s] = "check"
    /\ IF ChunkValid(s) THEN Continue(s, "admit")
                        ELSE Finish(s, "failed", pos[s], "modified")
    /\ UNCHANGED <<commands, sleeping, reading, diskVars>>

AdmitChunk(s) ==
    /\ pc[s] = "admit"
    /\ Awake(s)
    /\ IF Playable(s)
         THEN /\ currentByte' = pos[s]
              /\ UNCHANGED <<state, book, durablePosition, lastErr, active,
                             nextID>>
              /\ Publish("chunk.started")
              /\ Continue(s, "speak")
         ELSE Finish(s, "stopped", 0, "none") /\ UNCHANGED managerVars
    /\ UNCHANGED <<control, sessionVars, sleeping, reading, callVars, diskVars>>

BeginSpeak(s) ==
    /\ pc[s] = "speak"
    /\ WorkerGoto(s, "speaking")
    /\ UNCHANGED <<commands, sleeping, reading, chunk, diskVars>>

\* engine.Speak returns, and the context is read before Save.
EndSpeak(s) ==
    /\ pc[s] = "speaking"
    /\ \/ s \in cancelled /\ Finish(s, "stopped", 0, "none")
       \/ s \notin cancelled /\ Continue(s, "save")
       \/ s \notin cancelled /\ Finish(s, "failed", pos[s], "internal")
    /\ UNCHANGED <<commands, sleeping, reading, diskVars>>

SaveProgress(s) ==
    /\ pc[s] = "save"
    /\ \/ /\ Written(source[s].id, source[s].ver, end[s])
          /\ Continue(s, "mark")
       \/ Finish(s, "failed", pos[s], "internal") /\ UNCHANGED saved
    /\ UNCHANGED <<commands, sleeping, reading, file, lease>>

MutantDurableAfter(s) == durablePosition   \* mutant: not recorded
DurableAfter(s) == IF active = s THEN end[s] ELSE durablePosition

MarkDurablePosition(s) ==
    /\ pc[s] = "mark"
    /\ durablePosition' = DurableAfter(s)
    /\ pos' = [pos EXCEPT ![s] = end[s]]
    /\ WorkerGoto(s, "update") /\ DropChunk(s)
    /\ UNCHANGED <<control, state, book, currentByte, lastErr, active, nextID,
                   event, sessionVars, sleeping, source, result, edited,
                   callVars, diskVars>>

\* updateProgress leaves a stopping session, or one that is not active, alone.
UpdatesProgress(s) == active = s /\ state \in {"playing", "paused"}

UpdateProgress(s) ==
    /\ pc[s] = "update"
    /\ IF UpdatesProgress(s)
         THEN /\ currentByte' = pos[s]
              /\ UNCHANGED <<state, book, durablePosition, lastErr, active,
                             nextID>>
              /\ Publish("progress.updated")
         ELSE UNCHANGED managerVars
    /\ WorkerGoto(s, "wait")
    /\ UNCHANGED <<control, sessionVars, sleeping, reading, chunk, callVars,
                   diskVars>>

\* validatePlaybackBookUnchanged: the file at the path is inspected again; an
\* inspection that fails counts as a modified book.
ValidateAtEOF(s) ==
    /\ pc[s] = "eof"
    /\ \/ Unchanged(s) /\ Finish(s, "finished", Size[source[s].id], "none")
       \/ FinishUnlessCancelled(s, pos[s], "modified")
    /\ UNCHANGED <<commands, sleeping, reading, diskVars>>

-----------------------------------------------------------------------------
(* finalizeSession *)

MutantOutcome(s) == result[s].state   \* mutant: the worker's result always counts

\* A session that is being stopped ends stopped, whatever its worker found.
Outcome(s) == IF state = "stopping" THEN "stopped" ELSE result[s].state


\* The loop on stopDone: a stopped session waits for its Stop to have left
\* engine.Stop.
StopPending(s) == s \in stopStarted /\ s \notin stopFinished

MutantStopPosition == currentByte   \* mutant: the position shown, not the saved one
StopPosition == durablePosition

\* The position the session saves last; Reset saves 0.
LastPosition(s) == IF Outcome(s) = "finished" THEN 0
                   ELSE IF Outcome(s) = "failed" THEN result[s].position
                   ELSE StopPosition

FinishedEnding(s, ok) ==
    [state |-> IF ok THEN "finished" ELSE "failed",
     at |-> Size[source[s].id],
     durable |-> IF ok THEN 0 ELSE durablePosition,
     err |-> IF ok THEN "none" ELSE "internal"]

FailedEnding(s, ok) ==
    [state |-> "failed",
     at |-> result[s].position,
     durable |-> IF ok THEN result[s].position ELSE durablePosition,
     err |-> result[s].err]

StoppedEnding(s, ok) ==
    [state |-> "stopped",
     at |-> StopPosition,
     durable |-> StopPosition,
     err |-> IF ok /\ s \notin engineStopErr THEN "none" ELSE "internal"]

\* What the session leaves behind when its last Save succeeds or fails.
Ending(s, ok) == IF Outcome(s) = "finished" THEN FinishedEnding(s, ok)
                 ELSE IF Outcome(s) = "failed" THEN FailedEnding(s, ok)
                 ELSE StoppedEnding(s, ok)

\* An error of lease.Close is joined to the others and makes the end a failure.
AfterClose(e, closed) ==
    IF closed THEN e
    ELSE [state |-> "failed", at |-> e.at, durable |-> e.durable,
          err |-> IF e.err = "none" THEN "internal" ELSE e.err]

EventOf(st) == IF st = "finished" THEN "playback.finished"
               ELSE IF st = "failed" THEN "playback.failed"
               ELSE "playback.stopped"

MutantReleaseLease(b) == UNCHANGED lease   \* mutant: the lease is kept
ReleaseLease(b) == lease' = [lease EXCEPT ![b] = Free]

\* One critical section of mu, file writes and lease.Close included.
EndSession(s, ok, closed) ==
    LET e == AfterClose(Ending(s, ok), closed) IN
    /\ IF ok THEN Written(source[s].id, source[s].ver, LastPosition(s))
             ELSE UNCHANGED saved
    /\ ReleaseLease(source[s].id)
    /\ state' = e.state /\ currentByte' = e.at /\ durablePosition' = e.durable
    /\ lastErr' = e.err /\ finalErr' = [finalErr EXCEPT ![s] = e.err]
    /\ active' = NoSession
    /\ UNCHANGED <<book, nextID>>
    /\ Publish(EventOf(e.state))

Finalize(s) ==
    /\ pc[s] = "finalize"
    /\ IF active # s
         THEN UNCHANGED <<managerVars, finalErr, saved, lease>>
         ELSE /\ Outcome(s) = "stopped" => ~StopPending(s)
              /\ \E ok, closed \in BOOLEAN : EndSession(s, ok, closed)
    /\ WorkerGoto(s, "close")
    /\ UNCHANGED <<control, cancelled, stopStarted, stopFinished,
                   engineStopErr, done, sleeping, reading, chunk, callVars,
                   file>>

\* The deferred lease.Close, by now without effect, and close(done).  The
\* goroutine's variables are gone.
CloseDone(s) ==
    /\ pc[s] = "close"
    /\ done' = done \cup {s}
    /\ WorkerGoto(s, "dead")
    /\ source' = [source EXCEPT ![s] = NoCopy]
    /\ pos' = [pos EXCEPT ![s] = 0] /\ end' = [end EXCEPT ![s] = 0]
    /\ text' = [text EXCEPT ![s] = "none"]
    /\ result' = [result EXCEPT ![s] = NoResult]
    /\ edited' = edited \ {s}
    /\ UNCHANGED <<control, managerVars, cancelled, stopStarted, stopFinished,
                   engineStopErr, finalErr, sleeping, callVars, diskVars>>

-----------------------------------------------------------------------------
(* The environment: the user's editor and another process of the program *)

OpenFiles(b) == {s \in Sessions : /\ source[s].id = b
                                  /\ pc[s] \notin {"none", "open", "finalize",
                                                   "close", "dead"}}

\* A new version at the path: written in place, which a worker sees through
\* its open file, or renamed over it.
Edit(b) ==
    /\ file[b] < MaxEdits
    /\ file' = [file EXCEPT ![b] = @ + 1]
    /\ edited' \in {edited, edited \cup OpenFiles(b)}
    /\ UNCHANGED <<commands, pc, sleeping, source, pos, end, text, result,
                   saved, lease>>

OtherAcquire(b) ==
    /\ b \in Shared
    /\ lease[b] = Free
    /\ lease' = [lease EXCEPT ![b] = Other]
    /\ UNCHANGED <<control, playback, callVars, file, saved>>

\* The other process saves a position of a version it has inspected, which its
\* SetPosition may have looked up in a later one.
OtherSave(b) ==
    /\ lease[b] = Other
    /\ \E v \in 0..file[b] : \E w \in v..file[b] : \E p \in Boundaries[b][w] :
         Written(b, v, p)
    /\ UNCHANGED <<control, playback, callVars, file, lease>>

OtherRelease(b) ==
    /\ lease[b] = Other
    /\ lease' = [lease EXCEPT ![b] = Free]
    /\ UNCHANGED <<control, playback, callVars, file, saved>>

-----------------------------------------------------------------------------

CallStep(c) ==
    \/ Acquire(c) \/ GiveUp(c) \/ Cleanup(c) \/ Return(c)
    \/ CheckIdle(c) \/ Inspect(c) \/ CheckBoundary(c) \/ AcquireLease(c) \/ Load(c)
    \/ CommitStart(c) \/ SavePosition(c) \/ CommitPosition(c)
    \/ Pause(c) \/ Resume(c)
    \/ StopMark(c) \/ StopCancel(c) \/ StopEngine(c) \/ StopWait(c)

WorkerStep(s) ==
    \/ Open(s) \/ Sleep(s) \/ WaitUntilPlayable(s) \/ Read(s) \/ CheckChunk(s)
    \/ AdmitChunk(s) \/ BeginSpeak(s) \/ EndSpeak(s) \/ SaveProgress(s)
    \/ MarkDurablePosition(s) \/ UpdateProgress(s) \/ ValidateAtEOF(s)
    \/ Finalize(s) \/ CloseDone(s)

Environment ==
    \/ BeginShutdown
    \/ \E c \in Calls : BeginCall(c) \/ Expire(c)
    \/ \E b \in Books : Edit(b) \/ OtherAcquire(b) \/ OtherSave(b)
                          \/ OtherRelease(b)

Next ==
    \/ \E c \in Calls : CallStep(c)
    \/ \E s \in Sessions : WorkerStep(s)
    \/ Environment

Spec == Init /\ [][Next]_vars

\* Goroutines are scheduled, a blocked channel send is served in order, and
\* the speaker of an engine ends with its timeout.
Fairness ==
    /\ \A c \in Calls : WF_vars(CallStep(c)) /\ SF_vars(Acquire(c))
    /\ \A s \in Sessions : WF_vars(WorkerStep(s))

FairSpec == Spec /\ Fairness
=============================================================================
