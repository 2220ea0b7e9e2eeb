------------------------- MODULE PlaybackLifecycle -------------------------
(***************************************************************************)
(* What the playback manager promises to a client that follows its events: *)
(* sessions live one after the other, each of them is announced by         *)
(* playback.started and ended by exactly one terminal event, chunks are    *)
(* announced only while it plays, a session that is stopping ends stopped   *)
(* or failed and never finished, and after the start of the shutdown no     *)
(* session begins.  `announced` is the type of the last event.              *)
(***************************************************************************)
EXTENDS Naturals

VARIABLES closed, state, active, lastID, announced

lifecycle == <<closed, state, active, lastID, announced>>

Live == {"playing", "paused", "stopping"}
Idle == {"stopped", "finished", "failed"}

Init ==
    /\ closed = FALSE
    /\ state = "stopped" /\ active = 0 /\ lastID = 0
    /\ announced = "playback.snapshot"

\* A new session, with an identifier never used before.
Start ==
    /\ ~closed
    /\ state \in Idle /\ active = 0
    /\ state' = "playing"
    /\ lastID' = lastID + 1 /\ active' = lastID'
    /\ announced' = "playback.started"
    /\ UNCHANGED closed

\* The state of the running session changes, and the event says so.
Change(from, to, type) ==
    /\ state \in from /\ active # 0
    /\ state' = to
    /\ announced' = type
    /\ UNCHANGED <<closed, active, lastID>>

Pause == Change({"playing"}, "paused", "playback.paused")
Resume == Change({"paused"}, "playing", "playback.resumed")
Stopping == Change({"playing", "paused"}, "stopping", "playback.stopping")

\* A chunk is handed to the engine only while the session plays; the chunk in
\* flight when it was paused may still report its end.
Chunk == Change({"playing"}, "playing", "chunk.started")
Progress == \E st \in {"playing", "paused"} : Change({st}, st, "progress.updated")

\* The one terminal event of a session.
End(from, to, type) ==
    /\ state \in from /\ active # 0
    /\ state' = to /\ active' = 0
    /\ announced' = type
    /\ UNCHANGED <<closed, lastID>>

EndStopped == End({"stopping"}, "stopped", "playback.stopped")
EndFinished == End({"playing", "paused"}, "finished", "playback.finished")
EndFailed == End(Live, "failed", "playback.failed")

\* Stop and SetPosition without a session leave the manager stopped.
Rest ==
    /\ state \in Idle /\ active = 0
    /\ state' = "stopped"
    /\ announced' \in {"playback.stopped", "position.updated"}
    /\ UNCHANGED <<closed, active, lastID>>

Close ==
    /\ closed' = TRUE
    /\ UNCHANGED <<state, active, lastID, announced>>

Next == \/ Start \/ Pause \/ Resume \/ Stopping \/ Chunk \/ Progress
        \/ EndStopped \/ EndFinished \/ EndFailed \/ Rest \/ Close

Spec == Init /\ [][Next]_lifecycle
=============================================================================
