----------------------------- MODULE Dashboard -----------------------------
(***************************************************************************)
(* The panel of src/dashboard.go, which shows what it rendered last: the   *)
(* events of the stream of EventBroker, and the response of each request,  *)
(* which carries a snapshot taken under the mutex of the manager and comes *)
(* on a connection of its own, before or after the events around it.       *)
(***************************************************************************)
EXTENDS EventBroker

CONSTANT Requests   \* requests a browser may have under way at a time

VARIABLES
    answer,   \* answer[b][r]: "none", "asked", or "sent" with the snapshot in it;
              \* since: the event shown when it was asked for
    panel     \* panel[b]: the snapshot rendered last

dashboard == <<answer, panel>>
dashVars == <<vars, dashboard>>

\* A snapshot: the state, and the number of the last event before it.  The
\* number is not in the response; the properties need it.
Snapshot(st, n) == [seq |-> n, state |-> st]

Free == [at |-> "none", since |-> 0, snap |-> NoEvent]
Asked(b) == [at |-> "asked", since |-> shown[b].seq, snap |-> NoEvent]

DashInit ==
    /\ StreamInit
    /\ answer = [b \in Browsers |-> [r \in Requests |-> Free]]
    /\ panel = [b \in Browsers |-> NoEvent]

-----------------------------------------------------------------------------
(* The browser *)

SetAnswer(b, r, a) == answer' = [answer EXCEPT ![b][r] = a]
Send(b, r, snap) ==
    SetAnswer(b, r, [at |-> "sent", since |-> answer[b][r].since, snap |-> snap])

\* A button of the panel, or refreshState.
Click(b, r) ==
    /\ serving
    /\ answer[b][r] = Free
    /\ SetAnswer(b, r, Asked(b))
    /\ UNCHANGED <<vars, panel>>

\* render of a response, whatever was rendered since its snapshot was taken.
RenderResponse(b, r) ==
    /\ answer[b][r].at = "sent"
    /\ panel' = [panel EXCEPT ![b] = answer[b][r].snap]
    /\ SetAnswer(b, r, Free)
    /\ UNCHANGED vars

\* An error is thrown and logged, and the connection may fail.
Discard(b, r) ==
    /\ answer[b][r] # Free
    /\ SetAnswer(b, r, Free)
    /\ UNCHANGED <<vars, panel>>

\* mutant: only the lifecycle events are rendered that end a session
MutantRendered(s, b) == IF out[s].state \in Idle THEN out[s] ELSE panel[b]
Rendered(s, b) == out[s]

\* The listener of the EventSource.
RenderEvent(s) ==
    /\ Deliver(s)
    /\ panel' = [b \in Browsers |->
                   IF conn[b] = s THEN Rendered(s, b) ELSE panel[b]]
    /\ UNCHANGED answer

-----------------------------------------------------------------------------
(* The handlers of the commands *)

\* mutant: the snapshot of a command is the one it looked at before it acted
MutantSnapshotAfter == Snapshot(state, nextSeq')
SnapshotAfter == Snapshot(state', nextSeq')

\* StartContext, Pause, Resume, SetPositionContext, and Stop without a session
\* announce what they did and take the snapshot of the response in one critical
\* section.
CommandDone(b, r) ==
    /\ answer[b][r].at = "asked"
    /\ Announce
    /\ announced' \in {"playback.started", "playback.paused",
         "playback.resumed", "position.updated", "playback.stopped"}
    /\ active' # 0 \/ active = 0   \* the worker announces the end of a session
    /\ Send(b, r, SnapshotAfter)
    /\ UNCHANGED panel

\* GET /playback, and Stop once the session is over: a snapshot by itself.
SnapshotTaken(b, r) ==
    /\ answer[b][r].at = "asked"
    /\ Send(b, r, Snapshot(state, nextSeq))
    /\ UNCHANGED <<vars, panel>>

-----------------------------------------------------------------------------

RequestStep(b, r) ==
    \/ Click(b, r) \/ CommandDone(b, r) \/ SnapshotTaken(b, r)
    \/ RenderResponse(b, r) \/ Discard(b, r)

DashNext ==
    \/ Announce /\ UNCHANGED dashboard
    \/ \E s \in Streams :
         \/ (Take(s) \/ Leave(s) \/ Unsubscribe(s)) /\ UNCHANGED dashboard
         \/ RenderEvent(s)
    \/ \E b \in Browsers :
         \/ (BrowserStep(b) \/ Disconnect(b)) /\ UNCHANGED dashboard
         \/ \E r \in Requests : RequestStep(b, r)
    \/ (BeginShutdown \/ CancelServe) /\ UNCHANGED dashboard

DashSpec == DashInit /\ [][DashNext]_dashVars
FairDashSpec == DashSpec /\ StreamFairness

-----------------------------------------------------------------------------
(* Properties *)

\* The panel falls behind the stream only by a response that was asked for before
\* the newer event arrived: who asks when all is quiet is never shown less.
BehindOnlyIfOvertaken ==
    [][\A b \in Browsers :
         panel[b].seq >= shown[b].seq /\ panel'[b].seq < shown'[b].seq =>
             \E r \in Requests : /\ answer[b][r].at = "sent"
                                 /\ panel'[b] = answer[b][r].snap
                                 /\ answer[b][r].since < shown[b].seq]_dashVars

\* When the manager has come to rest the panel of an attentive browser shows
\* its state, unless the response rendered last is older than an event rendered
\* before it: nothing repairs that until the next event.
PanelsConverge ==
    \A b \in Attentive :
        <>[](\/ ~serving
             \/ panel[b].state = state
             \/ panel[b].seq < shown[b].seq)

\* The part of PanelsConverge that needs no fairness: a client that is not given
\* up and whose events are all delivered shows the state of the manager.
QuietPanelsAreCurrent ==
    \A b \in Browsers, s \in registered :
        conn[b] = s /\ step[s] = "select" /\ queue[s] = <<>> =>
            /\ shown[b].state = state
            /\ panel[b].state = state \/ panel[b].seq < shown[b].seq
=============================================================================
