---------------------------- MODULE EventBroker ----------------------------
(***************************************************************************)
(* The event stream: the broker of src/internal/events/broker.go, the      *)
(* handler goroutine of each GET /api/v1/events (handleEvents of           *)
(* src/http_api.go) and the EventSource of each dashboard.  The publisher  *)
(* is the life cycle of PlaybackLifecycle, which the playback manager is   *)
(* shown to implement.  Everything the broker does it does under its mutex, *)
(* and the manager calls it under mu, so each call is one action.           *)
(***************************************************************************)
EXTENDS PlaybackLifecycle, Sequences

CONSTANTS
    Browsers,    \* dashboards, each with one EventSource
    Attentive,   \* those that read what is sent to them and reconnect
    Streams,     \* handler goroutines, with the channel of each
    NoStream,
    BufferSize,  \* eventBufferSize
    MaxSeq       \* bound: nothing is published or lost beyond this number

ASSUME StreamAssumption ==
    /\ NoStream \notin Streams
    /\ Attentive \subseteq Browsers
    /\ BufferSize \in Nat \ {0}
    /\ MaxSeq \in Nat

VARIABLES
    nextSeq,      \* Broker.nextSeq
    registered,   \* Broker.clients
    queue,        \* the buffered channel of each stream
    shut,         \* streams whose channel is closed
    panicked,     \* a channel was closed twice or sent on when closed
    step, out,    \* the handler of each stream, and the event it took last
    serving,      \* FALSE once serveCtx is cancelled and the listener closed
    conn,         \* conn[b]: the stream the EventSource of b is connected to
    shown         \* shown[b]: the last event b received

broker == <<nextSeq, registered, queue, shut, panicked>>
handlers == <<step, out>>
network == <<serving, conn, shown>>
vars == <<lifecycle, broker, handlers, network>>

NoEvent == [seq |-> 0, state |-> "stopped"]
Event(st) == [seq |-> nextSeq + 1, state |-> st]

StreamInit ==
    /\ Init
    /\ nextSeq = 0 /\ registered = {} /\ shut = {} /\ panicked = FALSE
    /\ queue = [s \in Streams |-> <<>>]
    /\ step = [s \in Streams |-> "idle"]
    /\ out = [s \in Streams |-> NoEvent]
    /\ serving = TRUE
    /\ conn = [b \in Browsers |-> NoStream]
    /\ shown = [b \in Browsers |-> NoEvent]

Goto(s, next) == step' = [step EXCEPT ![s] = next]

-----------------------------------------------------------------------------
(* The broker *)

MutantLossy(type) == type # "playback.failed"   \* mutant: only failures count
Lossy(type) == type \in {"chunk.started", "progress.updated"}

Full(s) == Len(queue[s]) >= BufferSize

\* Registered clients that publishLocked disconnects.
Overflowing(type) == IF Lossy(type) THEN {} ELSE {s \in registered : Full(s)}

Queued(e) ==
    [s \in Streams |-> IF s \in registered /\ ~Full(s)
                       THEN Append(queue[s], e) ELSE queue[s]]

\* close(ch) and delete(b.clients, ch).
CloseChannels(S) ==
    /\ registered' = registered \ S
    /\ shut' = shut \cup S
    /\ panicked' = (panicked \/ S \cap shut # {} \/ registered \cap shut # {})

\* PublishPlayback, under the mutex of the manager.
PublishEvent(type, st) ==
    /\ nextSeq' = nextSeq + 1
    /\ queue' = Queued(Event(st))
    /\ CloseChannels(Overflowing(type))

\* A step of the manager that announces something.
Announce ==
    /\ nextSeq < MaxSeq
    /\ \/ Start \/ Pause \/ Resume \/ Stopping \/ Chunk \/ Progress
       \/ EndStopped \/ EndFinished \/ EndFailed \/ Rest
    /\ PublishEvent(announced', state')
    /\ UNCHANGED <<handlers, network>>

-----------------------------------------------------------------------------
(* The handler: subscribe, loop over select, unsubscribe *)

\* The number of the snapshot queued on subscription.
MutantSnapshotSeq == nextSeq   \* mutant: the snapshot is not numbered
SnapshotSeq == nextSeq + 1

\* SubscribeEvents: registration and snapshot in one critical section.
Open(b, s) ==
    /\ serving
    /\ conn[b] = NoStream /\ step[s] = "idle"
    /\ nextSeq' = SnapshotSeq
    /\ queue' = [queue EXCEPT ![s] = <<[seq |-> SnapshotSeq, state |-> state]>>]
    /\ registered' = registered \cup {s}
    /\ Goto(s, "select")
    /\ conn' = [conn EXCEPT ![b] = s]
    /\ UNCHANGED <<lifecycle, shut, panicked, out, serving, shown>>

ConnectedTo(s) == {b \in Browsers : conn[b] = s}

\* r.Context().Done(): the client is gone or the server is closing.
MutantContextDone(s) == ~serving   \* mutant: the request's own context is not watched
ContextDone(s) == ConnectedTo(s) = {} \/ ~serving

Take(s) ==
    /\ step[s] = "select"
    /\ queue[s] # <<>>
    /\ out' = [out EXCEPT ![s] = Head(queue[s])]
    /\ queue' = [queue EXCEPT ![s] = Tail(queue[s])]
    /\ Goto(s, "write")
    /\ UNCHANGED <<lifecycle, nextSeq, registered, shut, panicked, network>>

\* A write blocks until the client reads; the buffers of the network are left out.
Deliver(s) ==
    /\ step[s] = "write"
    /\ ConnectedTo(s) # {}
    /\ shown' = [b \in Browsers |-> IF conn[b] = s THEN out[s] ELSE shown[b]]
    /\ Goto(s, "select")
    /\ UNCHANGED <<lifecycle, broker, out, serving, conn>>

\* The channel is drained and closed, the context ends, or the write fails.
Leave(s) ==
    /\ \/ step[s] = "select" /\ queue[s] = <<>> /\ s \in shut
       \/ step[s] = "select" /\ ContextDone(s)
       \/ step[s] = "write" /\ ConnectedTo(s) = {}
    /\ Goto(s, "leave")
    /\ UNCHANGED <<lifecycle, broker, out, network>>

MutantToClose(s) == {s}   \* mutant: the broker may have closed it before
ToClose(s) == {s} \cap registered

\* The deferred unsubscribe; the response ends and the connection with it.
Unsubscribe(s) ==
    /\ step[s] = "leave"
    /\ registered' = registered \ ToClose(s)
    /\ panicked' = (panicked \/ ToClose(s) \cap shut # {})
    /\ shut' = shut \ {s}   \* the next stream of this name has a new channel
    /\ queue' = [queue EXCEPT ![s] = <<>>]
    /\ out' = [out EXCEPT ![s] = NoEvent]
    /\ Goto(s, "idle")
    /\ conn' = [b \in Browsers |-> IF conn[b] = s THEN NoStream ELSE conn[b]]
    /\ UNCHANGED <<lifecycle, nextSeq, serving, shown>>

-----------------------------------------------------------------------------
(* The environment *)

\* The network fails or the tab is reloaded: the handler learns of it later.
Disconnect(b) ==
    /\ conn[b] # NoStream /\ nextSeq < MaxSeq
    /\ conn' = [conn EXCEPT ![b] = NoStream]
    /\ UNCHANGED <<lifecycle, broker, handlers, serving, shown>>

\* runServe on a signal: BeginShutdown, then cancelServe and server.Shutdown.
BeginShutdown ==
    /\ ~closed /\ Close
    /\ UNCHANGED <<broker, handlers, network>>

CancelServe ==
    /\ closed /\ serving
    /\ serving' = FALSE
    /\ UNCHANGED <<lifecycle, broker, handlers, conn, shown>>

-----------------------------------------------------------------------------

StreamStep(s) == Take(s) \/ Deliver(s) \/ Leave(s) \/ Unsubscribe(s)
BrowserStep(b) == \E s \in Streams : Open(b, s)

StreamNext ==
    \/ Announce
    \/ \E s \in Streams : StreamStep(s)
    \/ \E b \in Browsers : BrowserStep(b) \/ Disconnect(b)
    \/ BeginShutdown \/ CancelServe

StreamSpec == StreamInit /\ [][StreamNext]_vars

\* Handlers are scheduled, a select whose context stays done picks it in the
\* end, and an attentive browser reads and reconnects.  Other browsers may stall
\* the handler that writes to them for ever.
DeliverTo(b) == conn[b] # NoStream /\ Deliver(conn[b])
StreamFairness ==
    /\ \A s \in Streams : WF_vars(Take(s)) /\ SF_vars(Leave(s))
                            /\ WF_vars(Unsubscribe(s))
    /\ \A b \in Attentive : WF_vars(BrowserStep(b)) /\ WF_vars(DeliverTo(b))

FairStreamSpec == StreamSpec /\ StreamFairness

-----------------------------------------------------------------------------
(* Properties *)

Events == [seq : Nat, state : Live \cup Idle]

\* Every variable has its type, and a channel holds what its buffer can.
StreamTypeOK ==
    /\ state \in Live \cup Idle
    /\ nextSeq \in Nat
    /\ registered \subseteq Streams /\ shut \subseteq Streams
    /\ queue \in [Streams -> Seq(Events)]
    /\ \A s \in Streams : Len(queue[s]) <= BufferSize
    /\ panicked \in BOOLEAN
    /\ step \in [Streams -> {"idle", "select", "write", "leave"}]
    /\ out \in [Streams -> Events]
    /\ serving \in BOOLEAN
    /\ conn \in [Browsers -> Streams \cup {NoStream}]
    /\ shown \in [Browsers -> Events]

\* The broker never closes a channel twice nor sends on a closed one, whoever
\* of publisher and handler gives the client up first.
NoPanic == ~panicked

\* A publisher never leaves a client behind: what a registered client will show
\* last, once it has read its queue, has the state of the manager, whatever
\* best-effort events were dropped on the way.
Newest(s) == IF queue[s] # <<>> THEN queue[s][Len(queue[s])] ELSE out[s]
RegisteredIsCurrent == \A s \in registered : Newest(s).state = state

\* docs/architecture.md: every event has a monotonic seq.  A browser receives
\* rising numbers only, through disconnections and reconnections, so that it may
\* take the last event it received for the newest.
NumbersRise ==
    [][\A s \in Streams, b \in Browsers :
         conn[b] = s /\ step[s] = "write" /\ step'[s] = "select" =>
             shown'[b].seq > shown[b].seq]_vars

\* A handler whose client is gone, whose channel the broker has closed, or whose
\* server has cancelled serveCtx ends, unless a client that does not read stalls
\* it: none outlives its connection, while the server serves or after.
HandlersEnd ==
    \A s \in Streams :
        step[s] # "idle" /\ (ConnectedTo(s) = {} \/ s \in shut \/ ~serving) ~>
            step[s] = "idle" \/ \E b \in Browsers \ Attentive : conn[b] = s
=============================================================================
