------------------------------- MODULE Server -------------------------------
(***************************************************************************)
(* The local server of src/server.go around the playback manager: runServe *)
(* from the first request to the exit code, the router of src/http_api.go   *)
(* with its handlers, and the event streams as far as they hold up the end *)
(* of the server.  Each handler is a call of PlaybackManager, as is the    *)
(* final Stop of runServe.                                                 *)
(***************************************************************************)
EXTENDS PlaybackProperties

CONSTANTS
    Main,      \* runServe as a caller of the manager
    Streams,   \* clients of the event stream
    Prompt     \* five seconds are enough for every handler that is not blocked

ASSUME MainAssumption == Main \in Calls /\ Prompt \in BOOLEAN

Requests == Calls \ {Main}

VARIABLES
    main,          \* where runServe is
    apiClosed,     \* api.shuttingDown
    serveEnded,    \* serveCtx is cancelled
    listening,     \* the listener is open
    shutdownErr,   \* server.Shutdown ran into its timeout
    stopReply,     \* what the final Stop answered
    exitCode,      \* -1 while the process runs
    handler,       \* handler[c]: where the handler of request c is
    stream         \* stream[w]: where handleEvents is for client w

mainVars == <<main, apiClosed, serveEnded, listening, shutdownErr, stopReply,
              exitCode>>
http == <<handler, stream>>
serverVars == <<vars, mainVars, http>>

ServerInit ==
    /\ Init
    /\ main = "serving"
    /\ apiClosed = FALSE /\ serveEnded = FALSE /\ listening = TRUE
    /\ shutdownErr = FALSE /\ stopReply = "none" /\ exitCode = -1
    /\ handler = [c \in Requests |-> "none"]
    /\ stream = [w \in Streams |-> "none"]

Alive == exitCode = -1

-----------------------------------------------------------------------------
(* Requests that change state *)

HandlerGoto(c, next) == handler' = [handler EXCEPT ![c] = next]

Arrive(c) ==
    /\ listening /\ handler[c] = "none"
    /\ HandlerGoto(c, "route")
    /\ UNCHANGED <<vars, mainVars, stream>>

\* The middleware of Routes: once BeginShutdown was called the answer is 503.
Route(c) ==
    /\ handler[c] = "route"
    /\ HandlerGoto(c, IF apiClosed THEN "none" ELSE "handle")
    /\ UNCHANGED <<vars, mainVars, stream>>

\* The handler has decoded the request, or answers that it cannot.
Handle(c) ==
    /\ handler[c] = "handle"
    /\ \/ BeginCall(c) /\ HandlerGoto(c, "manager")
       \/ HandlerGoto(c, "none") /\ UNCHANGED vars
    /\ UNCHANGED <<mainVars, stream>>

\* The manager works for the request; the response ends the handler.
Manage(c) ==
    /\ handler[c] = "manager"
    /\ CallStep(c)
    /\ IF step'[c] = "idle" THEN HandlerGoto(c, "none") ELSE UNCHANGED handler
    /\ UNCHANGED <<mainVars, stream>>

-----------------------------------------------------------------------------
(* Event streams *)

StreamGoto(w, next) == stream' = [stream EXCEPT ![w] = next]

Connect(w) ==
    /\ listening /\ stream[w] = "none"
    /\ StreamGoto(w, "select")
    /\ UNCHANGED <<vars, mainVars, handler>>

\* A write of an event or a heartbeat finds the buffers of the connection full:
\* it returns when the client reads again, and fails when the client is gone.
\* The end of a context does not interrupt it, and there is no WriteTimeout.
Block(w) ==
    /\ stream[w] = "select"
    /\ StreamGoto(w, "write")
    /\ UNCHANGED <<vars, mainVars, handler>>

Unblock(w) ==
    /\ stream[w] = "write"
    /\ \/ StreamGoto(w, "select")
       \/ StreamGoto(w, "none")
    /\ UNCHANGED <<vars, mainVars, handler>>

\* The select finds r.Context() ended, or a write fails.
LeaveStream(w) ==
    /\ stream[w] = "select"
    /\ StreamGoto(w, "none")
    /\ UNCHANGED <<vars, mainVars, handler>>

-----------------------------------------------------------------------------
(* runServe *)

MainGoto(next) == main' = next

Signal ==
    /\ main = "serving"
    /\ MainGoto("signalled")
    /\ UNCHANGED <<vars, apiClosed, serveEnded, listening, shutdownErr,
                   stopReply, exitCode, http>>

\* The listener fails: the process ends at once.
ListenerFails ==
    /\ main = "serving"
    /\ MainGoto("failed") /\ exitCode' = 1
    /\ UNCHANGED <<vars, apiClosed, serveEnded, listening, shutdownErr,
                   stopReply, http>>

\* api.BeginShutdown: its own flag, then the manager's.
CloseAPI ==
    /\ main = "signalled"
    /\ apiClosed' = TRUE
    /\ MainGoto("begin")
    /\ UNCHANGED <<vars, serveEnded, listening, shutdownErr, stopReply,
                   exitCode, http>>

CloseManager ==
    /\ main = "begin"
    /\ BeginShutdown
    /\ MainGoto("cancel")
    /\ UNCHANGED <<apiClosed, serveEnded, listening, shutdownErr, stopReply,
                   exitCode, http>>

CancelServe ==
    /\ main = "cancel"
    /\ serveEnded' = TRUE
    /\ MainGoto("shutdown")
    /\ UNCHANGED <<vars, apiClosed, listening, shutdownErr, stopReply, exitCode,
                   http>>

CloseListener ==
    /\ main = "shutdown"
    /\ listening' = FALSE
    /\ MainGoto("drain")
    /\ UNCHANGED <<vars, apiClosed, serveEnded, shutdownErr, stopReply, exitCode,
                   http>>

Drained == /\ \A c \in Requests : handler[c] = "none"
           /\ \A w \in Streams : stream[w] = "none"

\* Whoever is not blocked in a write has had the time to end.
OutOfTime ==
    Prompt => /\ \A c \in Requests : handler[c] = "none"
              /\ \A w \in Streams : stream[w] # "select"

\* mutant: the error of Shutdown is returned at once
MutantAfterShutdown(failed) == IF failed THEN "stopped" ELSE "stop"
AfterShutdown(failed) == "stop"

\* server.Shutdown returns, without an error or with that of its context.
ShutdownReturns ==
    /\ main = "drain"
    /\ \/ Drained /\ UNCHANGED shutdownErr
       \/ ~Drained /\ OutOfTime /\ shutdownErr' = TRUE
    /\ MainGoto(AfterShutdown(shutdownErr'))
    /\ UNCHANGED <<vars, apiClosed, serveEnded, listening, stopReply, exitCode,
                   http>>

CallStop ==
    /\ main = "stop"
    /\ BeginCall(Main) /\ op'[Main] = "stop"
    /\ MainGoto("stopping")
    /\ UNCHANGED <<apiClosed, serveEnded, listening, shutdownErr, stopReply,
                   exitCode, http>>

Stopping ==
    /\ main = "stopping"
    /\ CallStep(Main)
    /\ IF step'[Main] = "idle"
         THEN MainGoto("stopped") /\ stopReply' = reply[Main]
         ELSE UNCHANGED <<main, stopReply>>
    /\ UNCHANGED <<apiClosed, serveEnded, listening, shutdownErr, exitCode, http>>

\* mutant: the final Stop has no timeout
MutantStopTimeout == FALSE
\* The ten seconds of playbackCtx are over.
StopTimeout == main = "stopping" /\ Expire(Main)

\* mutant: the error of Shutdown is not joined
MutantExitStatus == IF stopReply # "ok" THEN 1 ELSE 0
ExitStatus == IF stopReply # "ok" \/ shutdownErr THEN 1 ELSE 0

Exit ==
    /\ main = "stopped"
    /\ MainGoto("exited") /\ exitCode' = ExitStatus
    /\ UNCHANGED <<vars, apiClosed, serveEnded, listening, shutdownErr,
                   stopReply, http>>

-----------------------------------------------------------------------------

MainStep ==
    \/ CloseAPI \/ CloseManager \/ CancelServe \/ CloseListener
    \/ ShutdownReturns \/ CallStop \/ Stopping \/ Exit

RequestStep(c) == Arrive(c) \/ Route(c) \/ Handle(c) \/ Manage(c)

StreamStep(w) == Connect(w) \/ Block(w) \/ Unblock(w) \/ LeaveStream(w)

ServerNext ==
    \/ /\ Alive
       /\ \/ MainStep \/ Signal \/ ListenerFails
          \/ StopTimeout /\ UNCHANGED <<mainVars, http>>
          \/ \E c \in Requests :
               \/ RequestStep(c)
               \/ Expire(c) /\ UNCHANGED <<mainVars, http>>
          \/ \E w \in Streams : StreamStep(w)
          \/ \E s \in Sessions : WorkerStep(s) /\ UNCHANGED <<mainVars, http>>
          \/ \E b \in Books : /\ Edit(b) \/ OtherAcquire(b) \/ OtherSave(b)
                                   \/ OtherRelease(b)
                              /\ UNCHANGED <<mainVars, http>>
    \/ ~Alive /\ UNCHANGED serverVars   \* the process is gone

ServerSpec == ServerInit /\ [][ServerNext]_serverVars

\* runServe is scheduled and its timeouts come; of handlers, streams and
\* workers nothing is assumed.
MainFairness ==
    /\ WF_serverVars(MainStep)
    /\ WF_serverVars(StopTimeout /\ UNCHANGED <<mainVars, http>>)

FairServerSpec == ServerSpec /\ MainFairness

-----------------------------------------------------------------------------
(* Properties *)

Signalled == main \notin {"serving", "failed"}

\* The final Stop is the last word: once it has answered that playback is
\* stopped no session runs, nor begins, although a Start admitted before the
\* signal may still be at its file work.
StopIsFinal ==
    stopReply \notin {"none", "stopping", "cancelled"} =>
        active = NoSession /\ \A s \in Sessions : ~Running(s)

\* A request or an event stream that holds up the shutdown does not cost the
\* listener his place: the process is not left over a session that nobody has
\* tried to stop.
NoSessionForgotten ==
    exitCode # -1 /\ Signalled /\ active # NoSession =>
        stopReply = "stopping" /\ active \in stopStarted

\* Exit code 0 promises that no request or stream was cut off, that no session
\* was left running and that every lease was given back.
ExitZeroIsClean ==
    exitCode = 0 =>
        /\ \A c \in Requests : handler[c] = "none"
        /\ \A w \in Streams : stream[w] = "none"
        /\ \A s \in Sessions : ~Running(s)
        /\ \A b \in Books : lease[b] \in {Free, Other}

\* A signal ends the process, whether or not requests, streams and workers ever
\* return.  What is done while mu is held is one step here, the file operations
\* of finalizeSession included: they are taken to return.
SignalEndsProcess == Signalled ~> exitCode # -1

\* What docs/architecture.md says of open event streams: cancelServe makes
\* them leave, and they never hold up the shutdown until its timeout.
StreamsNeverHoldShutdown ==
    shutdownErr => \E c \in Requests : handler[c] # "none"
=============================================================================
