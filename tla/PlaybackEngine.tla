--------------------------- MODULE PlaybackEngine ---------------------------
(***************************************************************************)
(* The playback manager with the speech engine it calls, functionEngine of *)
(* src/internal/tts/engine.go.  In PlaybackManager a Speak begins and ends  *)
(* and a Stop returns some time.  Here Speak registers its cancellation,    *)
(* and Stop looks it up, cancels and waits, under the mutex of the engine   *)
(* or without it; the composition is shown to implement PlaybackManager.    *)
(* Every session has an engine of its own.                                  *)
(***************************************************************************)
EXTENDS PlaybackProperties

VARIABLES
    turn,      \* turn[s]: the Speaks of session s so far
    current,   \* the Speak whose stop and done the engine has, 0 for nil
    speak,     \* where the Speak under way is
    halted,    \* halted[s]: the Speak whose context Stop has cancelled
    asking,    \* where engine.Stop is, called by c
    held,      \* held[c]: the Speak whose stop and done it has read
    stopErr    \* session.engineStopErr: what engine.Stop has returned

engine == <<turn, current, speak, halted>>
asker == <<asking, held>>
speech == <<engine, asker, stopErr>>
engineVars == <<vars, speech>>

EngineInit ==
    /\ Init
    /\ turn = [s \in Sessions |-> 0]
    /\ current = [s \in Sessions |-> 0]
    /\ speak = [s \in Sessions |-> "none"]
    /\ halted = [s \in Sessions |-> 0]
    /\ asking = [c \in Calls |-> "none"]
    /\ held = [c \in Calls |-> 0]
    /\ stopErr = [s \in Sessions |-> "none"]

-----------------------------------------------------------------------------
(* Speak *)

SpeakGoto(s, next) == speak' = [speak EXCEPT ![s] = next]

MutantRegistered(s) == current[s]   \* mutant: the Speak does not register
Registered(s) == turn[s] + 1

\* The critical section that stores stop and done.
Register(s) ==
    /\ BeginSpeak(s)
    /\ turn' = [turn EXCEPT ![s] = @ + 1]
    /\ current' = [current EXCEPT ![s] = Registered(s)]
    /\ SpeakGoto(s, "speaker")
    /\ UNCHANGED <<halted, asker, stopErr>>

\* speakCtx, a child of the context of the session, has ended.
SpeakCancelled(s) == s \in cancelled \/ halted[s] = turn[s]

\* The speaker starts its process, unless its context has ended before.
StartSpeaker(s) ==
    /\ speak[s] = "speaker"
    /\ SpeakGoto(s, IF SpeakCancelled(s) THEN "failed" ELSE "audible")
    /\ UNCHANGED <<vars, turn, current, halted, asker, stopErr>>

\* The process ends, fails, is killed with its context or by its timeout.
EndSpeaker(s) ==
    /\ speak[s] = "audible"
    /\ \/ SpeakGoto(s, "spoken")
       \/ SpeakGoto(s, "failed")
    /\ UNCHANGED <<vars, turn, current, halted, asker, stopErr>>

Cleared(s) == IF current[s] = turn[s] THEN 0 ELSE current[s]

\* The first part of the deferred function: its critical section.
Clear(s) ==
    /\ speak[s] \in {"spoken", "failed"}
    /\ current' = [current EXCEPT ![s] = Cleared(s)]
    /\ SpeakGoto(s, IF speak[s] = "spoken" THEN "done" ELSE "error")
    /\ UNCHANGED <<vars, turn, halted, asker, stopErr>>

\* close(done), the return of Speak, and the look at the context after it.
SpeakReturns(s) ==
    /\ speak[s] \in {"done", "error"}
    /\ EndSpeak(s)
    /\ speak[s] = "done" => pc'[s] # "finalize" \/ s \in cancelled
    /\ speak[s] = "error" => pc'[s] = "finalize"
    /\ SpeakGoto(s, "none")
    /\ UNCHANGED <<turn, current, halted, asker, stopErr>>

-----------------------------------------------------------------------------
(* Stop *)

\* mutant: an engine that had nothing to stop leaves stopDone open
MutantStopped(c) == IF held[c] = 0 THEN stopFinished
                                   ELSE stopFinished \cup {target[c]}
Stopped(c) == stopFinished \cup {target[c]}

\* engine.Stop has returned r: the manager records it and closes stopDone.
StopReturns(c, r) ==
    /\ stopErr' = [stopErr EXCEPT ![target[c]] = r]
    /\ stopFinished' = Stopped(c)
    /\ Goto(c, "wait")
    /\ asking' = [asking EXCEPT ![c] = "none"]
    /\ held' = [held EXCEPT ![c] = 0]
    /\ UNCHANGED <<control, managerVars, cancelled, stopStarted, engineStopErr,
                   done, finalErr, workerVars, request, reply, diskVars,
                   engine>>

\* The critical section that reads stop and done.
LookUp(c) ==
    /\ step[c] = "engine" /\ asking[c] = "none"
    /\ IF current[target[c]] = 0
         THEN StopReturns(c, "nil")
         ELSE /\ held' = [held EXCEPT ![c] = current[target[c]]]
              /\ asking' = [asking EXCEPT ![c] = "cancel"]
              /\ UNCHANGED <<vars, engine, stopErr>>

Halt(c) ==
    /\ asking[c] = "cancel"
    /\ halted' = [halted EXCEPT ![target[c]] = held[c]]
    /\ asking' = [asking EXCEPT ![c] = "wait"]
    /\ UNCHANGED <<vars, turn, current, speak, held, stopErr>>

DoneClosed(c) == turn[target[c]] > held[c] \/ speak[target[c]] = "none"

AwaitDone(c) ==
    /\ asking[c] = "wait"
    /\ \/ DoneClosed(c) /\ StopReturns(c, "nil")
       \/ c \in expired /\ StopReturns(c, "context")

-----------------------------------------------------------------------------

\* The steps of the manager outside the engine.
ManagerCallStep(c) == step[c] # "engine" /\ CallStep(c) /\ UNCHANGED speech
ManagerWorkerStep(s) ==
    pc[s] \notin {"speak", "speaking"} /\ WorkerStep(s) /\ UNCHANGED speech

EngineCallStep(c) == ManagerCallStep(c) \/ LookUp(c) \/ Halt(c) \/ AwaitDone(c)
EngineWorkerStep(s) ==
    \/ ManagerWorkerStep(s)
    \/ Register(s) \/ StartSpeaker(s) \/ EndSpeaker(s) \/ Clear(s)
    \/ SpeakReturns(s)

EngineNext ==
    \/ \E c \in Calls : EngineCallStep(c)
    \/ \E s \in Sessions : EngineWorkerStep(s)
    \/ Environment /\ UNCHANGED speech

EngineSpec == EngineInit /\ [][EngineNext]_engineVars

\* As in PlaybackManager; the process of a speaker ends, by the timeout at the
\* latest.
EngineFairness ==
    /\ \A c \in Calls : /\ WF_engineVars(EngineCallStep(c))
                        /\ SF_engineVars(Acquire(c) /\ UNCHANGED speech)
    /\ \A s \in Sessions : WF_engineVars(EngineWorkerStep(s))

FairEngineSpec == EngineSpec /\ EngineFairness

-----------------------------------------------------------------------------
(* Properties *)

\* Every variable of the engine has its type.
EngineTypeOK ==
    /\ turn \in [Sessions -> Nat] /\ current \in [Sessions -> Nat]
    /\ speak \in [Sessions -> {"none", "speaker", "audible", "spoken",
                               "failed", "done", "error"}]
    /\ halted \in [Sessions -> Nat]
    /\ asking \in [Calls -> {"none", "cancel", "wait"}]
    /\ held \in [Calls -> Nat]
    /\ stopErr \in [Sessions -> {"none", "nil", "context"}]

\* Once engine.Stop has answered without an error nothing is spoken for its
\* session any more, whether it came before Speak had registered, between two
\* Speaks, or in the middle of one.
SilentAfterStop ==
    \A s \in Sessions : stopErr[s] = "nil" => speak[s] # "audible"

\* The composition is the playback manager of PlaybackManager.
ImplementsManager == Spec

\* What a call inside engine.Stop relies on: its session is cancelled for good,
\* and if it still speaks it is the Speak whose done channel the call has read.
AskersHold ==
    \A c \in Calls :
        /\ step[c] = "engine" => target[c] \in cancelled
        /\ asking[c] # "none" =>
             /\ step[c] = "engine"
             /\ speak[target[c]] = "audible" => held[c] = turn[target[c]]

\* A Speak under way is the one the engine knows.
CurrentSpeak ==
    \A s \in Sessions :
        speak[s] \in {"speaker", "audible", "spoken", "failed"} =>
            current[s] = turn[s] /\ turn[s] > 0

EngineInv ==
    /\ EngineTypeOK /\ AskersHold /\ CurrentSpeak /\ SilentAfterStop
    /\ \A s \in Sessions : stopErr[s] # "none" => s \in cancelled
=============================================================================
