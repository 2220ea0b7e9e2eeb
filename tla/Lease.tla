------------------------------- MODULE Lease -------------------------------
(***************************************************************************)
(* What AcquireLease and Close of src/internal/progress/lease.go promise to *)
(* those who keep their progress in a file: one of them at a time has it,  *)
(* until it gives it back or dies.  A refusal is no step.  ProgressLease    *)
(* shows that the registry and the lock files keep the promise; the        *)
(* readers of ProgressFile and the sessions of PlaybackManager, which take  *)
(* a lease in one step, rely on no more than it.                           *)
(***************************************************************************)
CONSTANTS
    Owners,
    Files,
    Together   \* sets of owners that live in one process

VARIABLE held  \* held[f]: those who have the lease of f

Init == held = [f \in Files |-> {}]

Take(o, f) == held[f] = {} /\ held' = [held EXCEPT ![f] = {o}]

Give(o, f) == held[f] = {o} /\ held' = [held EXCEPT ![f] = {}]

\* A process dies: the kernel closes its files.
Die(S) == held' = [f \in Files |-> held[f] \ S]

Next ==
    \/ \E o \in Owners, f \in Files : Take(o, f) \/ Give(o, f)
    \/ \E S \in Together : Die(S)

Spec == Init /\ [][Next]_held
=============================================================================
