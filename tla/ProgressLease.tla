--------------------------- MODULE ProgressLease ---------------------------
(***************************************************************************)
(* The leases of progress files: AcquireLease and Close of                 *)
(* src/internal/progress/lease.go over the lock files of lease_unix.go and *)
(* lease_windows.go.  Threads of one process meet in its registry of       *)
(* active paths, threads of different processes at the lock of the          *)
(* operating system, which a crash of its process releases.                *)
(***************************************************************************)
EXTENDS FiniteSets

CONSTANTS
    Threads,
    Processes,
    ProcessOf,   \* ProcessOf[t]: the process thread t runs in
    Paths,
    NoPath, Nobody

ASSUME LeaseAssumption ==
    /\ ProcessOf \in [Threads -> Processes]
    /\ NoPath \notin Paths
    /\ Nobody \notin Threads

VARIABLES
    registry,   \* registry[p]: the set activeLeases.paths of process p
    oslock,     \* oslock[f]: the thread that opened the lock file f exclusively
    step,       \* "out", "lock", "undo", "held", "closing"
    path,       \* path[t]: the path t acquires or holds
    spent,      \* threads that still have a *Lease they closed, and its path
    spentPath

vars == <<registry, oslock, step, path, spent, spentPath>>

Init ==
    /\ registry = [p \in Processes |-> {}]
    /\ oslock = [f \in Paths |-> Nobody]
    /\ step = [t \in Threads |-> "out"]
    /\ path = [t \in Threads |-> NoPath]
    /\ spent = {}
    /\ spentPath = [t \in Threads |-> NoPath]

Goto(t, next) == step' = [step EXCEPT ![t] = next]
Registered(t) == registry[ProcessOf[t]]
SetRegistry(t, S) == registry' = [registry EXCEPT ![ProcessOf[t]] = S]

-----------------------------------------------------------------------------
(* AcquireLease *)

Refused(t, f) == f \in Registered(t)

\* Check and insertion are one critical section; a path in use is refused.
Register(t, f) ==
    /\ step[t] = "out"
    /\ ~Refused(t, f)
    /\ SetRegistry(t, Registered(t) \cup {f})
    /\ path' = [path EXCEPT ![t] = f]
    /\ spent' = spent \ {t}
    /\ spentPath' = [spentPath EXCEPT ![t] = NoPath]
    /\ Goto(t, "lock")
    /\ UNCHANGED oslock

Undo == "undo"

MutantLockable(f) == TRUE   \* mutant: a shared lock
Lockable(f) == oslock[f] = Nobody

\* acquirePlatformLease: flock or an exclusive CreateFile, without waiting.
Lock(t) ==
    /\ step[t] = "lock"
    /\ \/ /\ Lockable(path[t])
          /\ oslock' = [oslock EXCEPT ![path[t]] = t]
          /\ Goto(t, "held")
       \/ Goto(t, Undo) /\ UNCHANGED oslock   \* in use, or an error
    /\ UNCHANGED <<registry, path, spent, spentPath>>

\* The deferred function: the key is taken out again.
Unregister(t) ==
    /\ step[t] = "undo"
    /\ SetRegistry(t, Registered(t) \ {path[t]})
    /\ path' = [path EXCEPT ![t] = NoPath]
    /\ Goto(t, "out")
    /\ UNCHANGED <<oslock, spent, spentPath>>

-----------------------------------------------------------------------------
(* Close *)

Unlocked(t) == [oslock EXCEPT ![path[t]] = Nobody]

\* The first Close: the lock first, whether or not an error is reported.
Close(t) ==
    /\ step[t] = "held"
    /\ oslock' = Unlocked(t)
    /\ Goto(t, "closing")
    /\ UNCHANGED <<registry, path, spent, spentPath>>

Forget(t) ==
    /\ step[t] = "closing"
    /\ SetRegistry(t, Registered(t) \ {path[t]})
    /\ spent' = spent \cup {t}
    /\ spentPath' = [spentPath EXCEPT ![t] = path[t]]
    /\ path' = [path EXCEPT ![t] = NoPath]
    /\ Goto(t, "out")
    /\ UNCHANGED oslock

\* Every further Close of the same lease: sync.Once makes it do nothing.
MutantAgain(t) ==   \* mutant: without the Once
    SetRegistry(t, Registered(t) \ {spentPath[t]})
Again(t) == UNCHANGED registry

CloseAgain(t) ==
    /\ t \in spent
    /\ Again(t)
    /\ spent' = spent \ {t}
    /\ spentPath' = [spentPath EXCEPT ![t] = NoPath]
    /\ UNCHANGED <<oslock, step, path>>

-----------------------------------------------------------------------------

In(p) == {t \in Threads : ProcessOf[t] = p}

\* A process dies, its files are closed by the kernel; it is started again.
Crash(p) ==
    /\ \E t \in In(p) : step[t] # "out"
    /\ registry' = [registry EXCEPT ![p] = {}]
    /\ oslock' = [f \in Paths |-> IF oslock[f] \in In(p) THEN Nobody
                                  ELSE oslock[f]]
    /\ step' = [t \in Threads |-> IF t \in In(p) THEN "out" ELSE step[t]]
    /\ path' = [t \in Threads |-> IF t \in In(p) THEN NoPath ELSE path[t]]
    /\ spent' = spent \ In(p)
    /\ spentPath' = [t \in Threads |-> IF t \in In(p) THEN NoPath ELSE spentPath[t]]

ThreadStep(t) == Lock(t) \/ Unregister(t) \/ Forget(t)

Next ==
    \/ \E t \in Threads : \/ \E f \in Paths : Register(t, f)
                          \/ ThreadStep(t) \/ Close(t) \/ CloseAgain(t)
    \/ \E p \in Processes : Crash(p)

Spec == Init /\ [][Next]_vars

-----------------------------------------------------------------------------
(* Properties *)

\* Every variable has its type.
TypeOK ==
    /\ registry \in [Processes -> SUBSET Paths]
    /\ oslock \in [Paths -> Threads \cup {Nobody}]
    /\ step \in [Threads -> {"out", "lock", "undo", "held", "closing"}]
    /\ path \in [Threads -> Paths \cup {NoPath}]
    /\ \A t \in Threads : path[t] = NoPath <=> step[t] = "out"
    /\ spent \subseteq Threads
    /\ spentPath \in [Threads -> Paths \cup {NoPath}]

\* Registry and lock files together are the lease that Lease promises: one holder
\* of a path at a time, who loses it by its own Close or by the death of its
\* process only, whatever others acquire, fail to acquire or close meanwhile.
Holders == [f \in Paths |-> {t \in Threads : step[t] = "held" /\ path[t] = f}]
Contract == INSTANCE Lease WITH Owners <- Threads, Files <- Paths,
                                Together <- {In(p) : p \in Processes},
                                held <- Holders
ImplementsLease == Contract!Spec

\* At most one thread of one process holds the lease of a path.
MutualExclusion ==
    \A t, u \in Threads :
        step[t] = "held" /\ step[u] = "held" /\ path[t] = path[u] => t = u

\* The lock files are held by those who have the lease, and by nobody else: a
\* failed acquisition, a Close or a crash leaves nothing locked.
LocksAreHeld ==
    \A f \in Paths, t \in Threads :
        oslock[f] = t <=> step[t] = "held" /\ path[t] = f

\* A path is registered exactly while one thread of the process is about it: a
\* path is never refused for ever because a failed acquisition or a Close left
\* it behind, and never given away while it is held.
RegistryIsOwned ==
    \A p \in Processes, f \in Paths :
        f \in registry[p] <=> \E t \in In(p) : step[t] # "out" /\ path[t] = f

\* Within a process a path is acquired, held or closed by one thread at a time,
\* so that taking it out of the registry is never another thread's loss.
OneOwner ==
    \A t, u \in Threads :
        step[t] # "out" /\ ProcessOf[t] = ProcessOf[u] /\ path[t] = path[u] =>
            t = u
=============================================================================
