------------------------ MODULE ProgressLeaseProofs ------------------------
(***************************************************************************)
(* What ProgressLease promises, for any threads, processes and paths.  The *)
(* inductive invariant ties the two registers of a lease, the set of paths *)
(* of a process and the lock of the operating system, to the thread that is *)
(* about the path: neither alone implies mutual exclusion.                  *)
(***************************************************************************)
EXTENDS ProgressLease, TLAPS

IInv == TypeOK /\ LocksAreHeld /\ RegistryIsOwned /\ OneOwner

\* Nobody holds anything at first.
LEMMA LeaseInit == Init => IInv
  BY LeaseAssumption
     DEF Init, IInv, TypeOK, LocksAreHeld, RegistryIsOwned, OneOwner, In

\* Registering a path that is not in the registry makes its thread the owner.
LEMMA RegisterKeeps ==
    ASSUME IInv, NEW t \in Threads, NEW f \in Paths, Register(t, f)
    PROVE  IInv'
<1> USE LeaseAssumption DEF IInv, Register, Refused, Goto, SetRegistry, Registered
<1>1. TypeOK'
  BY DEF TypeOK
<1>2. LocksAreHeld'
  BY DEF TypeOK, LocksAreHeld
<1>3. RegistryIsOwned'
  BY DEF TypeOK, RegistryIsOwned, In
<1>4. ASSUME NEW u \in Threads, step[u] # "out", ProcessOf[u] = ProcessOf[t]
      PROVE  path[u] # f
  <2> HIDE DEF IInv, SetRegistry, Goto
  <2>1. ProcessOf[t] \in Processes /\ u \in In(ProcessOf[t])
    BY <1>4 DEF In
  <2>2. f \notin registry[ProcessOf[t]]
    OBVIOUS
  <2>3. RegistryIsOwned
    BY DEF IInv
  <2> QED BY <1>4, <2>1, <2>2, <2>3 DEF RegistryIsOwned
<1>5. OneOwner'
  <2> SUFFICES ASSUME NEW u \in Threads, NEW v \in Threads,
                      step'[u] # "out", ProcessOf[u] = ProcessOf[v],
                      path'[u] = path'[v], step'[v] # "out"
               PROVE  u = v
    BY DEF TypeOK, OneOwner
  <2>1. CASE u # t /\ v # t
    BY <2>1 DEF TypeOK, OneOwner
  <2>2. CASE u = t /\ v # t
    BY <2>2, <1>4 DEF TypeOK
  <2>3. CASE u # t /\ v = t
    BY <2>3, <1>4 DEF TypeOK
  <2> QED BY <2>1, <2>2, <2>3
<1> QED BY <1>1, <1>2, <1>3, <1>5

\* Locking changes no owner, and a failure leaves the lock alone.
LEMMA LockKeeps ==
    ASSUME IInv, NEW t \in Threads, Lock(t)
    PROVE  IInv'
<1> USE LeaseAssumption DEF IInv, Lock, Lockable, Undo, Goto
<1>1. TypeOK'
  BY DEF TypeOK
<1>2. LocksAreHeld'
  BY DEF TypeOK, LocksAreHeld
<1>3. RegistryIsOwned'
  BY DEF TypeOK, RegistryIsOwned, In
<1>4. OneOwner'
  BY DEF TypeOK, OneOwner
<1> QED BY <1>1, <1>2, <1>3, <1>4

\* Who takes a path out of the registry was its only owner.
LEMMA UnregisterKeeps ==
    ASSUME IInv, NEW t \in Threads, Unregister(t)
    PROVE  IInv'
<1> USE LeaseAssumption DEF IInv, Unregister, Goto, SetRegistry, Registered
<1>1. TypeOK'
  BY DEF TypeOK
<1>2. LocksAreHeld'
  BY DEF TypeOK, LocksAreHeld
<1>3. RegistryIsOwned'
  BY DEF TypeOK, RegistryIsOwned, OneOwner, In
<1>4. OneOwner'
  BY DEF TypeOK, OneOwner
<1> QED BY <1>1, <1>2, <1>3, <1>4

\* The lock is given back while the path is still registered.
LEMMA CloseKeeps ==
    ASSUME IInv, NEW t \in Threads, Close(t)
    PROVE  IInv'
<1> USE LeaseAssumption DEF IInv, Close, Unlocked, Goto
<1>1. TypeOK'
  BY DEF TypeOK
<1>2. LocksAreHeld'
  BY DEF TypeOK, LocksAreHeld
<1>3. RegistryIsOwned'
  BY DEF TypeOK, RegistryIsOwned, In
<1>4. OneOwner'
  BY DEF TypeOK, OneOwner
<1> QED BY <1>1, <1>2, <1>3, <1>4

\* Who gives the path back to the registry was its only owner.
LEMMA ForgetKeeps ==
    ASSUME IInv, NEW t \in Threads, Forget(t)
    PROVE  IInv'
<1> USE LeaseAssumption DEF IInv, Forget, Goto, SetRegistry, Registered
<1>1. TypeOK'
  BY DEF TypeOK
<1>2. LocksAreHeld'
  BY DEF TypeOK, LocksAreHeld
<1>3. RegistryIsOwned'
  BY DEF TypeOK, RegistryIsOwned, OneOwner, In
<1>4. OneOwner'
  BY DEF TypeOK, OneOwner
<1> QED BY <1>1, <1>2, <1>3, <1>4

\* A lease that is closed again touches nothing that may be another's by now.
LEMMA CloseAgainKeeps ==
    ASSUME IInv, NEW t \in Threads, CloseAgain(t)
    PROVE  IInv'
<1> USE LeaseAssumption DEF IInv, CloseAgain, Again
<1>1. TypeOK'
  BY DEF TypeOK
<1> QED BY <1>1 DEF LocksAreHeld, RegistryIsOwned, OneOwner

\* A process that dies takes along its registry, its locks and its threads.
LEMMA CrashKeeps ==
    ASSUME IInv, NEW p \in Processes, Crash(p)
    PROVE  IInv'
<1> USE LeaseAssumption DEF IInv, Crash, In
<1>1. TypeOK'
  BY DEF TypeOK
<1>2. LocksAreHeld'
  BY DEF TypeOK, LocksAreHeld
<1>3. RegistryIsOwned'
  BY DEF TypeOK, RegistryIsOwned
<1>4. OneOwner'
  BY DEF TypeOK, OneOwner
<1> QED BY <1>1, <1>2, <1>3, <1>4

\* The invariant holds in every state of every instance.
THEOREM LeaseInvariant == Spec => []IInv
<1>1. Init => IInv
  BY LeaseInit
<1>2. IInv /\ [Next]_vars => IInv'
  <2> SUFFICES ASSUME IInv, [Next]_vars PROVE IInv'
    OBVIOUS
  <2>1. ASSUME NEW t \in Threads, NEW f \in Paths, Register(t, f) PROVE IInv'
    BY <2>1, RegisterKeeps
  <2>2. ASSUME NEW t \in Threads, ThreadStep(t) PROVE IInv'
    BY <2>2, LockKeeps, UnregisterKeeps, ForgetKeeps DEF ThreadStep
  <2>3. ASSUME NEW t \in Threads, Close(t) \/ CloseAgain(t) PROVE IInv'
    BY <2>3, CloseKeeps, CloseAgainKeeps
  <2>4. ASSUME NEW p \in Processes, Crash(p) PROVE IInv'
    BY <2>4, CrashKeeps
  <2>5. CASE UNCHANGED vars
    BY <2>5 DEF IInv, vars, TypeOK, LocksAreHeld, RegistryIsOwned, OneOwner, In
  <2> QED BY <2>1, <2>2, <2>3, <2>4, <2>5 DEF Next
<1> QED BY <1>1, <1>2, PTL DEF Spec

\* At most one thread of all processes holds the lease of a path: a second
\* AcquireLease answers ErrInUse until the first lease is closed or its process
\* is gone.
THEOREM LeaseExclusion == Spec => []MutualExclusion
<1>1. IInv => MutualExclusion
  BY LeaseAssumption DEF IInv, TypeOK, LocksAreHeld, MutualExclusion
<1> QED BY <1>1, LeaseInvariant, PTL

\* A lock file is open exactly while a thread holds the lease of its path:
\* failures, closes and crashes leave nothing locked.
THEOREM NothingStaysLocked == Spec => []LocksAreHeld
<1>1. IInv => LocksAreHeld
  BY DEF IInv
<1> QED BY <1>1, LeaseInvariant, PTL

\* A path is in the registry of a process exactly while one of its threads is
\* about it: no path is refused for ever, none is given away while it is held.
THEOREM RegistryIsExact == Spec => [](RegistryIsOwned /\ OneOwner)
<1>1. IInv => RegistryIsOwned /\ OneOwner
  BY DEF IInv
<1> QED BY <1>1, LeaseInvariant, PTL

-----------------------------------------------------------------------------
(* What those who use a lease may rely on *)

LEMMA HoldersOf ==
    ASSUME TypeOK, LocksAreHeld, NEW f \in Paths
    PROVE  Holders[f] = {oslock[f]} \ {Nobody}
  BY LeaseAssumption DEF Holders, TypeOK, LocksAreHeld

\* Every step takes one lease that nobody had, gives one back that its thread
\* had, ends a process, or changes no holder.
LEMMA LeaseStep ==
    IInv /\ IInv' /\ [Next]_vars => [Contract!Next]_Holders
<1> SUFFICES ASSUME IInv, IInv', [Next]_vars PROVE [Contract!Next]_Holders
  OBVIOUS
<1> USE LeaseAssumption DEF IInv
<1>1. \A f \in Paths : Holders[f] = {oslock[f]} \ {Nobody}
  BY HoldersOf
<1>2. \A f \in Paths : Holders'[f] = {oslock'[f]} \ {Nobody}
  BY DEF Holders, TypeOK, LocksAreHeld
<1>3. CASE UNCHANGED oslock
  <2>1. \A f \in Paths : Holders'[f] = Holders[f]
    BY <1>1, <1>2, <1>3
  <2> QED BY <2>1 DEF Holders
<1>4. ASSUME NEW t \in Threads, Lock(t), ~UNCHANGED oslock
      PROVE  Contract!Take(t, path[t])
  <2>1. /\ path[t] \in Paths /\ oslock[path[t]] = Nobody
        /\ oslock' = [oslock EXCEPT ![path[t]] = t]
    BY <1>4 DEF Lock, Lockable, TypeOK
  <2>2. \A f \in Paths : oslock'[f] = IF f = path[t] THEN t ELSE oslock[f]
    BY <2>1 DEF TypeOK
  <2>3. \A f \in Paths : Holders'[f] = IF f = path[t] THEN {t} ELSE Holders[f]
    <3>1. t # Nobody
      OBVIOUS
    <3>2. {t} \ {Nobody} = {t}
      BY <3>1
    <3> SUFFICES ASSUME NEW g \in Paths
                 PROVE  Holders'[g] = IF g = path[t] THEN {t} ELSE Holders[g]
      OBVIOUS
    <3> HIDE DEF IInv
    <3>3. CASE g = path[t]
      <4>1. oslock'[g] = t
        BY <2>2, <3>3
      <4> QED BY <1>2, <3>2, <3>3, <4>1
    <3>4. CASE g # path[t]
      <4>1. oslock'[g] = oslock[g]
        BY <2>2, <3>4
      <4> QED BY <1>1, <1>2, <3>4, <4>1
    <3> QED BY <3>3, <3>4
  <2>4. Holders[path[t]] = {}
    BY <1>1, <2>1
  <2>5. Holders' = [Holders EXCEPT ![path[t]] = {t}]
    BY <2>3 DEF Holders
  <2> HIDE DEF IInv
  <2> QED BY <2>4, <2>5 DEF Contract!Take
<1>5. ASSUME NEW t \in Threads, Close(t)
      PROVE  Contract!Give(t, path[t])
  <2>1. /\ path[t] \in Paths /\ oslock[path[t]] = t
        /\ oslock' = [oslock EXCEPT ![path[t]] = Nobody]
    BY <1>5 DEF Close, Unlocked, TypeOK, LocksAreHeld
  <2>2. \A f \in Paths : oslock'[f] = IF f = path[t] THEN Nobody ELSE oslock[f]
    BY <2>1 DEF TypeOK
  <2> HIDE DEF IInv
  <2>3. ASSUME NEW f \in Paths
        PROVE  Holders'[f] = IF f = path[t] THEN {} ELSE Holders[f]
    <3>1. CASE f = path[t]
      <4>1. oslock'[f] = Nobody
        BY <2>2, <3>1
      <4> QED BY <1>2, <3>1, <4>1
    <3>2. CASE f # path[t]
      <4>1. oslock'[f] = oslock[f]
        BY <2>2, <3>2
      <4> QED BY <1>1, <1>2, <3>2, <4>1
    <3> QED BY <3>1, <3>2
  <2>4. Holders[path[t]] = {t}
    BY <1>1, <2>1
  <2>5. Holders' = [Holders EXCEPT ![path[t]] = {}]
    <3> DEFINE H == Holders
    <3>1. /\ H' = [f \in Paths |-> H'[f]] /\ H = [f \in Paths |-> H[f]]
      BY DEF Holders
    <3>2. \A f \in Paths : H'[f] = IF f = path[t] THEN {} ELSE H[f]
      BY <2>3
    <3> HIDE DEF H
    <3>3. H' = [H EXCEPT ![path[t]] = {}]
      BY <3>1, <3>2
    <3> QED BY <3>3 DEF H
  <2> QED BY <2>4, <2>5 DEF Contract!Give
<1>6. ASSUME NEW p \in Processes, Crash(p)
      PROVE  Contract!Die(In(p))
  <2>1. \A f \in Paths : oslock'[f] = IF oslock[f] \in In(p) THEN Nobody
                                      ELSE oslock[f]
    BY <1>6 DEF Crash
  <2>2. \A f \in Paths : Holders'[f] = Holders[f] \ In(p)
    BY <1>1, <1>2, <2>1 DEF In
  <2> QED BY <2>2 DEF Contract!Die, Holders
<1>7. \/ UNCHANGED oslock
      \/ \E t \in Threads : Lock(t) \/ Close(t)
      \/ \E p \in Processes : Crash(p)
  BY DEF Next, ThreadStep, Register, Unregister, Forget, CloseAgain, vars
<1>8. \A t \in Threads : Lock(t) \/ Close(t) => path[t] \in Paths
  BY DEF Lock, Close, TypeOK
<1> QED BY <1>3, <1>4, <1>5, <1>6, <1>7, <1>8 DEF Contract!Next

\* The registry of each process and the lock files are together the lease of
\* Lease: whatever is acquired, refused, closed twice or cut off by a crash, a
\* path has one holder at a time, and only that holder, or the death of its
\* process, ends its lease.
THEOREM LeaseRefinement == Spec => ImplementsLease
<1>1. Init => Contract!Init
  BY DEF Init, Contract!Init, Holders
<1>2. IInv /\ IInv' /\ [Next]_vars => [Contract!Next]_Holders
  BY LeaseStep
<1> QED BY <1>1, <1>2, LeaseInvariant, PTL DEF Spec, ImplementsLease, Contract!Spec
=============================================================================
