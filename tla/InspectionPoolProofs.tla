----------------------- MODULE InspectionPoolProofs -----------------------
(***************************************************************************)
(* The theorems of InspectionPool and of BookStore, which uses it, for any *)
(* number of calls, slots, paths and edits.                                *)
(* Whoever gives up leaves the file to a party that is still there: to see *)
(* that this goes on to hold, the steps of the goroutine must say whether   *)
(* a file is open, and a file that was handed over must be one to keep.    *)
(***************************************************************************)
EXTENDS BookStore, FiniteSetTheorems, TLAPS

\* Every variable has its type, apart from the number of slots.
PoolTypes ==
    /\ slots \subseteq Calls /\ keepOpen \subseteq Calls
    /\ ended \subseteq Calls /\ failed \subseteq Calls
    /\ step \in [Calls -> {"idle", "acquire", "wait", "check", "reading"}]
    /\ work \in [Calls -> Stages]
    /\ handle \in [Calls -> {"open", "closed"}]
    /\ holders \in [Calls -> SUBSET Parties]

\* Before it opens the file and after it is done the goroutine has none, and a
\* call has none unless it has received it.
NothingHeld(c) ==
    /\ work[c] \in {"none", "begin", "open"} =>
         "goroutine" \notin holders[c]
    /\ work[c] \in {"begin", "open"} => holders[c] = {} /\ handle[c] = "closed"
    /\ step[c] = "acquire" =>
         work[c] = "none" /\ holders[c] = {} /\ handle[c] = "closed"
    /\ step[c] \in {"check", "reading"} => work[c] \in {"release", "none"}
    /\ step[c] = "idle" => "call" \notin holders[c]

\* The goroutine reads only what it holds, and hands over only what is kept.
Kept(c) ==
    /\ work[c] \in {"opened", "inspect"} => holders[c] = {"goroutine"}
    /\ work[c] = "send" /\ holders[c] # {} =>
         holders[c] = {"goroutine"} /\ c \in keepOpen \ failed
    /\ "call" \in holders[c] => holders[c] = {"call"} /\ c \in keepOpen \ failed

Handed == \A c \in Calls : NothingHeld(c) /\ Kept(c)

PoolInv == PoolTypes /\ Cardinality(slots) <= SlotCount
             /\ SlotsAreGoroutines /\ OneHolder /\ Handed

\* The parts that hold for each call by itself.
Single == SlotsAreGoroutines /\ OneHolder /\ Handed

\* Nobody holds anything at first.
LEMMA PoolInit == Init => PoolInv
PROOF
  <1> SUFFICES ASSUME Init PROVE PoolInv
    OBVIOUS
  <1>1. PoolTypes
    BY DEF Init, PoolTypes, Stages, Parties
  <1>2. Cardinality(slots) <= SlotCount
    BY FS_EmptySet, PoolAssumption DEF Init
  <1>3. SlotsAreGoroutines /\ OneHolder /\ Handed
    BY DEF Init, SlotsAreGoroutines, OneHolder, Handed, NothingHeld, Kept
  <1>4. QED
    BY <1>1, <1>2, <1>3 DEF PoolInv

\* A new call finds neither a slot nor a file of the one before.
LEMMA BeginKeeps ==
    ASSUME PoolInv, NEW c \in Calls, Inspect(c) \/ OpenStable(c)
    PROVE  PoolTypes' /\ Single'
PROOF
  <1> USE DEF PoolInv, PoolTypes, Inspect, OpenStable, BeginWith
  <1>1. PoolTypes'
    BY DEF Parties, Stages
  <1>2. SlotsAreGoroutines'
    BY DEF SlotsAreGoroutines
  <1>3. OneHolder'
    BY DEF OneHolder, Handed, NothingHeld, Kept, Parties
  <1>4. Handed'
    BY DEF OneHolder, Handed, NothingHeld, Kept, Parties
  <1>5. QED
    BY <1>1, <1>2, <1>3, <1>4 DEF Single

\* A context that ends takes nothing from anybody.
LEMMA EndContextKeeps ==
    ASSUME PoolInv, NEW c \in Calls, EndContext(c)
    PROVE  PoolTypes' /\ Single'
PROOF
  <1> USE DEF PoolInv, PoolTypes, EndContext
  <1>1. PoolTypes'
    BY DEF Parties, Stages
  <1>2. SlotsAreGoroutines'
    BY DEF SlotsAreGoroutines
  <1>3. OneHolder'
    BY DEF OneHolder, Handed, NothingHeld, Kept, Parties
  <1>4. Handed'
    BY DEF OneHolder, Handed, NothingHeld, Kept, Parties
  <1>5. QED
    BY <1>1, <1>2, <1>3, <1>4 DEF Single

\* A call with a slot has a goroutine from then on.
LEMMA AcquireSlotKeeps ==
    ASSUME PoolInv, NEW c \in Calls, AcquireSlot(c)
    PROVE  PoolTypes' /\ Single'
PROOF
  <1> USE DEF PoolInv, PoolTypes, AcquireSlot
  <1>1. PoolTypes'
    BY DEF Parties, Stages
  <1>2. SlotsAreGoroutines'
    BY DEF SlotsAreGoroutines
  <1>3. OneHolder'
    BY DEF OneHolder, Handed, NothingHeld, Kept, Parties
  <1>4. Handed'
    BY DEF OneHolder, Handed, NothingHeld, Kept, Parties
  <1>5. QED
    BY <1>1, <1>2, <1>3, <1>4 DEF Single

\* A call that gives up while it waits holds nothing that it could leave open.
LEMMA GiveUpKeeps ==
    ASSUME PoolInv, NEW c \in Calls, GiveUp(c)
    PROVE  PoolTypes' /\ Single'
PROOF
  <1> USE DEF PoolInv, PoolTypes, Forget, GiveUp, AbandonedBy, Cancellable
  <1>1. PoolTypes'
    BY DEF Parties, Stages
  <1>2. SlotsAreGoroutines'
    BY DEF SlotsAreGoroutines
  <1>3. OneHolder'
    BY DEF OneHolder, Handed, NothingHeld, Kept, Parties
  <1>4. Handed'
    BY DEF OneHolder, Handed, NothingHeld, Kept, Parties
  <1>5. QED
    BY <1>1, <1>2, <1>3, <1>4 DEF Single

\* What is handed over has one holder before and after.
LEMMA ReceiveKeeps ==
    ASSUME PoolInv, NEW c \in Calls, Receive(c)
    PROVE  PoolTypes' /\ Single'
PROOF
  <1> USE DEF PoolInv, PoolTypes, Receive
  <1>1. PoolTypes'
    BY DEF Parties, Stages
  <1>2. SlotsAreGoroutines'
    BY DEF SlotsAreGoroutines
  <1>3. OneHolder'
    BY DEF OneHolder, Handed, NothingHeld, Kept, Parties
  <1>4. Handed'
    BY DEF OneHolder, Handed, NothingHeld, Kept, Parties
  <1>5. QED
    BY <1>1, <1>2, <1>3, <1>4 DEF Single

\* A late answer is closed, one in time is read by who received it.
LEMMA ReturnKeeps ==
    ASSUME PoolInv, NEW c \in Calls, Return(c)
    PROVE  PoolTypes' /\ Single'
PROOF
  <1> USE DEF PoolInv, PoolTypes, Forget, Return, Closed, Released
  <1>1. PoolTypes'
    BY DEF Parties, Stages
  <1>2. SlotsAreGoroutines'
    BY DEF SlotsAreGoroutines
  <1>3. OneHolder'
    BY DEF OneHolder, Handed, NothingHeld, Kept, Parties
  <1>4. Handed'
    BY DEF OneHolder, Handed, NothingHeld, Kept, Parties
  <1>5. QED
    BY <1>1, <1>2, <1>3, <1>4 DEF Single

\* Who reads has the only reference.
LEMMA CloseBookKeeps ==
    ASSUME PoolInv, NEW c \in Calls, CloseBook(c)
    PROVE  PoolTypes' /\ Single'
PROOF
  <1> USE DEF PoolInv, PoolTypes, Forget, CloseBook, Closed, Released
  <1>1. PoolTypes'
    BY DEF Parties, Stages
  <1>2. SlotsAreGoroutines'
    BY DEF SlotsAreGoroutines
  <1>3. OneHolder'
    BY DEF OneHolder, Handed, NothingHeld, Kept, Parties
  <1>4. Handed'
    BY DEF OneHolder, Handed, NothingHeld, Kept, Parties
  <1>5. QED
    BY <1>1, <1>2, <1>3, <1>4 DEF Single

\* Nothing is open before the file is opened.
LEMMA StartWorkKeeps ==
    ASSUME PoolInv, NEW c \in Calls, StartWork(c)
    PROVE  PoolTypes' /\ Single'
PROOF
  <1> USE DEF PoolInv, PoolTypes, StartWork, Proceed, WorkGoto
  <1>1. PoolTypes'
    BY DEF Parties, Stages
  <1>2. SlotsAreGoroutines'
    BY DEF SlotsAreGoroutines
  <1>3. OneHolder'
    BY DEF OneHolder, Handed, NothingHeld, Kept, Parties
  <1>4. Handed'
    BY DEF OneHolder, Handed, NothingHeld, Kept, Parties
  <1>5. QED
    BY <1>1, <1>2, <1>3, <1>4 DEF Single

\* Who opens the file holds it.
LEMMA OpenFileKeeps ==
    ASSUME PoolInv, NEW c \in Calls, OpenFile(c)
    PROVE  PoolTypes' /\ Single'
PROOF
  <1> USE DEF PoolInv, PoolTypes, OpenFile, WorkGoto
  <1>1. PoolTypes'
    BY DEF Parties, Stages
  <1>2. SlotsAreGoroutines'
    BY DEF SlotsAreGoroutines
  <1>3. OneHolder'
    BY DEF OneHolder, Handed, NothingHeld, Kept, Parties
  <1>4. Handed'
    BY DEF OneHolder, Handed, NothingHeld, Kept, Parties
  <1>5. QED
    BY <1>1, <1>2, <1>3, <1>4 DEF Single

\* The goroutine that reads holds the file.
LEMMA AfterOpenKeeps ==
    ASSUME PoolInv, NEW c \in Calls, AfterOpen(c)
    PROVE  PoolTypes' /\ Single'
PROOF
  <1> USE DEF PoolInv, PoolTypes, AfterOpen, Proceed, WorkGoto
  <1>1. PoolTypes'
    BY DEF Parties, Stages
  <1>2. SlotsAreGoroutines'
    BY DEF SlotsAreGoroutines
  <1>3. OneHolder'
    BY DEF OneHolder, Handed, NothingHeld, Kept, Parties
  <1>4. Handed'
    BY DEF OneHolder, Handed, NothingHeld, Kept, Parties
  <1>5. QED
    BY <1>1, <1>2, <1>3, <1>4 DEF Single

\* Reading changes no holder.
LEMMA InspectFileKeeps ==
    ASSUME PoolInv, NEW c \in Calls, InspectFile(c)
    PROVE  PoolTypes' /\ Single'
PROOF
  <1> USE DEF PoolInv, PoolTypes, InspectFile, WorkGoto
  <1>1. PoolTypes'
    BY DEF Parties, Stages
  <1>2. SlotsAreGoroutines'
    BY DEF SlotsAreGoroutines
  <1>3. OneHolder'
    BY DEF OneHolder, Handed, NothingHeld, Kept, Parties
  <1>4. Handed'
    BY DEF OneHolder, Handed, NothingHeld, Kept, Parties
  <1>5. QED
    BY <1>1, <1>2, <1>3, <1>4 DEF Single

\* What is not to be kept is closed.
LEMMA DecideKeeps ==
    ASSUME PoolInv, NEW c \in Calls, Decide(c)
    PROVE  PoolTypes' /\ Single'
PROOF
  <1> USE DEF PoolInv, PoolTypes, Decide, WorkGoto, Keeps, Closed, Released
  <1>1. PoolTypes'
    BY DEF Parties, Stages
  <1>2. SlotsAreGoroutines'
    BY DEF SlotsAreGoroutines
  <1>3. OneHolder'
    BY DEF OneHolder, Handed, NothingHeld, Kept, Parties
  <1>4. Handed'
    BY DEF OneHolder, Handed, NothingHeld, Kept, Parties
  <1>5. QED
    BY <1>1, <1>2, <1>3, <1>4 DEF Single

\* What nobody will receive is closed by the goroutine.
LEMMA AbandonKeeps ==
    ASSUME PoolInv, NEW c \in Calls, Abandon(c)
    PROVE  PoolTypes' /\ Single'
PROOF
  <1> USE DEF PoolInv, PoolTypes, Abandon, WorkGoto, Closed, Released
  <1>1. PoolTypes'
    BY DEF Parties, Stages
  <1>2. SlotsAreGoroutines'
    BY DEF SlotsAreGoroutines
  <1>3. OneHolder'
    BY DEF OneHolder, Handed, NothingHeld, Kept, Parties
  <1>4. Handed'
    BY DEF OneHolder, Handed, NothingHeld, Kept, Parties
  <1>5. QED
    BY <1>1, <1>2, <1>3, <1>4 DEF Single

\* The goroutine ends with its slot.
LEMMA ReleaseSlotKeeps ==
    ASSUME PoolInv, NEW c \in Calls, ReleaseSlot(c)
    PROVE  PoolTypes' /\ Single'
PROOF
  <1> USE DEF PoolInv, PoolTypes, Forget, ReleaseSlot, WorkGoto, SlotsAfter
  <1>1. PoolTypes'
    BY DEF Parties, Stages
  <1>2. SlotsAreGoroutines'
    BY DEF SlotsAreGoroutines
  <1>3. OneHolder'
    BY DEF OneHolder, Handed, NothingHeld, Kept, Parties
  <1>4. Handed'
    BY DEF OneHolder, Handed, NothingHeld, Kept, Parties
  <1>5. QED
    BY <1>1, <1>2, <1>3, <1>4 DEF Single

\* The number of slots in use never exceeds the capacity of the channel.
LEMMA SlotsKeep ==
    ASSUME PoolInv, [Next]_vars
    PROVE  Cardinality(slots)' <= SlotCount
PROOF
  <1>1. IsFiniteSet(slots) /\ Cardinality(slots) \in Nat
    BY FS_Subset, FS_CardinalityType, PoolAssumption DEF PoolInv, PoolTypes
  <1>2. SlotCount \in Nat
    BY PoolAssumption
  <1>3. ASSUME NEW c \in Calls, AcquireSlot(c)
        PROVE  Cardinality(slots)' <= SlotCount
    <2>1. Cardinality(slots) + 1 <= SlotCount
      BY <1>1, <1>2, <1>3 DEF AcquireSlot
    <2>2. Cardinality(slots \cup {c}) <= Cardinality(slots) + 1
      BY <1>1, FS_AddElement
    <2>3. Cardinality(slots \cup {c}) \in Nat
      BY <1>1, FS_AddElement, FS_CardinalityType
    <2>4. Cardinality(slots \cup {c}) <= SlotCount
      BY <1>1, <1>2, <2>1, <2>2, <2>3
    <2>5. QED
      BY <1>3, <2>4 DEF AcquireSlot
  <1>4. ASSUME NEW c \in Calls, ReleaseSlot(c)
        PROVE  Cardinality(slots)' <= SlotCount
    <2>1. Cardinality(slots \ {c}) <= Cardinality(slots)
      BY <1>1, FS_Subset
    <2>2. Cardinality(slots \ {c}) \in Nat
      BY <1>1, FS_Subset, FS_CardinalityType
    <2>3. Cardinality(slots \ {c}) <= SlotCount
      BY <1>1, <1>2, <2>1, <2>2 DEF PoolInv
    <2>4. QED
      BY <1>4, <2>3 DEF ReleaseSlot, SlotsAfter
  <1>5. CASE UNCHANGED slots
    BY <1>5 DEF PoolInv
  <1>6. QED
    BY <1>3, <1>4, <1>5
       DEF Next, CallStep, WorkStep, Blocking, Inspect, OpenStable, BeginWith,
           EndContext, CloseBook, GiveUp, Receive, Return, StartWork, AfterOpen, Proceed,
           Decide, Abandon, OpenFile, InspectFile, vars

\* The invariant holds in every state, for any number of calls and slots.
THEOREM PoolInvariant == Spec => []PoolInv
PROOF
  <1>1. PoolInv /\ [Next]_vars => PoolInv'
    <2> SUFFICES ASSUME PoolInv, [Next]_vars PROVE PoolInv'
      OBVIOUS
    <2>1. Cardinality(slots)' <= SlotCount
      BY SlotsKeep
    <2>2. PoolTypes' /\ Single'
      <3>1. CASE \E c \in Calls : \/ Inspect(c) \/ OpenStable(c)
                                 \/ EndContext(c) \/ CloseBook(c)
        BY <3>1, BeginKeeps, EndContextKeeps, CloseBookKeeps
      <3>2. CASE \E c \in Calls : CallStep(c)
        BY <3>2, AcquireSlotKeeps, GiveUpKeeps, ReceiveKeeps, ReturnKeeps
           DEF CallStep
      <3>3. CASE \E c \in Calls : WorkStep(c)
        BY <3>3, StartWorkKeeps, AfterOpenKeeps, DecideKeeps, AbandonKeeps,
           ReleaseSlotKeeps DEF WorkStep
      <3>4. CASE \E c \in Calls : Blocking(c)
        BY <3>4, OpenFileKeeps, InspectFileKeeps DEF Blocking
      <3>5. CASE UNCHANGED vars
        BY <3>5 DEF vars, PoolInv, PoolTypes, Single, SlotsAreGoroutines,
                    OneHolder, Handed, NothingHeld, Kept
      <3>6. QED
        BY <3>1, <3>2, <3>3, <3>4, <3>5 DEF Next
    <2>3. QED
      BY <2>1, <2>2 DEF PoolInv, Single
  <1>2. QED
    BY PoolInit, <1>1, PTL DEF Spec

\* An open file has one holder, who is still there to close it and is not read
\* by anybody else, however many calls give up at whatever point.
THEOREM HandlesAreOwned == Spec => []OneHolder
PROOF
  <1>1. PoolInv => OneHolder
    BY DEF PoolInv
  <1>2. QED
    BY <1>1, PoolInvariant, PTL

\* Calls that gave up leave at most SlotCount goroutines in the kernel.
THEOREM WorkIsBounded == Spec => []BoundedWork
PROOF
  <1>1. PoolInv => BoundedWork
    <2>1. PoolInv => slots = {c \in Calls : work[c] # "none"}
      BY DEF PoolInv, PoolTypes, SlotsAreGoroutines
    <2>2. QED
      BY <2>1 DEF PoolInv, BoundedWork
  <1>2. QED
    BY <1>1, PoolInvariant, PTL

\* Every variable has its type, and the channel of slots holds what it can.
THEOREM PoolTypeCorrect == Spec => []TypeOK
PROOF
  <1>1. PoolInv => TypeOK
    BY DEF PoolInv, PoolTypes, TypeOK
  <1>2. QED
    BY <1>1, PoolInvariant, PTL
-----------------------------------------------------------------------------
(* The book store *)

\* AddContext uses the pool as it is.
LEMMA StoreStepIsPoolStep == [StoreNext]_storeVars => [Next]_vars
PROOF
  <1>1. ASSUME NEW c \in Calls,
               \/ BeginAdd(c) \/ AddStep(c) \/ AddBlocking(c)
               \/ (EndContext(c) \/ WorkStep(c)) /\ PoolOnly
               \/ PlaybackStep(c)
        PROVE  [Next]_vars
    BY <1>1
       DEF BeginAdd, AddStep, Inspecting, CheckContext, Store, ReturnBook,
           AddBlocking, OpenPath, ComputeIdentity, PlaybackStep, Next, Blocking
  <1>2. QED
    BY <1>1 DEF StoreNext, Edit, storeVars

\* The pool under the book store is that of InspectionPool: its theorems hold.
THEOREM StoreUsesPool == StoreSpec => Spec
PROOF
  <1>1. StoreInit => Init
    BY DEF StoreInit
  <1>2. QED
    BY <1>1, StoreStepIsPoolStep, PTL DEF StoreSpec, Spec

AddStages == {"none", "inspect", "context", "store", "stored"}
Registered == [path : Paths, ver : Nat]

StoreTypes ==
    /\ content \in [Paths -> Nat]
    /\ adding \in [Calls -> AddStages]
    /\ wants \in [Calls -> Paths]
    /\ opened \in [Calls -> Nat] /\ seen \in [Calls -> Nat]
    /\ started \in [Calls -> Nat]
    /\ books \in Seq(Registered)
    /\ byPath \in [Paths -> Nat]

\* The index and the books say the same of each other.
Index ==
    /\ \A p \in Paths : byPath[p] # 0 =>
         byPath[p] \in 1..Len(books) /\ books[byPath[p]].path = p
    /\ \A i \in 1..Len(books) : byPath[books[i].path] = i

\* Version v was at the path of the call while the call was under way.
InTime(c, v) == started[c] <= v /\ v <= content[wants[c]]

\* The stages of the pool in which the identity has been computed.
Computed(c) ==
    c \notin failed /\ (work[c] \in {"decide", "send"} \/ step[c] = "check")

Fresh(c) ==
    /\ started[c] <= content[wants[c]]
    /\ adding[c] = "inspect" =>
         /\ step[c] # "idle"
         /\ work[c] \in {"opened", "inspect"} => InTime(c, opened[c])
         /\ Computed(c) => InTime(c, seen[c])
    /\ adding[c] \in {"context", "store"} => InTime(c, seen[c])

StoreInv == StoreTypes /\ Index /\ \A c \in Calls : Fresh(c)

\* A step of the pool concerns one call.
PoolStep(c) ==
    \/ Inspect(c) \/ OpenStable(c) \/ EndContext(c) \/ CloseBook(c)
    \/ CallStep(c) \/ WorkStep(c) \/ Blocking(c)

LEMMA OthersKeep ==
    ASSUME PoolTypes, NEW c \in Calls, PoolStep(c), NEW d \in Calls \ {c}
    PROVE  /\ step'[d] = step[d] /\ work'[d] = work[d]
           /\ d \in failed' <=> d \in failed
PROOF
  <1> USE DEF PoolTypes
  <1>1. CASE Inspect(c) \/ OpenStable(c) \/ EndContext(c) \/ CloseBook(c)
    BY <1>1 DEF Inspect, OpenStable, BeginWith, EndContext, CloseBook, Forget
  <1>2. CASE CallStep(c)
    BY <1>2 DEF CallStep, AcquireSlot, GiveUp, Receive, Return, Forget
  <1>3. CASE WorkStep(c)
    BY <1>3 DEF WorkStep, StartWork, AfterOpen, Proceed, Decide, Abandon,
                ReleaseSlot, WorkGoto, Forget
  <1>4. CASE Blocking(c)
    BY <1>4 DEF Blocking, OpenFile, InspectFile, WorkGoto
  <1>5. QED
    BY <1>1, <1>2, <1>3, <1>4 DEF PoolStep

\* Only OpenFile opens a file, and only InspectFile computes an identity.
LEMMA PoolComputesNothing ==
    ASSUME PoolTypes, NEW c \in Calls, EndContext(c) \/ CallStep(c) \/ WorkStep(c),
           step[c] # "idle", step'[c] # "idle"
    PROVE  /\ work'[c] \in {"opened", "inspect"} => work[c] \in {"opened", "inspect"}
           /\ Computed(c)' => Computed(c)
PROOF
  <1> USE DEF PoolTypes, Computed
  <1>1. CASE EndContext(c)
    BY <1>1 DEF EndContext
  <1>2. CASE CallStep(c)
    BY <1>2 DEF CallStep, AcquireSlot, GiveUp, Receive, Return, Forget
  <1>3. CASE WorkStep(c)
    BY <1>3 DEF WorkStep, StartWork, AfterOpen, Proceed, Decide, Abandon,
                ReleaseSlot, WorkGoto, Forget
  <1>4. QED
    BY <1>1, <1>2, <1>3

\* A step that concerns c and leaves the files and the books keeps the others.
LEMMA OthersStayFresh ==
    ASSUME PoolTypes, StoreTypes, NEW c \in Calls, NEW d \in Calls \ {c}, Fresh(d),
           PoolStep(c) \/ UNCHANGED vars, UNCHANGED content,
           adding'[d] = adding[d], wants'[d] = wants[d], opened'[d] = opened[d],
           seen'[d] = seen[d], started'[d] = started[d]
    PROVE  Fresh(d)'
PROOF
  <1>1. /\ step'[d] = step[d] /\ work'[d] = work[d]
        /\ d \in failed' <=> d \in failed
    BY OthersKeep DEF vars
  <1>2. QED
    BY <1>1 DEF Fresh, InTime, Computed

\* The books registered, with the index, when a call stores what it saw.
LEMMA StoreKeeps ==
    ASSUME StoreTypes, Index, NEW c \in Calls, Store(c)
    PROVE  books' \in Seq(Registered) /\ byPath' \in [Paths -> Nat] /\ Index'
PROOF
  <1> DEFINE p == wants[c]
             e == [path |-> p, ver |-> seen[c]]
  <1>1. p \in Paths /\ e \in Registered /\ Entry(c) = e
    BY DEF StoreTypes, Entry, IdentityOf, Registered
  <1>2. Len(books) \in Nat /\ books \in Seq(Registered) /\ byPath \in [Paths -> Nat]
    BY DEF StoreTypes
  <1>3. CASE Known(c) /\ books' = [books EXCEPT ![byPath[p]] = e] /\ byPath' = byPath
    <2>1. byPath[p] \in 1..Len(books) /\ books[byPath[p]].path = p
      BY <1>1, <1>3 DEF Known, Index
    <2>2. books' \in Seq(Registered) /\ Len(books') = Len(books)
      BY <1>1, <1>2, <1>3, <2>1
    <2>3. \A i \in 1..Len(books) : books'[i].path = books[i].path
      BY <1>1, <1>2, <1>3, <2>1
    <2>4. QED
      BY <1>2, <1>3, <2>2, <2>3 DEF Index
  <1>4. CASE UNCHANGED store
    BY <1>2, <1>4 DEF store, Index
  <1>5. CASE /\ ~Known(c) /\ books' = Append(books, e)
             /\ byPath' = [byPath EXCEPT ![p] = Len(books) + 1]
    <2>1. /\ books' \in Seq(Registered) /\ Len(books') = Len(books) + 1
          /\ \A i \in 1..Len(books) : books'[i] = books[i]
          /\ books'[Len(books) + 1] = e
      BY <1>1, <1>2, <1>5
    <2>2. /\ byPath' \in [Paths -> Nat] /\ byPath'[p] = Len(books) + 1
          /\ \A q \in Paths \ {p} : byPath'[q] = byPath[q]
      BY <1>1, <1>2, <1>5
    <2>3. ASSUME NEW q \in Paths, byPath'[q] # 0
          PROVE  byPath'[q] \in 1..Len(books') /\ books'[byPath'[q]].path = q
      <3>1. CASE q = p
        BY <1>1, <1>2, <2>1, <2>2, <3>1
      <3>2. CASE q # p
        <4>1. byPath'[q] = byPath[q]
          BY <2>2, <3>2
        <4>2. byPath[q] \in 1..Len(books) /\ books[byPath[q]].path = q
          BY <2>3, <4>1 DEF Index
        <4>3. QED
          BY <1>2, <2>1, <4>1, <4>2
      <3>3. QED
        BY <3>1, <3>2
    <2>4. ASSUME NEW i \in 1..Len(books') PROVE byPath'[books'[i].path] = i
      <3>1. CASE i = Len(books) + 1
        BY <2>1, <2>2, <3>1
      <3>2. CASE i # Len(books) + 1
        <4>1. i \in 1..Len(books) /\ byPath[books[i].path] = i
          BY <1>2, <2>1, <3>2 DEF Index
        <4>2. books[i] \in Registered
          BY <1>2, <4>1
        <4>3. books[i].path # p
          BY <1>2, <1>5, <4>1 DEF Known
        <4>4. QED
          BY <2>1, <2>2, <4>1, <4>2, <4>3 DEF Registered
      <3>3. QED
        BY <3>1, <3>2
    <2>5. QED
      BY <2>1, <2>2, <2>3, <2>4 DEF Index
  <1>6. QED
    BY <1>1, <1>3, <1>4, <1>5 DEF Store, Indexed

\* What the call c itself has seen stays fresh through each of its steps.
LEMMA OwnStepKeepsFresh ==
    ASSUME PoolTypes, StoreTypes, NEW c \in Calls, Fresh(c),
           \/ BeginAdd(c) \/ AddStep(c) \/ AddBlocking(c)
           \/ (EndContext(c) \/ WorkStep(c)) /\ PoolOnly
           \/ PlaybackStep(c)
    PROVE  Fresh(c)'
PROOF
  <1> USE DEF StoreTypes
  <1>1. content[wants[c]] \in Nat /\ opened[c] \in Nat /\ started[c] \in Nat
    OBVIOUS
  <1>2. CASE BeginAdd(c)
    <2>1. step'[c] = "acquire" /\ work'[c] = "none" /\ adding'[c] = "inspect"
      BY <1>2 DEF BeginAdd, Inspect, BeginWith, AddGoto, PoolTypes
    <2>2. started'[c] = content'[wants'[c]] /\ started'[c] \in Nat
      BY <1>2 DEF BeginAdd
    <2>3. QED
      BY <2>1, <2>2 DEF Fresh, Computed
  <1>3. CASE Inspecting(c)
    <2>1. CASE step'[c] # "idle"
      <3>1. UNCHANGED <<content, adding, wants, started, opened, seen>>
        BY <1>3, <2>1 DEF Inspecting, request, identity
      <3>2. step[c] # "idle"
        BY <1>3 DEF Inspecting, Fresh
      <3>3. /\ work'[c] \in {"opened", "inspect"} => work[c] \in {"opened", "inspect"}
            /\ Computed(c)' => Computed(c)
        BY <1>3, <2>1, <3>2, PoolComputesNothing DEF Inspecting
      <3>4. QED
        BY <2>1, <3>1, <3>3 DEF Fresh, InTime
    <2>2. CASE step'[c] = "idle" /\ Accepted(c)
      <3>1. UNCHANGED <<content, wants, started, seen>> /\ adding'[c] = "context"
        BY <1>3, <2>2 DEF Inspecting, GoOn, AddGoto, request, identity
      <3>2. InTime(c, seen[c])
        BY <1>3, <2>2 DEF Inspecting, Accepted, Fresh, Computed
      <3>3. QED
        BY <3>1, <3>2 DEF Fresh, InTime
    <2>3. CASE step'[c] = "idle" /\ ~Accepted(c)
      <3>1. UNCHANGED <<content, wants>> /\ adding'[c] = "none" /\ started'[c] = 0
        BY <1>3, <2>3 DEF Inspecting, End, AddGoto
      <3>2. QED
        BY <1>1, <3>1 DEF Fresh
    <2>4. QED
      BY <2>1, <2>2, <2>3
  <1>4. CASE CheckContext(c) \/ Store(c) \/ ReturnBook(c)
    <2>1. CASE GoOn(c, "store") /\ adding[c] = "context" /\ UNCHANGED content
      BY <2>1 DEF GoOn, AddGoto, request, identity, Fresh, InTime
    <2>2. CASE GoOn(c, "stored") /\ UNCHANGED content
      BY <2>2 DEF GoOn, AddGoto, request, identity, Fresh
    <2>3. CASE End(c) /\ UNCHANGED content
      <3>1. UNCHANGED <<content, wants>> /\ adding'[c] = "none" /\ started'[c] = 0
        BY <2>3 DEF End, AddGoto
      <3>2. QED
        BY <1>1, <3>1 DEF Fresh
    <2>4. QED
      BY <1>4, <2>1, <2>2, <2>3 DEF CheckContext, Store, ReturnBook
  <1>5. CASE OpenPath(c)
    <2>1. /\ UNCHANGED <<content, adding, wants, started, seen, step>>
          /\ adding[c] = "inspect" => opened'[c] = content[wants[c]]
          /\ work'[c] \in {"opened", "decide"}
          /\ work'[c] = "decide" => c \in failed'
          /\ Computed(c)' => Computed(c)
      BY <1>5 DEF OpenPath, OpenFile, WorkGoto, request, PoolTypes, Computed
    <2>2. QED
      BY <1>1, <2>1 DEF Fresh, InTime
  <1>6. CASE ComputeIdentity(c)
    <2>1. /\ UNCHANGED <<content, adding, wants, started, step>>
          /\ work[c] = "inspect" /\ work'[c] = "decide"
          /\ adding[c] # "inspect" => seen' = seen
      BY <1>6 DEF ComputeIdentity, InspectFile, WorkGoto, request, PoolTypes
    <2>2. CASE adding[c] = "inspect"
      <3>1. InTime(c, opened[c])
        BY <2>1, <2>2 DEF Fresh
      <3>2. seen'[c] \in opened[c]..content[wants[c]]
        BY <1>6, <2>2 DEF ComputeIdentity
      <3>3. QED
        BY <1>1, <2>1, <2>2, <3>1, <3>2 DEF Fresh, InTime
    <2>3. CASE adding[c] # "inspect"
      BY <2>1, <2>3 DEF Fresh, InTime
    <2>4. QED
      BY <2>2, <2>3
  <1>7. CASE (EndContext(c) \/ WorkStep(c)) /\ PoolOnly
    <2>1. /\ UNCHANGED <<content, adding, wants, started, opened, seen>>
          /\ step' = step
      BY <1>7 DEF PoolOnly, request, identity, EndContext, WorkStep, StartWork,
                  AfterOpen, Proceed, Decide, Abandon, ReleaseSlot
    <2>2. CASE adding[c] = "inspect"
      <3>1. step[c] # "idle" /\ step'[c] # "idle"
        BY <2>1, <2>2 DEF Fresh
      <3>2. /\ work'[c] \in {"opened", "inspect"} => work[c] \in {"opened", "inspect"}
            /\ Computed(c)' => Computed(c)
        BY <1>7, <3>1, PoolComputesNothing
      <3>3. QED
        BY <2>1, <2>2, <3>1, <3>2 DEF Fresh, InTime
    <2>3. CASE adding[c] # "inspect"
      BY <2>1, <2>3 DEF Fresh, InTime
    <2>4. QED
      BY <2>2, <2>3
  <1>8. CASE PlaybackStep(c)
    BY <1>8 DEF PlaybackStep, PoolOnly, request, identity, Fresh
  <1>9. QED
    BY <1>2, <1>3, <1>4, <1>5, <1>6, <1>7, <1>8 DEF AddStep, AddBlocking

\* What the calls hold.
CallTypes ==
    /\ adding \in [Calls -> AddStages]
    /\ wants \in [Calls -> Paths]
    /\ opened \in [Calls -> Nat] /\ seen \in [Calls -> Nat]
    /\ started \in [Calls -> Nat]

\* A call that goes on or returns keeps the types of what it holds.
LEMMA GoOnTypes ==
    ASSUME CallTypes, NEW c \in Calls, NEW next \in AddStages, GoOn(c, next)
    PROVE  CallTypes'
PROOF BY DEF CallTypes, GoOn, AddGoto, request, identity

LEMMA EndTypes ==
    ASSUME CallTypes, NEW c \in Calls, End(c)
    PROVE  CallTypes'
PROOF
  <1>1. adding' \in [Calls -> AddStages]
    BY DEF CallTypes, End, AddGoto, AddStages
  <1>2. /\ wants' \in [Calls -> Paths] /\ started' \in [Calls -> Nat]
        /\ opened' \in [Calls -> Nat] /\ seen' \in [Calls -> Nat]
    BY DEF CallTypes, End
  <1>3. QED
    BY <1>1, <1>2 DEF CallTypes

\* Each variable of the store keeps its type.
LEMMA StoreTypesKeep ==
    ASSUME StoreTypes, Index, [StoreNext]_storeVars
    PROVE  StoreTypes' /\ Index'
PROOF
  <1>1. CASE \E c \in Calls : Store(c)
    <2>1. PICK c \in Calls : Store(c)
      BY <1>1
    <2>2. books' \in Seq(Registered) /\ byPath' \in [Paths -> Nat] /\ Index'
      BY <2>1, StoreKeeps
    <2>3. UNCHANGED content /\ (GoOn(c, "stored") \/ End(c))
      BY <2>1 DEF Store
    <2>4. CallTypes'
      BY <2>3, GoOnTypes, EndTypes DEF StoreTypes, CallTypes, AddStages
    <2>5. QED
      BY <2>2, <2>3, <2>4 DEF StoreTypes, CallTypes
  <1>2. CASE ~\E c \in Calls : Store(c)
    <2>1. UNCHANGED <<books, byPath>>
      BY <1>2 DEF StoreNext, BeginAdd, AddStep, Inspecting, CheckContext, ReturnBook,
                  AddBlocking, OpenPath, ComputeIdentity, PoolOnly, PlaybackStep,
                  Edit, store, storeVars
    <2>2. content' \in [Paths -> Nat]
      BY <1>2 DEF StoreNext, BeginAdd, AddStep, Inspecting, CheckContext, ReturnBook,
                  AddBlocking, OpenPath, ComputeIdentity, PoolOnly, PlaybackStep,
                  Edit, storeVars, StoreTypes
    <2>3. ASSUME NEW c \in Calls, AddStep(c) \/ AddBlocking(c) \/ BeginAdd(c)
          PROVE  CallTypes'
      <3>1. CallTypes
        BY DEF StoreTypes, CallTypes
      <3>2. CASE BeginAdd(c)
        <4>1. /\ UNCHANGED identity
              /\ adding' = [adding EXCEPT ![c] = "inspect"]
              /\ \E p \in Paths : /\ wants' = [wants EXCEPT ![c] = p]
                                  /\ started' = [started EXCEPT ![c] = content[p]]
          BY <3>2 DEF BeginAdd, AddGoto
        <4>2. \A p \in Paths : content[p] \in Nat
          BY DEF StoreTypes
        <4>3. QED
          BY <3>1, <4>1, <4>2 DEF CallTypes, identity, AddStages
      <3>3. CASE AddStep(c)
        <4>1. \/ UNCHANGED <<adding, request, identity>>
              \/ \E next \in AddStages : GoOn(c, next)
              \/ End(c)
          BY <1>2, <3>3 DEF AddStep, Inspecting, CheckContext, ReturnBook, AddStages
        <4>2. QED
          BY <3>1, <4>1, GoOnTypes, EndTypes DEF CallTypes, request, identity
      <3>4. CASE OpenPath(c)
        <4>1. content[wants[c]] \in Nat
          BY DEF StoreTypes
        <4>2. QED
          BY <3>1, <3>4, <4>1 DEF OpenPath, CallTypes, request
      <3>5. CASE ComputeIdentity(c)
        <4>1. opened[c] \in Nat /\ content[wants[c]] \in Nat
          BY DEF StoreTypes
        <4>2. \A v \in opened[c]..content[wants[c]] : v \in Nat
          BY <4>1
        <4>3. seen' \in [Calls -> Nat]
          BY <3>1, <3>5, <4>2 DEF ComputeIdentity, CallTypes
        <4>4. UNCHANGED <<adding, wants, started>> /\ opened' \in [Calls -> Nat]
          BY <3>1, <3>5 DEF ComputeIdentity, CallTypes, request
        <4>5. QED
          BY <3>1, <4>3, <4>4 DEF CallTypes
      <3>6. QED
        BY <2>3, <3>2, <3>3, <3>4, <3>5 DEF AddBlocking
    <2>4. CASE UNCHANGED <<adding, request, identity>>
      <3>1. CallTypes'
        BY <2>4 DEF request, identity, StoreTypes, CallTypes
      <3>2. QED
        BY <2>1, <2>2, <3>1 DEF StoreTypes, CallTypes, Index
    <2>5. CASE \E c \in Calls : AddStep(c) \/ AddBlocking(c) \/ BeginAdd(c)
      BY <2>1, <2>2, <2>3, <2>5 DEF StoreTypes, CallTypes, Index
    <2>6. QED
      BY <2>4, <2>5 DEF StoreNext, PlaybackStep, PoolOnly, Edit, storeVars
  <1>3. QED
    BY <1>1, <1>2

\* An edit makes no version too old that was not.
LEMMA EditKeeps ==
    ASSUME StoreTypes, NEW p \in Paths, Edit(p), NEW c \in Calls, Fresh(c)
    PROVE  Fresh(c)'
PROOF
  <1>1. UNCHANGED <<vars, adding, wants, started, opened, seen>>
    BY DEF Edit, request, identity
  <1>2. /\ content[wants[c]] \in Nat /\ content'[wants[c]] \in Nat
        /\ content'[wants[c]] >= content[wants[c]]
    BY DEF Edit, StoreTypes
  <1>3. /\ started[c] \in Nat /\ opened[c] \in Nat /\ seen[c] \in Nat
    BY DEF StoreTypes
  <1>4. \A v \in Nat : InTime(c, v) => InTime(c, v)'
    BY <1>1, <1>2, <1>3 DEF InTime
  <1>5. QED
    BY <1>1, <1>2, <1>3, <1>4 DEF Fresh, Computed, InTime, vars

\* The invariant of the book store.
THEOREM StoreInvariant == StoreSpec => []StoreInv
PROOF
  <1>1. StoreInit => StoreInv
    <2> SUFFICES ASSUME StoreInit PROVE StoreInv
      OBVIOUS
    <2>1. /\ content \in [Paths -> Nat] /\ wants \in [Calls -> Paths]
          /\ \A c \in Calls : content[wants[c]] = 0
      BY StoreAssumption DEF StoreInit
    <2>2. books = << >> /\ books \in Seq(Registered) /\ Len(books) = 0
      BY DEF StoreInit
    <2>3. QED
      BY <2>1, <2>2 DEF StoreInit, StoreInv, StoreTypes, AddStages, Index, Fresh
  <1>2. PoolTypes /\ StoreInv /\ [StoreNext]_storeVars => StoreInv'
    <2> SUFFICES ASSUME PoolTypes, StoreInv, [StoreNext]_storeVars PROVE StoreInv'
      OBVIOUS
    <2>1. StoreTypes' /\ Index'
      BY StoreTypesKeep DEF StoreInv
    <2>2. ASSUME NEW d \in Calls PROVE Fresh(d)'
      <3>1. CASE UNCHANGED storeVars
        BY <3>1 DEF storeVars, vars, request, identity, StoreInv, Fresh, InTime, Computed
      <3>2. CASE \E p \in Paths : Edit(p)
        BY <3>2, EditKeeps DEF StoreInv
      <3>3. ASSUME NEW c \in Calls,
                   \/ BeginAdd(c) \/ AddStep(c) \/ AddBlocking(c)
                   \/ (EndContext(c) \/ WorkStep(c)) /\ PoolOnly
                   \/ PlaybackStep(c)
            PROVE  Fresh(d)'
        <4>1. CASE d = c
          BY <3>3, <4>1, OwnStepKeepsFresh DEF StoreInv
        <4>2. CASE d # c
          <5>1. PoolStep(c) \/ UNCHANGED vars
            BY <3>3 DEF PoolStep, BeginAdd, AddStep, Inspecting, CheckContext, Store,
                        ReturnBook, AddBlocking, OpenPath, ComputeIdentity, Blocking,
                        PlaybackStep
          <5>2. /\ UNCHANGED content
                /\ adding'[d] = adding[d] /\ wants'[d] = wants[d]
                /\ opened'[d] = opened[d] /\ seen'[d] = seen[d]
                /\ started'[d] = started[d]
            BY <3>3, <4>2
               DEF BeginAdd, AddStep, Inspecting, CheckContext, Store, ReturnBook,
                   AddBlocking, OpenPath, ComputeIdentity, PlaybackStep, PoolOnly,
                   GoOn, End, AddGoto, request, identity, StoreInv, StoreTypes
          <5>3. QED
            BY <4>2, <5>1, <5>2, OthersStayFresh DEF StoreInv
        <4>3. QED
          BY <4>1, <4>2
      <3>4. QED
        BY <3>1, <3>2, <3>3 DEF StoreNext
    <2>3. QED
      BY <2>1, <2>2 DEF StoreInv
  <1>3. PoolInv => PoolTypes
    BY DEF PoolInv
  <1>4. QED
    BY <1>1, <1>2, <1>3, StoreUsesPool, PoolInvariant, PTL DEF StoreSpec

\* However many calls register a path at a time, it has one book.
THEOREM PathsHaveOneId == StoreSpec => []OneIdPerPath
PROOF
  <1>1. StoreInv => OneIdPerPath
    <2> SUFFICES ASSUME StoreInv PROVE OneIdPerPath
      OBVIOUS
    <2>1. DOMAIN books = 1..Len(books)
      BY DEF StoreInv, StoreTypes
    <2>2. QED
      BY <2>1 DEF StoreInv, Index, OneIdPerPath
  <1>2. QED
    BY <1>1, StoreInvariant, PTL

\* What AddContext stores was at the path while it was called, whatever other
\* calls and the editor do in between.
THEOREM AddsAreFresh == StoreSpec => AddRefreshes
PROOF
  <1>1. ASSUME StoreInv, [StoreNext]_storeVars, NEW c \in Calls,
               adding[c] = "store", adding'[c] = "stored"
        PROVE  /\ books'[byPath'[wants[c]]].path = wants[c]
               /\ books'[byPath'[wants[c]]].ver \in started[c]..content[wants[c]]
    <2>1. Store(c)
      BY <1>1 DEF StoreNext, storeVars, BeginAdd, AddStep, Inspecting, CheckContext,
                  Store, ReturnBook, AddBlocking, OpenPath, ComputeIdentity,
                  PlaybackStep, PoolOnly, Edit, GoOn, End, AddGoto, StoreInv,
                  StoreTypes
    <2>2. /\ wants[c] \in Paths /\ seen[c] \in Nat /\ started[c] \in Nat
          /\ content[wants[c]] \in Nat
          /\ Len(books) \in Nat /\ books \in Seq(Registered)
          /\ byPath \in [Paths -> Nat] /\ adding \in [Calls -> AddStages]
      BY <1>1 DEF StoreInv, StoreTypes
    <2>3. seen[c] \in started[c]..content[wants[c]]
      BY <1>1, <2>2 DEF StoreInv, Fresh, InTime
    <2>4. Entry(c) = [path |-> wants[c], ver |-> seen[c]]
      BY DEF Entry, IdentityOf
    <2>5. books'[byPath'[wants[c]]] = Entry(c)
      <3>1. ~End(c)
        BY <1>1, <2>2 DEF End, AddGoto
      <3>2. CASE Known(c) /\ books' = [books EXCEPT ![byPath[wants[c]]] = Entry(c)]
                   /\ byPath' = byPath
        <4>1. byPath[wants[c]] \in 1..Len(books)
          BY <1>1, <2>2, <3>2 DEF StoreInv, Index, Known
        <4>2. QED
          BY <2>2, <3>2, <4>1
      <3>3. CASE books' = Append(books, Entry(c)) /\ byPath' = Indexed(c)
        BY <2>2, <3>3 DEF Indexed
      <3>4. QED
        BY <2>1, <3>1, <3>2, <3>3 DEF Store
    <2>6. QED
      BY <2>3, <2>4, <2>5
  <1>2. StoreInv /\ [StoreNext]_storeVars =>
          [\A c \in Calls : adding[c] = "store" /\ adding'[c] = "stored" =>
             LET b == books'[byPath'[wants[c]]] IN
             /\ b.path = wants[c]
             /\ b.ver \in started[c]..content[wants[c]]]_storeVars
    BY <1>1
  <1>3. QED
    BY <1>2, StoreInvariant, PTL DEF StoreSpec, AddRefreshes
=============================================================================
