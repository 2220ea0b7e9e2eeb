-------------------------- MODULE InspectionPool --------------------------
(***************************************************************************)
(* inspectOwnedFileContext of src/internal/book/store.go: a call that      *)
(* inspects a book hands the file to a goroutine of its own, so that the   *)
(* call can return when its context ends although the kernel still blocks  *)
(* the goroutine.  At most SlotCount goroutines exist, and who holds the    *)
(* file handle closes it.  A call and its goroutine have the same name; it *)
(* is used again once both have ended.                                     *)
(***************************************************************************)
EXTENDS Naturals, FiniteSets

CONSTANTS
    Calls,       \* concurrent calls
    SlotCount    \* capacity of inspectionSlots

ASSUME PoolAssumption ==
    /\ IsFiniteSet(Calls)
    /\ SlotCount \in Nat \ {0}

VARIABLES
    slots,      \* the calls whose goroutine holds a slot
    step,       \* the call: "idle", "acquire", "wait", "check", "reading"
    keepOpen,   \* those of OpenStableReadContext, which keep the file open
    ended,      \* calls whose context has ended
    work,       \* the goroutine of each call
    failed,     \* goroutines whose result.err is set
    handle,     \* the file: "open", "closed"
    holders     \* holders[c]: who has a reference to the open file

vars == <<slots, step, keepOpen, ended, work, failed, handle, holders>>

Parties == {"goroutine", "call"}

Init ==
    /\ slots = {} /\ keepOpen = {} /\ ended = {} /\ failed = {}
    /\ step = [c \in Calls |-> "idle"]
    /\ work = [c \in Calls |-> "none"]
    /\ handle = [c \in Calls |-> "closed"]
    /\ holders = [c \in Calls |-> {}]

-----------------------------------------------------------------------------
(* The call *)

\* What is known of a call is forgotten when it and its goroutine have ended.
Forget(c) ==
    IF step'[c] = "idle" /\ work'[c] = "none"
      THEN /\ keepOpen' = keepOpen \ {c}
           /\ ended' = ended \ {c} /\ failed' = failed \ {c}
      ELSE UNCHANGED <<keepOpen, ended, failed>>

\* InspectFileContext begins, or OpenStableReadContext, which sets keepOpen.
BeginWith(c, kept) ==
    /\ step[c] = "idle" /\ work[c] = "none"
    /\ step' = [step EXCEPT ![c] = "acquire"]
    /\ keepOpen' = keepOpen \cup kept
    /\ UNCHANGED <<slots, ended, work, failed, handle, holders>>

Inspect(c) == BeginWith(c, {})
OpenStable(c) == BeginWith(c, {c})

EndContext(c) ==
    /\ step[c] \in {"acquire", "wait", "check"}
    /\ c \notin ended
    /\ ended' = ended \cup {c}
    /\ UNCHANGED <<slots, step, keepOpen, work, failed, handle, holders>>

\* inspectionSlots <- struct{}{}, and the goroutine starts.
AcquireSlot(c) ==
    /\ step[c] = "acquire"
    /\ Cardinality(slots) < SlotCount
    /\ slots' = slots \cup {c}
    /\ step' = [step EXCEPT ![c] = "wait"]
    /\ work' = [work EXCEPT ![c] = "begin"]
    /\ UNCHANGED <<keepOpen, ended, failed, handle, holders>>

\* mutant: the caller closes the file on its way out
MutantAbandonedBy(c) ==
    [handle EXCEPT ![c] = "closed"]
AbandonedBy(c) == handle

MutantCancellable == {"wait"}   \* mutant: a slot is waited for regardless
Cancellable == {"acquire", "wait"}

\* <-ctx.Done(), while it waits for a slot or for the result.  The file, if the
\* goroutine has opened one, is left to the goroutine.
GiveUp(c) ==
    /\ step[c] \in Cancellable
    /\ c \in ended
    /\ step' = [step EXCEPT ![c] = "idle"]
    /\ handle' = AbandonedBy(c)
    /\ UNCHANGED <<slots, work, holders>>
    /\ Forget(c)

\* The rendezvous on the unbuffered channel: the file changes hands.
Receive(c) ==
    /\ step[c] = "wait" /\ work[c] = "send"
    /\ step' = [step EXCEPT ![c] = "check"]
    /\ work' = [work EXCEPT ![c] = "release"]
    /\ holders' = [holders EXCEPT
                     ![c] = IF "goroutine" \in @ THEN {"call"} ELSE {}]
    /\ UNCHANGED <<slots, keepOpen, ended, failed, handle>>

\* file.Close() by who has a reference to it.
Closed(c) == [handle EXCEPT ![c] = IF holders[c] # {} THEN "closed" ELSE @]
Released(c) == [holders EXCEPT ![c] = {}]

\* The context is looked at once more: an answer that comes too late is dropped.
Return(c) ==
    /\ step[c] = "check"
    /\ \/ /\ c \in ended
          /\ step' = [step EXCEPT ![c] = "idle"]
          /\ handle' = Closed(c) /\ holders' = Released(c)
       \/ /\ c \notin ended
          /\ step' = [step EXCEPT
                        ![c] = IF holders[c] # {} THEN "reading" ELSE "idle"]
          /\ UNCHANGED <<handle, holders>>
    /\ UNCHANGED <<slots, work>>
    /\ Forget(c)

\* The deferred Close of the worker that plays from the file.
CloseBook(c) ==
    /\ step[c] = "reading"
    /\ step' = [step EXCEPT ![c] = "idle"]
    /\ handle' = Closed(c) /\ holders' = Released(c)
    /\ UNCHANGED <<slots, work>>
    /\ Forget(c)

-----------------------------------------------------------------------------
(* The goroutine *)

WorkGoto(c, next) == work' = [work EXCEPT ![c] = next]

\* A stage that looks at the context first.
Proceed(c, stage, next) ==
    /\ work[c] = stage
    /\ IF c \in ended
         THEN WorkGoto(c, "decide") /\ failed' = failed \cup {c}
         ELSE WorkGoto(c, next) /\ UNCHANGED failed
    /\ UNCHANGED <<slots, step, keepOpen, ended, handle, holders>>

StartWork(c) == Proceed(c, "begin", "open")

\* openFile: blocks in the kernel, fails, or opens.
OpenFile(c) ==
    /\ work[c] = "open"
    /\ \/ /\ handle' = [handle EXCEPT ![c] = "open"]
          /\ holders' = [holders EXCEPT ![c] = {"goroutine"}]
          /\ WorkGoto(c, "opened") /\ UNCHANGED failed
       \/ /\ failed' = failed \cup {c}
          /\ WorkGoto(c, "decide") /\ UNCHANGED <<handle, holders>>
    /\ UNCHANGED <<slots, step, keepOpen, ended>>

AfterOpen(c) == Proceed(c, "opened", "inspect")

\* inspectOpenFileContext, which gives up between two reads, and Seek.
InspectFile(c) ==
    /\ work[c] = "inspect"
    /\ \/ UNCHANGED failed
       \/ failed' = failed \cup {c}   \* changed, unreadable, or context ended
    /\ WorkGoto(c, "decide")
    /\ UNCHANGED <<slots, step, keepOpen, ended, handle, holders>>

Keeps(c) == c \notin failed /\ c \in keepOpen

\* The last look at the context; what is not to be kept is closed.
Decide(c) ==
    /\ work[c] = "decide"
    /\ failed' = IF c \in ended THEN failed \cup {c} ELSE failed
    /\ IF Keeps(c) /\ c \notin ended
         THEN UNCHANGED <<handle, holders>>
         ELSE handle' = Closed(c) /\ holders' = Released(c)
    /\ WorkGoto(c, "send")
    /\ UNCHANGED <<slots, step, keepOpen, ended>>

\* <-ctx.Done() instead of the send: nobody may be left to receive.
Abandon(c) ==
    /\ work[c] = "send" /\ c \in ended
    /\ handle' = Closed(c) /\ holders' = Released(c)
    /\ WorkGoto(c, "release")
    /\ UNCHANGED <<slots, step, keepOpen, ended, failed>>

MutantSlotsAfter(c) == slots   \* mutant: the deferred receive is missing
SlotsAfter(c) == slots \ {c}

\* The deferred <-inspectionSlots.
ReleaseSlot(c) ==
    /\ work[c] = "release"
    /\ slots' = SlotsAfter(c)
    /\ WorkGoto(c, "none")
    /\ UNCHANGED <<step, handle, holders>>
    /\ Forget(c)

-----------------------------------------------------------------------------

Blocking(c) == OpenFile(c) \/ InspectFile(c)

CallStep(c) == AcquireSlot(c) \/ GiveUp(c) \/ Receive(c) \/ Return(c)
WorkStep(c) == StartWork(c) \/ AfterOpen(c) \/ Decide(c) \/ Abandon(c)
                 \/ ReleaseSlot(c)

Next ==
    \E c \in Calls : \/ Inspect(c) \/ OpenStable(c) \/ EndContext(c) \/ CloseBook(c)
                     \/ CallStep(c) \/ WorkStep(c) \/ Blocking(c)

Spec == Init /\ [][Next]_vars

\* Goroutines are scheduled; the kernel may block one in open or read for ever.
Fairness == \A c \in Calls : WF_vars(CallStep(c)) /\ WF_vars(WorkStep(c))
FairSpec == Spec /\ Fairness

\* A kernel that answers, books that are closed after playback, and slots given
\* to the calls that wait in turn.
Answering ==
    \A c \in Calls : /\ WF_vars(Blocking(c)) /\ WF_vars(CloseBook(c))
                     /\ SF_vars(AcquireSlot(c))

-----------------------------------------------------------------------------
(* Properties *)

Stages == {"none", "begin", "open", "opened", "inspect", "decide", "send",
           "release"}

\* Every variable has its type, and the channel holds what it can.
TypeOK ==
    /\ Cardinality(slots) <= SlotCount
    /\ slots \subseteq Calls /\ keepOpen \subseteq Calls
    /\ ended \subseteq Calls /\ failed \subseteq Calls
    /\ step \in [Calls -> {"idle", "acquire", "wait", "check", "reading"}]
    /\ work \in [Calls -> Stages]
    /\ handle \in [Calls -> {"open", "closed"}]
    /\ holders \in [Calls -> SUBSET Parties]

\* No handle leaks and none is closed twice or under its reader: an open file
\* has exactly one holder, who is still there to close it, a closed one none, and
\* who reads holds it.  Only an inspection that is to keep its file returns one.
OneHolder ==
    \A c \in Calls :
        /\ handle[c] = "open" <=> holders[c] # {}
        /\ holders[c] \in {{}, {"goroutine"}, {"call"}}
        /\ "goroutine" \in holders[c] =>
             work[c] \in {"opened", "inspect", "decide", "send"}
        /\ "call" \in holders[c] => step[c] \in {"check", "reading"}
        /\ work[c] = "inspect" => holders[c] = {"goroutine"}
        /\ step[c] = "reading" => holders[c] = {"call"} /\ c \in keepOpen \ failed

\* A slot belongs to a goroutine from its start to its end: a call that gave up
\* does not free the slot of the kernel read it left behind.
SlotsAreGoroutines == \A c \in Calls : c \in slots <=> work[c] # "none"

\* At most SlotCount goroutines read files at a time.
BoundedWork == Cardinality({c \in Calls : work[c] # "none"}) <= SlotCount

\* A cancelled call returns even when the kernel never answers.
CancelledReturns ==
    \A c \in Calls :
        step[c] \in {"acquire", "wait", "check"} /\ c \in ended ~>
            step[c] \in {"idle", "reading"}

\* When the kernel answers, every call returns and every goroutine frees its
\* slot, whatever contexts end in between.
EveryoneReturns ==
    Answering => \A c \in Calls : /\ step[c] # "idle" ~> step[c] = "idle"
                                  /\ work[c] # "none" ~> work[c] = "none"
=============================================================================
