----------------------------- MODULE BookStore -----------------------------
(***************************************************************************)
(* BookStore.AddContext of src/internal/book/store.go over the inspections  *)
(* of InspectionPool.  A call registers the book at a path: it inspects the *)
(* file in the pool and stores what it saw under the lock of the store,     *)
(* while the file is edited and others register it too.  The inspections    *)
(* and the stable opens of playback use the same slots.                     *)
(***************************************************************************)
EXTENDS InspectionPool, Sequences

CONSTANTS
    Paths,      \* canonical paths, which are the keys of byPath as well
    MaxEdits    \* bound: times a file is edited

ASSUME StoreAssumption == MaxEdits \in Nat /\ Paths # {}

VARIABLES
    content,    \* content[p]: version of the file at p
    adding,     \* where AddContext is
    wants,      \* the path of the request
    opened,     \* the version the goroutine has opened
    seen,       \* the version whose identity it has computed
    started,    \* the version at the path when AddContext was called
    books,      \* books[i]: path and version registered as book-i
    byPath      \* byPath[p]: i, 0 for none

request == <<wants, started>>
identity == <<opened, seen>>
store == <<books, byPath>>
storeVars == <<vars, content, adding, request, identity, store>>

StoreInit ==
    /\ Init
    /\ content \in [Paths -> {0}]
    /\ adding = [c \in Calls |-> "none"]
    /\ wants \in [Calls -> {CHOOSE p \in Paths : TRUE}]
    /\ opened = [c \in Calls |-> 0] /\ seen = [c \in Calls |-> 0]
    /\ started = [c \in Calls |-> 0]
    /\ books = << >> /\ byPath = [p \in Paths |-> 0]

-----------------------------------------------------------------------------
(* AddContext up to the answer of InspectFileContext *)

AddGoto(c, next) == adding' = [adding EXCEPT ![c] = next]

\* AddContext goes on to its next step, or returns.
GoOn(c, next) == AddGoto(c, next) /\ UNCHANGED <<request, identity>>
End(c) ==
    /\ AddGoto(c, "none")
    /\ started' = [started EXCEPT ![c] = 0]
    /\ opened' = [opened EXCEPT ![c] = 0] /\ seen' = [seen EXCEPT ![c] = 0]
    /\ UNCHANGED wants

BeginAdd(c) ==
    /\ adding[c] = "none"
    /\ Inspect(c)
    /\ \E p \in Paths : /\ wants' = [wants EXCEPT ![c] = p]
                        /\ started' = [started EXCEPT ![c] = content[p]]
    /\ AddGoto(c, "inspect")
    /\ UNCHANGED <<content, identity, store>>

Accepted(c) == step[c] = "check" /\ c \notin ended \cup failed

\* The steps of the call in the pool; when they are over AddContext goes on
\* with the identity, or returns the error.
Inspecting(c) ==
    /\ adding[c] = "inspect"
    /\ CallStep(c)
    /\ IF step'[c] # "idle" THEN UNCHANGED <<adding, request, identity>>
       ELSE IF Accepted(c) THEN GoOn(c, "context") ELSE End(c)
    /\ UNCHANGED <<content, store>>

\* The goroutine opens the file at the path; once AddContext has left it, what
\* it finds is lost.
OpenPath(c) ==
    /\ OpenFile(c)
    /\ opened' = [opened EXCEPT
                    ![c] = IF adding[c] = "inspect" THEN content[wants[c]] ELSE 0]
    /\ UNCHANGED <<content, adding, request, seen, store>>

\* The identity is that of one version: of the one opened, which an edit may
\* have replaced at its path, or of a later one written into the open file.
ComputeIdentity(c) ==
    /\ InspectFile(c)
    /\ IF adding[c] = "inspect"
         THEN \E v \in opened[c]..content[wants[c]] : seen' = [seen EXCEPT ![c] = v]
         ELSE UNCHANGED seen
    /\ opened' = [opened EXCEPT ![c] = 0]
    /\ UNCHANGED <<content, adding, request, store>>

-----------------------------------------------------------------------------
(* AddContext after the inspection *)

\* The context may have ended since the inspection.
CheckContext(c) ==
    /\ adding[c] = "context"
    /\ GoOn(c, "store") \/ End(c)
    /\ UNCHANGED <<vars, content, store>>

Known(c) == byPath[wants[c]] # 0

\* mutant: a known book keeps the identity it was registered with
MutantIdentityOf(c) == IF Known(c) THEN books[byPath[wants[c]]].ver ELSE seen[c]
IdentityOf(c) == seen[c]
Entry(c) == [path |-> wants[c], ver |-> IdentityOf(c)]

MutantIndexed(c) == byPath   \* mutant: a new book does not enter the index
Indexed(c) == [byPath EXCEPT ![wants[c]] = Len(books) + 1]

\* The critical section.  A known book takes the new identity, unless one of
\* the two looks at its path fails or the file is replaced between them.
Store(c) ==
    /\ adding[c] = "store"
    /\ \/ /\ Known(c)
          /\ books' = [books EXCEPT ![byPath[wants[c]]] = Entry(c)]
          /\ UNCHANGED byPath
          /\ GoOn(c, "stored")
       \/ Known(c) /\ End(c) /\ UNCHANGED store
       \/ /\ ~Known(c)
          /\ books' = Append(books, Entry(c))
          /\ byPath' = Indexed(c)
          /\ GoOn(c, "stored")
    /\ UNCHANGED <<vars, content>>

\* The book registered under the path is returned to the caller.
ReturnBook(c) ==
    /\ adding[c] = "stored"
    /\ End(c)
    /\ UNCHANGED <<vars, content, store>>

-----------------------------------------------------------------------------

\* The user's editor writes a file, or renames another one over it.
Edit(p) ==
    /\ content[p] < MaxEdits
    /\ content' = [content EXCEPT ![p] = @ + 1]
    /\ UNCHANGED <<vars, adding, request, identity, store>>

\* The steps of the pool that AddContext takes no note of.
PoolOnly == UNCHANGED <<content, adding, request, identity, store>>

\* A call of the manager that inspects a registered book, or plays it.
PlaybackStep(c) ==
    /\ adding[c] = "none"
    /\ Inspect(c) \/ OpenStable(c) \/ CallStep(c) \/ CloseBook(c)
    /\ PoolOnly

AddStep(c) == Inspecting(c) \/ CheckContext(c) \/ Store(c) \/ ReturnBook(c)
AddBlocking(c) == OpenPath(c) \/ ComputeIdentity(c)

StoreNext ==
    \/ \E c \in Calls :
         \/ BeginAdd(c) \/ AddStep(c) \/ AddBlocking(c)
         \/ (EndContext(c) \/ WorkStep(c)) /\ PoolOnly
         \/ PlaybackStep(c)
    \/ \E p \in Paths : Edit(p)

StoreSpec == StoreInit /\ [][StoreNext]_storeVars

\* As in InspectionPool; the lock of the store is given to who waits for it.
StoreFairness ==
    \A c \in Calls :
        /\ WF_storeVars(AddStep(c) \/ (PlaybackStep(c) /\ CallStep(c)))
        /\ WF_storeVars(WorkStep(c) /\ PoolOnly)

FairStoreSpec == StoreSpec /\ StoreFairness

-----------------------------------------------------------------------------
(* Properties *)

\* A path has one book and one id, however many calls register it at a time:
\* no two entries share a progress file.
OneIdPerPath ==
    /\ \A i, j \in DOMAIN books : books[i].path = books[j].path => i = j
    /\ \A p \in Paths : byPath[p] # 0 =>
         byPath[p] \in DOMAIN books /\ books[byPath[p]].path = p

\* Registering a book again refreshes it: the identity stored is one the file
\* had during the call, so an edit made before the call is in it, and a newer
\* identity gives way to an older one only under a call that was under way when
\* the newer version was written.
AddRefreshes ==
    [][\A c \in Calls : adding[c] = "store" /\ adding'[c] = "stored" =>
         LET b == books'[byPath'[wants[c]]] IN
         /\ b.path = wants[c]
         /\ b.ver \in started[c]..content[wants[c]]]_storeVars
=============================================================================
