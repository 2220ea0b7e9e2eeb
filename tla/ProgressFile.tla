--------------------------- MODULE ProgressFile ---------------------------
(***************************************************************************)
(* The progress files of src/internal/progress: Load with the migration of *)
(* a file kept under the name older versions of the program used, and Save  *)
(* by writing a temporary file and renaming it, done by processes that may  *)
(* crash between any two steps.  Old names of different books may collide,  *)
(* new ones do not: the new file of a book is named by the book.            *)
(***************************************************************************)
EXTENDS Integers, FiniteSets

CONSTANTS
    Procs,       \* processes of the program, each with one reading at a time
    Books,
    OldPaths,    \* file names of older versions
    OldPath,     \* OldPath[b]: LegacyProgressPath of b, NoPath when it is ""
    NoPath,
    Free,
    Old,         \* a process of an older version of the program
    OldRunning,  \* whether one runs beside the processes of this version
    Positions,   \* positions within every book that start a rune
    NoBook       \* no book at all: no record

ASSUME PathAssumption ==
    /\ OldPath \in [Books -> OldPaths \cup {NoPath}]
    /\ NoPath \notin OldPaths
    /\ OldPaths \cap Books = {}
    /\ {Free, Old} \cap Procs = {} /\ Free # Old
    /\ NoBook \notin Books
    /\ OldRunning \in BOOLEAN
    /\ 0 \in Positions /\ Positions \subseteq Nat

Paths == Books \cup OldPaths

VARIABLES
    disk,      \* disk[f]: the file f
    temp,      \* temp[p]: the temporary file of p
    lock,      \* lock[f]: who holds the lease of f
    step,      \* what process p does next
    reading,   \* reading[p]: the book p reads
    found,     \* found[p]: what p read from the old file
    position,  \* position[p]: the position p goes on from
    answer     \* answer[p]: why p refused its last book

vars == <<disk, temp, lock, step, reading, found, position, answer>>

Nothing == [form |-> "none", book |-> NoBook, pos |-> 0]
Torn == [form |-> "torn", book |-> NoBook, pos |-> 0]
\* A record of the current format, about one version of one book.
Record(b, p) == [form |-> "progress", book |-> b, pos |-> p]
Outdated(b) == [form |-> "format", book |-> b, pos |-> 0]

Init ==
    /\ disk \in [Paths -> {Nothing, Torn} \cup {Record(b, 0) : b \in Books}
                            \cup {Outdated(b) : b \in Books}]
    /\ \A b \in Books : disk[b] = Nothing
    /\ \A f \in OldPaths : disk[f].book # NoBook => OldPath[disk[f].book] = f
    /\ temp = [p \in Procs |-> Nothing]
    /\ lock = [f \in Paths |-> Free]
    /\ step = [p \in Procs |-> "idle"]
    /\ reading = [p \in Procs |-> NoBook]
    /\ found = [p \in Procs |-> Nothing]
    /\ position = [p \in Procs |-> 0]
    /\ answer = [p \in Procs |-> "none"]

Goto(p, next) == step' = [step EXCEPT ![p] = next]
Fail(p, why, next) ==
    /\ answer' = [answer EXCEPT ![p] = why]
    /\ Goto(p, next)

-----------------------------------------------------------------------------
(* Acquiring the lease and loading; each file operation may fail *)

Acquire(p) ==
    /\ step[p] = "idle"
    /\ \E b \in Books :
        /\ lock[b] = Free
        /\ lock' = [lock EXCEPT ![b] = p]
        /\ reading' = [reading EXCEPT ![p] = b]
    /\ answer' = [answer EXCEPT ![p] = "none"]
    /\ Goto(p, "read")
    /\ UNCHANGED <<disk, temp, found, position>>

\* ValidateForBook: the format before the identity of the book.
MutantInvalid(b, r) ==   \* mutant: the identity is not compared
    IF r.form # "progress" THEN "format" ELSE "none"
Invalid(b, r) == IF r.form # "progress" THEN "format"
                 ELSE IF r.book # b THEN "mismatch" ELSE "none"

ReadsFrom(p, r) == position' = [position EXCEPT ![p] = r.pos]

\* ReadFile(SaveFile); a file that exists is used or refused, never replaced.
ReadCurrent(p) ==
    /\ step[p] = "read"
    /\ LET b == reading[p]  r == disk[b] IN
       \/ /\ r = Nothing
          /\ Goto(p, IF OldPath[b] = NoPath THEN "ready" ELSE "stat")
          /\ position' = [position EXCEPT ![p] = 0]
          /\ UNCHANGED answer
       \/ /\ r # Nothing /\ Invalid(b, r) = "none"
          /\ ReadsFrom(p, r)
          /\ Goto(p, "ready") /\ UNCHANGED answer
       \/ /\ r # Nothing /\ Invalid(b, r) # "none"
          /\ Fail(p, Invalid(b, r), "close") /\ UNCHANGED position
       \/ Fail(p, "internal", "close") /\ UNCHANGED position
    /\ UNCHANGED <<disk, temp, lock, reading, found>>

\* os.Stat and AcquireLease of the old file.
AcquireOld(p) ==
    /\ step[p] = "stat"
    /\ LET f == OldPath[reading[p]] IN
       \/ /\ disk[f] = Nothing
          /\ Goto(p, "ready") /\ UNCHANGED <<lock, answer>>
       \/ /\ disk[f] # Nothing /\ lock[f] = Free
          /\ lock' = [lock EXCEPT ![f] = p]
          /\ Goto(p, "readOld") /\ UNCHANGED answer
       \/ /\ disk[f] # Nothing /\ lock[f] # Free
          /\ Fail(p, "in_use", "close") /\ UNCHANGED lock
       \/ Fail(p, "internal", "close") /\ UNCHANGED lock
    /\ UNCHANGED <<disk, temp, reading, found, position>>

\* What is about another book is left alone, and the reading starts at 0.
ReadOld(p) ==
    /\ step[p] = "readOld"
    /\ LET b == reading[p]  r == disk[OldPath[b]] IN
       \/ /\ Invalid(b, r) = "none"
          /\ found' = [found EXCEPT ![p] = r]
          /\ Goto(p, "migrate") /\ UNCHANGED answer
       \/ /\ Invalid(b, r) = "mismatch"
          /\ Goto(p, "release") /\ UNCHANGED <<answer, found>>
       \/ /\ Invalid(b, r) = "format"
          /\ Fail(p, "format", "releaseFailed") /\ UNCHANGED found
       \/ Fail(p, "internal", "releaseFailed") /\ UNCHANGED found
    /\ UNCHANGED <<disk, temp, lock, reading, position>>

-----------------------------------------------------------------------------
(* WriteFileReplace: the same steps for the migration and for Save *)

MutantWriteTo(p, r) ==   \* mutant: the file is written in place
    disk' = [disk EXCEPT ![reading[p]] = Torn] /\ temp' = [temp EXCEPT ![p] = r]
WriteTo(p, r) == temp' = [temp EXCEPT ![p] = r] /\ UNCHANGED disk

\* CreateTemp, Write, Chmod, Sync and Close of the temporary file; on a failure
\* it is removed.
WriteTemp(p, r, from, next, failed) ==
    /\ step[p] = from
    /\ \/ WriteTo(p, r) /\ Goto(p, next)
       \/ Goto(p, failed) /\ UNCHANGED <<temp, disk>>

Replaced(p) == disk' = [disk EXCEPT ![reading[p]] = temp[p]]

\* MoveFileEx or rename: all or nothing.
Replace(p, from, next, failed) ==
    /\ step[p] = from
    /\ \/ Replaced(p) /\ Goto(p, next)
       \/ UNCHANGED disk /\ Goto(p, failed)
    /\ temp' = [temp EXCEPT ![p] = Nothing]

MigrateTemp(p) ==
    /\ WriteTemp(p, found[p], "migrate", "migrateReplace", "releaseFailed")
    /\ UNCHANGED <<lock, reading, found, position, answer>>

Migrate(p) ==
    /\ Replace(p, "migrateReplace", "release", "releaseFailed")
    /\ position' = [position EXCEPT ![p] = found[p].pos]
    /\ UNCHANGED <<lock, reading, found, answer>>

\* The deferred close of the lease of the old file.
ReleaseOld(p) == lock' = [lock EXCEPT ![OldPath[reading[p]]] = Free]

LoadReturns(p) ==
    /\ step[p] \in {"release", "releaseFailed"}
    /\ ReleaseOld(p)
    /\ \/ step[p] = "release" /\ Goto(p, "ready") /\ UNCHANGED answer
       \/ step[p] = "releaseFailed" /\ Goto(p, "close") /\ UNCHANGED answer
       \/ Fail(p, "internal", "close")   \* Close itself fails
    /\ found' = [found EXCEPT ![p] = Nothing]
    /\ UNCHANGED <<disk, temp, reading, position>>

-----------------------------------------------------------------------------
(* Saving, and the end of the reading *)

Advance(p) ==
    /\ step[p] = "ready"
    /\ \E x \in Positions \ {position[p]} :
         position' = [position EXCEPT ![p] = x]
    /\ Goto(p, "save")
    /\ UNCHANGED <<disk, temp, lock, reading, found, answer>>

SaveTemp(p) ==
    /\ WriteTemp(p, Record(reading[p], position[p]), "save", "saveReplace", "close")
    /\ UNCHANGED <<lock, reading, found, position, answer>>

SaveReplace(p) ==
    /\ Replace(p, "saveReplace", "ready", "close")
    /\ UNCHANGED <<lock, reading, found, position, answer>>

\* Lease.Close of whoever read.
Finish(p) ==
    /\ step[p] \in {"ready", "close"}
    /\ lock' = [lock EXCEPT ![reading[p]] = Free]
    /\ Goto(p, "idle")
    /\ reading' = [reading EXCEPT ![p] = NoBook]
    /\ position' = [position EXCEPT ![p] = 0]
    /\ answer' = [answer EXCEPT ![p] = "none"]
    /\ UNCHANGED <<disk, temp, found>>

\* The process dies: the kernel frees its locks, its temporary file stays behind.
Crash(p) ==
    /\ step[p] # "idle"
    /\ lock' = [f \in Paths |-> IF lock[f] = p THEN Free ELSE lock[f]]
    /\ Goto(p, "idle")
    /\ temp' = [temp EXCEPT ![p] = Nothing]
    /\ reading' = [reading EXCEPT ![p] = NoBook]
    /\ found' = [found EXCEPT ![p] = Nothing]
    /\ position' = [position EXCEPT ![p] = 0]
    /\ answer' = [answer EXCEPT ![p] = "none"]
    /\ UNCHANGED disk

-----------------------------------------------------------------------------
(* An older version of the program *)

OldAcquire(f) ==
    /\ OldRunning
    /\ lock[f] = Free
    /\ lock' = [lock EXCEPT ![f] = Old]
    /\ UNCHANGED <<disk, temp, step, reading, found, position, answer>>

OldSave(f) ==
    /\ lock[f] = Old
    /\ \E b \in {c \in Books : OldPath[c] = f}, x \in Positions :
         disk' = [disk EXCEPT ![f] = Record(b, x)]
    /\ UNCHANGED <<temp, lock, step, reading, found, position, answer>>

OldRelease(f) ==
    /\ lock[f] = Old
    /\ lock' = [lock EXCEPT ![f] = Free]
    /\ UNCHANGED <<disk, temp, step, reading, found, position, answer>>

-----------------------------------------------------------------------------

ProcStep(p) ==
    \/ Acquire(p) \/ ReadCurrent(p) \/ AcquireOld(p) \/ ReadOld(p)
    \/ MigrateTemp(p) \/ Migrate(p) \/ LoadReturns(p)
    \/ Advance(p) \/ SaveTemp(p) \/ SaveReplace(p) \/ Finish(p)

Next ==
    \/ \E p \in Procs : ProcStep(p) \/ Crash(p)
    \/ \E f \in OldPaths : OldAcquire(f) \/ OldSave(f) \/ OldRelease(f)

Spec == Init /\ [][Next]_vars

-----------------------------------------------------------------------------
(* Properties *)

\* The new file of a book is absent or a whole record of that very book, at
\* every moment at which a process may crash.
NeverTornNorForeign ==
    \A b \in Books : disk[b] = Nothing \/ \E x \in Positions : disk[b] = Record(b, x)

\* The position the next Load of b returns (0 when it refuses).
NextPosition(b) ==
    IF disk[b] # Nothing THEN disk[b].pos
    ELSE IF OldPath[b] # NoPath /\ Invalid(b, disk[OldPath[b]]) = "none"
    THEN disk[OldPath[b]].pos ELSE 0

\* Migration is invisible: what a reader would resume from changes only when a
\* Save or an older program completes, never by a load, a failure or a crash.
OnlySavesMove ==
    [][\A b \in Books : NextPosition(b)' # NextPosition(b) =>
         \/ \E p \in Procs : reading[p] = b /\ step[p] = "saveReplace"
         \/ OldPath[b] # NoPath /\ lock[OldPath[b]] = Old /\ disk[b] = Nothing]_vars

\* Readers and older programs take and give back the leases as Lease promises.
Holders == [f \in Paths |-> {lock[f]} \ {Free}]
Contract == INSTANCE Lease WITH Owners <- Procs \cup {Old}, Files <- Paths,
                                Together <- {{p} : p \in Procs},
                                held <- Holders
UsesLeases == Contract!Spec

\* A file changes only while its lease is held, by what its holder does.
WritesUnderLease ==
    [][\A f \in Paths : disk'[f] # disk[f] =>
         /\ lock[f] # Free /\ lock'[f] = lock[f]
         /\ lock[f] \in Procs => step[lock[f]] # step'[lock[f]]]_vars

\* docs/architecture.md: old progress of another book does not prevent a book
\* from being started.
ForeignProgressIsNoObstacle ==
    \A p \in Procs :
        answer[p] = "in_use" =>
            disk[OldPath[reading[p]]].book \in {reading[p], NoBook}
=============================================================================
