------------------------- MODULE ProgressFileProofs -------------------------
(***************************************************************************)
(* Proofs about ProgressFile, for any processes, books and old names.  The *)
(* leases make the files a process has read stay as they are until it has   *)
(* replaced the new one; that is all the migration relies on.              *)
(***************************************************************************)
EXTENDS ProgressFile, TLAPS

-----------------------------------------------------------------------------
(* The invariant *)

Records == [form : {"none", "torn", "format", "progress"},
            book : Books \cup {NoBook}, pos : Positions]

WithOld == {"readOld", "migrate", "migrateReplace", "release", "releaseFailed"}
Migrating == {"stat", "readOld", "migrate", "migrateReplace"}

FileTypes ==
    /\ disk \in [Paths -> Records]
    /\ temp \in [Procs -> Records] /\ found \in [Procs -> Records]
    /\ lock \in [Paths -> Procs \cup {Free, Old}]
    /\ step \in [Procs -> {"idle", "read", "ready", "save", "saveReplace", "close"}
                          \cup Migrating \cup WithOld]
    /\ reading \in [Procs -> Books \cup {NoBook}]
    /\ position \in [Procs -> Positions]

\* A process holds the lease of its book, and of the old file while it is at it.
ReadersHoldLeases ==
    \A p \in Procs : step[p] # "idle" =>
        /\ reading[p] \in Books /\ lock[reading[p]] = p
        /\ step[p] \in WithOld \cup Migrating => OldPath[reading[p]] \in OldPaths
        /\ step[p] \in WithOld => lock[OldPath[reading[p]]] = p

\* What a process is about to put in the place of the new file is a whole record
\* of its book; in a migration that of the old file, and there is no new one.
ReplacementsAreWhole ==
    \A p \in Procs :
        /\ step[p] \in Migrating => disk[reading[p]] = Nothing
        /\ step[p] \in {"migrate", "migrateReplace"} =>
             /\ found[p] = disk[OldPath[reading[p]]]
             /\ Invalid(reading[p], found[p]) = "none"
        /\ step[p] = "migrateReplace" => temp[p] = found[p]
        /\ step[p] = "saveReplace" => temp[p] = Record(reading[p], position[p])

FileInv ==
    FileTypes /\ ReadersHoldLeases /\ ReplacementsAreWhole /\ NeverTornNorForeign

\* What the files hold.
LEMMA RecordFacts ==
    /\ Nothing \in Records /\ Torn \in Records
    /\ \A b \in Books : Outdated(b) \in Records
    /\ \A b \in Books, x \in Positions :
         Record(b, x) \in Records /\ Record(b, x) # Nothing
    /\ \A b \in Books, r \in Records :
         Invalid(b, r) = "none" => r = Record(b, r.pos)
PROOF
  BY PathAssumption DEF Records, Nothing, Torn, Outdated, Record, Invalid

LEMMA FileInvInit == Init => FileInv
PROOF
  <1> SUFFICES ASSUME Init PROVE FileInv
    OBVIOUS
  <1>1. disk \in [Paths -> Records]
    BY RecordFacts, PathAssumption DEF Init
  <1>2. FileTypes
    BY <1>1, RecordFacts, PathAssumption DEF Init, FileTypes
  <1>3. ReadersHoldLeases /\ ReplacementsAreWhole
    BY DEF Init, ReadersHoldLeases, ReplacementsAreWhole, Migrating
  <1>4. NeverTornNorForeign
    BY DEF Init, NeverTornNorForeign
  <1>5. QED
    BY <1>2, <1>3, <1>4 DEF FileInv

-----------------------------------------------------------------------------
(* Every step keeps the invariant *)

\* A step of a process that neither locks, nor reads, nor writes a file.
LEMMA QuietKeeps ==
    ASSUME FileInv, NEW p \in Procs, step[p] \in {"read", "ready"},
           NEW next \in {"ready", "close", "save"}, Goto(p, next),
           UNCHANGED <<disk, temp, lock, reading, found>>,
           position' \in [Procs -> Positions],
           \A q \in Procs \ {p} : position'[q] = position[q]
    PROVE  FileInv'
PROOF
  <1> USE DEF FileInv, Goto
  <1>1. FileTypes'
    BY DEF FileTypes, Migrating, WithOld
  <1>2. ReadersHoldLeases'
    BY DEF FileTypes, ReadersHoldLeases, Migrating, WithOld
  <1>3. ReplacementsAreWhole'
    BY DEF FileTypes, ReplacementsAreWhole, Migrating
  <1>4. NeverTornNorForeign'
    BY DEF NeverTornNorForeign
  <1>5. QED
    BY <1>1, <1>2, <1>3, <1>4

LEMMA AcquireKeeps ==
    ASSUME FileInv, NEW p \in Procs, Acquire(p)
    PROVE  FileInv'
PROOF
  <1> USE PathAssumption DEF FileInv, Acquire, Goto, Paths
  <1>1. FileTypes'
    BY DEF FileTypes
  <1>2. ReadersHoldLeases'
    BY DEF FileTypes, ReadersHoldLeases, Migrating, WithOld
  <1>3. ReplacementsAreWhole'
    BY DEF FileTypes, ReplacementsAreWhole, Migrating
  <1>4. NeverTornNorForeign'
    BY DEF NeverTornNorForeign
  <1>5. QED
    BY <1>1, <1>2, <1>3, <1>4

LEMMA ReadCurrentKeeps ==
    ASSUME FileInv, NEW p \in Procs, ReadCurrent(p)
    PROVE  FileInv'
PROOF
  <1> USE PathAssumption DEF FileInv, ReadCurrent, Goto, Fail, ReadsFrom, Paths
  <1>1. reading[p] \in Books /\ disk[reading[p]] \in Records
    BY DEF FileTypes, ReadersHoldLeases
  <1>2. FileTypes'
    <2>1. disk[reading[p]].pos \in Positions
      BY <1>1 DEF Records
    <2>2. position' \in [Procs -> Positions]
      BY <2>1 DEF FileTypes
    <2>3. QED
      BY <2>2 DEF FileTypes, Migrating
  <1>3. ReadersHoldLeases'
    BY <1>1 DEF FileTypes, ReadersHoldLeases, Migrating, WithOld
  <1>4. ReplacementsAreWhole'
    BY <1>1 DEF FileTypes, ReplacementsAreWhole, Migrating
  <1>5. NeverTornNorForeign'
    BY DEF NeverTornNorForeign
  <1>6. QED
    BY <1>2, <1>3, <1>4, <1>5

LEMMA AcquireOldKeeps ==
    ASSUME FileInv, NEW p \in Procs, AcquireOld(p)
    PROVE  FileInv'
PROOF
  <1> USE PathAssumption DEF FileInv, AcquireOld, Goto, Fail, Paths
  <1>1. FileTypes'
    BY DEF FileTypes, Migrating, WithOld
  <1>2. ReadersHoldLeases'
    BY DEF FileTypes, ReadersHoldLeases, Migrating, WithOld
  <1>3. ReplacementsAreWhole'
    BY DEF FileTypes, ReplacementsAreWhole, Migrating
  <1>4. NeverTornNorForeign'
    BY DEF NeverTornNorForeign
  <1>5. QED
    BY <1>1, <1>2, <1>3, <1>4

LEMMA ReadOldKeeps ==
    ASSUME FileInv, NEW p \in Procs, ReadOld(p)
    PROVE  FileInv'
PROOF
  <1> USE PathAssumption DEF FileInv, ReadOld, Goto, Fail, Paths
  <1>1. disk[OldPath[reading[p]]] \in Records
    BY DEF FileTypes, ReadersHoldLeases, WithOld
  <1>2. FileTypes'
    BY <1>1 DEF FileTypes, Migrating, WithOld
  <1>3. ReadersHoldLeases'
    BY DEF FileTypes, ReadersHoldLeases, Migrating, WithOld
  <1>4. ReplacementsAreWhole'
    BY DEF FileTypes, ReplacementsAreWhole, Migrating
  <1>5. NeverTornNorForeign'
    BY DEF NeverTornNorForeign
  <1>6. QED
    BY <1>2, <1>3, <1>4, <1>5

LEMMA MigrateTempKeeps ==
    ASSUME FileInv, NEW p \in Procs, MigrateTemp(p)
    PROVE  FileInv'
PROOF
  <1> USE DEF FileInv, MigrateTemp, WriteTemp, WriteTo, Goto
  <1>1. FileTypes'
    BY DEF FileTypes, Migrating, WithOld
  <1>2. ReadersHoldLeases'
    BY DEF FileTypes, ReadersHoldLeases, Migrating, WithOld
  <1>3. ReplacementsAreWhole'
    BY DEF FileTypes, ReplacementsAreWhole, Migrating
  <1>4. NeverTornNorForeign'
    BY DEF NeverTornNorForeign
  <1>5. QED
    BY <1>1, <1>2, <1>3, <1>4

LEMMA SaveTempKeeps ==
    ASSUME FileInv, NEW p \in Procs, SaveTemp(p)
    PROVE  FileInv'
PROOF
  <1> USE DEF FileInv, SaveTemp, WriteTemp, WriteTo, Goto
  <1>1. Record(reading[p], position[p]) \in Records
    BY RecordFacts DEF FileTypes, ReadersHoldLeases
  <1>2. FileTypes'
    BY <1>1 DEF FileTypes, Migrating, WithOld
  <1>3. ReadersHoldLeases'
    BY DEF FileTypes, ReadersHoldLeases, Migrating, WithOld
  <1>4. ReplacementsAreWhole'
    BY DEF FileTypes, ReplacementsAreWhole, Migrating
  <1>5. NeverTornNorForeign'
    BY DEF NeverTornNorForeign
  <1>6. QED
    BY <1>2, <1>3, <1>4, <1>5

\* Nobody else reads a book whose file is replaced, and it is no old file.
LEMMA ReplaceKeeps ==
    ASSUME FileInv, NEW p \in Procs,
           NEW x \in Positions, temp[p] = Record(reading[p], x),
           step[p] \in {"migrateReplace", "saveReplace"},
           NEW next \in {"ready", "close", "release", "releaseFailed"},
           next \in {"release", "releaseFailed"} => step[p] = "migrateReplace",
           Goto(p, next), Replaced(p) \/ UNCHANGED disk,
           temp' = [temp EXCEPT ![p] = Nothing],
           position' \in [Procs -> Positions],
           \A q \in Procs \ {p} : position'[q] = position[q],
           UNCHANGED <<lock, reading, found>>
    PROVE  FileInv'
PROOF
  <1> USE PathAssumption DEF FileInv, Goto, Replaced, Paths
  <1>1. reading[p] \in Books /\ temp[p] \in Records
    BY RecordFacts DEF FileTypes, ReadersHoldLeases
  <1>2. FileTypes'
    BY <1>1, RecordFacts DEF FileTypes, Migrating, WithOld
  <1>3. ReadersHoldLeases'
    BY DEF FileTypes, ReadersHoldLeases, Migrating, WithOld
  <1>4. \A f \in Paths :
            disk'[f] = disk[f] \/ (f = reading[p] /\ disk'[f] = temp[p])
    BY <1>1 DEF FileTypes
  <1>5. ASSUME NEW q \in Procs \ {p}, step[q] # "idle"
        PROVE  /\ disk'[reading[q]] = disk[reading[q]]
               /\ step[q] \in Migrating =>
                    disk'[OldPath[reading[q]]] = disk[OldPath[reading[q]]]
    BY <1>1, <1>4, <1>5 DEF ReadersHoldLeases, FileTypes, Migrating
  <1>6. ReplacementsAreWhole'
    BY <1>5 DEF FileTypes, ReplacementsAreWhole, Migrating
  <1>7. NeverTornNorForeign'
    BY <1>1, <1>4 DEF NeverTornNorForeign
  <1>8. QED
    BY <1>2, <1>3, <1>6, <1>7

LEMMA MigrateKeeps ==
    ASSUME FileInv, NEW p \in Procs, Migrate(p)
    PROVE  FileInv'
PROOF
  <1>1. step[p] = "migrateReplace" /\ found[p] \in Records /\ reading[p] \in Books
    BY DEF Migrate, Replace, FileInv, FileTypes, ReadersHoldLeases
  <1>2. temp[p] = Record(reading[p], found[p].pos) /\ found[p].pos \in Positions
    BY <1>1, RecordFacts DEF FileInv, ReplacementsAreWhole, Records
  <1>3. position' \in [Procs -> Positions]
    BY <1>2 DEF Migrate, FileInv, FileTypes
  <1>4. \A q \in Procs \ {p} : position'[q] = position[q]
    BY DEF Migrate, FileInv, FileTypes
  <1>5. CASE Goto(p, "release") /\ Replaced(p)
    BY <1>1, <1>2, <1>3, <1>4, <1>5, ReplaceKeeps DEF Migrate, Replace
  <1>6. CASE Goto(p, "releaseFailed") /\ UNCHANGED disk
    BY <1>1, <1>2, <1>3, <1>4, <1>6, ReplaceKeeps DEF Migrate, Replace
  <1>7. QED
    BY <1>5, <1>6 DEF Migrate, Replace

LEMMA SaveReplaceKeeps ==
    ASSUME FileInv, NEW p \in Procs, SaveReplace(p)
    PROVE  FileInv'
PROOF
  <1>1. step[p] = "saveReplace" /\ position \in [Procs -> Positions]
    BY DEF SaveReplace, Replace, FileInv, FileTypes
  <1>2. temp[p] = Record(reading[p], position[p]) /\ position[p] \in Positions
    BY <1>1 DEF FileInv, ReplacementsAreWhole
  <1>3. CASE Goto(p, "ready") /\ Replaced(p)
    BY <1>1, <1>2, <1>3, ReplaceKeeps DEF SaveReplace, Replace
  <1>4. CASE Goto(p, "close") /\ UNCHANGED disk
    BY <1>1, <1>2, <1>4, ReplaceKeeps DEF SaveReplace, Replace
  <1>5. QED
    BY <1>3, <1>4 DEF SaveReplace, Replace

\* Giving back leases that p holds takes nothing from another process.
LEMMA ReleaseKeeps ==
    ASSUME FileInv, NEW p \in Procs,
           NEW next \in {"ready", "close", "idle"}, Goto(p, next),
           lock' \in [Paths -> Procs \cup {Free, Old}],
           \A f \in Paths : lock'[f] = lock[f] \/ lock[f] = p,
           next # "idle" => reading'[p] \in Books /\ lock'[reading'[p]] = p,
           \A q \in Procs \ {p} :
               /\ reading'[q] = reading[q] /\ found'[q] = found[q]
               /\ temp'[q] = temp[q] /\ position'[q] = position[q],
           temp' \in [Procs -> Records], found' \in [Procs -> Records],
           reading' \in [Procs -> Books \cup {NoBook}],
           position' \in [Procs -> Positions],
           UNCHANGED disk
    PROVE  FileInv'
PROOF
  <1> USE PathAssumption DEF FileInv, Goto, Paths
  <1>1. FileTypes'
    BY DEF FileTypes, Migrating, WithOld
  <1>2. ReadersHoldLeases'
    BY DEF FileTypes, ReadersHoldLeases, Migrating, WithOld
  <1>3. ReplacementsAreWhole'
    BY DEF FileTypes, ReplacementsAreWhole, Migrating
  <1>4. NeverTornNorForeign'
    BY DEF NeverTornNorForeign
  <1>5. QED
    BY <1>1, <1>2, <1>3, <1>4

LEMMA LoadReturnsKeeps ==
    ASSUME FileInv, NEW p \in Procs, LoadReturns(p)
    PROVE  FileInv'
PROOF
  <1> USE PathAssumption DEF FileInv, LoadReturns, ReleaseOld, Fail
  <1>1. PICK next \in {"ready", "close"} : Goto(p, next)
    OBVIOUS
  <1>2. /\ reading[p] \in Books /\ lock[reading[p]] = p
        /\ OldPath[reading[p]] \in OldPaths /\ lock[OldPath[reading[p]]] = p
    BY DEF ReadersHoldLeases, WithOld
  <1>3. /\ lock' \in [Paths -> Procs \cup {Free, Old}]
        /\ \A f \in Paths : lock'[f] = lock[f] \/ lock[f] = p
        /\ lock'[reading[p]] = p
    BY <1>2 DEF FileTypes, Paths
  <1>4. found' \in [Procs -> Records] /\ \A q \in Procs \ {p} : found'[q] = found[q]
    BY RecordFacts DEF FileTypes
  <1>5. QED
    BY <1>1, <1>2, <1>3, <1>4, ReleaseKeeps DEF FileTypes

LEMMA FinishKeeps ==
    ASSUME FileInv, NEW p \in Procs, Finish(p)
    PROVE  FileInv'
PROOF
  <1> USE PathAssumption DEF FileInv, Finish
  <1>1. reading[p] \in Books /\ lock[reading[p]] = p
    BY DEF ReadersHoldLeases
  <1>2. /\ lock' \in [Paths -> Procs \cup {Free, Old}]
        /\ \A f \in Paths : lock'[f] = lock[f] \/ lock[f] = p
    BY <1>1 DEF FileTypes, Paths
  <1>3. /\ reading' \in [Procs -> Books \cup {NoBook}]
        /\ position' \in [Procs -> Positions]
        /\ \A q \in Procs \ {p} :
             reading'[q] = reading[q] /\ position'[q] = position[q]
    BY DEF FileTypes
  <1>4. QED
    BY <1>2, <1>3, ReleaseKeeps DEF FileTypes

LEMMA CrashKeeps ==
    ASSUME FileInv, NEW p \in Procs, Crash(p)
    PROVE  FileInv'
PROOF
  <1> USE PathAssumption DEF FileInv, Crash
  <1>1. /\ lock' \in [Paths -> Procs \cup {Free, Old}]
        /\ \A f \in Paths : lock'[f] = lock[f] \/ lock[f] = p
    BY DEF FileTypes
  <1>2. /\ reading' \in [Procs -> Books \cup {NoBook}]
        /\ position' \in [Procs -> Positions]
        /\ temp' \in [Procs -> Records] /\ found' \in [Procs -> Records]
    BY RecordFacts DEF FileTypes
  <1>3. \A q \in Procs \ {p} :
            /\ reading'[q] = reading[q] /\ found'[q] = found[q]
            /\ temp'[q] = temp[q] /\ position'[q] = position[q]
    BY DEF FileTypes
  <1>4. QED
    BY <1>1, <1>2, <1>3, ReleaseKeeps

\* An older program has the lease of the old file it writes.
LEMMA OldKeeps ==
    ASSUME FileInv, NEW f \in OldPaths, OldAcquire(f) \/ OldSave(f) \/ OldRelease(f)
    PROVE  FileInv'
PROOF
  <1> USE PathAssumption DEF FileInv, Paths
  <1>1. CASE OldAcquire(f) \/ OldRelease(f)
    <2> USE <1>1 DEF OldAcquire, OldRelease
    <2>1. FileTypes' /\ ReadersHoldLeases'
      BY DEF FileTypes, ReadersHoldLeases, Migrating, WithOld
    <2>2. ReplacementsAreWhole' /\ NeverTornNorForeign'
      BY DEF ReplacementsAreWhole, NeverTornNorForeign
    <2>3. QED
      BY <2>1, <2>2
  <1>2. CASE OldSave(f)
    <2> USE <1>2 DEF OldSave
    <2>1. FileTypes'
      BY RecordFacts DEF FileTypes
    <2>2. \A g \in Paths \ {f} : disk'[g] = disk[g]
      BY DEF FileTypes
    <2>3. ASSUME NEW q \in Procs, step[q] \in WithOld
          PROVE  OldPath[reading[q]] \in Paths \ {f}
      BY <2>3 DEF ReadersHoldLeases, WithOld
    <2>4. ASSUME NEW q \in Procs, step[q] \in Migrating
          PROVE  reading[q] \in Paths \ {f}
      BY <2>4 DEF ReadersHoldLeases, Migrating
    <2>5. ReplacementsAreWhole'
      BY <2>2, <2>3, <2>4 DEF ReplacementsAreWhole, Migrating, WithOld
    <2>6. ReadersHoldLeases' /\ NeverTornNorForeign'
      BY <2>2 DEF ReadersHoldLeases, NeverTornNorForeign
    <2>7. QED
      BY <2>1, <2>5, <2>6
  <1>3. QED
    BY <1>1, <1>2

LEMMA FileInvNext == FileInv /\ [Next]_vars => FileInv'
PROOF
  <1> SUFFICES ASSUME FileInv, [Next]_vars PROVE FileInv'
    OBVIOUS
  <1>1. ASSUME NEW p \in Procs, Advance(p) PROVE FileInv'
    <2>1. /\ position' \in [Procs -> Positions]
          /\ \A q \in Procs \ {p} : position'[q] = position[q]
      BY <1>1 DEF Advance, FileInv, FileTypes
    <2>2. QED
      BY <1>1, <2>1, QuietKeeps DEF Advance
  <1>2. ASSUME NEW p \in Procs, ProcStep(p) PROVE FileInv'
    BY <1>1, <1>2, AcquireKeeps, ReadCurrentKeeps, AcquireOldKeeps, ReadOldKeeps,
       MigrateTempKeeps, MigrateKeeps, LoadReturnsKeeps, SaveTempKeeps,
       SaveReplaceKeeps, FinishKeeps DEF ProcStep
  <1>3. CASE UNCHANGED vars
    BY <1>3 DEF vars, FileInv, FileTypes, ReadersHoldLeases, ReplacementsAreWhole,
                NeverTornNorForeign
  <1>4. QED
    BY <1>2, <1>3, CrashKeeps, OldKeeps DEF Next

THEOREM FilesAreSafe == Spec => []FileInv
PROOF
  BY FileInvInit, FileInvNext, PTL DEF Spec

\* The new file of a book is whole and its own at every moment at which a
\* process may crash: any number of processes, of this version or an older one,
\* and whatever old names they share.
THEOREM FilesNeverTorn == Spec => []NeverTornNorForeign
PROOF
  BY FilesAreSafe, PTL DEF FileInv

-----------------------------------------------------------------------------
(* Migration is invisible *)

\* A migration puts in the place of the new file what a reader would have found
\* in the old one.
LEMMA MigrateIsInvisible ==
    ASSUME FileInv, NEW p \in Procs, Migrate(p), NEW b \in Books
    PROVE  NextPosition(b)' = NextPosition(b)
PROOF
  <1> USE PathAssumption DEF FileInv, Paths
  <1>1. /\ step[p] = "migrateReplace" /\ reading[p] \in Books
        /\ OldPath[reading[p]] \in OldPaths
        /\ found[p] \in Records /\ disk \in [Paths -> Records]
    BY DEF Migrate, Replace, FileTypes, ReadersHoldLeases, WithOld, Migrating
  <1>2. /\ disk[reading[p]] = Nothing /\ temp[p] = found[p]
        /\ found[p] = disk[OldPath[reading[p]]]
        /\ Invalid(reading[p], found[p]) = "none"
    BY <1>1 DEF ReplacementsAreWhole, Migrating
  <1>3. found[p] # Nothing
    BY <1>2 DEF Invalid, Nothing
  <1>4. CASE UNCHANGED disk
    BY <1>4 DEF NextPosition
  <1>5. CASE Replaced(p) /\ b = reading[p]
    BY <1>1, <1>2, <1>3, <1>5 DEF NextPosition, Replaced
  <1>6. CASE Replaced(p) /\ b # reading[p]
    <2>1. disk'[b] = disk[b] /\ (OldPath[b] # NoPath =>
                                   disk'[OldPath[b]] = disk[OldPath[b]])
      BY <1>1, <1>6 DEF Replaced
    <2>2. QED
      BY <2>1 DEF NextPosition
  <1>7. QED
    BY <1>4, <1>5, <1>6 DEF Migrate, Replace

\* A save of one book is not seen by the readers of another.
LEMMA SaveMovesItsBook ==
    ASSUME FileInv, NEW p \in Procs, SaveReplace(p), NEW b \in Books,
           reading[p] # b
    PROVE  NextPosition(b)' = NextPosition(b)
PROOF
  <1>1. /\ reading[p] \in Books /\ disk \in [Paths -> Records]
    BY DEF FileInv, FileTypes, ReadersHoldLeases, SaveReplace, Replace
  <1>2. disk'[b] = disk[b] /\ (OldPath[b] # NoPath =>
                                 disk'[OldPath[b]] = disk[OldPath[b]])
    BY <1>1, PathAssumption DEF SaveReplace, Replace, Replaced, Paths
  <1>3. QED
    BY <1>2 DEF NextPosition

\* An older program moves only books that have no new file yet.
LEMMA OldMovesUnmigrated ==
    ASSUME FileInv, NEW f \in OldPaths, OldSave(f), NEW b \in Books,
           NextPosition(b)' # NextPosition(b)
    PROVE  OldPath[b] # NoPath /\ lock[OldPath[b]] = Old /\ disk[b] = Nothing
PROOF
  <1>1. disk \in [Paths -> Records] /\ b # f /\ b \in Paths
    BY PathAssumption DEF FileInv, FileTypes, Paths
  <1>2. disk'[b] = disk[b]
    BY <1>1 DEF OldSave
  <1>3. disk[b] = Nothing /\ OldPath[b] # NoPath
        /\ disk'[OldPath[b]] # disk[OldPath[b]]
    BY <1>2 DEF NextPosition
  <1>4. OldPath[b] = f
    BY <1>1, <1>3, PathAssumption DEF OldSave, Paths
  <1>5. QED
    BY <1>3, <1>4 DEF OldSave

\* Migration is invisible: the position the next reader of a book goes on from
\* changes only when a Save of that book, or an older program that writes the old
\* file of a book without a new one, completes.
THEOREM MigrationMovesNobody == Spec => OnlySavesMove
PROOF
  <1> DEFINE A == \A b \in Books : NextPosition(b)' # NextPosition(b) =>
                 \/ \E p \in Procs : reading[p] = b /\ step[p] = "saveReplace"
                 \/ OldPath[b] # NoPath /\ lock[OldPath[b]] = Old /\ disk[b] = Nothing
  <1>1. FileInv /\ [Next]_vars => [A]_vars
    <2> SUFFICES ASSUME FileInv, Next, NEW b \in Books,
                        NextPosition(b)' # NextPosition(b)
                 PROVE  \/ \E p \in Procs : reading[p] = b /\ step[p] = "saveReplace"
                        \/ /\ OldPath[b] # NoPath /\ lock[OldPath[b]] = Old
                           /\ disk[b] = Nothing
      OBVIOUS
    <2>1. UNCHANGED disk => FALSE
      BY DEF NextPosition
    <2>2. CASE \E p \in Procs : ProcStep(p) \/ Crash(p)
      <3>1. PICK p \in Procs : ProcStep(p) \/ Crash(p)
        BY <2>2
      <3>2. Migrate(p) \/ SaveReplace(p)
        BY <2>1, <3>1 DEF ProcStep, Crash, Acquire, ReadCurrent, AcquireOld, ReadOld,
           MigrateTemp, SaveTemp, WriteTemp, WriteTo, LoadReturns, Advance, Finish
      <3>3. SaveReplace(p) /\ reading[p] = b
        BY <3>2, MigrateIsInvisible, SaveMovesItsBook
      <3>4. QED
        BY <3>3 DEF SaveReplace, Replace
    <2>3. CASE \E f \in OldPaths : OldAcquire(f) \/ OldSave(f) \/ OldRelease(f)
      BY <2>1, <2>3, OldMovesUnmigrated DEF OldAcquire, OldRelease
    <2>4. QED
      BY <2>2, <2>3 DEF Next
  <1>2. QED
    BY <1>1, FilesAreSafe, PTL DEF Spec, OnlySavesMove

-----------------------------------------------------------------------------
(* The leases *)

\* One lock is taken, or given back by its holder, or a process dies.
LEMMA LocksMoveAsLeases ==
    ASSUME FileInv, [Next]_vars
    PROVE  \/ UNCHANGED lock
           \/ \E o \in Procs \cup {Old}, f \in Paths :
                \/ lock[f] = Free /\ lock' = [lock EXCEPT ![f] = o]
                \/ lock[f] = o /\ lock' = [lock EXCEPT ![f] = Free]
           \/ \E p \in Procs :
                lock' = [f \in Paths |-> IF lock[f] = p THEN Free ELSE lock[f]]
PROOF
  <1> DEFINE Moves ==
        \/ UNCHANGED lock
        \/ \E o \in Procs \cup {Old}, f \in Paths :
             \/ lock[f] = Free /\ lock' = [lock EXCEPT ![f] = o]
             \/ lock[f] = o /\ lock' = [lock EXCEPT ![f] = Free]
        \/ \E p \in Procs :
             lock' = [f \in Paths |-> IF lock[f] = p THEN Free ELSE lock[f]]
  <1> USE PathAssumption DEF FileInv, Paths
  <1>1. ASSUME NEW p \in Procs, step[p] # "idle"
        PROVE  /\ reading[p] \in Paths /\ lock[reading[p]] = p
               /\ step[p] \in WithOld \cup Migrating =>
                    OldPath[reading[p]] \in Paths
               /\ step[p] \in WithOld => lock[OldPath[reading[p]]] = p
    BY <1>1 DEF ReadersHoldLeases
  <1>2. ASSUME NEW p \in Procs, Acquire(p) PROVE Moves
    <2>1. PICK b \in Books : lock[b] = Free /\ lock' = [lock EXCEPT ![b] = p]
      BY <1>2 DEF Acquire
    <2>2. QED
      BY <2>1
  <1>3. ASSUME NEW p \in Procs, AcquireOld(p) PROVE Moves
    <2>1. OldPath[reading[p]] \in Paths
      BY <1>1, <1>3 DEF AcquireOld, Migrating
    <2>2. \/ UNCHANGED lock
          \/ /\ lock[OldPath[reading[p]]] = Free
             /\ lock' = [lock EXCEPT ![OldPath[reading[p]]] = p]
      BY <1>3 DEF AcquireOld
    <2>3. QED
      BY <2>1, <2>2
  <1>4. ASSUME NEW p \in Procs, LoadReturns(p) PROVE Moves
    <2>1. /\ OldPath[reading[p]] \in Paths /\ lock[OldPath[reading[p]]] = p
          /\ lock' = [lock EXCEPT ![OldPath[reading[p]]] = Free]
      BY <1>1, <1>4 DEF LoadReturns, ReleaseOld, WithOld
    <2>2. QED
      BY <2>1
  <1>5. ASSUME NEW p \in Procs, Finish(p) PROVE Moves
    <2>1. /\ reading[p] \in Paths /\ lock[reading[p]] = p
          /\ lock' = [lock EXCEPT ![reading[p]] = Free]
      BY <1>1, <1>5 DEF Finish
    <2>2. QED
      BY <2>1
  <1>6. ASSUME NEW p \in Procs, Crash(p) PROVE Moves
    BY <1>6 DEF Crash
  <1>7. ASSUME NEW p \in Procs, ProcStep(p),
               ~Acquire(p), ~AcquireOld(p), ~LoadReturns(p), ~Finish(p)
        PROVE  UNCHANGED lock
    BY <1>7 DEF ProcStep, ReadCurrent, ReadOld, MigrateTemp, Migrate, Advance,
                SaveTemp, SaveReplace
  <1>8. ASSUME NEW f \in OldPaths, OldAcquire(f) \/ OldSave(f) \/ OldRelease(f)
        PROVE  Moves
    BY <1>8 DEF OldAcquire, OldSave, OldRelease
  <1>9. CASE UNCHANGED vars
    BY <1>9 DEF vars
  <1>10. QED
    BY <1>2, <1>3, <1>4, <1>5, <1>6, <1>7, <1>8, <1>9 DEF Next

\* Migrations included, readers take and give back leases as Lease promises, so
\* that any lease that keeps the promise, as that of ProgressLease does, will do.
THEOREM FilesUseLeases == Spec => UsesLeases
PROOF
  <1>1. Init => Contract!Init
    BY DEF Init, Contract!Init, Holders
  <1>2. FileInv /\ [Next]_vars => [Contract!Next]_Holders
    <2> SUFFICES ASSUME FileInv, [Next]_vars PROVE [Contract!Next]_Holders
      OBVIOUS
    <2>0. lock \in [Paths -> Procs \cup {Free, Old}] /\ {Free, Old} \cap Procs = {}
          /\ Free # Old
      BY PathAssumption DEF FileInv, FileTypes
    <2>1. CASE UNCHANGED lock
      BY <2>1 DEF Holders
    <2>2. ASSUME NEW o \in Procs \cup {Old}, NEW f \in Paths, lock[f] = Free,
                 lock' = [lock EXCEPT ![f] = o]
          PROVE  Contract!Take(o, f)
      <3>1. {o} \ {Free} = {o}
        BY <2>0
      <3>2. \A g \in Paths : lock'[g] = IF g = f THEN o ELSE lock[g]
        BY <2>0, <2>2
      <3>3. Holders' = [Holders EXCEPT ![f] = {o}]
        BY <3>1, <3>2 DEF Holders
      <3>4. Holders[f] = {}
        BY <2>2 DEF Holders
      <3>5. QED
        BY <3>3, <3>4 DEF Contract!Take
    <2>3. ASSUME NEW o \in Procs \cup {Old}, NEW f \in Paths, lock[f] = o,
                 lock' = [lock EXCEPT ![f] = Free]
          PROVE  Contract!Give(o, f)
      <3>1. {o} \ {Free} = {o} /\ {Free} \ {Free} = {}
        BY <2>0
      <3>2. \A g \in Paths : lock'[g] = IF g = f THEN Free ELSE lock[g]
        BY <2>0, <2>3
      <3>3. Holders' = [Holders EXCEPT ![f] = {}]
        BY <3>1, <3>2 DEF Holders
      <3>4. Holders[f] = {o}
        BY <2>3, <3>1 DEF Holders
      <3>5. QED
        BY <3>3, <3>4 DEF Contract!Give
    <2>4. ASSUME NEW p \in Procs,
                 lock' = [f \in Paths |-> IF lock[f] = p THEN Free ELSE lock[f]]
          PROVE  Contract!Die({p})
      <3>1. \A f \in Paths : {lock'[f]} \ {Free} = ({lock[f]} \ {Free}) \ {p}
        BY <2>4
      <3>2. QED
        BY <3>1 DEF Holders, Contract!Die
    <2>5. QED
      BY <2>1, <2>2, <2>3, <2>4, LocksMoveAsLeases DEF Contract!Next
  <1>3. QED
    BY <1>1, <1>2, FilesAreSafe, PTL DEF Spec, UsesLeases, Contract!Spec

\* A file changes only by a step of the process that holds its lease, and only
\* while it goes on holding it: neither a migration nor a save is ever overtaken
\* by another process that has the lease by then.
THEOREM FilesWrittenUnderLease == Spec => WritesUnderLease
PROOF
  <1> DEFINE A == \A f \in Paths : disk'[f] # disk[f] =>
                    /\ lock[f] # Free /\ lock'[f] = lock[f]
                    /\ lock[f] \in Procs => step[lock[f]] # step'[lock[f]]
  <1>1. FileInv /\ [Next]_vars => [A]_vars
    <2> SUFFICES ASSUME FileInv, Next, NEW f \in Paths, disk'[f] # disk[f]
                 PROVE  /\ lock[f] # Free /\ lock'[f] = lock[f]
                        /\ lock[f] \in Procs => step[lock[f]] # step'[lock[f]]
      OBVIOUS
    <2>0. disk \in [Paths -> Records]
      BY DEF FileInv, FileTypes
    <2>1. ASSUME NEW p \in Procs, Migrate(p) \/ SaveReplace(p)
          PROVE  /\ lock[f] = p /\ p # Free /\ UNCHANGED lock
                 /\ step[p] # step'[p]
      <3>1. /\ step[p] \in {"migrateReplace", "saveReplace"}
            /\ UNCHANGED lock /\ Replaced(p)
            /\ \E next \in {"release", "ready"} : Goto(p, next)
        BY <2>1 DEF Migrate, SaveReplace, Replace
      <3>2. f = reading[p] /\ lock[reading[p]] = p
        BY <2>0, <3>1 DEF Replaced, FileInv, ReadersHoldLeases
      <3>3. step'[p] \in {"release", "ready"}
        BY <3>1 DEF Goto, FileInv, FileTypes
      <3>4. QED
        BY <3>1, <3>2, <3>3, PathAssumption
    <2>2. ASSUME NEW g \in OldPaths, OldSave(g)
          PROVE  lock[f] = Old /\ UNCHANGED lock
      BY <2>0, <2>2 DEF OldSave
    <2>3. \/ \E p \in Procs : Migrate(p) \/ SaveReplace(p)
          \/ \E g \in OldPaths : OldSave(g)
      BY DEF Next, ProcStep, Crash, Acquire, ReadCurrent, AcquireOld, ReadOld,
             MigrateTemp, SaveTemp, WriteTemp, WriteTo, LoadReturns, Advance, Finish,
             OldAcquire, OldRelease
    <2>4. QED
      BY <2>1, <2>2, <2>3, PathAssumption
  <1>2. QED
    BY <1>1, FilesAreSafe, PTL DEF Spec, WritesUnderLease
=============================================================================
