--------------------------- MODULE CliReaderProofs ---------------------------
(***************************************************************************)
(* Proofs about CliReader: whatever signals, panics, failed saves and edits *)
(* of the book come in between, for books and chunks of every size.        *)
(***************************************************************************)
EXTENDS CliReader, TLAPS

-----------------------------------------------------------------------------
(* The invariant *)

AfterLoad == {"resolve", "open", "read", "check", "speak", "save", "eof"}

\* The progress file may be written exactly by a run that has found it to be
\* of the book it inspected, or missing.
SavesItsOwn ==
    /\ canSave <=> step \in AfterLoad
    /\ canSave => saved = NoFile \/ saved.ver = registered
    /\ step = "resolve" => pos <= Size[registered]

\* An open file that was edited in place is not the file at the path any more.
EditsShow ==
    /\ registered <= file
    /\ edited => HasFileOpen /\ registered < file
    /\ step = "eof" => edited \/ pos = Size[registered]

\* A run stands where the last chunk that was heard ended, or began if the run
\* before could not save its end; what is saved is the start of that chunk only
\* until it is saved again.
StandsWhereHeard ==
    canSave =>
        LET n == Size[registered] IN
        /\ Again(pos, n) \in {Again(heard, n), Again(lastStart, n)}
        /\ step = "save" => pos = heard
        /\ saved # NoFile /\ ~jumped =>
             Resume(saved, n) = Again(IF step = "save" THEN lastStart ELSE pos, n)

ReaderInv ==
    /\ TypeOK /\ SavesItsOwn /\ EditsShow /\ StandsWhereHeard
    /\ RepeatsAtMostOneChunk

\* What a progress file holds.
LEMMA ProgressFacts ==
    /\ NoFile \in ProgressFiles /\ NoFile.pos = 0
    /\ \A v \in Versions, p \in Nat : [ver |-> v, pos |-> p] \in ProgressFiles
    /\ \A f \in ProgressFiles :
         /\ f.pos \in Nat
         /\ f # NoFile => f.ver \in Versions
PROOF
  BY DEF ProgressFiles, NoFile

LEMMA ReaderInvInit == Init => ReaderInv
PROOF
  <1> SUFFICES ASSUME Init PROVE ReaderInv
    OBVIOUS
  <1>1. 0 \in Versions
    BY ReaderAssumption DEF Versions
  <1>2. TypeOK
    <2>1. phrase \in BOOLEAN /\ edited \in BOOLEAN /\ canSave \in BOOLEAN
          /\ jumped \in BOOLEAN
      BY DEF Init
    <2>2. /\ registered \in Versions /\ file \in Versions /\ saved \in ProgressFiles
          /\ pos \in Nat /\ end \in Nat /\ heard \in Nat /\ lastStart \in Nat
      BY <1>1, ProgressFacts DEF Init
    <2>3. QED
      BY <2>1, <2>2 DEF Init, TypeOK
  <1>3. SavesItsOwn /\ EditsShow /\ StandsWhereHeard /\ RepeatsAtMostOneChunk
    BY DEF Init, SavesItsOwn, AfterLoad, EditsShow, StandsWhereHeard,
           RepeatsAtMostOneChunk
  <1>4. QED
    BY <1>2, <1>3 DEF ReaderInv

\* Where a run that ends leaves the invariant depends on the disk alone.
LEMMA EndedInv ==
    ASSUME ReaderInv, NEW c \in {0, 1, 130}, Exit(c), UNCHANGED <<phrase, file>>,
           signals' \in 0..2,
           saved' \in ProgressFiles,
           heard' \in Nat, lastStart' \in Nat, jumped' \in BOOLEAN,
           RepeatsAtMostOneChunk'
    PROVE  ReaderInv'
PROOF
  BY DEF ReaderInv, TypeOK, SavesItsOwn, AfterLoad, EditsShow, HasFileOpen,
         StandsWhereHeard, Exit

\* A run that saves where it stands, or fails to, and ends.
LEMMA SaveAndExitInv ==
    ASSUME ReaderInv, canSave, NEW ok \in {0, 1},
           SaveAndExit(pos, ok, 1),
           UNCHANGED <<signals, phrase, file, heard, lastStart>>
    PROVE  ReaderInv'
PROOF
  <1>0. /\ TypeOK /\ SavesItsOwn /\ StandsWhereHeard /\ RepeatsAtMostOneChunk
        /\ registered \in Versions /\ pos \in Nat
    BY DEF ReaderInv, TypeOK
  <1>1. saved' \in ProgressFiles /\ jumped' \in BOOLEAN
    <2>1. CASE Saved(pos)
      BY <1>0, <2>1, ProgressFacts DEF Saved
    <2>2. CASE UNCHANGED <<saved, jumped>>
      BY <1>0, <2>2 DEF TypeOK
    <2>3. QED
      BY <2>1, <2>2 DEF SaveAndExit
  <1>2. RepeatsAtMostOneChunk'
    <2>1. CASE Saved(pos)
      <3>1. saved'.ver = registered /\ saved'.pos = pos
        BY <2>1 DEF Saved
      <3>2. QED
        BY <1>0, <3>1 DEF RepeatsAtMostOneChunk, StandsWhereHeard, Resume, Again
    <2>2. CASE UNCHANGED <<saved, jumped>>
      BY <1>0, <2>2 DEF RepeatsAtMostOneChunk
    <2>3. QED
      BY <2>1, <2>2 DEF SaveAndExit
  <1>3. PICK c \in {0, 1, 130} : Exit(c)
    BY DEF SaveAndExit
  <1>4. QED
    BY <1>0, <1>1, <1>2, <1>3, EndedInv DEF TypeOK

\* A run that ends without touching the progress file.
LEMMA ExitInv ==
    ASSUME ReaderInv, NEW c \in {0, 1, 130}, Exit(c), signals' \in 0..2,
           UNCHANGED <<phrase, disk, listener>>
    PROVE  ReaderInv'
PROOF
  <1>1. RepeatsAtMostOneChunk'
    BY DEF ReaderInv, RepeatsAtMostOneChunk, disk, listener
  <1>2. QED
    BY <1>1, EndedInv DEF ReaderInv, TypeOK, disk, listener

\* A step of the loop that moves neither the position nor the disk.
LEMMA GoOnInv ==
    ASSUME ReaderInv, canSave, step # "save",
           NEW next \in AfterLoad \ {"resolve", "save"}, Goto(next),
           UNCHANGED <<registered, edited, pos, canSave, saved, listener, signals,
                       phrase, file>>,
           end' \in Nat, text' \in {"none", "registered", "edited"},
           edited => next \in {"read", "check", "speak", "eof"},
           next = "eof" => edited \/ pos = Size[registered]
    PROVE  ReaderInv'
PROOF
  <1>1. UNCHANGED <<saved, heard, lastStart, jumped, code>>
    BY DEF listener, Goto
  <1>2. TypeOK'
    BY <1>1 DEF ReaderInv, TypeOK, Goto, AfterLoad
  <1>3. SavesItsOwn' /\ EditsShow' /\ StandsWhereHeard' /\ RepeatsAtMostOneChunk'
    BY <1>1 DEF ReaderInv, SavesItsOwn, EditsShow, StandsWhereHeard,
                RepeatsAtMostOneChunk, HasFileOpen, Goto, AfterLoad
  <1>4. QED
    BY <1>2, <1>3 DEF ReaderInv

-----------------------------------------------------------------------------
(* Every step keeps the invariant *)

LEMMA BeforeTheLoop ==
    ASSUME ReaderInv, Start \/ Inspect \/ Load \/ FinishEmpty \/ Resolve \/ Open
    PROVE  ReaderInv'
PROOF
  <1>0. /\ TypeOK /\ SavesItsOwn /\ EditsShow /\ StandsWhereHeard
        /\ RepeatsAtMostOneChunk
    BY DEF ReaderInv
  <1>1. CASE Start
    BY <1>0, <1>1
       DEF Start, Running, Goto, ReaderInv, TypeOK, SavesItsOwn, AfterLoad, EditsShow,
           HasFileOpen, StandsWhereHeard, RepeatsAtMostOneChunk, app, disk
  <1>2. CASE Inspect
    <2>1. CASE Exit(1)
      BY <1>0, <1>2, <2>1, ExitInv DEF Inspect, TypeOK
    <2>2. CASE ~ Exit(1)
      <3>1. /\ step = "inspect" /\ step' = "load" /\ registered' = file
            /\ UNCHANGED <<code, edited, pos, canSave, end, text, signals, phrase, file,
                           saved, heard, lastStart, jumped>>
        BY <1>2, <2>2 DEF Inspect, Goto, disk, listener
      <3>2. TypeOK' /\ RepeatsAtMostOneChunk'
        BY <1>0, <3>1 DEF TypeOK, RepeatsAtMostOneChunk
      <3>3. SavesItsOwn' /\ StandsWhereHeard'
        BY <1>0, <3>1 DEF SavesItsOwn, StandsWhereHeard, AfterLoad
      <3>4. EditsShow'
        BY <1>0, <3>1 DEF EditsShow, HasFileOpen, TypeOK, Versions
      <3>5. QED
        BY <3>2, <3>3, <3>4 DEF ReaderInv
    <2>3. QED
      BY <2>1, <2>2
  <1>3. CASE Load
    <2>1. CASE Exit(1) /\ UNCHANGED listener
      BY <1>0, <1>3, <2>1, ExitInv DEF Load, TypeOK
    <2>2. CASE ~ (Exit(1) /\ UNCHANGED listener)
      <3> DEFINE n == Size[registered]
      <3>1. /\ Usable /\ step = "load" /\ step' = "resolve" /\ canSave' = TRUE
            /\ pos' = Resume(saved, n) /\ jumped' = FALSE
            /\ IF saved = NoFile \/ jumped
                 THEN heard' = pos' /\ lastStart' = pos'
                 ELSE UNCHANGED <<heard, lastStart>>
            /\ UNCHANGED <<code, registered, edited, end, text, signals, phrase, file,
                           saved>>
        BY <1>3, <2>2 DEF Load, Goto, disk
      <3>2. n \in Nat /\ saved.pos \in Nat /\ saved.pos <= n
        BY <1>0, <3>1, ReaderAssumption, ProgressFacts DEF TypeOK, Usable
      <3>3. pos' \in Nat /\ pos' <= n /\ Again(pos', n) = Resume(saved, n)
        BY <3>1, <3>2 DEF Resume, Again
      <3>4. TypeOK'
        BY <1>0, <3>1, <3>3 DEF TypeOK
      <3>5. SavesItsOwn' /\ EditsShow'
        BY <1>0, <3>1, <3>3
           DEF SavesItsOwn, EditsShow, Usable, AfterLoad, HasFileOpen
      <3>6. StandsWhereHeard'
        <4>1. saved # NoFile /\ ~jumped =>
                Resume(saved, n) \in {Again(heard, n), Again(lastStart, n)}
          BY <1>0, <3>1 DEF RepeatsAtMostOneChunk, Usable
        <4>2. QED
          BY <3>1, <3>3, <4>1 DEF StandsWhereHeard
      <3>7. RepeatsAtMostOneChunk'
        BY <1>0, <3>1, <3>3 DEF RepeatsAtMostOneChunk, Usable
      <3>8. QED
        BY <3>4, <3>5, <3>6, <3>7 DEF ReaderInv
    <2>3. QED
      BY <2>1, <2>2
  <1>4. CASE FinishEmpty
    <2>1. pos = 0 /\ canSave
      BY <1>0, <1>4 DEF FinishEmpty, SavesItsOwn, AfterLoad, TypeOK
    <2>2. \E ok \in {0, 1} : SaveAndExit(pos, ok, 1)
      BY <1>4, <2>1 DEF FinishEmpty, SaveAndExit
    <2>3. QED
      BY <1>4, <2>1, <2>2, SaveAndExitInv DEF FinishEmpty
  <1>5. CASE Resolve
    <2>1. CASE Exit(1) /\ UNCHANGED listener
      BY <1>0, <1>5, <2>1, ExitInv DEF Resolve, TypeOK
    <2>2. CASE ~phrase /\ UNCHANGED <<pos, listener>> /\ Goto("open")
               /\ UNCHANGED <<registered, edited, canSave, end, text>>
      <3>1. canSave /\ ~edited
        BY <1>0, <1>5 DEF Resolve, SavesItsOwn, EditsShow, HasFileOpen, AfterLoad
      <3>2. QED
        BY <1>0, <1>5, <2>2, <3>1, GoOnInv DEF Resolve, TypeOK, AfterLoad, disk
    <2>3. CASE /\ pos' \in {0} \cup 0..(Size[file] - 1) /\ Goto("open")
               /\ heard' = pos' /\ lastStart' = pos' /\ jumped' = TRUE
               /\ UNCHANGED <<registered, edited, canSave, end, text>>
      <3>1. pos' \in Nat
        BY <1>0, <2>3, ReaderAssumption DEF TypeOK
      <3>2. QED
        BY <1>0, <1>5, <2>3, <3>1
           DEF Resolve, Goto, ReaderInv, TypeOK, SavesItsOwn, AfterLoad, EditsShow,
               HasFileOpen, StandsWhereHeard, RepeatsAtMostOneChunk, disk
    <2>4. QED
      BY <1>5, <2>1, <2>2, <2>3 DEF Resolve
  <1>6. CASE Open
    <2>1. CASE Exit(1)
      BY <1>0, <1>6, <2>1, ExitInv DEF Open, TypeOK
    <2>2. CASE Goto("read") /\ UNCHANGED app
      <3>1. canSave /\ ~edited
        BY <1>0, <1>6 DEF Open, SavesItsOwn, EditsShow, HasFileOpen, AfterLoad
      <3>2. QED
        BY <1>0, <1>6, <2>2, <3>1, GoOnInv DEF Open, TypeOK, AfterLoad, app, disk
    <2>3. QED
      BY <1>6, <2>1, <2>2 DEF Open
  <1>7. QED
    BY <1>1, <1>2, <1>3, <1>4, <1>5, <1>6

LEMMA InTheLoop ==
    ASSUME ReaderInv, Interrupt \/ Read \/ Check \/ Speak \/ SaveChunk \/ Finish
    PROVE  ReaderInv'
PROOF
  <1>0. /\ TypeOK /\ SavesItsOwn /\ EditsShow /\ StandsWhereHeard
        /\ RepeatsAtMostOneChunk /\ canSave
    BY DEF ReaderInv, SavesItsOwn, AfterLoad, Interrupt, Read, Check, Speak, SaveChunk,
           Finish
  <1>1. CASE Interrupt
    <2>1. SaveAndExit(pos, 0, 1)
      BY <1>1 DEF Interrupt
    <2>2. QED
      BY <1>0, <1>1, <2>1, SaveAndExitInv DEF Interrupt
  <1>2. CASE Read
    <2>1. CASE SaveAndExit(pos, 1, 1)
      BY <1>0, <1>2, <2>1, SaveAndExitInv DEF Read
    <2>2. CASE /\ end' \in ChunkEnds /\ text' \in {"registered", "edited"}
               /\ Goto("check")
               /\ UNCHANGED <<registered, edited, pos, canSave, saved, jumped>>
      <3>1. end' \in Nat
        BY <1>0, <2>2, ReaderAssumption DEF ChunkEnds, TypeOK
      <3>2. QED
        BY <1>0, <1>2, <2>2, <3>1, GoOnInv DEF Read, AfterLoad, listener
    <2>3. CASE AtEOF /\ Goto("eof") /\ UNCHANGED <<app, saved, jumped>>
      BY <1>0, <1>2, <2>3, GoOnInv DEF Read, AtEOF, AfterLoad, listener, app, TypeOK
    <2>4. QED
      BY <1>2, <2>1, <2>2, <2>3 DEF Read
  <1>3. CASE Check
    <2>1. CASE SaveAndExit(pos, 1, 1)
      BY <1>0, <1>3, <2>1, SaveAndExitInv DEF Check
    <2>2. CASE Goto("speak") /\ UNCHANGED <<app, saved, jumped>>
      BY <1>0, <1>3, <2>2, GoOnInv DEF Check, AfterLoad, listener, app, TypeOK
    <2>3. QED
      BY <1>3, <2>1, <2>2 DEF Check
  <1>4. CASE Speak
    <2>1. CASE SaveAndExit(pos, IF Interrupted THEN 0 ELSE 1, 1)
               /\ UNCHANGED <<heard, lastStart>>
      BY <1>0, <1>4, <2>1, SaveAndExitInv DEF Speak
    <2>2. CASE /\ pos' = end /\ heard' = end /\ lastStart' = pos
               /\ Goto("save")
               /\ UNCHANGED <<registered, edited, canSave, end, text, saved, jumped>>
      <3>1. UNCHANGED <<signals, phrase, file>> /\ step = "speak"
        BY <1>4 DEF Speak
      <3>2. TypeOK' /\ SavesItsOwn' /\ EditsShow'
        BY <1>0, <2>2, <3>1
           DEF Goto, TypeOK, SavesItsOwn, AfterLoad, EditsShow, HasFileOpen
      <3>3. StandsWhereHeard'
        BY <1>0, <2>2, <3>1 DEF Goto, StandsWhereHeard
      <3>4. RepeatsAtMostOneChunk'
        <4>1. ASSUME saved # NoFile, ~jumped
              PROVE  /\ saved.ver = registered
                     /\ Resume(saved, Size[registered]) = Again(pos, Size[registered])
          BY <1>0, <3>1, <4>1 DEF SavesItsOwn, StandsWhereHeard
        <4>2. QED
          BY <2>2, <4>1 DEF RepeatsAtMostOneChunk
      <3>5. QED
        BY <3>2, <3>3, <3>4 DEF ReaderInv
    <2>3. QED
      BY <1>4, <2>1, <2>2 DEF Speak, Unspoken
  <1>5. CASE SaveChunk
    <2>1. CASE Exit(1) /\ UNCHANGED <<saved, jumped>>
      BY <1>0, <1>5, <2>1, ExitInv DEF SaveChunk, TypeOK, disk, listener
    <2>2. CASE Saved(pos) /\ Goto("read") /\ UNCHANGED app
      <3>1. /\ UNCHANGED <<signals, phrase, file, heard, lastStart, registered, edited,
                           pos, canSave, end, text, code>>
            /\ step = "save" /\ step' = "read"
            /\ saved' = [ver |-> registered, pos |-> pos] /\ jumped' = FALSE
        BY <1>5, <2>2 DEF SaveChunk, app, Goto, Saved
      <3>2. TypeOK' /\ SavesItsOwn' /\ EditsShow'
        <4>1. registered \in Versions /\ pos \in Nat
          BY <1>0 DEF TypeOK
        <4>2. saved' \in ProgressFiles /\ saved'.ver = registered
          BY <3>1, <4>1, ProgressFacts
        <4>3. TypeOK'
          BY <1>0, <3>1, <4>2 DEF TypeOK
        <4>4. SavesItsOwn' /\ EditsShow'
          BY <1>0, <3>1, <4>2
             DEF TypeOK, SavesItsOwn, AfterLoad, EditsShow, HasFileOpen
        <4>5. QED
          BY <4>3, <4>4
      <3>3. saved'.ver = registered /\ saved'.pos = pos
        BY <3>1
      <3>4. StandsWhereHeard' /\ RepeatsAtMostOneChunk'
        BY <1>0, <3>1, <3>3 DEF StandsWhereHeard, RepeatsAtMostOneChunk, Resume, Again
      <3>5. QED
        BY <3>2, <3>4 DEF ReaderInv
    <2>3. QED
      BY <1>5, <2>1, <2>2 DEF SaveChunk
  <1>6. CASE Finish
    <2>1. CASE SaveAndExit(pos, 1, 1) /\ UNCHANGED <<heard, lastStart>>
      BY <1>0, <1>6, <2>1, SaveAndExitInv DEF Finish
    <2>2. CASE UNCHANGED <<saved, listener>> /\ Exit(1)
      BY <1>0, <1>6, <2>2, ExitInv DEF Finish, TypeOK, disk
    <2>3. CASE Saved(0) /\ Exit(0) /\ heard' = 0 /\ lastStart' = 0
      <3>1. saved' \in ProgressFiles /\ jumped' = FALSE /\ saved'.pos = 0
        BY <1>0, <2>3, ProgressFacts DEF Saved, TypeOK
      <3>2. RepeatsAtMostOneChunk'
        BY <2>3, <3>1 DEF RepeatsAtMostOneChunk, Resume, Again
      <3>3. QED
        BY <1>0, <1>6, <2>3, <3>1, <3>2, EndedInv DEF Finish, TypeOK
    <2>4. QED
      BY <1>6, <2>1, <2>2, <2>3 DEF Finish
  <1>7. QED
    BY <1>1, <1>2, <1>3, <1>4, <1>5, <1>6

LEMMA AtAnyTime ==
    ASSUME ReaderInv, Signal \/ Panic \/ Edit PROVE ReaderInv'
PROOF
  <1>0. /\ TypeOK /\ SavesItsOwn /\ EditsShow /\ StandsWhereHeard
        /\ RepeatsAtMostOneChunk
    BY DEF ReaderInv
  <1>1. CASE Signal
    <2>1. CASE signals = 0 /\ UNCHANGED <<step, code, app>>
      BY <1>0, <1>1, <2>1
         DEF Signal, app, disk, listener, ReaderInv, TypeOK, SavesItsOwn, EditsShow,
             HasFileOpen, StandsWhereHeard, RepeatsAtMostOneChunk
    <2>2. CASE signals = 1 /\ Exit(130)
      BY <1>0, <1>1, <2>2, ExitInv DEF Signal
    <2>3. QED
      BY <1>1, <2>1, <2>2 DEF Signal
  <1>2. CASE Panic
    <2>1. CASE canSave
      BY <1>2, <2>1, SaveAndExitInv DEF Panic, MaySave
    <2>2. CASE ~canSave
      BY <1>0, <1>2, <2>2, ExitInv DEF Panic, MaySave, TypeOK, disk, listener
    <2>3. QED
      BY <2>1, <2>2
  <1>3. CASE Edit
    <2>1. /\ UNCHANGED <<step, code, signals, phrase, registered, pos, canSave, end,
                         text, saved, heard, lastStart, jumped>>
          /\ file < MaxEdits /\ file' = file + 1 /\ edited' \in {edited, HasFileOpen}
      BY <1>3 DEF Edit, listener
    <2>2. file' \in Versions /\ TypeOK'
      <3>1. file' \in Versions
        BY <1>0, <2>1, ReaderAssumption DEF TypeOK, Versions
      <3>2. edited' \in BOOLEAN
        <4>1. edited \in BOOLEAN /\ HasFileOpen \in BOOLEAN
          BY <1>0 DEF TypeOK, HasFileOpen
        <4>2. QED
          BY <2>1, <4>1
      <3>3. QED
        BY <1>0, <2>1, <3>1, <3>2 DEF TypeOK
    <2>6. SavesItsOwn'
      BY <1>0, <2>1 DEF SavesItsOwn
    <2>3. EditsShow'
      BY <1>0, <2>1, ReaderAssumption DEF TypeOK, EditsShow, Versions, HasFileOpen
    <2>4. StandsWhereHeard' /\ RepeatsAtMostOneChunk'
      BY <1>0, <2>1 DEF StandsWhereHeard, RepeatsAtMostOneChunk
    <2>5. QED
      BY <2>2, <2>3, <2>4, <2>6 DEF ReaderInv
  <1>4. QED
    BY <1>1, <1>2, <1>3

LEMMA ReaderInvNext == ReaderInv /\ [Next]_vars => ReaderInv'
PROOF
  <1> SUFFICES ASSUME ReaderInv, [Next]_vars PROVE ReaderInv'
    OBVIOUS
  <1>1. CASE Next
    BY <1>1, BeforeTheLoop, InTheLoop, AtAnyTime DEF Next, AppStep
  <1>2. CASE UNCHANGED vars
    BY <1>2 DEF vars, app, disk, listener, ReaderInv, TypeOK, SavesItsOwn, AfterLoad,
                EditsShow, HasFileOpen, StandsWhereHeard, RepeatsAtMostOneChunk
  <1>3. QED
    BY <1>1, <1>2

LEMMA ReaderSafety == Spec => []ReaderInv
PROOF
  BY ReaderInvInit, ReaderInvNext, PTL DEF Spec

-----------------------------------------------------------------------------
(* Theorems *)

\* For books and chunks of every size and however the runs end: the next run
\* repeats at most the last chunk that was heard, and skips nothing.
THEOREM NothingSkipped == Spec => []RepeatsAtMostOneChunk
PROOF
  <1>1. ReaderInv => RepeatsAtMostOneChunk
    BY DEF ReaderInv
  <1>2. QED
    BY <1>1, ReaderSafety, PTL

\* A run that ends with 0 at the end of the file has read the whole of the book
\* it inspected, although an edit in place may have made the file end early.
THEOREM FinishedIsWhole == Spec => FinishedMeansWholeBook
PROOF
  <1>1. ASSUME ReaderInv, [Next]_vars
        PROVE  [code' = 0 /\ step = "eof" /\ ~Running' => pos = Size[registered]]_vars
    <2> SUFFICES ASSUME Next, code' = 0, step = "eof", ~Running'
                 PROVE  pos = Size[registered]
      BY <1>1
    <2>1. ~ (Start \/ Inspect \/ Load \/ FinishEmpty \/ Resolve \/ Open \/ Interrupt
             \/ Read \/ Check \/ Speak \/ SaveChunk)
      BY DEF Start, Running, Inspect, Load, FinishEmpty, Resolve, Open, Interrupt, Read,
             Check, Speak, SaveChunk
    <2>2. ~ (Signal \/ Panic \/ Edit)
      BY DEF Signal, Panic, Edit, Exit, SaveAndExit, Running
    <2>3. Finish /\ Whole
      BY <2>1, <2>2 DEF Next, AppStep, Finish, SaveAndExit, Exit
    <2>4. ~edited
      BY <1>1, <2>3 DEF Whole, ReaderInv, EditsShow, TypeOK, Versions
    <2>5. QED
      BY <1>1, <2>4 DEF ReaderInv, EditsShow
  <1>2. QED
    BY <1>1, ReaderSafety, PTL DEF Spec, FinishedMeansWholeBook

\* No run overwrites progress it has not found to be of its book.
THEOREM ForeignProgressKept == Spec => ForeignProgressIsKept
PROOF
  <1>1. ASSUME ReaderInv, [Next]_vars
        PROVE  [saved' # saved /\ saved # NoFile => canSave /\ saved'.ver = saved.ver]_vars
    <2> SUFFICES ASSUME Next, saved' # saved, saved # NoFile
                 PROVE  canSave /\ saved'.ver = saved.ver
      BY <1>1
    <2>1. ~ (Start \/ Inspect \/ Load \/ Resolve \/ Open \/ Signal \/ Edit)
      BY DEF Start, Inspect, Load, Resolve, Open, Signal, Edit, disk
    <2>2. canSave
      BY <1>1, <2>1 DEF Next, AppStep, FinishEmpty, Interrupt, Read, Check, Speak,
                        SaveChunk, Finish, Panic, MaySave, ReaderInv, SavesItsOwn,
                        AfterLoad
    <2>3. \E p : saved' = [ver |-> registered, pos |-> p]
      BY <2>1 DEF Next, AppStep, FinishEmpty, Interrupt, Read, Check, Speak, SaveChunk,
                  Finish, Panic, SaveAndExit, Saved
    <2>4. QED
      BY <1>1, <2>2, <2>3 DEF ReaderInv, SavesItsOwn
  <1>2. QED
    BY <1>1, ReaderSafety, PTL DEF Spec, ForeignProgressIsKept
=============================================================================
