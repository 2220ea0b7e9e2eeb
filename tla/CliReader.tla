----------------------------- MODULE CliReader -----------------------------
(***************************************************************************)
(* The command line reader, runWithOptions of src/main.go: one run after   *)
(* the other of a process that inspects the book, loads its progress,       *)
(* speaks chunk after chunk and saves after each; Ctrl+C may come at any    *)
(* moment, and a second one ends the process on the spot.  The lease keeps  *)
(* other processes from the progress file; Save is all or nothing (see     *)
(* ProgressFile).                                                           *)
(***************************************************************************)
EXTENDS Integers

CONSTANTS
    MaxEdits,  \* bound: times the book is edited
    Size,      \* Size[v]: bytes of version v of the book, each a rune here
    ChunkSize  \* -chunk

Versions == 0..MaxEdits

ASSUME ReaderAssumption ==
    /\ MaxEdits \in Nat
    /\ Size \in [Versions -> Nat]
    /\ ChunkSize \in Nat \ {0}

VARIABLES
    step, code,   \* where the run is, and the exit code of the last one
    signals,      \* Ctrl+C received by the run; one cancels its context
    phrase,       \* whether the run was given a -start phrase
    registered,   \* app.book: the version inspected
    edited,       \* the open file was edited in place
    pos, canSave, \* app.pos, app.canSave
    end, text,    \* the chunk read
    file,         \* version of the book at its path
    saved,        \* the progress file
    \* what the listener has experienced
    heard,        \* where the last chunk that was spoken ended
    lastStart,    \* and where it started
    jumped        \* a phrase was found and nothing saved since

app == <<registered, edited, pos, canSave, end, text>>
disk == <<file, saved>>
listener == <<heard, lastStart, jumped>>
vars == <<step, code, signals, phrase, app, disk, listener>>

NoFile == [ver |-> -1, pos |-> 0]

Init ==
    /\ step = "ended" /\ code = 0 /\ signals = 0 /\ phrase = FALSE
    /\ registered = 0 /\ edited = FALSE
    /\ pos = 0 /\ canSave = FALSE /\ end = 0 /\ text = "none"
    /\ file = 0 /\ saved = NoFile
    /\ heard = 0 /\ lastStart = 0 /\ jumped = FALSE

Interrupted == signals > 0   \* app.ctx.Err() != nil
Running == step # "ended"

Exit(c) ==
    /\ step' = "ended" /\ code' = c
    /\ pos' = 0 /\ canSave' = FALSE /\ end' = 0 /\ text' = "none"
    /\ edited' = FALSE
    /\ UNCHANGED registered
Goto(next) == step' = next /\ UNCHANGED code

\* saveProgress: identity of the inspected version, all or nothing.
Saved(p) == saved' = [ver |-> registered, pos |-> p] /\ jumped' = FALSE
SaveAndExit(p, ok, failed) ==
    \/ Saved(p) /\ Exit(ok)
    \/ UNCHANGED <<saved, jumped>> /\ Exit(failed)

-----------------------------------------------------------------------------
(* Before the loop *)

Start ==
    /\ ~Running
    /\ Goto("inspect")
    /\ signals' = 0
    /\ phrase' \in BOOLEAN
    /\ UNCHANGED <<app, disk, heard, lastStart, jumped>>

\* The lease, and InspectFileContext.
Inspect ==
    /\ step = "inspect"
    /\ \/ /\ ~Interrupted
          /\ registered' = file
          /\ Goto("load")
          /\ UNCHANGED <<edited, pos, canSave, end, text>>
       \/ Exit(1)
    /\ UNCHANGED <<signals, phrase, disk, listener>>

\* Where a run resumes from the progress file f of a book of n bytes.
Resume(f, n) == IF f.pos = n THEN 0 ELSE f.pos

\* ValidateForBook: the progress is of this book, and lies in it.
Usable == \/ saved = NoFile
          \/ saved.ver = registered /\ saved.pos <= Size[registered]

\* loadProgress; only now may the file be overwritten.
Load ==
    /\ step = "load"
    /\ \/ /\ Usable
          /\ pos' = Resume(saved, Size[registered])
          /\ canSave' = TRUE
          /\ Goto("resolve")
          /\ jumped' = FALSE
          /\ IF saved = NoFile \/ jumped
               THEN heard' = pos' /\ lastStart' = pos'
               ELSE UNCHANGED <<heard, lastStart>>
          /\ UNCHANGED <<registered, edited, end, text>>
       \/ Exit(1) /\ UNCHANGED listener
    /\ UNCHANGED <<signals, phrase, disk>>

\* An empty book is done at once.
FinishEmpty ==
    /\ step = "resolve" /\ Size[registered] = 0
    /\ SaveAndExit(0, 0, 1)
    /\ UNCHANGED <<signals, phrase, file, heard, lastStart>>

\* resolveStartPosition; the phrase is looked up in the file as it is by now.
Resolve ==
    /\ step = "resolve" /\ Size[registered] > 0
    /\ \/ /\ \/ ~phrase /\ UNCHANGED <<pos, listener>>
             \/ /\ phrase
                /\ pos' \in {0} \cup 0..(Size[file] - 1)
                /\ heard' = pos' /\ lastStart' = pos' /\ jumped' = TRUE
          /\ Goto("open")
          /\ UNCHANGED <<registered, edited, canSave, end, text>>
       \/ Exit(1) /\ UNCHANGED listener
    /\ UNCHANGED <<signals, phrase, disk>>

\* PreviewTextFromFile, OpenStableReadContext and SameFile: nothing is saved
\* when they fail.
Open ==
    /\ step = "open"
    /\ \/ /\ ~Interrupted /\ file = registered
          /\ Goto("read")
          /\ UNCHANGED app
       \/ Exit(1)
    /\ UNCHANGED <<signals, phrase, disk, listener>>

-----------------------------------------------------------------------------
(* The loop *)

\* persistInterruptedProgress
Interrupt ==
    /\ step = "read" /\ Interrupted
    /\ SaveAndExit(pos, 0, 1)
    /\ UNCHANGED <<signals, phrase, file, heard, lastStart>>

\* A file edited in place may end anywhere.
AtEOF == edited \/ pos = Size[registered]
ChunkEnds == IF edited THEN (pos + 1)..(pos + ChunkSize)
             ELSE {e \in (pos + 1)..(pos + ChunkSize) : e <= Size[registered]}

Read ==
    /\ step = "read" /\ ~Interrupted
    /\ \/ /\ end' \in ChunkEnds
          /\ text' = IF edited THEN "edited" ELSE "registered"
          /\ Goto("check")
          /\ UNCHANGED <<registered, edited, pos, canSave, saved, jumped>>
       \/ AtEOF /\ Goto("eof") /\ UNCHANGED <<app, saved, jumped>>
       \/ SaveAndExit(pos, 1, 1)   \* unreadable or not UTF-8
    /\ UNCHANGED <<signals, phrase, file, heard, lastStart>>

ChunkValid == end <= Size[registered] /\ ~edited

Check ==
    /\ step = "check"
    /\ \/ ChunkValid /\ Goto("speak") /\ UNCHANGED <<app, saved, jumped>>
       \/ SaveAndExit(pos, 1, 1)   \* modified, or Stat fails
    /\ UNCHANGED <<signals, phrase, file, heard, lastStart>>

MutantSpoken == end   \* mutant: the position moves before the chunk is spoken
Unspoken == pos

\* The speaker returns: the chunk is heard, or it fails or is cancelled in it.
Speak ==
    /\ step = "speak"
    /\ \/ /\ pos' = end
          /\ heard' = end /\ lastStart' = pos
          /\ Goto("save")
          /\ UNCHANGED <<registered, edited, canSave, end, text, saved, jumped>>
       \/ /\ SaveAndExit(Unspoken, IF Interrupted THEN 0 ELSE 1, 1)
          /\ UNCHANGED <<heard, lastStart>>
    /\ UNCHANGED <<signals, phrase, file>>

\* The save after each chunk; a reader that cannot save reads no further.
SaveChunk ==
    /\ step = "save"
    /\ \/ /\ Saved(pos) /\ Goto("read") /\ UNCHANGED app
       \/ /\ UNCHANGED <<saved, jumped>>
          /\ Exit(1)
    /\ UNCHANGED <<signals, phrase, file, heard, lastStart>>

MutantWhole == ~Interrupted   \* mutant: the file is not inspected again
Whole == ~Interrupted /\ file = registered

\* At the end of the file: the book is inspected again and progress reset.
Finish ==
    /\ step = "eof"
    /\ \/ /\ Whole
          /\ \/ Saved(0) /\ Exit(0) /\ heard' = 0 /\ lastStart' = 0
             \/ UNCHANGED <<saved, listener>> /\ Exit(1)
       \/ /\ SaveAndExit(pos, 1, 1)
          /\ UNCHANGED <<heard, lastStart>>
    /\ UNCHANGED <<signals, phrase, file>>

-----------------------------------------------------------------------------
(* Signals, panics, and the editor *)

\* interruptContextWithSignals: the first cancels, the second exits.
Signal ==
    /\ Running
    /\ \/ signals = 0 /\ UNCHANGED <<step, code, app>>
       \/ signals = 1 /\ Exit(130)
    /\ signals' = signals + 1
    /\ UNCHANGED <<phrase, disk, listener>>

MutantMaySave == TRUE   \* mutant: canSave is not looked at
MaySave == canSave

\* The recover of runWithOptions.
Panic ==
    /\ Running
    /\ IF MaySave THEN SaveAndExit(pos, 1, 1)
                  ELSE Exit(1) /\ UNCHANGED <<saved, jumped>>
    /\ UNCHANGED <<signals, phrase, file, heard, lastStart>>

HasFileOpen == step \in {"read", "check", "speak", "save", "eof"}

Edit ==
    /\ file < MaxEdits
    /\ file' = file + 1
    /\ edited' \in {edited, HasFileOpen}
    /\ UNCHANGED <<step, code, signals, phrase, registered, pos, canSave, end,
                   text, saved, listener>>

-----------------------------------------------------------------------------

AppStep == \/ Inspect \/ Load \/ FinishEmpty \/ Resolve \/ Open
           \/ Interrupt \/ Read \/ Check \/ Speak \/ SaveChunk \/ Finish

Next == Start \/ AppStep \/ Signal \/ Panic \/ Edit

Spec == Init /\ [][Next]_vars

-----------------------------------------------------------------------------
(* Properties *)

ProgressFiles == {NoFile} \cup [ver : Versions, pos : Nat]

\* Every variable has its type.
TypeOK ==
    /\ step \in {"ended", "inspect", "load", "resolve", "open", "read", "check",
                 "speak", "save", "eof"}
    /\ code \in {0, 1, 130} /\ signals \in 0..2 /\ phrase \in BOOLEAN
    /\ registered \in Versions /\ file \in Versions
    /\ edited \in BOOLEAN /\ canSave \in BOOLEAN
    /\ pos \in Nat /\ end \in Nat
    /\ text \in {"none", "registered", "edited"}
    /\ saved \in ProgressFiles
    /\ heard \in Nat /\ lastStart \in Nat /\ jumped \in BOOLEAN

Again(p, n) == IF p = n THEN 0 ELSE p

\* Whenever and however a run ends, the next one goes on with the first chunk
\* that was not heard, or repeats the last one, and skips nothing.
RepeatsAtMostOneChunk ==
    saved # NoFile /\ ~jumped =>
        LET n == Size[saved.ver] IN
        Resume(saved, n) \in {Again(heard, n), Again(lastStart, n)}

\* A book counts as finished only when it was heard to its end.
FinishedMeansWholeBook ==
    [][code' = 0 /\ step = "eof" /\ ~Running' => pos = Size[registered]]_vars

\* Progress is never overwritten by a run that has not found it to be of the
\* book it reads: not by a panic, not on an interrupt.
ForeignProgressIsKept ==
    [][saved' # saved /\ saved # NoFile =>
         canSave /\ saved'.ver = saved.ver]_vars
=============================================================================
