# Verification of tts-reader

TLA+ models of tts-reader, a Go program that reads plain-text books aloud: once as a command line
reader (`src/main.go`) and once as a local HTTP server with a dashboard and an event stream
(`src/server.go`, `src/http_api.go`, `src/internal/...`).  TLC checks the models on small instances and
TLAPS proves the safety properties for every instance.  `PROJECT.json` maps each definition to the lines
it stands for and lists the runs, the mutants that show each property can fail, the theorems, the hazards
and two findings.

Run a check or a proof in this directory with

    tlc -workers 2 -config PlaybackCommands.cfg MCPlaybackManager
    tlapm EventBrokerProofs.tla

## 1. The system

| component | source | state | operations |
|---|---|---|---|
| playback manager | `internal/playback/manager.go` | state, book, position, durable position, last error, active session, `shuttingDown`; per session: context, stop flags, result, `done` | Start, Pause, Resume, Stop, SetPosition, Snapshot, SubscribeEvents, BeginShutdown; the worker goroutine and `finalizeSession` |
| TTS adapter | `internal/tts/engine.go` | `stop` and `done` of the running Speak | Speak, Stop |
| server life cycle | `server.go` | listener, `serveCtx` | BeginShutdown, cancelServe, Shutdown, final Stop |
| command handlers | `http_api.go` | `shuttingDown` of the router | one manager call each |
| event broker | `internal/events/broker.go` | next number, the set of client channels | Publish, PublishPlayback, Subscribe, unsubscribe |
| SSE handler, dashboard stream | `http_api.go`, `dashboard.go` | one goroutine and one buffered channel per stream; the last event of an EventSource | open, receive, write, leave, reconnect |
| dashboard commands | `dashboard.go` | the panel as rendered last; requests under way | api, render, refreshState |
| book store | `internal/book/store.go` | registered books by path and identifier | AddContext, Get, List |
| book inspection | `internal/book/store.go` | slots, goroutines, file handles | InspectFileContext, OpenStableReadContext |
| chunk reader | `internal/chunk/reader.go` | buffer of runes, next byte | Next, FindPhraseOffset, IsFileUTF8Boundary |
| progress file | `internal/progress/store.go`, `file.go`, `replace_*.go` | one JSON file per book, perhaps one of an older version | Load with migration, Save, Reset |
| progress lease | `internal/progress/lease*.go` | a registry per process, a locked file per book | AcquireLease, Close |
| command line reader | `main.go` | position, `canSave`, the interrupt context | one run: lease, load, resolve, read, speak, save, finish; signals, panics |

How they interact.  An HTTP handler calls the manager with the request's context.  The manager
serialises commands with `controlMu`, a one-slot channel a context can give up waiting for, and protects
its fields with `mu`; file work is done outside `mu`, under the gate.  A Start leaves a worker goroutine
behind that owns the progress lease, reads the book in chunks, gives each to its session's engine, saves,
and at last finalises the session under `mu`.  Each change is published to the broker while `mu` is held,
and the broker's own mutex is taken inside it.  Handlers of the event stream receive from their channels
and write to dashboards, which also render the responses of their own commands.  On a signal `runServe` closes
the router and the manager, cancels the streams, drains the handlers and stops the session.  Files and
leases are shared with other processes of the program; the user's editor may change a book at any moment.

What is hard here: a Stop that is not serialised with a Start once shutdown began; contexts that end
while somebody else finishes the work; a worker asleep on a condition variable; a Stop of the engine that
comes between two Speaks; results looked at before file I/O and used after it; responses overtaken by
events; clients too slow for their channel; kernel calls that outlive their callers; crashes between a write, a
rename and an update in memory; cuts of the text at the boundary of a rune, a chunk or the book.
`PROJECT.json` lists 40 such hazards by line, each with the properties that would catch it going wrong.

## 2. The modules

| module | what it is |
|---|---|
| `PlaybackManager` | the manager, its callers, workers, files and the editor |
| `PlaybackLifecycle` | what the manager promises to a client that follows its events |
| `PlaybackProperties` | the properties of the manager, its inductive invariants, the refinement mapping |
| `PlaybackEngine` | the manager composed with the steps of `functionEngine`; implements `PlaybackManager` |
| `Server` | the manager composed with `runServe`, the handlers and the streams that may hold up its end |
| `EventBroker` | broker, stream handlers and browsers, composed with `PlaybackLifecycle` as the publisher |
| `Dashboard` | `EventBroker` with the commands of the browsers and the panels they render |
| `InspectionPool` | `inspectOwnedFileContext` and who owns the file handle |
| `BookStore` | `InspectionPool` with AddContext, the index of the books and edits of the files |
| `ChunkReader` | the streaming reader over texts of runes |
| `ProgressFile` | Load, migration, Save, crashes and older versions of the program |
| `Lease` | what a lease promises those who use it |
| `ProgressLease` | the registry and the operating system's lock, which implement `Lease` |
| `CliReader` | successive runs of the command line reader |
| `MC...` | the constants of the TLC instances |
| `PlaybackSafetyProofs`, `PlaybackRefinementProofs` | the theorems about the manager; the last one also those of `PlaybackEngine` and `Server` |
| `EventBrokerProofs`, `InspectionPoolProofs` | the theorems about the broker and `Dashboard`, the pool and `BookStore` |
| `ProgressFileProofs`, `ProgressLeaseProofs`, `CliReaderProofs`, `ChunkReaderProofs` | the theorems about these modules |

The layers: `PlaybackEngine` implements `PlaybackManager`, which implements `PlaybackLifecycle`, which is the
publisher of `EventBroker`; every behaviour of `Server` is one of `PlaybackManager`, every behaviour of
`Dashboard` one of `EventBroker`, every behaviour of `BookStore` one of `InspectionPool`.  So the properties of
the lower module hold in the upper one.  `ProgressLease` implements `Lease`, which `ProgressFile` and
`PlaybackManager` use: they take a lease in one step, and the proofs show that no more is asked of it.

Definitions that start with `Mutant` (and `MutedBroadcast`) are wrong versions of the definition they
precede.  No specification uses them; substituting one must make the property it is listed with fail.

### The playback manager

`gate` is `controlMu`, and every critical section of `mu` is one action: `CheckIdle`, `CommitStart`,
`CommitPosition`, `Pause`, `Resume`, `StopMark`, `BeginShutdown` for the commands; `WaitUntilPlayable`,
`AdmitChunk`, `MarkDurablePosition`, `UpdateProgress`, `Finalize` for the worker.  Work outside `mu` is an
action of its own (`Inspect`, `CheckBoundary`, `AcquireLease`, `Load`, `SavePosition`, `StopCancel`,
`StopEngine`, `StopWait`; `Open`, `Read`, `CheckChunk`, `BeginSpeak`, `EndSpeak`, `SaveProgress`, `ValidateAtEOF`), so
that anything may come in between.  `step[c]` is the program counter of a call, `pc[s]` that of the worker of
session `s`; a worker in `cond.Wait` is in `sleeping` until `Broadcast`.  A session is its number, and its
flags are sets of numbers.  Choices made for size:

- A call is used again when it has returned, so that a run of commands of any length is covered.
- The deferred closing of the lease and of the gate is `Cleanup` and `Return`.
- `finalizeSession` saves and closes the lease while it holds `mu`; each may fail, and both are in the one
  action `Finalize`.
- A book has versions.  All have the same size, the case that a check of the size alone would miss, and each
  has rune boundaries of its own (`Boundaries[b][v]`).  An edit in place is seen through an open file
  (`edited`), one by renaming is not.
- SetPosition opens the path twice, and each open is an action: `Inspect` is InspectFileContext with SameFile,
  `CheckBoundary` is `IsFileUTF8Boundary`, which looks into whatever is at the path by then.  An edit between
  them leaves a position inside a rune saved under the identity of the version inspected.  That version is no
  longer at the path, so every later Start or Open refuses it and the position is never spoken: this is what
  `PositionsOnRunes` and `SpokenIsRegistered` state.
- `Load` answers what the progress file and the byte at its position justify, and may also fail or be
  cancelled.  Its own look at the byte is in the same step, as the position cannot change under the lease.
- Validation of a request's fields, and snapshot fields that no property tells apart (titles, session
  identifiers as strings), are left out.

`PlaybackLifecycle` is the abstract specification: sessions follow one another, each has one terminal event,
chunks are announced only while playing, a session that is stopping does not finish, none begins after the
shutdown.  `ImplementsLifecycle` maps `shuttingDown`, `nextID` and the type of the last event to it.

### The speech engine

`PlaybackEngine` keeps every action of the manager and opens up three: `BeginSpeak`, `EndSpeak` and
`StopEngine`.  A Speak is `Register` (its critical section), `StartSpeaker`, `EndSpeaker`, `Clear` (the critical
section of the deferred function) and `SpeakReturns` (which closes `done`); a Stop is `LookUp`, `Halt` and
`AwaitDone`.  `turn[s]` numbers the Speaks of a session; the number stands for the pair of `stop` and `done`
that a Speak registers, so that a Stop may hold the pair of a Speak that is over (`held`).  Each session has an
engine of its own, as `NewFunctionEngine` is called by each Start.  That a process ends when its context does is
what is assumed of the speaker.

### The server

`main` is the place in `runServe`, with one action for each statement that others can see: `CloseAPI` and
`CloseManager` are the halves of `api.BeginShutdown`, then `CancelServe`, `CloseListener` and `ShutdownReturns`
of `server.Shutdown`, `CallStop` and `Stopping` for the final Stop, `Exit`.  The final Stop is the call `Main` of
the manager, a request is any other call: `Arrive`, `Route` (the middleware's look at `shuttingDown`),
`Handle`, and `Manage` for every step of the manager in it.  A client may arrive, and a handler be anywhere,
when the signal comes.  `stream[w]` is the handler of an event stream: in its select or in a write, which a client
that does not read blocks (`Block`, `Unblock`).  `Prompt` says whether five seconds are enough for every handler
that is not blocked; FALSE is the harder case, and TRUE isolates what a blocked write does.

### The event stream and the dashboard

`EventBroker` takes the actions of `PlaybackLifecycle` as the publisher: the manager implements it, and
publishes under `mu`.  `Open` is SubscribeEvents, where the registration and the numbered snapshot are one
critical section.  `Announce` publishes: an event that finds a channel full is dropped when it is best effort
(`Lossy`) and closes the channel otherwise.  A handler is `select`, `write` or `leave`; `Unsubscribe` is the
deferred function.  A browser reconnects by itself (EventSource), and one that does not read blocks the
handler in its write, because the server sets no WriteTimeout.  The buffers of the network are merged with
that write; heartbeats change nothing and are left out; `cancelServe` and the closing of the listener are
one step.  Names of streams are used again when their handler has ended.

`Dashboard` adds the requests of a browser: `Click` sends one, `CommandDone` is the critical section in which the
manager announces what the command did and takes the snapshot of its response, `SnapshotTaken` a snapshot by
itself, `RenderResponse` what the panel shows when the response arrives, `RenderEvent` what it shows on an
event.  A response and the events travel on different connections and arrive in any order.

### Books and chunks

In `InspectionPool` a call and the goroutine it starts have one name.  `holders` is the set of parties with a
reference to the file, `slots` the tokens in the channel `inspectionSlots`.  `OpenFile` and `InspectFile` are the
steps in which the kernel may block; they have no fairness unless a property assumes it.  The answer of the
goroutine is a rendezvous (`Receive`) because the channel is not buffered; `Abandon` is the other branch of its
select.

`BookStore` is AddContext from the inspection to the critical section that stores its result (`Store`), with other
calls inspecting and playing on the same slots and an editor at work.  `opened` and `seen` are the versions the
goroutine has opened and identified; `started` is the version when the call began.  A path is its key: how
it is made canonical is left out.

`ChunkReader` is `Next` of the streaming reader with its cut, and the two ways a reader gets its start:
`FindPhraseOffset` and a saved position that `IsFileUTF8Boundary` accepts.  A text is a sequence of kinds of
runes: a letter, a letter of two bytes, a space, the end of a sentence, a byte that is not UTF-8.  The property
that chunks follow one another, are not empty, keep within the limit and end on runes is what `ChunkEnds` of
the two readers assumes.

### Progress files and leases

`ProgressFile` has files with the record they hold: none, torn (not parseable), of another format, or a
position in a book.  `WriteTemp` and `Replace` are the halves of `WriteFileReplace`, in which a failure leaves
the file as it was.  The old name of a book may also be that of another book, and an older program may run
beside this one.  The format is validated before the identity, as in `ValidateForBook`; a position at the end
of the book counts as 0 when it is used, which is modelled in `PlaybackManager` and `CliReader`.

`ProgressLease` has the registry check and insertion as one step, the lock as another, and Close in the order
of the code: the lock first, then the registry.  A closed lease may be closed again (`CloseAgain`), as the
finalizer and a deferred call both do.  `lease_unsupported.go` excludes nothing between processes, and is not
modelled.  `Lease` is the contract: a lease is taken by one holder when nobody has it, given back by that holder, or
ended with its process; a refusal is no step.  `Holders` says in each module who holds what.

### The command line reader

`CliReader` is one run after another.  `step` is the place in `runWithOptions`; an exit may come with a save
that fails.  `Signal` is the first Ctrl+C, which cancels the context, or the second, which ends the process
at once; `Panic` is the recover with its `canSave` test.  The variables `heard`, `lastStart` and `jumped`
record what the listener experienced and influence nothing.

## 3. What TLC checks

| run | distinct states | bounds |
|---|---|---|
| `commands` | 1.9 million | 2 calls (symmetric), 2 sessions, a book of one chunk |
| `files` | 7.0 million | 1 call, SetPosition too, 1 session, 3 bytes, 1 edit, which moves the two-byte rune, another process |
| `engine` | 0.2 million | 2 calls, 1 session, a book of two chunks, with fairness |
| `serve` | 0.9 million | 1 request and the final Stop, 1 stream, 1 session, with fairness |
| `serve_stalled` | violation | the same with `Prompt` |
| `event_stream` | 0.4 million | 1 attentive browser, 2 streams, channels of 1, 3 events, 1 request, with fairness |
| `book_store` | 72 thousand | 2 calls, 1 slot, 1 path, 1 edit, with fairness |
| `progress_file` | 0.7 million | 2 processes and an older one, 3 books, 2 of which share an old name |
| `progress_foreign` | violation | the same without the older program |
| `progress_lease` | 8 thousand | 2 processes of 2 threads, 2 paths |
| `cli_reader` | 39 thousand | a book of 4 bytes, chunks of 2, 2 edits, one of which empties it |
| `chunk_reader` | 41 thousand | texts of up to 4 runes of 5 kinds, chunks of 1, 3 and 4, 2 phrases, with fairness |

- **commands** shows `SingleOwner` (one worker at a time, and it belongs to the active session),
  `LeaseFollowsSession`, `NobodyWaitsInVain` (who holds the gate does not wait for it, a worker sleeps only
  while it must, and who waits for a session that is told to stop waits for somebody who goes on),
  `StopAnswersTruly`, `AnnouncedIsCurrent` (the last event shows the manager as it is) and
  `ImplementsLifecycle`.  Two calls are enough for a Stop beside a Start after the
  shutdown, two Stops of one session, and a Pause and a Resume around the worker's looks; a second session is
  what a late step of the first could damage.
- **files** shows that only the registered text is spoken, that only a whole book finishes, that
  positions of the version at the path are on its rune boundaries although SetPosition judges them by a
  second open, that a crash resumes where the last chunk ended, and that the durable position does not move
  back.  Three bytes allow a first and a last chunk and a position inside a rune; as the two-byte rune is in
  another place after the edit, a boundary of either version may be none of the other.
- **engine** shows that after a Stop without an error the engine is silent (`SilentAfterStop`), that a Stop is
  completed, that every call returns, and that the composition is the manager (`ImplementsManager`).  Two
  chunks give two Speaks, so that a Stop may hold the pair of the first while the second runs.
- **serve** shows that the final Stop is the last word although a Start admitted before the signal may still be
  at its file work (`StopIsFinal`), that a handler that is stuck costs the session neither its Stop
  (`NoSessionForgotten`) nor the exit code its meaning (`ExitZeroIsClean`), and that a signal ends the process
  whether or not requests, streams and workers return (`SignalEndsProcess`).
- **event_stream** shows that no channel is closed twice (`NoPanic`), that a registered client is never left
  with an old state (`RegisteredIsCurrent`), that a browser receives rising numbers only (`NumbersRise`), that
  a panel falls behind only by a response that was overtaken (`BehindOnlyIfOvertaken`), that it shows the
  manager's state once that rests unless this happened (`PanelsConverge`), and that a handler whose client is
  gone, whose channel was closed or whose server has cancelled `serveCtx` ends, while the server serves and
  after (`HandlersEnd`).  Three numbers fill a channel of one and close it, and leave one to reconnect with; two
  streams let a browser be connected anew before its old handler has unsubscribed.
- **book_store** shows that an open file has one holder who is there to close it (`OneHolder`), that
  concurrent calls give a path one id (`OneIdPerPath`), that what AddContext stores was in the file during the
  call (`AddRefreshes`), that a cancelled call returns though the kernel never answers (`CancelledReturns`),
  and that all return when it does (`EveryoneReturns`).
- **progress_file** shows that the new file of a book is whole and its own at any crash
  (`NeverTornNorForeign`), and that only a save moves the position a reader would resume from
  (`OnlySavesMove`).
- **progress_lease** shows that registries and locks together are the lease of `Lease` (`ImplementsLease`: one
  holder at a time, whose lease nobody else can end), and that a failure, a Close or a crash leaves neither a lock nor an entry
  in a registry behind.
- **cli_reader** shows that a run resumes with the first chunk not heard or repeats the last
  (`RepeatsAtMostOneChunk`), that only a book heard to its end is finished, and that a panic or an
  interrupt does not overwrite another book's progress.
- **chunk_reader** shows that what was returned and what is pending is the text, rune for rune
  (`NothingSkippedOrRepeated`), that chunks end with a sentence or a word where they can and are neither short
  nor long (`ChunksEndWell`), and that a valid text is read to its end from every accepted position, beginning
  with the phrase asked for (`ReadsToTheEnd`).  With four runes a chunk of three has a second half in which a
  cut is possible and leaves a rune for the next, a chunk of four allows both kinds of cut, and one is the
  limit at which there is nothing to cut.

Bounds are named in the modules: `MaxSessions` and `MaxEdits` (PlaybackManager), `MaxSeq` (EventBroker),
`MaxEdits` (CliReader, BookStore), `MaxRunes` (ChunkReader).  Deadlock is checked except in the runs of the
event stream, where the server really ends, and of the chunk reader, which is not used again after its end.

**Finding 1** (`progress_foreign`).  `docs/architecture.md:134` says that foreign legacy progress does not
prevent a new book from being started.  `ReadForBook` takes the lease of the legacy file before it knows whose
progress is in it (`store.go:106`): a Start of one book is refused with ErrInUse while another process,
which starts another book of the same legacy name, has that lease for the moment of its own look.

**Finding 2** (`serve_stalled`).  `docs/architecture.md:106` says that `cancelServe()` makes open event streams
leave, so that they do not hang the shutdown.  `handleEvents` looks at its context between writes only, and the
server sets no WriteTimeout: a client that stays connected and does not read keeps its handler in a write,
`server.Shutdown` (`server.go:109`) runs into its five seconds, and the process exits with 1.  `Prompt` is TRUE in
this run, so that nothing but the blocked write is to blame.

A remark that is not a finding, as nothing in the repository promises otherwise: a panel that rendered a
response older than an event it had rendered before shows the old state until the next event
(`dashboard.go:168`).  `BehindOnlyIfOvertaken` says exactly when, and `PanelsConverge` excepts it.

### Fairness

- Manager and engine (`FairEngineSpec`): weak fairness of each call's and each worker's steps is the Go
  scheduler; it includes the end of the speaker, which its timeout brings.  Strong fairness of `Acquire` is the
  order in which a channel serves blocked senders.
- Server (`FairServerSpec`): `runServe` is scheduled, and the timeouts of `server.Shutdown` and of the final Stop
  come.  Nothing is assumed of handlers, workers or streams: `SignalEndsProcess` holds while all of them hang, as long as
  nobody hangs while it holds `mu` (section 5).
- Event stream (`FairDashSpec`): the steps of a handler are weakly fair, and `Leave` strongly: a select picks
  among ready cases at random, so a context that stays done is chosen in the end although events arrive.  Only
  browsers in `Attentive` read and reconnect; `HandlersEnd` excepts the handlers that a client holds which is
  connected and does not read, which is Finding 2.  Requests and responses have no fairness.
- Book store (`FairStoreSpec`): calls and goroutines are fair and the kernel is not; `EveryoneReturns` states
  the fairness of the kernel as its hypothesis (`Answering`), with the order of blocked senders as the strong
  fairness of `AcquireSlot`.  Who waits for the lock of the store gets it.
- Chunk reader (`FairSpec`): the caller goes on calling `Next`.

## 4. What is proved

TLAPS proves the following for all values of the constants that satisfy the named assumptions of the modules
(`BookAssumption`, `CommandAssumption`, `BoundAssumption`, `NameAssumption`, `MainAssumption`;
`StreamAssumption`; `PoolAssumption`, `StoreAssumption`; `PathAssumption`; `LeaseAssumption`;
`ReaderAssumption`; `ChunkAssumption`).  They say that names differ, sizes are numbers, runes have bytes, and
offsets lie within books.

**Playback manager, sessions.**  (PlaybackSafetyProofs.)  `TypeCorrect` proves `TypeOK`, together with what a
call and a worker carry at each of their steps.  `Safety` proves `IndInv`.  The properties
are not inductive by themselves.  `SingleOwner` needs to know that a Start that commits holds the gate and has
found the manager idle (`GateOfCommands`, `CommandHasIdleManager`), or looks again under `mu` (`Refusal`), which
is what protects it from the Stop that skips the gate.  `StopAnswersTruly` needs the order in which a Stop raises
its flags (`StopFlags`) and that `done` sessions are dead (`SessionsInOrder`).  `LeaseFollowsSession` needs to
know where the leases that calls hold may be (`LeasesOfCommands`).  `NoLostWakeup` needs that a cancelled
session is stopping, and that every change of what `MustSleep` reads comes with `Broadcast`.  From `IndInv`
follow `OneSession`, `LeaseDiscipline` (with it that a command never meets a lease of its own process),
`WakeupsReach`, `StopsAreTrue` (with it that a Stop keeps its session until engine.Stop has returned) and
`AnnouncementsAreTrue`.

**Playback manager, positions.**  (PlaybackSafetyProofs.)  `PositionSafety` proves `PositionInv` on top of
`IndInv`.  It says three things.  A Start or a SetPosition past its lease has a position of its book that nobody
can move in the progress file, because it holds the lease (`CallOnRunes`).  A worker that has opened its book stands on
a rune of it, and what it holds is a chunk of the registered version or will be found edited before it is
spoken (`WorkerOnRunes`).  The manager follows the worker of its session: durable position, shown position and progress
file are where the worker stands, but for the one step between the save and `markDurablePosition`
(`SessionOnRunes`).  Where SetPosition may have looked into a later version, the position is on a rune of its
own version or that version is gone (`OnRune`); versions only rise, so an open that finds the version
registered finds the position on its runes (`LookedUp`, `RunesStay`).
`PositionsAreOnRunes`, `SpokenText`, `WholeBook`, `CrashSafety` and `DurableRises` follow.

**Playback manager, who waits for whom** (PlaybackSafetyProofs).  `NoWaitCycle` proves `NobodyWaitsInVain`, the part
of `StopCompletes` and `CallsReturn` that needs no fairness: whoever holds the gate is past the wait for it; a worker
asleep must sleep; and a session that was told to stop is over, or its worker goes on, or some Stop of it has yet to
leave engine.Stop and goes on.  Nobody in this chain waits for another who waits for him.  `WaitInv` is its inductive
form: a call leaves the gate before it ends (`GateIsLeft`), who waits for a session waits for one that a Stop has
marked (`WaitersFollowStop`), a mark that is not cleared has the Stop that will clear it (`StopsAreDriven`), and
a worker ends only by closing `done` (`WorkersTellTheirEnd`).

**Refinements** (PlaybackRefinementProofs).  `Refinement`: the manager implements `PlaybackLifecycle`; each action
that publishes is a step of it, and every other one leaves what it shows alone.  `ShutdownIsFinal`: no session
begins once the shutdown has begun and none is active.  `EngineRefinesManager` and `EngineSilent`: the
composition with the engine is the manager, and `SilentAfterStop` holds, from `EngineInv`: a call in engine.Stop has
a session that is cancelled for good, and a Speak under way is the one whose pair the engine has.
`ServerDrivesManager`: every behaviour of the server is one of the manager, so that `IndInv` may be used of it.
`StopsAreFinal`, `SessionsNotForgotten` and `CleanExit` follow from `ServerInv`: the final Stop never waits for
the gate, because the flag that lets it skip the gate is up before it starts; past its first critical section the
only session there can be is its own, which is marked; and handlers that are gone have no call that could hold
a lease.  `ManagerUsesLeases` and `SavedUnderLease` are under Leases below.

**Event stream and dashboard** (EventBrokerProofs).  `BrokerInv` says that a stream is registered or shut, never
both, and neither once its handler is gone; and that for each browser the number shown, the number being
written and the numbers queued rise in this order up to the last one given.  `BrokerNeverPanics`,
`ClientsAreCurrent`, `DeliveriesRise` and `StreamTypeCorrect` follow.  `ClientsAreCurrent` rests on the lemma
`LossyKeepsState`: the events that may be dropped are exactly ones that change no state.  `DashboardStreams`
carries them over to `Dashboard`; `PanelsFallBehindOnlyIfOvertaken` adds that a response shows at least the
event that was shown when it was asked for.  `QuietPanels` is the part of `PanelsConverge` that needs no fairness:
once a registered client has written all that is queued for it, its browser shows the state of the manager
(`QuietPanelsAreCurrent`), and so does the panel unless an older response was rendered last.  Its invariant is that
every event and snapshot on its way, wherever it is, shows the state as it is or is older than what each
registered client has yet to receive (`CurrentIfNew`); it is kept because the newest event of a client changes only
to the one published now, and does so whenever the state changes (`NewestMoves`).

**Books** (InspectionPoolProofs).  `PoolInv` adds to the properties what each stage of the goroutine
implies about the file (`NothingHeld`, `Kept`).  `HandlesAreOwned`, `WorkIsBounded` and `PoolTypeCorrect`
follow for any finite number of calls and slots; `StoreUsesPool` carries them over to `BookStore`.
`PathsHaveOneId` and `AddsAreFresh` follow from `StoreInv`: the index and the entries are inverse to each
other, and what a call has seen was in the file since it began.

**Progress files** (ProgressFileProofs).  `FileInv` ties the files to the leases: a process holds the lease of its
book and, during a migration, of the old file (`ReadersHoldLeases`), so that what it has read is still there
when it replaces the new file, which is still missing (`ReplacementsAreWhole`).  `FilesNeverTorn` and
`MigrationMovesNobody` follow, for any processes, books and collisions of old names.

**Leases.**  With `OneOwner`, that a path belongs to one thread of a process, the properties of `ProgressLease` are
inductive; `LeaseExclusion`, `NothingStaysLocked` and `RegistryIsExact` follow (ProgressLeaseProofs).
`LeaseRefinement`: the module implements `Lease`.  The same contract is all that its users rely on:
`FilesUseLeases` (ProgressFileProofs) and `ManagerUsesLeases` (PlaybackRefinementProofs) map the `lock` of
`ProgressFile` and the `lease` of `PlaybackManager` to it, the latter with the manager as one holder beside other
processes, whose hand-over from a call to its session is no step of the contract.  In return every write is
covered by the lease of its file: `FilesWrittenUnderLease` and `SavedUnderLease`, which need to know where the process
or the call is when it writes (`ReadersHoldLeases`, `CallOnRunes`).

**Command line reader** (CliReaderProofs).  `ReaderInv` says that a run may save exactly when it has found the
file to be its own or missing (`SavesItsOwn`), that an open file that was edited is not the one at the path any
more (`EditsShow`), and that a run stands where the last chunk that was heard ended, or began when its end could
not be saved (`StandsWhereHeard`).  `NothingSkipped`, `FinishedIsWhole` and `ForeignProgressKept` follow.

**Chunk reader** (ChunkReaderProofs).  `ReaderInv` says how far the reader has come: there are `from`, `said` and
`read` such that the runes spoken are those between `from` and `said` and the pending ones those between `said` and
`read`, with the byte offsets that belong to them (`Stands`).  `TextIsReadOnce` and `CutsAreGood` follow for texts,
limits and phrases of any length; `ValidTextsNeverFail` says that only bytes that are not UTF-8 make a reader fail, and
`PhraseComesFirst` that a reader which was given a phrase has spoken it first.  `ReaderOfTheManager` ties the module
to the two others that read: each chunk ends on a rune boundary after its start and is not empty, and the end is
reported at the size of the text, which is what `ChunkEnds` of `PlaybackManager` and `CliReader` assumes.  The offset
of a rune is a recursive function on 0 .. the length of the text; what would be an induction with an operator as
parameter is done over sets of naturals (`LeastNat`, `SetInduction`), which first-order provers can instantiate.

Only model-checked: liveness under fairness, which the prover cannot treat (`StopCompletes`, `CallsReturn`,
`SignalEndsProcess`, `PanelsConverge`, `HandlersEnd`, `CancelledReturns`, `EveryoneReturns`, `ReadsToTheEnd`).

## 5. What is not modelled

- The process that speaks (PowerShell on Windows), of which `PlaybackEngine` assumes that it ends when its
  context does; release and CI scripts; generated types.
- Formatting and wording of responses, authorisation, JSON decoding and the mapping of errors to status codes in
  the HTTP handlers, which keep no state.  `Get` and `List` of the book store only read under its lock.
- `PreviewTextFromFile`, whose text is only printed; `splitTextSmart`, which only tests call.
- A disk that hangs inside `finalizeSession`, which saves while it holds `mu`: every later command, the final Stop
  included, would wait for `mu` without looking at its context.  File operations under `mu` are taken to return.
- A page reload, which begins a new dashboard, and requests ended by `cancelServe` (their contexts end at any
  moment in the model, so this adds nothing).
- An edit in place that changes neither size nor modification time.  `ChunkValid` takes it that an edit seen
  through the open file changes one of them, which is all that `SameFileMetadata` compares between chunks;
  `progress/store_test.go:38` makes one that keeps both, which only the fingerprint of the next inspection
  finds.  On Windows, the platform that speaks, the open handle denies writers.
- An edit that restores an earlier version of a book.  The models number versions upwards; with a version that
  comes back, SetPosition could show a position that it judged by the one in between (`CheckBoundary`), until
  a Start looks at the byte again (`Load`).
- `lease_unsupported.go`, which excludes nothing between processes, and the way paths are made canonical.

What could still be added: `Server` over `PlaybackEngine` in place of the manager in one TLC run, which the two
theorems of refinement make redundant for safety; a third caller in `commands`, for which `IndInv` is proved;
and longer texts in `chunk_reader`, to which its theorems apply.
