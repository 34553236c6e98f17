# A verification project for CosmoSoft

CosmoSoft is a Qt ground station for rocket flights. It receives telemetry over
a serial port (or from a recorded AltOS file), shows and records it, saves and
reloads flights, replays them on charts and maps, and can be given other skins.
The modules here model its control: which thread does what when, what a full
queue gives up, what a stop waits for, what becomes of a recording nobody has
saved, what a crash leaves on the disk, what a view shows after callbacks in any
order; and its pure algorithms: what a file means and what a chart may leave out. Paths below are relative to
`src/`, the repository.

Run `tlc -config X.cfg M` to check a model and `tlapm M_proofs.tla` to check
proofs. `PROJECT.json` lists the runs, the lines each definition stands for, the
hazards, the findings and a mutation that breaks each property.

## 1. The system

### 1.1 Live serial input

```
 kernel fd --read()-- SerialCommsPosix
                          |
                     SerialWorker           reader thread
                          | onData: enqueueChunk
              LineTelemetryDecodeWorker     decode thread, bounded chunk queue
                          | onBatch: push
              LineTelemetryBatchMailbox     bounded batch queue, generations
                          | one posted drain at a time
                MainWindow (GUI thread)     recording, diagnostics, pages
```

| component | state | operations | hard about it |
|---|---|---|---|
| `SerialCommsPosix` | descriptor, its generation, under a mutex | `open`, `close`, `read` | `read` polls without the mutex; the number may be closed and reused by anybody meanwhile |
| `SerialWorker` | the thread, its stop token, `m_running`, `m_lifecycleMutex` | `start`, `stop`, `run` | callbacks may call `stop`; `start` and `stop` join |
| `LineTelemetryDecodeWorker` | chunk queue with byte count, gap marks, counters, accepting flag, decoder | `start`, `stop`, `enqueueChunk`, `run`, `deliver` | eviction under overload, timed flush, callbacks that throw or stop, final drain |
| `LineTelemetryDecoder` | the open line, discarding flag, row and error counters | `ingest`, `notifyDataGap`, `finish`, `reset` | line limits and gaps at any chunk boundary |
| `LineTelemetryBatchMailbox` | batches, active generation, drain flag, discarded count, preserved counters | `push`, `take` | coalesced drains, eviction that must keep counters, stale generations |
| `MainWindow`, live input | generation, the two workers, the GUI's event queue | `startSerial`, `stopSerial`, `drainLiveTelemetryBatches`, `prepareLiveSession` | stale posted events, order of joins, each start failure |

Right means: bytes come from the connection they claim to come from; rows are
never spliced across lost bytes; every byte, sample and counter is recorded or
reported lost; the GUI is not flooded and no batch waits without a drain; stops
return, and lose nothing that is not counted; a failed thread disconnects the input.

### 1.2 The recording and its protection

`MainWindow` holds a `RecordingRevision` (session, revision, saved revision).
Replacing, clearing or leaving a recording that is unsaved, being saved or still
growing asks Save/Discard/Cancel (`requestSessionChange`). Save stops and drains
acquisition, writes CSV and metadata in a background task (`exportSession`) and
then performs what was asked, if nothing changed meanwhile. Imports run in the
background (`loadFlightLogAsync`) under a generation. Closing posts a second
`close()`. All handlers run on the GUI thread, but dialogs run nested event
loops, so samples, timers and completions are served inside a handler that has
already looked at the state. Right means: no unsaved data goes without its
user's Discard; nothing counts as saved that is not on disk; what belongs to one
recording never turns up in another.

### 1.3 Recorded input

```
 file --read()-- RecordedComms -- AltosFramer -- SerialFramerWorker   reader thread
                                                     | put
                                         FrameQueue (BlockingQueue)   drops the oldest
                                                     | get
                                                ParserWorker          parser thread
                                                     | batches of one sample
                                  TelemetrySession's owner (MainWindow)
```

`TelemetrySession` plays a file of AltOS packets as live input. The reader takes
packets out of it, the parser decodes them and keeps the time line across the wrap
of the 16-bit packet clock. When its loop ends, for whatever reason, the reader
runs `finish()`: it stops and joins the parser, hands over the totals, tells the
diagnostics, clears `active` and calls `completed()`. `stop()` cancels and joins
the reader first and the parser after it, and `start()` begins with `stop()`. Right
means: every character, packet and refusal is reported once; time is true; nobody
is called after `stop()`; nothing of one session turns up in the next; every call
returns and every recording ends.

### 1.4 Files of a recording

```
 MainWindow::exportSession --task--> FlightLogManager  CSV, written atomically
                                     FlightMetadata    annotations beside it, with the CSV's digest
 MainWindow::loadFlightLogAsync --task--> SampleFileLoader (CSV, XLSX, TELEM), loadMetadata
 live samples --> RecoveryState --> settings            last fix, at most once a second
```

A save is two files. Each is replaced atomically, the pair is not: the digest in
the metadata says which telemetry it belongs to, and a reader that finds another
digest shows the telemetry alone. `RecoveryState` survives the program: at the next
start the record is there, marked as of an earlier session. The loaders poll for
cancellation and replace the session only when they are through. Right means: a
failure or crash between any two steps never shows annotations with foreign
telemetry; what was announced as saved is found again; a loaded session is all of
the file or none of it.

### 1.5 Replay

`FlightReplayController` is a clock: position, speed, an anchor of real time and a
33 ms timer, and signals for whoever shows it. `ReplayBar`, the dashboard's chart
and the telemetry strip follow it, each at its own pace: the chart is redrawn only
when the position enters another group of samples or the render timer fires, the
strip 50 ms late while it plays, and what is hidden not at all. One thread; the
interleavings are those of its event loop. Right means: time is neither lost nor
gained by late ticks and changes of speed, nothing shows the future or stays stale,
and playback ends.

`FlightPreviewCache`, `ChartOverview` and `GpsTrajectory` are computed once for a
recording and say which samples a chart draws, which sample a click means, and
where a map places the samples between two changes of the reported coordinate.

### 1.6 The live map

`Map3DWidget` keeps a bounded history of live samples and sends them through a
bridge to a page of a web view, only what is new if it can. It thins the history,
counts it anew when indices run out, stops while hidden, and reloads the page on
Retry under a watchdog; `loadFinished`, the page's ready call and the watchdog come
in any order. Right means: the page draws the widget's flight although it was sent
in pieces; what was placed between two measured coordinates stays there; what waits
is published; a load ends in a map or an offer to try again.

### 1.7 Skins

`SkinLoader` takes a skin out of a ZIP archive (`SkinArchive`), checks its palette
and images, and renames it into place, moving an old one aside first. Imports are
background jobs under `skinImportMutex`; the disk changes under `skinCatalogMutex`,
which readers take. `ThemeManager` has the active skin and its textures and
persists its name; `SettingsPage` lists, imports, asks before it replaces. Right
means: an archive yields the files in it or nothing; an accepted skin is legible;
an import is complete or absent and loses nothing on the way; a reader sees each
skin whole.

### 1.8 Other components

`EventLogPage` (a bounded list of messages), `SerialCommsWindows` (the contract of
the POSIX port over overlapped I/O), the port scanners, `PreflightChecklist` and the
remaining widgets keep little state of their own and are not modelled (see 7).

## 2. The modules

| module | models | state and how it corresponds |
|---|---|---|
| `BatchMailbox` | `LineTelemetryBatchMailbox` | `batches`, `activeGeneration`, `drainScheduled`, `discarded`, `preserved` are the members; `Push`, `Take` are the two methods, each one critical section |
| `LiveInput` (extends `BatchMailbox`) | the whole path from the reader's chunk to the recording, as MainWindow wires it | the reader and worker threads by their place; `held` is the chunk the reader is about to hand over, `inbox` is `m_chunks` with its chunk and byte bounds, so that the queue refuses and evicts as `enqueueChunk` does; `pending` is the batch being filled, `unreported` what was counted since the last delivery; `events` is the GUI's queue, `gui` the step of `stopSerial`/`startSerial` the GUI thread is in. Whether a chunk completes a row is left open. A blocking join is a step of its own: both threads run while the GUI waits. `decoded`, `sampled`, `dropped`, `accepted`, `overwritten` and the like are history variables, which no step reads |
| `SampleChannel` | nothing in the code: what the live path promises of one recording | waiting, kept and sacrificed samples. `LiveInput` implements it under the mapping waiting = samples in the mailbox, kept = `recorded`, sacrificed = `overwritten` |
| `LineDecoder` | `LineTelemetryDecoder`, as operators on a record | bytes carry their place in the stream and whether they end a line or spoil a row; a sample is the sequence of places its row was built from, so a splice is visible |
| `DecodeWorker` (extends `LineDecoder`) | `LineTelemetryDecodeWorker` with the real decoder inside | one step per section under `m_queueMutex`; `pc` is the place in `run()` |
| `MCDecodeWorker` | small streams for TLC | |
| `PacketFramer` | `AltosFramer::read_frame`, one character at a time, as an operator on `m_pending` | letters, digits and payload size are constants; what the framer does not look at is any other character |
| `RecordedSession` (extends `PacketFramer`) | `TelemetrySession` with both threads, the queue, the recording and the packet clock | `reader` and `parser` are the places of the threads, `owner` and `call` that of the thread in `start()` or `stop()`; a join is a step of its own; each read of `m_running` is one, too, because what it decides may be stale |
| `MCRecordedSession` | small recordings for TLC | |
| `SerialLink` | `SerialWorker` and `SerialCommsPosix` against the kernel's table of descriptors | `table`, `OthersOpen` and `OthersClose` are external: lowest free number, reuse by anybody. `read()` is split where it releases the mutex |
| `RecordingGuard` | the recording guard of MainWindow | `dialogs` is the stack of nested event loops; only its top takes input, every other event may happen under any of them; `closing`, `export` and `loads` are the tasks that will call back |
| `RecoveryRecord` | `RecoveryState` and its copy in the settings | operators on the record; times in units of a fraction of a second |
| `FlightFiles` (extends `RecoveryRecord`) | what is on the disk: `saveMetadata`, `loadMetadata`, the export and load tasks step by step, references, restarts, crashes | `disk` is what a path holds, `save` and `load` the places of the tasks, `shown` what the window has; a digest stands for the content it was taken of |
| `MCFlightFiles` | one path that recordings overwrite in turn | |
| `Playhead` | nothing in the code: what a replay promises of its position | the time reached, the samples' times, the speed, whether it runs, and the cause of the last step. The cause decides the rest: after a pause it is where it was, after a seek at the time of the sample asked for, and so on. `ReplayView` implements it; its history variable `cause` is set by the step that calls the controller and read by none |
| `ReplayController` | `FlightReplayController` | `replay` is its members; a method is an operator from record to record that lists the signals it emits with what a slot could read at that point |
| `ReplayView` (extends `ReplayController`) | `ReplayBar`, the dashboard's chart, MainWindow's strip, around one controller | `view` is the widgets' state; a handler delivers the signals to the slots in the order they are connected |
| `MCReplayView` | two flights, one of no length | |
| `ChartOverview`, `FlightPreview` (extends it) | the tree of extremes and the choice of rows; buckets, timelines, gaps, replay indices, `buildChartFromSampleIndices` | operators on sequences of rows |
| `GpsTrajectory` | where samples between two coordinates are placed | operators on a trajectory record, built sample by sample as the code does; the index of a fix, which may lie between two rows, is a fraction |
| `MCPreviews` | recordings, and a linear reading of them to compare with | |
| `LiveMap` (extends `GpsTrajectory`) | `Map3DWidget`, and `map3d.js` as far as it applies what it is sent | `map` is the widget, `page` the page; a load has its place, its watchdog and its completion |
| `MCLiveMap` | where a rocket may be, sample by sample | |
| `ZipFormat` | what the two archive readers take a ZIP to be | cells for headers, names and bytes; offsets count cells |
| `SampleFileLoader` (extends `ZipFormat`) | CSV import and export, columns, validation, cancellation, the replaced session | a text is a sequence of tokens, a number its value |
| `Workbook`, `TelemCapture` (extend it) | `loadXlsx` with its archive and XML; `loadTelemFile` | elements with attributes; packets |
| `MCImports` | tables laid out in every way, captures, columns; the readings to compare with | |
| `SkinArchive` (extends `ZipFormat`), `SkinTheme` (extends it) | `readSkinArchive`; `parseThemeJson`, palettes, images, the text drawn with them | a colour is luminance, tone and opacity |
| `MCSkins` | archives sound and damaged in one place; themes and images | |
| `SkinStore` | `importArchiveDetailed` step by step, `discoverAll`, `ThemeManager`'s active skin, `SettingsPage`, crashes | `target` and `backups` are the disk, `job` the place of each import, `window` of each settings window |
| `MCAlgorithms` (extends the `MC` modules of the algorithms and `PacketFramer`) | each bounded input of a pure algorithm is a state | `subject` is the input |
| `SerialLink_proofs`, `DecodeWorker_proofs`, `LiveInput_proofs`, `RecordingGuard_proofs`, `RecordedSession_proofs`, `FlightViews_proofs` (of `ReplayView` and `LiveMap`), `FlightFiles_proofs`, `SkinStore_proofs` | theorems | |

Data is abstracted to what the properties distinguish: a sample is its number, a
chunk is what it completes (a row, a malformed row, no row), a recording is how
often it changed, a file is what was written into it, a colour is how bright it is.
History variables (`accepted`, `overwritten`, `counted`, `ours`, `written`,
`claimed`, the `agreed` field of a pending import or close, ...) only record what
happened; no step of the program depends on them (`OthersClose`, an external step,
uses `ours` to leave the port's files alone). `FlightFiles` bounds its runs by
`left`, the exports and fixes that may still come.

A `TypeOK` (`ViewTypeOK`, `FilesTypeOK`) stands in the modules of the state
machines that the runs do not repeat; those of `SerialLink`, `RecordingGuard` and
`FlightFiles` are proved (`TypeCorrect`, `FilesTyped`), the types the other proofs use
are part of their invariants (`Types`, `Basics`, ...).

## 3. The runs

| run | question | states |
|---|---|---|
| `live_input` | Has a waiting batch one drain coming, and nothing else? Does a stop account for everything (each chunk decoded, or dropped by the full queue and told; each sample recorded or overwritten), is everything told, is it the oldest that overload costs (`OldestFirst`: the path implements `SampleChannel`), and is the input served and a failure answered? | 285,000 |
| `decode_worker` | However a stream is cut, evicted and refused: bounds, accounting, gap marks, no splice, a draining stop that returns, counters reported in time | 430,000 |
| `serial_link` | Does the port own its descriptor, do bytes come from the connection `read()` began on, when numbers are reused, is it silent after a callback's stop, and do joins return unless a callback stops it twice? | 22,000 |
| `recording_guard` | Is unsaved data only dropped on Discard, is saved what is on disk, do markers stay with their recording, whatever happens inside the dialogs? | 2,550,000 |
| `recording_guard_editor` | Do they if an editor is open while a save completes? violated, see 6 | |
| `recorded_session` | Do totals, time, threads and callbacks come out right while the owner stops and restarts the session, do calls return, and does a recording end? | 82,000 |
| `recorded_session_drain` | Does a stop drain what was accepted? violated, see 6 | |
| `replay_view` | Does the trail never show the future, do bar and strip agree with the controller, is a chart in view right or about to be redrawn, is the replay where the cause of each step puts it (`KeepsTime`: the controller implements `Playhead`), and does playback end? | 115,000 |
| `files` | Whatever fails and wherever the program dies: do annotations belong to the telemetry they are found with, is an announced save found again, is the recovery record what it says? | 916,000 |
| `skins` | Do two imports, a window and a crash never leave rivals, lose a skin, or let a reader miss one? | 494,000 |
| `live_map` | Does the page draw the widget's flight although it is sent what is new only, do drawn samples stay, is what waits published, does a load end? | 305,000 |
| `algorithms` | One input per state: archives, themes, tables, streams of characters, captures, charts and tracks against reference definitions | 381,000 |

### Bounds, and why they are enough

* `live_input`: `Capacity = 2` batches: overflow needs one more than fits, and
  preserved counters need a batch that survives. The decode queue holds two chunks or
  two units of bytes and chunks measure 1, 2 or 3: each bound evicts, one or two
  chunks at once, and the largest chunk is refused. A batch holds two rows.
  `MaxChunk = 3` in the first connection, `MaxLaterChunk = 2` in the second: enough to
  overflow the queue, or the mailbox, or to leave a chunk with each thread.
  `CounterMax = 2` is the width of the saturating counters and is reached; the
  port yields no more than the worker's own counters can hold before it reports
  them (`WorkerCanCount`: they have 64 bits and do not saturate).
  `MaxGeneration = 3`: two connections and the events of the first arriving during
  the second.
* `decode_worker`: `MaxLineBytes = 2`, `MaxBytes = 3`, `MaxChunks = 2`, chunks of 1, 2
  and 4 bytes: a line at the limit and one above it, a chunk that needs two evictions,
  a chunk that is refused outright, and rows cut at each place. Streams hold a
  spoiled row, an empty line and an unterminated row. Two starts show what a
  restart inherits.
* `serial_link`: two descriptor numbers and three opens: a number closed and given to
  another part of the program and one given back to the port.
* `recording_guard`: three recordings, two changes each (one before and one after an
  export's snapshot), two dialogs (a question over the progress of an import), and an
  import that is cancelled and finishes late.
* `recorded_session`: `Capacity = 2` packets and recordings of four or five: overflow
  twice, a wrap between two packets, one that goes back by exactly half the period,
  one beyond the range, of another device, of another type, not intact, and cut off
  by the end; `MaxKinds = 2` is exceeded. Two starts.
* `replay_view`: a flight of four samples, the last two at one time, drawn in groups
  of two, and one that ends as it starts; three speeds asked for, below, at and above the
  range; the queue of posted flushes holds two.
* `files`: three recordings over one path, so that the files of one meet the
  annotations of another; at most two exports, or one and two fixes, or four fixes
  (`left`); a second is two units of time, so a fix may come within or after it.
* `skins`: two imports of names that differ by case, two failures (a rename and its
  roll back) and one crash. One version: with two and one failure the same run has
  4.6 million states and holds too. The theorems leave all of these open.
* `live_map`: a budget of three points (two on the globe) under six samples: thinned
  twice; an index limit of four: counted anew. Where the rocket may be at each
  sample is given (48 flights): a coordinate held, left, lost, and met again, on both
  sides of the half turn.
* `algorithms`: streams of seven characters over six, a whole packet and one cut at
  any place before another; every pair of entries in an archive, and one of three
  with one field of one header, or one byte, changed; headers of two to four columns
  with a row in every combination of cells, or two rows, laid out in each way a writer
  may; charts of every five values, and long ones with a peak, a gap or holes in
  blocks of two, so that a query starts and ends inside, at and beyond blocks;
  timelines of five rows and tracks of three or four samples over four places.

`MaxSelfStops`, `NestedQuestions` and `EditsWhileSaving` select behaviour rather
than size. Each is at its permissive value in the configuration that shows what then
goes wrong, and at its restrictive value in the run that shows that nothing else does.

## 4. Fairness

`LiveInput`, `DecodeWorker`, `SerialLink` and `RecordedSession` state weak fairness
of the steps a running thread takes by itself (the loop of each worker, the deadline
of its timed wait, the GUI thread serving its queue and going on after a join):
threads are scheduled and `poll` has a timeout. There is no fairness on anything a
user, a device or the producer decides: reading a chunk, failing, connecting,
disconnecting, calling `start` or `stop`. A callback is assumed to return or throw.

`ReplayView` assumes that time passes and that the event loop serves the replay
timer while it runs; the user owes nothing, so playback ends only if nobody pauses it
for ever, which is what `PlaybackEnds` says. `LiveMap` assumes that a load that began
ends, that a watchdog that keeps running fires, and the same of the update timer.
The last of each is written without `WF_`, because TLC would evaluate `ENABLED` of a
whole handler; it says what weak fairness says, for a timer that always stops when
it fires, or whose tick does nothing.

`RecordingGuard`, `FlightFiles`, `SkinStore` and `MCAlgorithms` claim no liveness and
state no fairness.

## 5. What is proved

TLAPS checks these for every value of the constants that satisfies the `ASSUME`s
of the module (sizes are natural numbers, descriptor numbers a finite set of
them, the flights have ordered times, and so on).

**SerialLink.** `TypeCorrect`, `ForeignFilesUntouched` (`FilesAreItsOwn`),
`SilentAfterStop`. The invariant is `PortInv /\ ReadInv /\ ThreadInv`. `PortInv`
strengthens ownership to an equivalence: the port's number stands for one of its
files and no other number does, and files are numbered as they are opened, so a
new one is never an old one. `ReadInv` is what makes the generation check
sufficient: as long as the generation a `read()` remembers is the present one,
its number is the port's and stands for the file it began with. The lemma that
every step `Progressed` (generations never go back; within one, number and file
stay) lets each reader step rely on it without looking at who moved. `ThreadInv`
adds that a callback's stop leaves the stop token set until the next `start`.

**DecodeWorker.** `OverloadIsKept` (`QueueKept`), `RowsAreWhole` (`NeverSpliced`) and
`NothingIsLeft` (`StopDrains`), for every stream, every way to cut it into chunks (none
is empty: `enqueueChunk` refuses that), every queue, batch and line limit and any
number of starts. Three invariants stand on one another.

* `QInv`, of the queue: each chunk is a piece of the stream (`Piece`), chunks are in
  its order behind what the worker has taken (`InOrder`), a gap is marked exactly where
  one does not follow the other (`Marked`), the byte count is the sum over the chunks
  (`Bounds`), and `Threads`: who accepts is not asked to stop, and who stops has found
  the queue empty after that. `Marked` is not inductive without the last: the gap at
  the end moves from the queue to `gapAtEnd` in one step, and nothing may come after.
* `DInv`, of the reports: what was told and what is in the callback's hands add up to
  what `deliver()` read last, and a worker on its last delivery has nothing left.
* `NInv`, of the samples: all that were decoded, delivered, in flight, pending or just
  out of the decoder, are whole lines in the order of the stream, and all before
  `Edge`, the place before the line the decoder has open; and that line is everything
  since a newline or the start, unless the decoder discards (`Placed`).
  `NeverSpliced` speaks of `delivered` only and says nothing of the open line, from
  which the next sample will be made.

`BytesOf` and `Ingest` are folds. `FoldOneMore` unrolls one: what it makes of a
sequence with one element more is one application more, so that a fact each byte
keeps true is kept by a chunk (`IngestKeeps`).

**LiveInput.** `DrainsMatchBatches` (`DrainsAreCoalesced`), `StopAccounts`
(`StopAccountsForAll`), `RecordingIsAChannel` (`OldestFirst`), `OverflowTold` and
`OperatorIsTold` (`NothingUntold`). `DInv` is `DrainType` (the types the argument uses),
`GenerationsOrdered` (no event, batch or callback is of a generation to come, and
once the worker is gone the active generation is an old one), `FlagMeansOneDrain`
(`drainScheduled` is set exactly while one drain of the live input is posted or about
to be) and `BatchesAreLive` (batches wait only while the flag is set). The
equivalence is the point: the flag left set with no drain strands batches, a drain
with the flag clear lets a second one be posted. `SInv` adds `Accounted` (accepted =
recorded, overwritten or waiting) and `StagesEmptyInOrder` (reader, then worker, then
mailbox are empty as `stopSerial` proceeds; a worker that ended without a failure left
nothing queued, pending or unreported). `FInv` says where each chunk and each sample
is: a chunk is held, queued, decoded or dropped, and only one of these
(`ChunksPlaced`); a decoded sample is pending or accepted (`SamplesPlaced`); and the
chunks dropped are those counted for the operator and those not reported yet
(`DropsCounted`). A decode queue that overflows loses chunks without any failure, so a
stop cannot promise that none is lost: it promises that each is accounted for.

`OInv` says that chunks, batches and what was accepted are in the order of decoding; with it
every step is a step of `SampleChannel` or a stutter, which is the refinement: a push
that overflows sacrifices the oldest that wait, a drain keeps all that wait. `TInv` adds
that what is reported of the overwritten samples is their number, until the counters
are full, and `UInv` the same of the bytes and errors that evicted batches counted and
of the newest row. `preserved` joins the next batch taken, so what is still to be told
is a sum over the batches in the mailbox: the lemmas say what a push, an eviction and
a take do to that sum, each of which saturates.

**RecordingGuard.** `SavedIsOnDisk` (`SavedMeansWritten`) and `TypeCorrect`, with no
assumption about dialogs, nested questions or editors; `NothingGoesUnasked`
(`NothingDroppedUnasked`) if questions are not nested, `MarkersAreItsOwn`
(`MarkersStayWithRecording`) if no editor is opened while an export runs. Findings 1
and 4 show that the two conditions are needed. `RInv` orders saved, written and current
revision and says what a running export may know: it belongs to this recording or an
earlier one, knows no newer revision of it than there is, and when done, its revision
of this recording is on disk. Every step lets the recording grow or begins another
(`Grows`, `Begins`), and two lemmas show that either keeps `RInv`. `GInv` adds which
dialogs can be on the stack together and that an import nobody canceled runs behind its
progress dialog. On it rest `AInv` (there is one question at most and none during an
export; an export that a change waits for leaves nothing that could be lost, and so does
an import, unless it was agreed to give up this recording) and `MInv` (an editor
is of the recording there is, because nothing that could replace it is under way). The
answer to a question and what it sets off are steps apart: the invariants say what
stays true between them.

**RecordedSession.** `ThreadsTakeTurns` (`ThreadsInTurn`), `CallbacksOrdered`,
`EveryCharacterTold`, `TimesAreTrue` (`TimelineIsTrue`) and `TotalsAreTrue`
(`TotalsAddUp`). The invariant `LInv` relates the places of reader, parser and
owner: where the reader is decides whether there is a parser and whether the
session is active (`ReaderKnows`), an owner past the reader's join finds no reader
(`OwnerKnows`), and a session that completed or was stopped has no thread that
could call anybody (`NobodyLeft`). `Reported` adds the count: until the totals are
told the batches have reported what the session remembers of it, afterwards all
that was received. `TInv` follows a packet from the frame being read through queue and
parser to a sample: each place is older than the one before it (`OnTheWay`), and the
clock is that of the last sample, so a difference below half a period is the true one.
`AInv` is the account: accepted packets are queued, parsed or lost, and the parsed ones
became samples, messages or errors; that the queue holds none twice is its order.
The sums are over finite sets.

**ReplayView.** `TrailStaysBehindHead` (`TrailBehindHead`) and `ControllerIsPlayhead`
(`KeepsTime`), the refinement: every step of controller, bar, chart and strip together
is the step of `Playhead` that its cause names. The views only call methods of the
controller, so the proof is about its record: `CInv` is `Sound` (the anchor, the
position and the trail are of the flight, the trail is where the time reached lies),
`Served` (the timer runs exactly while it plays) and `Rests` (a replay at rest at the
end shows all samples, unless a seek left it at an earlier one of the last instant: only
then may a start not begin again). Each method keeps it and has an answer of its own
(`Ticked`, `Paused`, `Paced`, `Played`, `Placed`): where the place is afterwards and
whether it runs. A load is two or three calls, whose answers compose. That a seek asks
for a place of the flight that is loaded is a matter of the widgets (`SeeksAreInside`)
and follows from their invariant, `ViewInv`.

`ControlsTell` (`ControlsTellTheTruth`) and `ChartsAreFresh` (`NothingStaysStale`) are about
the widgets. `ViewInv` says of a replay that bar, strip and chart `Agree` with the
controller and of live display that what came is drawn or awaited (`Live`). Slots run inside
the controller's methods, so agreement is shown signal by signal (`DeliverStart` and
its like), each with the controller as it is when the signal is emitted, and then of
the fold over all signals of a method. The proof did not go through with
`NothingStaysStale` as it was first stated: its fourth case excused a stale chart for
the wrong group, which TLC's flights could not show; the case now names the group the
controller is in.

**LiveMap.** `MapInvariant`, `MapsShowTheFlight` (`PageShowsTheFlight`) and
`AlignedSamplesNeverMove` (`AlignedSamplesStay`), for any budgets of points, any index at
which the history is counted anew, any recordings and any places a rocket may report.
`MapInv` has a part for a recorded flight (`Replayed`: what does not wait is drawn) and
one for a live one (`Lived`), and `Loaded`, which says that a page that is not ready is
empty. `PageShowsTheFlight` speaks of moments when nothing waits, `Lived` of all others:
the page draws the rows up to `lastPublished` and no other, each where the trajectory
places it *now*, or all of the history waits to be published again; and behind a clear
that waits it is the empty page of which this holds (`Behind`).

What a sample does not move is the harder half. `History` says that the rows and the
fixes of the trajectory are in one order (`Ordered`, seen from each row, because a fix
may lie between two) and that no fix lies beyond the last row. Then the fixes before a
row are the first ones (`FixesInOrder`), and where a row is drawn depends on how many
there are and on the two beside it: `AppendStays` (a sample that `redraws` lets pass
moves no row), `RetainStays` (the fixes dropped with a thinned history are beside no row
left) and `RebaseStays` (counted anew, each fix is on the same side of each row).
`append` needs the last fix to be of the current segment, which is the last conjunct of
`History`. `AlignedSamplesStay` follows with the clock: one sample is in one row only
(`OneRow`).

The proof changed the model. It had rounded the places of fixes between rows to a
multiple of a constant, with which the theorem is false: after enough rounds of thinning
and counting anew two fixes meet, or one meets a row, and a sample jumps. TLC's bounds
were too small to get there. The fractions are exact now, and so is the theorem; what
the doubles of the code (`src/include/services/preview/GpsTrajectory.h:136`) round is left out.

**FlightFiles.** `FilesTyped`, `AnnotationsMatch` (`AnnotationsBelong`), `AnnouncedIsFound`
(`SavedSurvives`), `WayIsFound` (`RecoveryIsTrue`), for any number of paths and recordings.
`FInv` is `FilesTypeOK`, `SaveInv` (what a running export has digested and written so
far), `SidecarInv` (a digest on the disk is of telemetry with the events beside it),
`LoadInv` (what a load has read) and `SavedSurvives`. `SidecarInv` is what a crash cannot
break: it speaks of the digest in the file, not of the telemetry that lies next to it.
`RInv` is about the recovery record: the stored copy never falls more than a second
behind the one in memory nor loses its reference (`Outlives`), the record that is not
marked as old is of the input that runs (`Receiving`), and a load has ended the input.

**SkinStore.** `NoRivals` (`OneSkinPerName`), `NeverHalfReplaced` (`ReadersSeeWhole`),
`BackupHolds` (`NothingIsLost`), for any number of imports, windows, names, versions,
failures and crashes. `SkinInv` says who holds which lock at which place (`Locked`),
what an import knows of its directory and its backup there (`Knows`: the directory
it found has had no rival since, although it looked without the catalogue lock,
because the import lock has been held all the time), and that whatever a window has
listed is in its place and verified, or in a backup nobody will touch, or in that of
an import that is in the catalogue (`Found`). A reader holds the catalogue lock, so
the last is excluded when it looks.

**Induction.** The library's induction theorems take a formula as a parameter, which
no prover here can give them. `WFMin` and `NatLessThanWellFounded` take sets, and
`EveryNumber` derives from them induction over the natural numbers for a formula that is
given by the set of the numbers it holds for. Where a model folds over a sequence or
applies a recursive function, the proofs unroll it with that, element by element.

**Only model-checked.** Liveness (`InputIsServed`, `WorkerAnswers`,
`JoinsReturnUnlessBlocked`, `SessionEnds`, `PlaybackEnds`, `UpdatesArePublished`,
`LoadsEnd`): fairness and leads-to are outside the prover's reach. The algorithms of
`MCAlgorithms`: their cases are enumerated, and what they compute is compared with
reference definitions that exist for small inputs only; several are declared
`RECURSIVE`, which the prover does not take.

## 6. Findings

1. An event editor opened while the save before a replacement runs writes the
   old recording's events into the new recording (`recording_guard_editor`;
   `src/gui/pages/DashboardPage.cpp:2625-2696`).
2. `ParserWorker` leaves its loop when `get()` has timed out and `m_running` is then
   found false. A packet put between the two stays in the queue, though `stop()` is
   documented to drain accepted frames (`recorded_session_drain`;
   `src/services/telemetry/ParserWorker.cpp:12-15`). It is counted in
   `droppedBytes` but not in `droppedChunks`.

Four more can be seen with a configuration that is no run:

3. `SerialLinkSelfStop.cfg` (module `SerialLink`, `JoinsReturn`). `start()` of
   `SerialWorker` joins an ended thread while it holds `m_lifecycleMutex`. A callback
   of that thread which calls `stop()` a second time waits for the mutex: the two wait
   for one another (`src/gateway/comms/SerialWorker.cpp:14-20,45,63-65`). MainWindow's
   callbacks never call `stop()`.
4. `RecordingGuardNested.cfg` (`RecordingGuard`, `NothingDroppedUnasked`). If Quit asks
   its question over one that is already open, Save in the second and Discard in the
   first can close a new recording without asking (`src/gui/MainWindow.cpp:1495-1508`).
5. `FlightFilesReference.cfg` (`MCFlightFiles`, `ReferenceStaysWithRecording`).
   "References remain scoped to their recording"
   (`docs/session-report-2026-10-15.md:83`, also `docs/rocket-attitude.md:115-116`), but
   a file whose annotations are missing or do not match is loaded without touching the
   reference that is set (`src/gui/MainWindow.cpp:1342-1347`): it is shown, and would be
   saved, with a recording it was not chosen in.
6. `SkinStoreDrawn.cfg` (`SkinStore`, `DrawnWithItsTextures`). The comment at
   `src/gui/SkinLoader.cpp:1179-1180` promises a reader the complete old installation
   or the complete replacement. `rebuildTextureCache` (`src/gui/ThemeManager.cpp:216`)
   reads the images after the catalogue lock was given back: an import in between
   draws the old palette with the new images.

What follows was met while modelling and contradicts no document that was read:

* Files. A save has no limit on the size of the metadata, a load refuses more than 4
  MiB. A clock that steps back stops the recovery saves until it has caught up. A
  missing metadata file is an empty one. `loadMetadata` digests the path again after
  the telemetry was read, so a save to the path in between pairs old samples with new
  annotations; `LoadedTogether` is about loads no such save overlaps with. A ground
  reference chosen before connecting is wiped by the new session.
* Imports. A CSV row too short to have an altitude is skipped, the same XLSX row is
  kept with its altitude unknown; a cell of blanks drops an XLSX row but not a CSV
  row. `SampleFileLoader.h` calls the first line that is no comment the header; the
  code takes the first that is not empty. Values beyond 10^12 and coordinates out of
  range are exported and dropped on reload. The XLSX reader checks no CRC.
* Charts. A click resolves equal times to the later sample, the search by seconds to
  the earlier one. A replay view at held axes draws no neighbour outside the window, a
  live one does. The two chart builders take the last time from different rows.
  `replayBucket` is not injective: a jump while playing may leave the chart as it is
  until the next group (`NothingStaysStale` allows it).
* The live map. `showEvent` forgets that a counted-anew history was to be published
  whole if no usable sample is kept, so the page's total may stay above the widget's;
  `PageShowsTheFlight` asks for no more than that.
* Skins. A crash between the two renames leaves the skin in a hidden backup that
  nothing restores: `NothingIsLost` counts it as kept. The fallback to a built-in skin
  at the start is not persisted. The text of a progress bar over its chunk, muted text
  and links on a textured panel are not, or only partly, checked for contrast;
  `StyledText` leaves them out.

## 7. Not modelled, and why

* Widgets' layout, painting and styling, the map's camera, the instruments, the event
  log: no state a property is about.
* `SerialCommsWindows`, scanners and `configurePort`: pure I/O, or the POSIX contract
  over other calls. `SerialCommsPosix::write`: nothing calls it.
* Digits of numbers, fields of packets in physical units, inflate, the XML tokenizer:
  abstracted to "decodes" or "does not". The contrast formula's tolerance of 0.001 is
  left out.
* `PreflightChecklist`: a list of conditions of the present state. The simulated
  flight: a generator of samples, of which `RecordingGuard` has the timer.
* `RecordingGuard`: the sample limit of the log, which refuses samples and says so, and
  nested event loops that return out of order, which the stack forbids as Qt does.
* `LiveInput`: bytes, gaps and rows (they are `DecodeWorker`'s); `droppedBytes`, which
  goes where `droppedChunks` goes. `DecodeWorker`: its wait is one step with its
  condition, as the stop-token overload makes it, so what a plain wait would miss
  cannot be seen.
* `FlightFiles`: a restore brings back the record, not the identity of the input.
* `GpsTrajectory`: the rounding of doubles; a fix lies where it lies, and shares of an
  interval are whole numbers of the unit of a coordinate.
* `LiveMap`: theme, units, attitude, recovery record, follow switch and statistics. A
  published message is drawn at once (the bridge keeps their order); a ready call of a
  superseded page is assumed not to arrive after Retry.
* `SkinStore`: what makes backups' names unique; equal backups are one. A comment at
  the end of an archive is not tried in `MCSkins`.
* Data races: the code read here guards every shared member by a mutex or an atomic.

## 8. Plan

Done, in this order: `BatchMailbox`, `LiveInput`, `SampleChannel`, `LineDecoder`,
`DecodeWorker`, `SerialLink`, `RecordingGuard`, `PacketFramer`, `RecordedSession`;
`Playhead`, `ReplayController`, `ReplayView`; `RecoveryRecord`, `FlightFiles`; the
previews; the loaders; the skins; `LiveMap`; and the proofs listed in 5.

Next theorems: that `DecodeWorker` delivers what `LiveInput` assumes of its worker (each
chunk decoded once and in order, or dropped and counted), stated as a refinement rather
than as the invariants `RowsAreWhole` and `OverloadIsKept`.

Next modules: `EventLog`; `WindowsLink` (the contract of `SerialLink` over overlapped
I/O); `LivePipeline`, which composes `SerialLink`, `DecodeWorker` and `LiveInput` and
shows that the interfaces they assume of one another are the ones they provide.
