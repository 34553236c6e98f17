------------------------------ MODULE LiveInput ------------------------------
(***************************************************************************)
(* MainWindow's live serial input: the serial reader thread, the decode    *)
(* worker thread, the batch mailbox between the worker and the GUI, the    *)
(* queue of events posted to the GUI thread, and the GUI thread that       *)
(* starts the input, drains the mailbox into the recording and stops it.   *)
(*                                                                         *)
(* Every object the GUI thread creates for one connection captures the     *)
(* generation of that connection.  The GUI thread blocks while it joins    *)
(* the two threads, and the threads go on running while it does.           *)
(***************************************************************************)
EXTENDS BatchMailbox

CONSTANTS
    MaxQueuedChunks,  \* m_config.maxQueuedChunks of the worker
    MaxQueuedBytes,   \* m_config.maxQueuedBytes
    MaxBatch,         \* m_config.maxBatchSamples
    ChunkSizes,       \* the sizes of the chunks the port may yield
    MaxGeneration,    \* bound: the user starts no input beyond this generation
    MaxChunk,         \* bound: chunks the port yields in the first connection
    MaxLaterChunk     \* bound: chunks it yields in a later one

ASSUME BoundAssumption ==
    MaxGeneration \in Nat /\ MaxChunk \in Nat /\ MaxLaterChunk \in 0..MaxChunk
ASSUME QueueAssumption ==
    /\ MaxQueuedChunks \in Nat \ {0} /\ MaxQueuedBytes \in Nat \ {0}
    /\ ChunkSizes \subseteq Nat \ {0}
    /\ MaxBatch \in 1..CounterMax

\* receivedBytes counts by the chunk here; droppedBytes, not modelled, goes where
\* droppedChunks goes.
ASSUME CountersAssumption ==
    Counters = {"receivedBytes", "droppedChunks", "malformedLines"}

VARIABLES
    liveGeneration,   \* m_liveGeneration
    gui,              \* where the GUI thread is in startSerial or stopSerial
    startAfterStop,   \* it is in the stopSerial() with which startSerial begins
    events,           \* events queued to the GUI thread, oldest first
    inputGeneration,  \* the generation the input's callbacks captured
    reader,           \* the SerialWorker thread
    held,             \* the chunks the reader is about to hand over (none or one)
    worker,           \* the LineTelemetryDecodeWorker thread
    inbox,            \* m_chunks: what the worker has accepted and not decoded
    pending,          \* rows it has decoded and not delivered
    unreported,       \* what enqueueChunk has counted since the last delivery
    \* The recording and what the operator is told.
    recorded,         \* samples recorded by recordLiveSample
    shown,            \* counters accumulated by updateLinkDiagnostics
    shownRow,         \* m_lastDiagnosticRow
    reported,         \* m_discardedSamples
    \* History of this connection.
    chunks,           \* number of chunks read
    accepted,         \* samples pushed to the mailbox
    overwritten,      \* samples the mailbox discarded
    counted,          \* counters of every batch pushed
    countedRow,       \* newest row diagnostic pushed
    decoded,          \* chunks the worker has decoded
    sampled,          \* samples it has decoded from them
    dropped,          \* chunks its queue refused or evicted
    failed            \* its callback has thrown

guiVars    == <<liveGeneration, gui, startAfterStop>>
readerVars == <<reader, held, chunks>>
shownVars  == <<recorded, shown, shownRow, reported>>
queueVars  == <<inbox, pending, unreported>>
fate       == <<decoded, sampled, dropped, failed>>
history    == <<accepted, overwritten, counted, countedRow>>
vars == <<mailbox, guiVars, readerVars, shownVars, history, events,
          inputGeneration, worker, queueVars, fate>>

Chunk == [id : Nat \ {0}, size : ChunkSizes]

\* A row has the number of the chunk that completes it.
Row == [id : Nat \ {0}, kind : {"sample", "malformed"}]

Event == [kind : {"drain", "error"}, generation : Nat]
DrainEvent(g) == [kind |-> "drain", generation |-> g]
ErrorEvent(g) == [kind |-> "error", generation |-> g]

NoCounts == [c \in Counters |-> 0]
NothingNew == [receivedBytes |-> 0, droppedChunks |-> 0]

Init ==
    /\ MailboxInit
    /\ liveGeneration = 0
    /\ gui = "idle"
    /\ startAfterStop = FALSE
    /\ events = <<>>
    /\ inputGeneration = 0
    /\ reader = "none" /\ held = <<>> /\ chunks = 0
    /\ worker = "none" /\ inbox = <<>> /\ pending = <<>> /\ unreported = NothingNew
    /\ recorded = {} /\ shown = NoCounts /\ shownRow = 0 /\ reported = 0
    /\ accepted = {} /\ overwritten = {} /\ counted = NoCounts /\ countedRow = 0
    /\ decoded = {} /\ sampled = {} /\ dropped = {} /\ failed = FALSE

-----------------------------------------------------------------------------
(***************************************************************************)
(* The serial reader thread: SerialWorker::run with the callbacks          *)
(* startSerial gives it.                                                   *)
(***************************************************************************)

\* stop() has been called: SerialWorker::stop requests the stop and closes the
\* port before it joins.
StopRequested == gui = "joinReader"

\* bound: the first input that can start has generation 2.
ChunkBound == IF inputGeneration = 2 THEN MaxChunk ELSE MaxLaterChunk

\* bound: the port yields no more than the 64 bit counters of enqueueChunk can
\* count before the worker reports them.
WorkerCanCount ==
    /\ unreported.receivedBytes < CounterMax
    /\ unreported.droppedChunks < CounterMax
    /\ unreported.droppedChunks + Len(inbox) <= CounterMax

\* read() returned bytes and the stop flag, tested next, was still clear.
ReadChunk(size) ==
    /\ reader = "reading"
    /\ ~StopRequested
    /\ chunks < ChunkBound
    /\ WorkerCanCount
    /\ chunks' = chunks + 1
    /\ held' = <<[id |-> chunks + 1, size |-> size]>>
    /\ reader' = "holding"
    /\ UNCHANGED <<mailbox, guiVars, shownVars, history, events,
                   inputGeneration, worker, queueVars, fate>>

Ids(s) == {s[i].id : i \in DOMAIN s}

\* The worker takes chunks until its stop() or its failure.
Accepting == worker \in {"running", "posting"} /\ gui # "joinWorker"

BytesOf(q) ==
    LET sum[i \in 0..Len(q)] == IF i = 0 THEN 0 ELSE sum[i - 1] + q[i].size
    IN  sum[Len(q)]

\* With the n oldest chunks evicted the queue has room for a chunk of this size.
RoomAfter(n, size) ==
    \/ n = Len(inbox)
    \/ /\ Len(inbox) - n < MaxQueuedChunks
       /\ BytesOf(SubSeq(inbox, n + 1, Len(inbox))) <= MaxQueuedBytes - size

\* The worker's counters and the history when enqueueChunk drops these chunks.
CountDropped(lost) ==
    /\ unreported' = [receivedBytes |-> unreported.receivedBytes + 1,
                      droppedChunks |-> unreported.droppedChunks + Len(lost)]
    /\ dropped' = dropped \cup Ids(lost)

\* A chunk larger than the whole queue may hold is dropped on the spot.
RefuseOversized ==
    /\ held[1].size > MaxQueuedBytes
    /\ CountDropped(held)
    /\ UNCHANGED inbox

\* Any other is queued, at the expense of as many of the oldest as it needs.
Enqueue ==
    \E n \in 0..Len(inbox) :
        /\ held[1].size <= MaxQueuedBytes
        /\ RoomAfter(n, held[1].size)
        /\ \A m \in 0..(n - 1) : ~RoomAfter(m, held[1].size)
        /\ inbox' = SubSeq(inbox, n + 1, Len(inbox)) \o held
        /\ CountDropped(SubSeq(inbox, 1, n))

\* The data callback calls enqueueChunk, which takes nothing once the worker has
\* stopped or failed.
HandOver ==
    /\ reader = "holding"
    /\ reader' = "reading"
    /\ held' = <<>>
    /\ \/ Accepting /\ (RefuseOversized \/ Enqueue)
       \/ ~Accepting /\ UNCHANGED <<inbox, unreported, dropped>>
    /\ UNCHANGED <<mailbox, guiVars, shownVars, history, events, inputGeneration,
                   worker, pending, decoded, sampled, failed, chunks>>

\* The loop ends at the stop flag.
ReaderStops ==
    /\ reader = "reading"
    /\ StopRequested
    /\ reader' = "exited"
    /\ UNCHANGED <<mailbox, guiVars, shownVars, history, events,
                   inputGeneration, worker, queueVars, fate, held, chunks>>

Bug_ReaderFailsSilently ==
    /\ reader = "reading"
    /\ ~StopRequested
    /\ reader' = "exited"
    /\ UNCHANGED <<mailbox, guiVars, shownVars, history, events,
                   inputGeneration, worker, queueVars, fate, held, chunks>>

\* read() failed with the stop flag still clear: report, close, leave the loop.
ReaderFails ==
    /\ reader = "reading"
    /\ ~StopRequested
    /\ reader' = "exited"
    /\ events' = Append(events, ErrorEvent(inputGeneration))
    /\ UNCHANGED <<mailbox, guiVars, shownVars, history,
                   inputGeneration, worker, queueVars, fate, held, chunks>>

-----------------------------------------------------------------------------
(***************************************************************************)
(* The decode worker thread: it decodes accepted chunks in order and hands *)
(* batches to the callback startSerial gave it.                            *)
(***************************************************************************)

IdsOfKind(s, kinds) == {s[i].id : i \in {j \in DOMAIN s : s[j].kind \in kinds}}
Newest(S) == IF S = {} THEN NoRow ELSE CHOOSE x \in S : \A y \in S : y <= x

\* The next chunk is decoded.  Whether it completes a row that decodes, one that
\* does not, or none, depends on the chunks before it and on the gaps between
\* them, and is left open.  The row that finish() may make of an unfinished line
\* counts as completed by the last chunk, decoded no earlier than that.  A row that
\* does not decode counts towards the batch, too.
DecodeChunk(outcome) ==
    /\ worker = "running"
    /\ inbox # <<>>
    /\ Len(pending) < MaxBatch
    /\ inbox' = Tail(inbox)
    /\ decoded' = decoded \cup {Head(inbox).id}
    /\ sampled' = IF outcome = "sample" THEN sampled \cup {Head(inbox).id} ELSE sampled
    /\ pending' = IF outcome = "partial" THEN pending
                  ELSE Append(pending, [id |-> Head(inbox).id, kind |-> outcome])
    /\ UNCHANGED <<mailbox, guiVars, readerVars, shownVars, history, events,
                   inputGeneration, worker, unreported, dropped, failed>>

\* The batch of these rows, with what the worker and the decoder have counted.
BatchOf(rows) ==
    [samples  |-> IdsOfKind(rows, {"sample"}),
     counters |-> [c \in Counters |->
                     IF c = "malformedLines"
                     THEN Cardinality(IdsOfKind(rows, {"malformed"}))
                     ELSE unreported[c]],
     row      |-> Newest(IdsOfKind(rows, {"sample", "malformed"}))]

\* deliver() calls nobody for a batch that would say nothing.
SomethingToSay == pending # <<>> \/ unreported # NothingNew

\* deliver() and the batch callback up to the mailbox's answer.
DeliverBatch ==
    LET batch == BatchOf(pending)
    IN  /\ worker = "running"
        /\ SomethingToSay
        /\ Push(inputGeneration, batch)
        /\ worker' = IF RequestsDrain(inputGeneration) THEN "posting" ELSE "running"
        /\ pending' = <<>>
        /\ unreported' = NothingNew
        /\ accepted' = accepted \cup batch.samples
        /\ overwritten' = overwritten \cup Evicted(inputGeneration)
        /\ counted' = [c \in Counters |-> counted[c] + batch.counters[c]]
        /\ countedRow' = NewerRow(countedRow, batch.row)
        /\ UNCHANGED <<guiVars, readerVars, shownVars, events, inputGeneration, inbox, fate>>

\* The rest of the callback: a drain is posted to the GUI thread.
PostDrain ==
    /\ worker = "posting"
    /\ worker' = "running"
    /\ events' = Append(events, DrainEvent(inputGeneration))
    /\ UNCHANGED <<mailbox, guiVars, readerVars, shownVars, history,
                   inputGeneration, queueVars, fate>>

\* The callback threw: the worker stops accepting, reports and exits.  Its batch,
\* its queue and its counts stay where they are, which nothing reads any more.
WorkerFails ==
    /\ worker = "running"
    /\ SomethingToSay
    /\ worker' = "exited"
    /\ events' = Append(events, ErrorEvent(inputGeneration))
    /\ failed' = TRUE
    /\ UNCHANGED <<mailbox, guiVars, readerVars, shownVars, history, inputGeneration,
                   queueVars, decoded, sampled, dropped>>

Bug_ExitsBeforeLastDelivery ==
    /\ worker = "running"
    /\ gui = "joinWorker"
    /\ inbox = <<>>
    /\ worker' = "exited"
    /\ UNCHANGED <<mailbox, guiVars, readerVars, shownVars, history, events,
                   inputGeneration, queueVars, fate>>

\* Asked to stop, the worker exits once its queue is empty and its last batch is
\* delivered.
WorkerStops ==
    /\ worker = "running"
    /\ gui = "joinWorker"
    /\ inbox = <<>> /\ ~SomethingToSay
    /\ worker' = "exited"
    /\ UNCHANGED <<mailbox, guiVars, readerVars, shownVars, history, events,
                   inputGeneration, queueVars, fate>>

-----------------------------------------------------------------------------
(***************************************************************************)
(* The GUI thread.                                                         *)
(***************************************************************************)

SamplesOf(bs) == UNION {bs[i].samples : i \in DOMAIN bs}

CountsOf(bs, c) ==
    LET sum[i \in 0..Len(bs)] == IF i = 0 THEN 0 ELSE sum[i - 1] + bs[i].counters[c]
    IN  sum[Len(bs)]

NewestRow(bs) == Newest({bs[i].row : i \in DOMAIN bs})

\* drainLiveTelemetryBatches(generation)
Drain(g) ==
    IF g # liveGeneration
    THEN UNCHANGED <<mailbox, shownVars>>
    ELSE /\ Take(g)
         /\ recorded' = recorded \cup SamplesOf(Taken(g))
         /\ shown' = [c \in Counters |-> shown[c] + CountsOf(Taken(g), c)]
         /\ shownRow' = NewerRow(shownRow, NewestRow(Taken(g)))
         /\ reported' = reported + TakenDiscarded(g)

\* A posted drain reaches the GUI thread's event loop.
RunDrain ==
    /\ gui = "idle"
    /\ events # <<>>
    /\ Head(events).kind = "drain"
    /\ Drain(Head(events).generation)
    /\ events' = Tail(events)
    /\ UNCHANGED <<guiVars, readerVars, history, inputGeneration, worker, queueVars, fate>>

\* A posted error does: an error of the live input stops it.
RunError ==
    /\ gui = "idle"
    /\ events # <<>>
    /\ Head(events).kind = "error"
    /\ gui' = IF Head(events).generation = liveGeneration THEN "joinReader" ELSE gui
    /\ startAfterStop' = FALSE
    /\ events' = Tail(events)
    /\ UNCHANGED <<mailbox, liveGeneration, readerVars, shownVars, history,
                   inputGeneration, worker, queueVars, fate>>

\* The user disconnects (stopSerial), or starts an input (startSerial, which
\* stops the present one first).
UserRequest(start) ==
    /\ gui = "idle"
    /\ start => liveGeneration < MaxGeneration
    /\ ~start => worker # "none"
    /\ gui' = "joinReader"
    /\ startAfterStop' = start
    /\ UNCHANGED <<mailbox, liveGeneration, readerVars, shownVars, history, events,
                   inputGeneration, worker, queueVars, fate>>

\* stopSerial: the reader is joined first ...
JoinReader ==
    /\ gui = "joinReader"
    /\ reader \in {"none", "exited"}
    /\ reader' = "none"
    /\ gui' = "joinWorker"
    /\ UNCHANGED <<mailbox, liveGeneration, startAfterStop, held, chunks, shownVars,
                   history, events, inputGeneration, worker, queueVars, fate>>

\* ... then the worker, then what it left in the mailbox is drained, and only
\* then does the generation end.
JoinWorker ==
    /\ gui = "joinWorker"
    /\ worker \in {"none", "exited"}
    /\ worker' = "none"
    /\ Drain(liveGeneration)
    /\ liveGeneration' = liveGeneration + 1
    /\ gui' = IF startAfterStop THEN "opening" ELSE "idle"
    /\ UNCHANGED <<startAfterStop, readerVars, history, events, inputGeneration,
                   queueVars, fate>>

\* startSerial: no port was chosen, or open() failed.
OpenFails ==
    /\ gui = "opening"
    /\ gui' = "idle"
    /\ UNCHANGED <<mailbox, liveGeneration, startAfterStop, readerVars, shownVars,
                   history, events, inputGeneration, worker, queueVars, fate>>

Bug_RecordingNotCleared ==
    /\ UNCHANGED recorded
    /\ shown' = NoCounts /\ shownRow' = 0 /\ reported' = 0
    /\ accepted' = {} /\ overwritten' = {} /\ counted' = NoCounts /\ countedRow' = 0
    /\ decoded' = {} /\ sampled' = {} /\ dropped' = {} /\ failed' = FALSE
    /\ chunks' = 0

\* prepareLiveSession: the recording and the page start afresh.
NewSession ==
    /\ recorded' = {} /\ shown' = NoCounts /\ shownRow' = 0 /\ reported' = 0
    /\ accepted' = {} /\ overwritten' = {} /\ counted' = NoCounts /\ countedRow' = 0
    /\ decoded' = {} /\ sampled' = {} /\ dropped' = {} /\ failed' = FALSE
    /\ chunks' = 0

\* The decode worker's start() begins afresh.
ResetWorker == inbox' = <<>> /\ pending' = <<>> /\ unreported' = NothingNew

\* startSerial: the port is open and both threads start ...
StartSucceeds ==
    /\ gui = "opening"
    /\ NewSession /\ ResetWorker
    /\ liveGeneration' = liveGeneration + 1
    /\ inputGeneration' = liveGeneration + 1
    /\ worker' = "running"
    /\ reader' = "reading"
    /\ gui' = "idle"
    /\ UNCHANGED <<mailbox, startAfterStop, events, held>>

\* ... or the decode worker cannot start its thread, or the serial worker cannot
\* and the decode worker, which has decoded nothing, is stopped again.  Only the
\* second path ends the generation it began.
StartFails ==
    /\ gui = "opening"
    /\ NewSession /\ ResetWorker
    /\ liveGeneration' \in {liveGeneration + 1, liveGeneration + 2}
    /\ inputGeneration' = liveGeneration + 1
    /\ gui' = "idle"
    /\ UNCHANGED <<mailbox, startAfterStop, events, reader, held, worker>>

-----------------------------------------------------------------------------

ReaderStep ==
    (\E size \in ChunkSizes : ReadChunk(size)) \/ HandOver \/ ReaderStops \/ ReaderFails
WorkerStep ==
    \/ \E outcome \in {"sample", "malformed", "partial"} : DecodeChunk(outcome)
    \/ DeliverBatch \/ PostDrain \/ WorkerFails \/ WorkerStops
StopStep   == JoinReader \/ JoinWorker
StartStep  == OpenFails \/ StartSucceeds \/ StartFails
EventStep  == RunDrain \/ RunError

\* Nothing is connected and the user, at the bound on generations, starts nothing.
Idle ==
    /\ gui = "idle" /\ worker = "none" /\ events = <<>>
    /\ UNCHANGED vars

Next ==
    \/ ReaderStep
    \/ WorkerStep
    \/ EventStep
    \/ StopStep
    \/ StartStep
    \/ \E start \in BOOLEAN : UserRequest(start)
    \/ Idle

\* Both threads run, and the GUI thread returns to its event loop and serves it
\* in order.  Nothing obliges the user to act, the port to yield bytes or to fail.
Fairness ==
    /\ WF_vars(HandOver)
    /\ WF_vars(ReaderStops)
    /\ WF_vars(WorkerStep)
    /\ WF_vars(EventStep)
    /\ WF_vars(StopStep)
    /\ WF_vars(StartStep)

Spec == Init /\ [][Next]_vars /\ Fairness

-----------------------------------------------------------------------------
(***************************************************************************)
(* Properties.                                                             *)
(***************************************************************************)

Queued == SamplesOf(batches)

\* The numbers the chunks of one connection, and so its samples, may have.
Numbers == 1..MaxChunk

TypeOK ==
    /\ MailboxTypeOK
    /\ liveGeneration \in Nat
    /\ gui \in {"idle", "joinReader", "joinWorker", "opening"}
    /\ startAfterStop \in BOOLEAN
    /\ events \in Seq(Event)
    /\ inputGeneration \in Nat
    /\ reader \in {"none", "reading", "holding", "exited"}
    /\ held \in Seq(Chunk) /\ Len(held) <= 1
    /\ worker \in {"none", "running", "posting", "exited"}
    /\ inbox \in Seq(Chunk) /\ pending \in Seq(Row) /\ Len(pending) <= MaxBatch
    /\ unreported \in [receivedBytes : 0..CounterMax, droppedChunks : 0..CounterMax]
    /\ recorded \in SUBSET Nat /\ accepted \in SUBSET Nat /\ overwritten \in SUBSET Nat
    /\ shown \in [Counters -> Nat] /\ counted \in [Counters -> Nat]
    /\ shownRow \in Nat /\ countedRow \in Nat
    /\ reported \in Nat /\ chunks \in Nat
    /\ decoded \in SUBSET Nat /\ sampled \in SUBSET decoded /\ dropped \in SUBSET Nat
    /\ failed \in BOOLEAN

\* A batch of the live input that waits in the mailbox always has a drain on
\* its way: posted, about to be posted by the worker, or made by the stopSerial
\* that is under way.  (The flag that coalesces drains is reset in take, and
\* must never be left set when no drain will come.)
NoStrandedBatch ==
    batches # <<>> =>
        \/ \E i \in DOMAIN events : events[i] = DrainEvent(activeGeneration)
                                    /\ activeGeneration = liveGeneration
        \/ worker = "posting"
        \/ gui \in {"joinReader", "joinWorker"}

\* The worker never floods the GUI thread: at most one drain of the live input
\* is posted or about to be, however many batches arrive.
OneDrainInFlight ==
    /\ \A i, j \in DOMAIN events :
          /\ events[i] = DrainEvent(inputGeneration)
          /\ events[j] = DrainEvent(inputGeneration)
          /\ inputGeneration = liveGeneration
          => i = j
    /\ worker = "posting" =>
          \A i \in DOMAIN events : events[i] # DrainEvent(inputGeneration)

\* LineTelemetryBatchMailbox and the drains MainWindow posts: a batch has a drain
\* on its way, and a flood of batches has no more than one.
DrainsAreCoalesced == NoStrandedBatch /\ OneDrainInFlight

AtRest == gui \in {"idle", "opening"} /\ worker = "none"

\* When stopSerial has returned, nothing the reader got hold of is unaccounted
\* for.  What the mailbox accepted is recorded or was counted as overwritten; and
\* unless the worker's callback threw, each chunk was decoded or dropped by its
\* full queue, every sample decoded has been accepted, and the operator has been
\* shown how many chunks were dropped, up to the width of the counters - those of
\* the last moment, too.  (The reader is joined before the worker, the worker
\* delivers before it exits, it is joined before the last drain, and the
\* generation ends after that.)
StopAccountsForAll ==
    AtRest =>
        /\ accepted = recorded \cup overwritten
        /\ held = <<>> /\ batches = <<>>
        /\ ~failed =>
              /\ decoded \cup dropped = 1..chunks
              /\ decoded \cap dropped = {}
              /\ sampled = accepted
              /\ LET told == shown["droppedChunks"]
                 IN  /\ told <= Cardinality(dropped)
                     /\ told < Cardinality(dropped) => told >= CounterMax

\* The count of samples the mailbox discarded reaches the operator, and is the
\* number of samples that never reached the recording (up to the width of the
\* counter).
OverflowReported ==
    LET told == reported + discarded
    IN  /\ told <= Cardinality(overwritten)
        /\ told < Cardinality(overwritten) => told >= CounterMax
        /\ AtRest => discarded = 0

\* Overwriting a batch loses its samples but neither its counters nor the
\* newest row diagnostic: what the operator has been shown and what waits in
\* the mailbox add up to what the worker counted (up to the counter's width).
DiagnosticsSurvive ==
    /\ \A c \in Counters :
          LET sum == shown[c] + CountsOf(batches, c)
          IN  /\ sum <= counted[c]
              /\ sum < counted[c] => sum >= CounterMax
    /\ NewerRow(shownRow, NewestRow(batches)) = countedRow

\* LineTelemetryBatchMailbox: whatever is overwritten, the operator is told of it.
NothingUntold == OverflowReported /\ DiagnosticsSurvive

\* The recording is filled in the order of decoding, and overload sacrifices
\* the oldest waiting samples only.
Channel == INSTANCE SampleChannel WITH
    SampleNumber <- Numbers, waiting <- Queued, kept <- recorded, sacrificed <- overwritten

OldestFirst == Channel!Spec

\* A sample that waits in the mailbox does not wait for ever.
EventuallyDrained == \A n \in Numbers : (n \in Queued) ~> (n \notin Queued)

\* After a read failure or a decoder failure the input does not stay connected:
\* the posted error is served and stops it.
FailureDisconnects ==
    (gui = "idle" /\ (reader = "exited" \/ worker = "exited")) ~> (worker = "none")

\* MainWindow serves its input: what waits is drained, and a failure ends it.
InputIsServed == EventuallyDrained /\ FailureDisconnects

=============================================================================
