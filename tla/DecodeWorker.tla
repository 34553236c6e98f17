---------------------------- MODULE DecodeWorker ----------------------------
(***************************************************************************)
(* cosmo::telemetry::LineTelemetryDecodeWorker: a producer thread enqueues *)
(* byte chunks, the worker thread decodes them and delivers batches to a   *)
(* callback, and an owner thread starts and stops the worker.              *)
(*                                                                         *)
(* A section of the code that holds m_queueMutex is one step, together     *)
(* with the work on the worker's own data that follows it.  m_accepting    *)
(* is written outside that mutex, but only a section that holds the mutex  *)
(* acts on it: a write that falls inside the section of enqueueChunk has   *)
(* the effect of the same write right after it.                            *)
(***************************************************************************)
EXTENDS LineDecoder, FiniteSets

CONSTANTS
    MaxChunks,     \* m_config.maxQueuedChunks
    MaxBytes,      \* m_config.maxQueuedBytes
    MaxBatch,      \* m_config.maxBatchSamples
    Streams,       \* the byte streams a producer may present
    ChunkSizes,    \* the sizes of the chunks it cuts them into
    MaxStarts      \* bound: how often the worker is started

ASSUME ConfigAssumption == {MaxChunks, MaxBytes, MaxBatch} \subseteq Nat \ {0}
\* enqueueChunk refuses an empty chunk before anything else.
ASSUME ChunkAssumption == ChunkSizes \subseteq Nat \ {0}
ASSUME StreamAssumption == \A s \in Streams : s \in Seq({"good", "bad", "newline"})

VARIABLES
    stream,            \* the bytes the producer presents
    presented,         \* how many of them it has presented while accepted
    \* The object: the queue under m_queueMutex ...
    accepting,         \* m_accepting
    queue,             \* m_chunks
    queuedBytes,       \* m_queuedBytes
    gapBeforeNext,     \* m_gapBeforeNextChunk
    counters,          \* m_counters
    statsDirty,        \* m_statsDirty
    \* ... and what only the worker thread touches while it runs.
    decoder,           \* m_decoder
    last,              \* m_lastDelivered...: counters, malformed lines and row
    \* The threads.
    thread,            \* "none", "running" or "exited", not yet joined
    stopRequested,     \* its stop token
    owner,             \* the owner is "free", or "joining" in stop()
    starts,            \* how often the worker was started
    \* Local variables of run().
    pc,                \* where it is
    decoded,           \* decoded samples not yet in pendingSamples
    pendingSamples,
    deadline,          \* flushDeadline is set
    shouldStop,
    gapAtEnd,
    batch,             \* the batch deliver() hands to the callback
    \* History of this start.
    base,              \* bytes presented before it
    taken,             \* the last byte the worker has taken
    ingested,          \* how many bytes it has taken
    delivered,         \* the samples delivered
    told,              \* the counters delivered, summed
    failed             \* the callback threw

producerVars == <<stream, presented>>
queueVars    == <<queue, queuedBytes, gapBeforeNext, counters, statsDirty>>
lifeVars     == <<accepting, thread, stopRequested, owner, starts>>
localVars    == <<pc, decoded, pendingSamples, deadline, shouldStop, gapAtEnd, batch>>
takenVars    == <<taken, ingested>>
historyVars  == <<base, delivered, told, failed>>
vars == <<producerVars, queueVars, lifeVars, localVars, historyVars, decoder, last, takenVars>>

NoCounts == [received |-> 0, droppedChunks |-> 0, droppedBytes |-> 0]

\* The counters of a batch: those of the queue and those of the decoder.
Report(c, d) ==
    [received |-> c.received, droppedChunks |-> c.droppedChunks,
     droppedBytes |-> c.droppedBytes, malformed |-> d.malformed, row |-> d.row]

NoReport == Report(NoCounts, FreshDecoder)
NoBatch == [samples |-> <<>>, then |-> "waiting", delta |-> NoReport]

Byte(p) == [at |-> p, kind |-> stream[p]]
Bytes(p, n) == [i \in 1..n |-> Byte(p + i)]

Init ==
    /\ stream \in Streams
    /\ presented = 0
    /\ accepting = FALSE
    /\ queue = <<>> /\ queuedBytes = 0 /\ gapBeforeNext = FALSE
    /\ counters = NoCounts /\ statsDirty = FALSE
    /\ decoder = FreshDecoder /\ last = NoReport
    /\ thread = "none" /\ stopRequested = FALSE /\ owner = "free" /\ starts = 0
    /\ pc = "waiting" /\ decoded = <<>> /\ pendingSamples = <<>> /\ deadline = FALSE
    /\ shouldStop = FALSE /\ gapAtEnd = FALSE /\ batch = NoBatch
    /\ base = 0 /\ taken = 0 /\ ingested = 0
    /\ delivered = <<>> /\ told = NoReport /\ failed = FALSE

-----------------------------------------------------------------------------
(***************************************************************************)
(* enqueueChunk, on the producer's thread.                                 *)
(***************************************************************************)

BytesOf(q) == FoldLeft(LAMBDA n, c : n + Len(c.bytes), 0, q)

\* How many of the oldest chunks make room for a chunk of this size: the loop
\* stops as soon as both bounds admit it or nothing is queued.
EvictedCount(size) ==
    CHOOSE n \in 0..Len(queue) :
        LET Fits(m) == \/ m = Len(queue)
                       \/ /\ Len(queue) - m < MaxChunks
                          /\ queuedBytes - BytesOf(SubSeq(queue, 1, m)) <= MaxBytes - size
        IN  Fits(n) /\ \A m \in 0..(n - 1) : ~Fits(m)

Bug_MarkFrontForgotten(q, gap) == q

\* The front of the queue is marked when chunks before it were evicted.
MarkFront(q, gap) ==
    IF gap /\ q # <<>> THEN [q EXCEPT ![1].gap = TRUE] ELSE q

Enqueue(size) ==
    LET n       == EvictedCount(size)
        rest    == SubSeq(queue, n + 1, Len(queue))
        evicted == BytesOf(SubSeq(queue, 1, n))
        gap     == gapBeforeNext \/ (n > 0 /\ rest = <<>>)
        chunk   == [bytes |-> Bytes(presented, size), gap |-> gap]
    IN  /\ accepting
        /\ presented + size <= Len(stream)
        /\ size <= MaxBytes
        /\ presented' = presented + size
        /\ queue' = Append(MarkFront(rest, n > 0), chunk)
        /\ queuedBytes' = queuedBytes - evicted + size
        /\ gapBeforeNext' = FALSE
        /\ counters' = [counters EXCEPT !.received = @ + size,
                                        !.droppedChunks = @ + n,
                                        !.droppedBytes = @ + evicted]
        /\ statsDirty' = TRUE
        /\ UNCHANGED <<stream, lifeVars, localVars, historyVars, decoder, last, takenVars>>

Bug_RejectWakesNobody(size) ==
    /\ accepting
    /\ presented + size <= Len(stream)
    /\ size > MaxBytes
    /\ presented' = presented + size
    /\ counters' = [counters EXCEPT !.received = @ + size,
                                    !.droppedChunks = @ + 1,
                                    !.droppedBytes = @ + size]
    /\ gapBeforeNext' = TRUE
    /\ UNCHANGED <<stream, queue, queuedBytes, statsDirty, lifeVars, localVars, historyVars,
                   decoder, last, takenVars>>

\* A chunk larger than the whole queue may hold is dropped on the spot.
RejectOversized(size) ==
    /\ accepting
    /\ presented + size <= Len(stream)
    /\ size > MaxBytes
    /\ presented' = presented + size
    /\ counters' = [counters EXCEPT !.received = @ + size,
                                    !.droppedChunks = @ + 1,
                                    !.droppedBytes = @ + size]
    /\ gapBeforeNext' = TRUE
    /\ statsDirty' = TRUE
    /\ UNCHANGED <<stream, queue, queuedBytes, lifeVars, localVars, historyVars,
                   decoder, last, takenVars>>

-----------------------------------------------------------------------------
(***************************************************************************)
(* run, on the worker thread.                                              *)
(***************************************************************************)

Ready == stopRequested \/ queue # <<>> \/ statsDirty

\* The section under the mutex, then the decoding of the chunk it took.  The
\* wait ends when there is work or, if a deadline is set, when it has passed.
TakeWork ==
    LET chunk == IF queue = <<>> THEN [bytes |-> <<>>, gap |-> FALSE] ELSE Head(queue)
        entry == IF chunk.gap THEN NotifyDataGap(decoder) ELSE decoder
        exit  == Ingest(entry, chunk.bytes)
    IN  /\ thread = "running" /\ pc = "waiting"
        /\ Ready \/ deadline
        /\ statsDirty' = FALSE
        /\ queue' = IF queue = <<>> THEN <<>> ELSE Tail(queue)
        /\ queuedBytes' = queuedBytes - Len(chunk.bytes)
        /\ taken' = IF queue = <<>> THEN taken ELSE chunk.bytes[Len(chunk.bytes)].at
        /\ ingested' = ingested + Len(chunk.bytes)
        /\ shouldStop' = (queue = <<>> /\ stopRequested)
        /\ gapAtEnd' = (shouldStop' /\ gapBeforeNext)
        /\ gapBeforeNext' = (gapBeforeNext /\ ~shouldStop')
        /\ deadline' = (deadline \/ statsDirty \/ queue # <<>>)
        /\ decoder' = [exit EXCEPT !.samples = <<>>]
        /\ decoded' = exit.samples
        /\ pc' = IF Ready THEN "emitting" ELSE "flushing"
        /\ UNCHANGED <<producerVars, counters, lifeVars, historyVars,
                       pendingSamples, batch, last>>

\* deliver(samples) up to the callback: the counters are read under the mutex,
\* and a batch that would say nothing is not delivered.
Deliver(samples, then) ==
    LET now == Report(counters, decoder)
    IN  /\ batch' = [samples |-> samples, then |-> then,
                     delta   |-> [f \in DOMAIN now |-> now[f] - last[f]]]
        /\ last' = now
        /\ pc' = IF samples = <<>> /\ now = last THEN then ELSE "delivering"

Fill == MaxBatch - Len(pendingSamples)

\* Samples fill the pending batch, which is delivered each time it is full.
EmitFull ==
    /\ thread = "running" /\ pc = "emitting"
    /\ Len(decoded) >= Fill
    /\ Deliver(pendingSamples \o SubSeq(decoded, 1, Fill), "emitting")
    /\ decoded' = SubSeq(decoded, Fill + 1, Len(decoded))
    /\ pendingSamples' = <<>>
    /\ deadline' = FALSE
    /\ UNCHANGED <<producerVars, queueVars, lifeVars, historyVars, shouldStop,
                   gapAtEnd, decoder, takenVars>>

\* What is left waits for the deadline, which may already have passed.
EmitRest ==
    /\ thread = "running" /\ pc = "emitting"
    /\ Len(decoded) < Fill
    /\ pendingSamples' = pendingSamples \o decoded
    /\ decoded' = <<>>
    /\ deadline' = (deadline \/ decoded # <<>>)
    /\ \/ pc' = IF shouldStop THEN "finishing" ELSE "waiting"
       \/ deadline' /\ pc' = "flushing"
    /\ UNCHANGED <<producerVars, queueVars, lifeVars, historyVars, shouldStop,
                   gapAtEnd, batch, decoder, last, takenVars>>

\* The deadline has passed.
Flush ==
    /\ thread = "running" /\ pc = "flushing"
    /\ Deliver(pendingSamples, IF shouldStop THEN "finishing" ELSE "waiting")
    /\ pendingSamples' = <<>>
    /\ deadline' = FALSE
    /\ UNCHANGED <<producerVars, queueVars, lifeVars, historyVars, decoded, shouldStop,
                   gapAtEnd, decoder, takenVars>>

\* The stop: the row still open is decoded, unless a gap follows it.
FinishStream ==
    LET end == Finish(IF gapAtEnd THEN NotifyDataGap(decoder) ELSE decoder)
    IN  /\ thread = "running" /\ pc = "finishing"
        /\ decoder' = [end EXCEPT !.samples = <<>>]
        /\ pendingSamples' = pendingSamples \o end.samples
        /\ pc' = "lastFlush"
        /\ UNCHANGED <<producerVars, queueVars, lifeVars, historyVars, decoded, deadline,
                       shouldStop, gapAtEnd, batch, last, takenVars>>

Bug_NoLastFlush ==
    /\ thread = "running" /\ pc = "lastFlush"
    /\ pc' = "returned"
    /\ pendingSamples' = <<>>
    /\ UNCHANGED <<producerVars, queueVars, lifeVars, historyVars, decoded, deadline,
                   shouldStop, gapAtEnd, batch, decoder, last, takenVars>>

LastFlush ==
    /\ thread = "running" /\ pc = "lastFlush"
    /\ Deliver(pendingSamples, "returned")
    /\ pendingSamples' = <<>>
    /\ UNCHANGED <<producerVars, queueVars, lifeVars, historyVars, decoded, deadline,
                   shouldStop, gapAtEnd, decoder, takenVars>>

\* The callback took the batch.  It may have called stop() on its own thread,
\* which requests the stop and does not join.
CallbackReturns(callsStop) ==
    /\ thread = "running" /\ pc = "delivering"
    /\ pc' = batch.then
    /\ delivered' = delivered \o batch.samples
    /\ told' = [f \in DOMAIN told |-> told[f] + batch.delta[f]]
    /\ accepting' = (accepting /\ ~callsStop)
    /\ stopRequested' = (stopRequested \/ callsStop)
    /\ UNCHANGED <<producerVars, queueVars, thread, owner, starts, decoded, pendingSamples,
                   deadline, shouldStop, gapAtEnd, batch, base, failed, decoder, last, takenVars>>

\* The callback threw: the worker stops accepting, reports it, and run returns.
CallbackThrows ==
    /\ thread = "running" /\ pc = "delivering"
    /\ accepting' = FALSE
    /\ failed' = TRUE
    /\ pc' = "returned"
    /\ UNCHANGED <<producerVars, queueVars, thread, stopRequested, owner, starts, decoded,
                   pendingSamples, deadline, shouldStop, gapAtEnd, batch, base, delivered,
                   told, decoder, last, takenVars>>

ThreadExits ==
    /\ thread = "running" /\ pc = "returned"
    /\ thread' = "exited"
    /\ UNCHANGED <<producerVars, queueVars, accepting, stopRequested, owner, starts,
                   localVars, historyVars, decoder, last, takenVars>>

-----------------------------------------------------------------------------
(***************************************************************************)
(* start and stop, on the owner's thread.  They are not called             *)
(* concurrently with one another, which their header forbids.              *)
(***************************************************************************)

\* start() begins afresh, with a new stop token and new locals of run().
Reset ==
    /\ starts' = starts + 1
    /\ decoder' = FreshDecoder
    /\ last' = NoReport
    /\ queue' = <<>> /\ queuedBytes' = 0 /\ gapBeforeNext' = FALSE
    /\ counters' = NoCounts /\ statsDirty' = FALSE
    /\ stopRequested' = FALSE
    /\ pc' = "waiting" /\ decoded' = <<>> /\ pendingSamples' = <<>> /\ deadline' = FALSE
    /\ shouldStop' = FALSE /\ gapAtEnd' = FALSE /\ batch' = NoBatch
    /\ base' = presented /\ taken' = presented /\ ingested' = 0
    /\ delivered' = <<>> /\ told' = NoReport /\ failed' = FALSE
    /\ UNCHANGED <<producerVars, owner>>

\* A worker whose thread ended by itself is joined first; that join waits, so
\* it is a guard.  A worker that still accepts is left as it is.
MayStart ==
    /\ owner = "free" /\ thread \in {"none", "exited"} /\ ~accepting
    /\ starts < MaxStarts

Start ==
    /\ MayStart
    /\ Reset
    /\ thread' = "running"
    /\ accepting' = TRUE

\* The thread cannot be created.
StartFails ==
    /\ MayStart
    /\ Reset
    /\ thread' = "none"
    /\ accepting' = FALSE

\* stop(): no more input, the stop token is set, and the owner joins.
Stop ==
    /\ owner = "free" /\ thread # "none"
    /\ accepting' = FALSE
    /\ stopRequested' = TRUE
    /\ owner' = "joining"
    /\ UNCHANGED <<producerVars, queueVars, thread, starts, localVars, historyVars,
                   decoder, last, takenVars>>

StopReturns ==
    /\ owner = "joining" /\ thread = "exited"
    /\ owner' = "free"
    /\ thread' = "none"
    /\ UNCHANGED <<producerVars, queueVars, accepting, stopRequested, starts, localVars,
                   historyVars, decoder, last, takenVars>>

-----------------------------------------------------------------------------

ProducerStep == \E size \in ChunkSizes : Enqueue(size) \/ RejectOversized(size)

RunStep ==
    \/ TakeWork
    \/ EmitFull
    \/ EmitRest
    \/ Flush
    \/ FinishStream
    \/ LastFlush
    \/ CallbackThrows
    \/ ThreadExits
    \/ \E callsStop \in BOOLEAN : CallbackReturns(callsStop)

\* The owner does nothing more and the worker is stopped.
Idle ==
    /\ owner = "free" /\ ~accepting /\ thread # "running"
    /\ UNCHANGED vars

Next ==
    \/ ProducerStep
    \/ RunStep
    \/ Start
    \/ StartFails
    \/ Stop
    \/ StopReturns
    \/ Idle

\* The worker thread runs and its deadline passes; a join returns once the
\* thread has exited.  Nothing obliges the producer or the owner to act.
Fairness == WF_vars(RunStep) /\ WF_vars(StopReturns)

Spec == Init /\ [][Next]_vars /\ Fairness

-----------------------------------------------------------------------------
(***************************************************************************)
(* Properties.                                                             *)
(***************************************************************************)

TypeOK ==
    /\ presented \in 0..Len(stream)
    /\ accepting \in BOOLEAN /\ stopRequested \in BOOLEAN
    /\ \A i \in DOMAIN queue : queue[i].gap \in BOOLEAN /\ Len(queue[i].bytes) \in ChunkSizes
    /\ queuedBytes \in 0..MaxBytes
    /\ gapBeforeNext \in BOOLEAN /\ statsDirty \in BOOLEAN
    /\ thread \in {"none", "running", "exited"} /\ owner \in {"free", "joining"}
    /\ pc \in {"waiting", "emitting", "flushing", "delivering", "finishing",
               "lastFlush", "returned"}
    /\ taken \in base..presented

\* However the chunks are cut and evicted, the queue stays within both bounds,
\* the byte count that decides evictions is the true one, and no batch exceeds
\* the size the mailbox relies on, the last one with its unterminated row
\* included.
WithinBounds ==
    /\ Len(queue) <= MaxChunks
    /\ queuedBytes = BytesOf(queue) /\ queuedBytes <= MaxBytes
    /\ pc = "delivering" => Len(batch.samples) <= MaxBatch

\* Every byte presented while the worker accepts is decoded, counted as dropped
\* or still queued, and no byte is two of these.
EveryByteAccounted ==
    /\ counters.received = presented - base
    /\ counters.received = ingested + counters.droppedBytes + queuedBytes

\* Where bytes are missing between what the worker has taken, the chunks that
\* wait and the next one to come, and only there, a gap is marked.
LastQueued == IF queue = <<>> THEN taken ELSE
    LET c == queue[Len(queue)].bytes IN c[Len(c)].at

HolesAreMarked ==
    thread = "running" /\ pc # "returned" =>
        /\ \A i \in DOMAIN queue :
              LET before == IF i = 1 THEN taken
                            ELSE queue[i - 1].bytes[Len(queue[i - 1].bytes)].at
              IN  queue[i].gap <=> queue[i].bytes[1].at # before + 1
        /\ (gapBeforeNext \/ gapAtEnd) <=> LastQueued # presented

\* The chunk queue of LineTelemetryDecodeWorker through any overload.
QueueKept == WithinBounds /\ EveryByteAccounted /\ HolesAreMarked

\* A sample is built from one whole line of the input: consecutive bytes from
\* the start of a line, or of the connection, up to a newline, or up to the last
\* byte presented before the stop.  Fragments separated by lost bytes are never
\* spliced into a row.
WholeLine(places) ==
    LET first == places[1]
        end   == places[Len(places)]
    IN  /\ \A i \in DOMAIN places : places[i] = first + i - 1
        /\ first = base + 1 \/ stream[first - 1] = "newline"
        /\ IF end < Len(stream) /\ stream[end + 1] = "newline" /\ end < presented
           THEN TRUE
           ELSE end = presented /\ ~accepting

\* Samples are delivered in stream order and none twice.
NeverSpliced ==
    /\ \A i \in DOMAIN delivered : WholeLine(delivered[i])
    /\ \A i \in 1..(Len(delivered) - 1) :
          delivered[i][Len(delivered[i])] < delivered[i + 1][1]

\* A worker that ends without a failed callback has decoded all it accepted and
\* reported all it counted.
StopDrains ==
    pc = "returned" /\ ~failed =>
        /\ queue = <<>> /\ decoded = <<>> /\ pendingSamples = <<>>
        /\ told = Report(counters, decoder)

\* stop() returns.
StopTerminates == owner = "joining" ~> owner = "free"

\* What was counted is reported in time, even if no row ever completes.
CountersReported ==
    (thread = "running" /\ told.received # counters.received)
        ~> (told.received = counters.received \/ failed)

\* LineTelemetryDecodeWorker answers: a stop() returns, and losses are told.
WorkerAnswers == StopTerminates /\ CountersReported

=============================================================================
