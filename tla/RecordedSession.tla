-------------------------- MODULE RecordedSession --------------------------
(***************************************************************************)
(* cosmo::telemetry::TelemetrySession: a recording of AltOS packets as     *)
(* live input.  The reader thread (SerialFramerWorker) takes packets out   *)
(* of the file (RecordedComms, AltosFramer) and puts them into a bounded   *)
(* queue; the parser thread (ParserWorker) turns them into samples.  When  *)
(* its input ends, the reader itself stops the parser and closes the       *)
(* accounts (finish()); the owner starts and stops the session.            *)
(*                                                                         *)
(* A character of a recording is a record: char is what the framer sees of *)
(* it, and packet is what the packet says whose payload it belongs to:     *)
(* intact (checksum and radio status are right), its type, its device, and *)
(* at, the time it was sent, in ticks and without bound.                   *)
(***************************************************************************)
EXTENDS PacketFramer, FiniteSets, FiniteSetsExt

CONSTANTS
    Recordings,   \* the files there may be, a set of sequences of characters
    Capacity,     \* packets the queue holds
    Period,       \* ticks after which the clock of a packet wraps
    MaxElapsed,   \* the largest elapsed time a sample can carry
    MaxKinds,     \* kinds of message counted apart, 8
    MaxStarts     \* bound: calls of start()

ASSUME SessionAssumption ==
    /\ Capacity \in Nat \ {0} /\ Period \in Nat \ {0} /\ Period % 2 = 0
    /\ MaxElapsed \in Nat /\ MaxKinds \in Nat \ {0} /\ MaxStarts \in Nat

Packets == [intact : BOOLEAN, type : {"imu", "other"}, device : Nat, at : Nat]
Characters == [char : STRING, packet : Packets]

ASSUME RecordingAssumption == Recordings \subseteq Seq(Characters)

VARIABLES
    file,        \* the recording
    \* RecordedComms
    open, pos,   \* m_open, characters read
    \* The session
    active, stopping,
    reportedBytes,
    starts,      \* calls of start() so far: which session this is
    \* AltosFramer
    pending,     \* m_pending
    received,    \* m_received
    \* FrameQueue
    queue, dropped, inputBytes, outputBytes,
    \* Diagnostics
    counts,
    \* SerialFramerWorker and ParserWorker: m_running and where the thread is
    readerRunning, reader,
    parserRunning, parser,
    frame,       \* the packet the reader has and has not put yet
    taken,       \* the packet the parser has got
    clock,       \* first, previous, elapsed and serial of ParserWorker::m_process
    \* The owner's thread: where it is, and in which call
    owner, call,
    \* What the owner's callbacks were told since the last start()
    samples, handedBytes, lost, completions,
    \* History
    accepted,    \* packets put into the queue in this session
    parsed,      \* those the parser took out
    errors,      \* framing errors and failed callbacks
    quiet        \* stop() has returned, and start() has not been called since

commsVars   == <<file, open, pos>>
sessionVars == <<active, stopping, starts>>
framerVars  == <<pending, received, frame>>
queueVars   == <<queue, dropped, inputBytes, outputBytes, accepted, parsed>>
diagVars    == <<counts, errors>>
readerVars  == <<readerRunning, reader>>
parserVars  == <<parserRunning, parser, taken, clock>>
ownerVars   == <<owner, call, quiet>>
toldVars    == <<samples, handedBytes, lost, completions>>
dataVars    == <<commsVars, reportedBytes, framerVars, queueVars, diagVars>>
vars == <<dataVars, sessionVars, readerVars, parserVars, ownerVars, toldVars>>

NoFrame == [size |-> 0]
Nothing == [told |-> FALSE, chunks |-> 0, bytes |-> 0]
Messages == {"resync", "length", "cut", "end", "read", "packet", "device", "order",
             "elapsed", "delivery", "other"}
NoCounts == [m \in Messages |-> 0]
FreshClock == [first |-> TRUE, previous |-> 0, elapsed |-> 0, serial |-> 0]

Init ==
    /\ file \in Recordings /\ open = FALSE /\ pos = 0
    /\ active = FALSE /\ stopping = FALSE /\ reportedBytes = 0 /\ starts = 0
    /\ pending = <<>> /\ received = 0 /\ frame = NoFrame
    /\ queue = <<>> /\ dropped = 0 /\ inputBytes = 0 /\ outputBytes = 0
    /\ accepted = {} /\ parsed = {}
    /\ counts = NoCounts /\ errors = 0
    /\ readerRunning = FALSE /\ reader = "none"
    /\ parserRunning = FALSE /\ parser = "none" /\ taken = NoFrame /\ clock = FreshClock
    /\ owner = "free" /\ call = "none" /\ quiet = FALSE
    /\ samples = <<>> /\ handedBytes = 0 /\ lost = Nothing /\ completions = 0

-----------------------------------------------------------------------------
(***************************************************************************)
(* The diagnostics and the queue.                                          *)
(***************************************************************************)

\* Diagnostics::LogLine: when there are enough kinds of message, further ones
\* are counted together.
LogLine(m) ==
    LET kinds == {k \in Messages : counts[k] > 0}
        as    == IF Cardinality(kinds) >= MaxKinds /\ m \notin kinds THEN "other" ELSE m
    IN  counts' = [counts EXCEPT ![as] = @ + 1]

Bug_PutCountsOnlyWhatFits(f) ==
    LET full == Len(queue) >= Capacity
    IN  /\ queue' = Append(IF full THEN Tail(queue) ELSE queue, f)
        /\ dropped' = dropped + (IF full THEN 1 ELSE 0)
        /\ inputBytes' = inputBytes + (IF full THEN 0 ELSE f.size)
        /\ accepted' = accepted \cup {f}
        /\ UNCHANGED <<outputBytes, parsed>>

\* FrameQueue::put, BlockingQueue::push: a full queue gives up its oldest packet.
Put(f) ==
    LET full == Len(queue) >= Capacity
    IN  /\ queue' = Append(IF full THEN Tail(queue) ELSE queue, f)
        /\ dropped' = dropped + (IF full THEN 1 ELSE 0)
        /\ inputBytes' = inputBytes + f.size
        /\ accepted' = accepted \cup {f}
        /\ UNCHANGED <<outputBytes, parsed>>

\* FrameQueue::get, BlockingQueue::pop_for, of a queue that holds something.
Get ==
    /\ queue # <<>>
    /\ taken' = Head(queue)
    /\ queue' = Tail(queue)
    /\ outputBytes' = outputBytes + Head(queue).size
    /\ parsed' = parsed \cup {Head(queue)}
    /\ UNCHANGED <<dropped, inputBytes, accepted>>

-----------------------------------------------------------------------------
(***************************************************************************)
(* The reader thread: SerialFramerWorker::m_process, which calls           *)
(* AltosFramer::read_frame, which calls RecordedComms::read.               *)
(***************************************************************************)

\* The loop condition of m_process.
ReaderLoop ==
    /\ reader = "loop"
    /\ reader' = IF readerRunning THEN "framing" ELSE "ending"
    /\ UNCHANGED <<dataVars, sessionVars, readerRunning, parserVars, ownerVars, toldVars>>

\* The loop condition of read_frame; a framer that is cancelled returns no frame
\* and keeps what it has read.
FramerLoop ==
    /\ reader = "framing"
    /\ reader' = IF readerRunning THEN "reading" ELSE "ending"
    /\ UNCHANGED <<dataVars, sessionVars, readerRunning, parserVars, ownerVars, toldVars>>

\* A character is read.  The wait for the next line is bounded, so it may be
\* read at any time.
ReadChar ==
    /\ reader = "reading" /\ open /\ pos < Len(file)
    /\ LET c   == file[pos + 1]
           did == FrameChar(pending, c)
       IN  /\ pos' = pos + 1
           /\ received' = received + 1
           /\ pending' = did.pending
           /\ CASE did.answer = "none" ->
                     reader' = "framing" /\ UNCHANGED <<frame, diagVars>>
               [] did.answer = "frame" ->
                     /\ frame' = [size |-> Len(pending) + 1, packet |-> c.packet,
                                  at |-> pos', session |-> starts]
                     /\ reader' = "putting"
                     /\ UNCHANGED diagVars
               [] OTHER ->
                     /\ LogLine(did.answer) /\ errors' = errors + 1
                     /\ reader' = "loop"
                     /\ UNCHANGED frame
    /\ UNCHANGED <<file, open, sessionVars, reportedBytes, queueVars, readerRunning,
                   parserVars, ownerVars, toldVars>>

Bug_ReadEndStaysOpen ==
    /\ reader = "reading" /\ (open => pos = Len(file))
    /\ reader' = IF open THEN "loop" ELSE "ending"
    /\ UNCHANGED <<dataVars, sessionVars, readerRunning, parserVars, ownerVars, toldVars>>

\* The file is at its end, or was closed: read() returns 0, now and ever after,
\* and a packet that was begun is an error.
ReadEnd ==
    /\ reader = "reading" /\ (open => pos = Len(file))
    /\ open' = FALSE
    /\ IF pending = <<>> THEN UNCHANGED diagVars
       ELSE LogLine("end") /\ errors' = errors + 1
    /\ pending' = <<>>
    /\ reader' = "ending"
    /\ UNCHANGED <<file, pos, received, frame, sessionVars, reportedBytes, queueVars,
                   readerRunning, parserVars, ownerVars, toldVars>>

\* The device fails: read() returns -1 and the framer closes the input.
ReadFails ==
    /\ reader = "reading" /\ open
    /\ open' = FALSE
    /\ LogLine("read") /\ errors' = errors + 1
    /\ reader' = "ending"
    /\ UNCHANGED <<file, pos, framerVars, sessionVars, reportedBytes, queueVars,
                   readerRunning, parserVars, ownerVars, toldVars>>

PutFrame ==
    /\ reader = "putting"
    /\ Put(frame)
    /\ frame' = NoFrame
    /\ reader' = "loop"
    /\ UNCHANGED <<commsVars, sessionVars, reportedBytes, pending, received, diagVars,
                   readerRunning, parserVars, ownerVars, toldVars>>

Bug_FinishInactiveFirst ==
    /\ reader = "ending"
    /\ readerRunning' = FALSE
    /\ parserRunning' = FALSE
    /\ active' = FALSE
    /\ reader' = "joining"
    /\ UNCHANGED <<dataVars, stopping, starts, parser, taken, clock, ownerVars, toldVars>>

\* After the loop: finish() asks the parser to stop ...
Finish ==
    /\ reader = "ending"
    /\ readerRunning' = FALSE
    /\ parserRunning' = FALSE
    /\ reader' = "joining"
    /\ UNCHANGED <<dataVars, sessionVars, parser, taken, clock, ownerVars, toldVars>>

\* ... joins it ...
FinishJoins ==
    /\ reader = "joining" /\ parser = "exited"
    /\ parser' = "none"
    /\ reader' = "summing"
    /\ UNCHANGED <<dataVars, sessionVars, readerRunning, parserRunning, taken, clock,
                   ownerVars, toldVars>>

\* ... hands over the last batch, which carries the totals (the callback may
\* throw, which is reported and changes nothing) ...
FinishSums ==
    /\ reader = "summing"
    /\ handedBytes' = handedBytes + (received - reportedBytes)
    /\ lost' = [told |-> TRUE, chunks |-> dropped, bytes |-> inputBytes - outputBytes]
    /\ reader' = "telling"
    /\ UNCHANGED <<dataVars, sessionVars, readerRunning, parserVars, ownerVars, samples,
                   completions>>

\* ... tells the diagnostics, and is no longer active ...
FinishTells ==
    /\ reader = "telling"
    /\ active' = FALSE
    /\ reader' = "completing"
    /\ UNCHANGED <<dataVars, stopping, starts, readerRunning, parserVars, ownerVars,
                   toldVars>>

\* ... and calls completed(), which may throw, too.
FinishCompletes ==
    /\ reader = "completing"
    /\ completions' = completions + 1
    /\ reader' = "exited"
    /\ UNCHANGED <<dataVars, sessionVars, readerRunning, parserVars, ownerVars, samples,
                   handedBytes, lost>>

ReaderStep ==
    \/ ReaderLoop \/ FramerLoop
    \/ ReadChar \/ ReadEnd \/ ReadFails
    \/ PutFrame
    \/ Finish \/ FinishJoins \/ FinishSums \/ FinishTells \/ FinishCompletes

-----------------------------------------------------------------------------
(***************************************************************************)
(* The parser thread: ParserWorker::m_process.                             *)
(***************************************************************************)

\* The clock of a packet has 16 bits.
Counter(packet) == packet.at % Period

\* The time since the last accepted packet, modulo the period.
Delta(packet) ==
    LET ticks == Counter(packet) - clock.previous
    IN  IF clock.first THEN 0 ELSE IF ticks < 0 THEN ticks + Period ELSE ticks

\* FrameDecoderVault finds a decoder, and the packet is of the one type that is
\* used.
Supported(packet) == packet.type = "imu"

\* Checksum and radio status are right.
Intact(packet) == packet.intact

Bug_VerdictAcceptsHalf(packet) ==
    IF ~(Supported(packet) /\ Intact(packet)) THEN "packet"
    ELSE IF ~clock.first /\ clock.serial # packet.device THEN "device"
    ELSE IF ~clock.first /\ Delta(packet) > Period \div 2 THEN "order"
    ELSE IF clock.elapsed > MaxElapsed - Delta(packet) THEN "elapsed"
    ELSE "sample"

\* What becomes of a packet: it must decode, then device, order and range must be
\* right.
Verdict(packet) ==
    IF ~(Supported(packet) /\ Intact(packet)) THEN "packet"
    ELSE IF ~clock.first /\ clock.serial # packet.device THEN "device"
    ELSE IF ~clock.first /\ Delta(packet) >= Period \div 2 THEN "order"
    ELSE IF clock.elapsed > MaxElapsed - Delta(packet) THEN "elapsed"
    ELSE "sample"

GetFrame ==
    /\ parser = "getting"
    /\ Get
    /\ parser' = "parsing"
    /\ UNCHANGED <<commsVars, sessionVars, reportedBytes, framerVars, diagVars, readerVars,
                   parserRunning, clock, ownerVars, toldVars>>

\* get() waited in vain.
GetNothing ==
    /\ parser = "getting" /\ queue = <<>>
    /\ parser' = "idle"
    /\ UNCHANGED <<dataVars, sessionVars, readerVars, parserRunning, taken, clock,
                   ownerVars, toldVars>>

\* Only now m_running is looked at.
ParserIdle ==
    /\ parser = "idle"
    /\ parser' = IF parserRunning THEN "getting" ELSE "exited"
    /\ UNCHANGED <<dataVars, sessionVars, readerVars, parserRunning, taken, clock,
                   ownerVars, toldVars>>

\* A packet that is refused is counted and changes nothing else.
Refuse ==
    /\ parser = "parsing" /\ Verdict(taken.packet) # "sample"
    /\ LogLine(Verdict(taken.packet))
    /\ parser' = "getting" /\ taken' = NoFrame
    /\ UNCHANGED <<commsVars, sessionVars, reportedBytes, framerVars, queueVars, errors,
                   readerVars, parserRunning, clock, ownerVars, toldVars>>

Accept ==
    /\ parser = "parsing" /\ Verdict(taken.packet) = "sample"
    /\ clock' = [first |-> FALSE, previous |-> Counter(taken.packet),
                 elapsed |-> clock.elapsed + Delta(taken.packet),
                 serial |-> taken.packet.device]
    /\ parser' = "delivering"
    /\ UNCHANGED <<dataVars, sessionVars, readerVars, parserRunning, taken, ownerVars,
                   toldVars>>

\* The batch of one sample, with the characters read since the last one, is
\* handed to the owner, who may throw.
Deliver ==
    /\ parser = "delivering"
    /\ samples' = Append(samples, [packet |-> taken.packet, at |-> taken.at,
                                   session |-> taken.session, elapsed |-> clock.elapsed])
    /\ handedBytes' = handedBytes + (received - reportedBytes)
    /\ reportedBytes' = received
    /\ \/ UNCHANGED diagVars
       \/ LogLine("delivery") /\ errors' = errors + 1
    /\ parser' = "getting" /\ taken' = NoFrame
    /\ UNCHANGED <<commsVars, sessionVars, framerVars, queueVars, readerVars, parserRunning,
                   clock, ownerVars, lost, completions>>

ParserStep == GetFrame \/ GetNothing \/ ParserIdle \/ Refuse \/ Accept \/ Deliver

-----------------------------------------------------------------------------
(***************************************************************************)
(* The owner: start() and stop().                                          *)
(***************************************************************************)

\* stop() cancels the reader and closes its input; then it joins it.
BeginStop ==
    /\ stopping' = TRUE
    /\ readerRunning' = FALSE
    /\ open' = (open /\ reader = "none")
    /\ owner' = "joinReader"

\* start() of a session that is not running stops what is left of the last one.
StartCalled ==
    /\ owner = "free" /\ ~active /\ starts < MaxStarts
    /\ BeginStop
    /\ call' = "start" /\ quiet' = FALSE
    /\ UNCHANGED <<file, pos, active, starts, reportedBytes, framerVars, queueVars,
                   diagVars, reader, parserVars, toldVars>>

StopCalled ==
    /\ owner = "free"
    /\ BeginStop
    /\ call' = "stop"
    /\ UNCHANGED <<file, pos, active, starts, reportedBytes, framerVars, queueVars,
                   diagVars, reader, parserVars, quiet, toldVars>>

\* RecordedComms::close
CloseInput == open' = FALSE

Bug_JoinReaderWithoutWaiting ==
    /\ owner = "joinReader"
    /\ CloseInput
    /\ parserRunning' = FALSE
    /\ owner' = "joinParser"
    /\ UNCHANGED <<file, pos, sessionVars, reportedBytes, framerVars, queueVars, diagVars,
                   readerVars, parser, taken, clock, call, quiet, toldVars>>

\* The reader is joined, the input closed, and the parser asked to stop.
JoinReader ==
    /\ owner = "joinReader" /\ reader \in {"none", "exited"}
    /\ reader' = "none"
    /\ CloseInput
    /\ parserRunning' = FALSE
    /\ owner' = "joinParser"
    /\ UNCHANGED <<file, pos, sessionVars, reportedBytes, framerVars, queueVars, diagVars,
                   readerRunning, parser, taken, clock, call, quiet, toldVars>>

\* The parser is joined, unless the reader has done so; stop() returns, to its
\* caller or to start().
JoinParser ==
    /\ owner = "joinParser" /\ parser \in {"none", "exited"}
    /\ parser' = "none"
    /\ active' = FALSE
    /\ owner' = IF call = "start" THEN "opening" ELSE "free"
    /\ call' = IF call = "start" THEN call ELSE "none"
    /\ quiet' = (call = "stop")
    /\ UNCHANGED <<dataVars, stopping, starts, readerVars, parserRunning, taken, clock,
                   toldVars>>

\* A new FrameQueue.
FreshQueue ==
    /\ queue' = <<>> /\ dropped' = 0 /\ inputBytes' = 0 /\ outputBytes' = 0
    /\ accepted' = {} /\ parsed' = {}

NothingTold == samples' = <<>> /\ handedBytes' = 0 /\ lost' = Nothing /\ completions' = 0

\* start(), after stop().
Reset ==
    /\ stopping' = FALSE
    /\ reportedBytes' = 0
    /\ starts' = starts + 1
    /\ NothingTold

\* The input cannot be opened.
OpenFails ==
    /\ owner = "opening"
    /\ Reset
    /\ owner' = "free" /\ call' = "none"
    /\ UNCHANGED <<commsVars, active, framerVars, queueVars, diagVars, readerVars,
                   parserVars, quiet>>

\* RecordedComms::open
OpenInput == open' = TRUE /\ pos' = 0

\* The recording is rewound, and queue, diagnostics, framer, parser and reader
\* are made anew; the parser's thread starts first, if it can be created.
Open ==
    /\ owner = "opening"
    /\ Reset
    /\ OpenInput
    /\ FreshQueue
    /\ counts' = NoCounts /\ errors' = 0
    /\ pending' = <<>> /\ received' = 0 /\ frame' = NoFrame
    /\ active' = TRUE
    /\ parser' \in {"getting", "none"} /\ parserRunning' = TRUE
    /\ taken' = NoFrame /\ clock' = FreshClock
    /\ owner' = "launching"
    /\ UNCHANGED <<file, readerVars, call, quiet>>

\* The reader's thread starts ...
Launch ==
    /\ owner = "launching" /\ parser # "none"
    /\ readerRunning' = TRUE /\ reader' = "loop"
    /\ owner' = "free" /\ call' = "none"
    /\ UNCHANGED <<dataVars, sessionVars, parserVars, quiet, toldVars>>

\* ... or one of the threads cannot be created, and start() stops the session.
LaunchFails ==
    /\ owner = "launching"
    /\ BeginStop
    /\ call' = "failed"
    /\ UNCHANGED <<file, pos, active, starts, reportedBytes, framerVars, queueVars,
                   diagVars, reader, parserVars, quiet, toldVars>>

OwnerGoesOn == JoinReader \/ JoinParser \/ OpenFails \/ Open \/ Launch \/ LaunchFails

-----------------------------------------------------------------------------

Next ==
    \/ ReaderStep
    \/ ParserStep
    \/ StartCalled \/ StopCalled
    \/ OwnerGoesOn

\* The threads run, waits are bounded, the owner's callbacks return or throw and
\* start() and stop() go on.  Nothing obliges the owner to call them.
Fairness == WF_vars(ReaderStep) /\ WF_vars(ParserStep) /\ WF_vars(OwnerGoesOn)

Spec == Init /\ [][Next]_vars /\ Fairness

-----------------------------------------------------------------------------

Frames == [size : Nat, packet : Packets, at : Nat, session : Nat]

TypeOK ==
    /\ file \in Recordings /\ open \in BOOLEAN /\ pos \in 0 .. Len(file)
    /\ active \in BOOLEAN /\ stopping \in BOOLEAN /\ starts \in 0 .. MaxStarts
    /\ reportedBytes \in 0 .. received /\ received \in 0 .. pos
    /\ frame \in Frames \cup {NoFrame} /\ taken \in Frames \cup {NoFrame}
    /\ queue \in Seq(Frames) /\ Len(queue) <= Capacity
    /\ dropped \in Nat /\ inputBytes \in Nat /\ outputBytes \in 0 .. inputBytes
    /\ counts \in [Messages -> Nat] /\ errors \in Nat
    /\ readerRunning \in BOOLEAN /\ parserRunning \in BOOLEAN
    /\ reader \in {"none", "loop", "framing", "reading", "putting", "ending", "joining",
                   "summing", "telling", "completing", "exited"}
    /\ parser \in {"none", "getting", "idle", "parsing", "delivering", "exited"}
    /\ clock \in [first : BOOLEAN, previous : 0 .. Period - 1, elapsed : 0 .. MaxElapsed,
                  serial : Nat]
    /\ owner \in {"free", "joinReader", "joinParser", "opening", "launching"}
    /\ call \in {"none", "start", "stop", "failed"} /\ quiet \in BOOLEAN
    /\ handedBytes \in Nat /\ completions \in 0 .. 1
    /\ lost \in [told : BOOLEAN, chunks : Nat, bytes : Nat]
    /\ accepted \subseteq Frames /\ parsed \subseteq accepted

\* TelemetrySession::finish: the batches of a session together report every
\* character read, each once, however the two threads share the count.
BytesTold == lost.told => handedBytes = received

\* The totals of the last batch tell of every accepted packet no sample was made
\* from: its bytes are those of the packets the parser never got, its number
\* that of the packets pushed out.
LossesTold ==
    lost.told =>
        /\ lost.bytes = MapThenSumSet(LAMBDA f : f.size, accepted \ parsed)
        /\ lost.chunks + Len(queue) = Cardinality(accepted \ parsed)

\* Diagnostics: every packet the parser got has become a sample or been counted,
\* and so has every damaged one and every failed callback, whatever the number
\* of kinds of message.
RefusalsCounted ==
    lost.told =>
        MapThenSumSet(LAMBDA m : counts[m], Messages) + Len(samples)
            = Cardinality(parsed) + errors

\* What the owner has been told when a session ends adds up.
TotalsAddUp == BytesTold /\ LossesTold /\ RefusalsCounted

Half == Period \div 2

\* ParserWorker: the samples of a session start at time zero, never go back, and
\* are the true times apart as long as those are less than half a period: the
\* wrap of the packet clock is invisible, and packets out of order are refused.
\* All are of one device, in the order of the recording, and none is left over
\* from an earlier session, whose clock and counters start() must not inherit.
TimelineIsTrue ==
    /\ \A i \in DOMAIN samples : samples[i].session = starts
    /\ samples # <<>> => samples[1].elapsed = 0
    /\ \A i \in 1 .. Len(samples) - 1 :
          LET a == samples[i]
              b == samples[i + 1]
              apart == b.packet.at - a.packet.at
          IN  /\ a.at < b.at /\ a.packet.device = b.packet.device
              /\ a.elapsed <= b.elapsed
              /\ apart \in -Half .. Half - 1 => b.elapsed - a.elapsed = apart

\* running() is true as long as a thread receives or drains, so that a start()
\* that finds it false has nothing to wait for but callbacks that are returning.
RunningWhileWorking ==
    ~active => /\ parser = "none"
               /\ reader \in {"none", "completing", "exited"}

\* The parser's thread is joined by the reader that finishes or by the owner,
\* never by both at a time: the two would join one std::jthread.
OneJoiner == ~(reader = "joining" /\ owner = "joinParser")

\* TelemetrySession's threads are started and joined in turn.
ThreadsInTurn == RunningWhileWorking /\ OneJoiner

\* completed() is called once a session, after everything else: the parser is
\* joined, the totals are told, and nothing follows but the next session.  After
\* stop() has returned no callback is called.
CallbacksInOrder ==
    [][/\ completions' > completions => parser = "none" /\ lost.told /\ ~active
       /\ completions > 0 /\ owner # "opening" => UNCHANGED toldVars
       /\ quiet => UNCHANGED toldVars]_vars

\* stop() returns, and so does start(), wherever the threads are.
CallsReturn == owner # "free" ~> owner = "free"

\* A recording ends: the session completes by itself or is stopped.
InputEnds == active ~> ~active

\* TelemetrySession: nobody waits for it for ever.
SessionEnds == CallsReturn /\ InputEnds

\* "stop() drains accepted frames": once the parser has been joined no accepted
\* packet is left in the queue.
StopDrains == lost.told => queue = <<>>

=============================================================================
