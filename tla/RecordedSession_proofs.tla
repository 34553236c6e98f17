------------------------ MODULE RecordedSession_proofs ------------------------
(***************************************************************************)
(* Proofs about a recorded session, for every recording, capacity, clock   *)
(* and number of starts: it works only while it is running, its parser is  *)
(* joined once, its callbacks come in order and never after stop(); the    *)
(* times of its samples are true; and what its batches report at the end   *)
(* adds up: every character, every lost packet and every refusal.          *)
(*                                                                         *)
(* The first inductive invariant says where one thread and the owner may   *)
(* be when another is somewhere: the parser lives exactly as long as the   *)
(* reader has not joined it, an owner past the join of the reader finds no *)
(* reader at all, and a session that has been quiet has no thread left.    *)
(* The one for the times says what is on its way from the reader to the    *)
(* owner, and in which order.  The one for the totals rests on both: that  *)
(* the queue holds no packet twice is its order, and that nothing moves    *)
(* after the totals are told is where the threads are by then.             *)
(***************************************************************************)
EXTENDS RecordedSession, FiniteSetTheorems, WellFoundedInduction, TLAPS

\* The reader may still put packets, or waits for the parser.
Feeding == {"loop", "framing", "reading", "putting", "ending", "joining"}
\* It has joined the parser and still speaks for the session.
Closing == {"summing", "telling"}

Places ==
    /\ reader \in {"none", "completing", "exited"} \cup Feeding \cup Closing
    /\ parser \in {"none", "getting", "idle", "parsing", "delivering", "exited"}
    /\ owner \in {"free", "joinReader", "joinParser", "opening", "launching"}
    /\ active \in BOOLEAN /\ quiet \in BOOLEAN /\ completions \in Nat

\* Where the reader is says whether there is a parser and a running session.
ReaderKnows ==
    /\ reader \in Feeding => parser # "none" /\ active
    /\ reader \in Closing => parser = "none" /\ active
    /\ reader \in {"completing", "exited"} => parser = "none" /\ ~active
    /\ reader \in {"telling", "completing"} => lost.told

\* So does where the owner is.
OwnerKnows ==
    /\ owner \in {"joinParser", "opening", "launching"} => reader = "none"
    /\ owner = "opening" => parser = "none" /\ ~active
    /\ owner = "launching" => active /\ completions = 0
    /\ owner = "free" /\ reader = "none" => parser = "none" /\ ~active
    /\ ~active => parser = "none"

\* A session that has completed, or was stopped, has no thread that could call
\* anybody.
NobodyLeft ==
    /\ completions > 0 => reader \in {"none", "exited"} /\ parser = "none"
    /\ quiet => /\ reader = "none" /\ parser = "none"
                /\ owner \in {"free", "joinReader", "joinParser"}
                /\ owner # "free" => call = "stop"

LInv == Places /\ ReaderKnows /\ OwnerKnows /\ NobodyLeft

-----------------------------------------------------------------------------

\* A session as constructed has neither thread and is not running
\* (TelemetrySession::TelemetrySession).
LEMMA LInvHolds_Init == Init => LInv
<1> SUFFICES ASSUME Init PROVE LInv
    OBVIOUS
<1>1. /\ reader = "none" /\ parser = "none" /\ owner = "free"
      /\ active = FALSE /\ quiet = FALSE /\ completions = 0
  BY DEF Init
<1> QED
  BY <1>1 DEF LInv, Places, ReaderKnows, OwnerKnows, NobodyLeft, Feeding, Closing

\* SerialFramerWorker::m_process and finish() keep it.
LEMMA ReaderKeeps == LInv /\ ReaderStep => LInv'
<1> SUFFICES ASSUME LInv, ReaderStep PROVE LInv'
    OBVIOUS
<1> USE DEF LInv, Places, ReaderKnows, OwnerKnows, NobodyLeft, Feeding, Closing,
            dataVars, sessionVars, readerVars, parserVars, ownerVars, toldVars
<1>1. CASE ReaderLoop BY <1>1 DEF ReaderLoop
<1>2. CASE FramerLoop BY <1>2 DEF FramerLoop
<1>3. CASE ReadChar
  <2>1. reader = "reading" /\ reader' \in {"framing", "putting", "loop"}
    BY <1>3 DEF ReadChar
  <2> QED BY <1>3, <2>1 DEF ReadChar
<1>4. CASE ReadEnd BY <1>4 DEF ReadEnd
<1>5. CASE ReadFails BY <1>5 DEF ReadFails
<1>6. CASE PutFrame BY <1>6 DEF PutFrame
<1>7. CASE Finish BY <1>7 DEF Finish
<1>8. CASE FinishJoins BY <1>8 DEF FinishJoins
<1>9. CASE FinishSums BY <1>9 DEF FinishSums
<1>10. CASE FinishTells BY <1>10 DEF FinishTells
<1>11. CASE FinishCompletes BY <1>11 DEF FinishCompletes
<1> QED
  BY <1>1, <1>2, <1>3, <1>4, <1>5, <1>6, <1>7, <1>8, <1>9, <1>10, <1>11 DEF ReaderStep

\* ParserWorker::m_process keeps it: the parser exits and never goes away by
\* itself.
LEMMA ParserKeeps == LInv /\ ParserStep => LInv'
<1> SUFFICES ASSUME LInv, ParserStep PROVE LInv'
    OBVIOUS
<1> USE DEF LInv, Places, ReaderKnows, OwnerKnows, NobodyLeft, Feeding, Closing,
            dataVars, sessionVars, readerVars, parserVars, ownerVars, toldVars
<1>1. CASE GetFrame BY <1>1 DEF GetFrame
<1>2. CASE GetNothing BY <1>2 DEF GetNothing
<1>3. CASE ParserIdle BY <1>3 DEF ParserIdle
<1>4. CASE Refuse BY <1>4 DEF Refuse
<1>5. CASE Accept BY <1>5 DEF Accept
<1>6. CASE Deliver BY <1>6 DEF Deliver
<1> QED BY <1>1, <1>2, <1>3, <1>4, <1>5, <1>6 DEF ParserStep

\* TelemetrySession::start and stop keep it.
LEMMA OwnerKeeps == LInv /\ (StartCalled \/ StopCalled \/ OwnerGoesOn) => LInv'
<1> SUFFICES ASSUME LInv, StartCalled \/ StopCalled \/ OwnerGoesOn PROVE LInv'
    OBVIOUS
<1> USE DEF LInv, Places, ReaderKnows, OwnerKnows, NobodyLeft, Feeding, Closing,
            dataVars, sessionVars, readerVars, parserVars, ownerVars, toldVars
<1>1. CASE StartCalled BY <1>1 DEF StartCalled, BeginStop
<1>2. CASE StopCalled BY <1>2 DEF StopCalled, BeginStop
<1>3. CASE JoinReader BY <1>3 DEF JoinReader
<1>4. CASE JoinParser BY <1>4 DEF JoinParser
<1>5. CASE OpenFails BY <1>5 DEF OpenFails, Reset, NothingTold, Nothing
<1>6. CASE Open BY <1>6 DEF Open, Reset, NothingTold, Nothing
<1>7. CASE Launch BY <1>7 DEF Launch
<1>8. CASE LaunchFails BY <1>8 DEF LaunchFails, BeginStop
<1> QED BY <1>1, <1>2, <1>3, <1>4, <1>5, <1>6, <1>7, <1>8 DEF OwnerGoesOn

\* Every step keeps the invariant.
LEMMA LInvHolds_Next == LInv /\ [Next]_vars => LInv'
<1> SUFFICES ASSUME LInv, [Next]_vars PROVE LInv'
    OBVIOUS
<1>1. CASE UNCHANGED vars
  BY <1>1 DEF LInv, Places, ReaderKnows, OwnerKnows, NobodyLeft, vars, dataVars,
              sessionVars, readerVars, parserVars, ownerVars, toldVars
<1> QED BY <1>1, ReaderKeeps, ParserKeeps, OwnerKeeps DEF Next

\* The invariant holds throughout.
LEMMA LInvHolds == Spec => []LInv
BY LInvHolds_Init, LInvHolds_Next, PTL DEF Spec

\* running() is true as long as a thread of the session receives or drains, and the
\* parser's thread is never joined by the reader and the owner at a time
\* (TelemetrySession::start, stop and finish).
THEOREM ThreadsTakeTurns == Spec => []ThreadsInTurn
<1>1. LInv => RunningWhileWorking
  BY DEF LInv, Places, ReaderKnows, OwnerKnows, Feeding, Closing, RunningWhileWorking
<1>2. LInv => OneJoiner
  BY DEF LInv, OwnerKnows, OneJoiner
<1>3. LInv => ThreadsInTurn
  BY <1>1, <1>2 DEF ThreadsInTurn
<1> QED BY <1>3, LInvHolds, PTL

\* The promise about one step.
OrderedStep ==
    /\ completions' > completions => parser = "none" /\ lost.told /\ ~active
    /\ completions > 0 /\ owner # "opening" => UNCHANGED toldVars
    /\ quiet => UNCHANGED toldVars

\* Every step calls back only when it may: the last batch and completed() by a
\* reader that has joined the parser, samples by a parser that is alive.
LEMMA StepsAreOrdered == LInv /\ [Next]_vars => [OrderedStep]_vars
<1> SUFFICES ASSUME LInv, Next PROVE OrderedStep
    OBVIOUS
<1> USE DEF LInv, Places, ReaderKnows, OwnerKnows, NobodyLeft, Feeding, Closing,
            OrderedStep, toldVars
<1>1. CASE UNCHANGED toldVars BY <1>1
<1>2. CASE FinishSums BY <1>2 DEF FinishSums
<1>3. CASE FinishCompletes BY <1>3 DEF FinishCompletes
<1>4. CASE Deliver BY <1>4 DEF Deliver
<1>5. CASE OpenFails \/ Open
  BY <1>5 DEF OpenFails, Open, Reset, NothingTold
<1>6. ReaderStep => UNCHANGED toldVars \/ FinishSums \/ FinishCompletes
  BY DEF ReaderStep, ReaderLoop, FramerLoop, ReadChar, ReadEnd, ReadFails, PutFrame,
         Finish, FinishJoins, FinishTells
<1>7. ParserStep => UNCHANGED toldVars \/ Deliver
  BY DEF ParserStep, GetFrame, GetNothing, ParserIdle, Refuse, Accept
<1>8. StartCalled \/ StopCalled \/ OwnerGoesOn => UNCHANGED toldVars \/ OpenFails \/ Open
  BY DEF StartCalled, StopCalled, OwnerGoesOn, JoinReader, JoinParser, Launch, LaunchFails
<1> QED BY <1>1, <1>2, <1>3, <1>4, <1>5, <1>6, <1>7, <1>8 DEF Next

\* completed() comes once and last, and nothing is called after stop() has
\* returned (TelemetrySession.h: "guarantees no callbacks after returning").
THEOREM CallbacksOrdered == Spec => CallbacksInOrder
<1>1. LInv /\ [Next]_vars => [OrderedStep]_vars
  BY StepsAreOrdered
<1> QED BY <1>1, LInvHolds, PTL DEF Spec, CallbacksInOrder, OrderedStep

-----------------------------------------------------------------------------

\* What the batches have reported so far is what the session remembers of it, or
\* all there was once the totals are told; by then nobody reads or parses.
Reported ==
    /\ received \in Nat /\ reportedBytes \in Nat /\ handedBytes \in Nat
    /\ lost.told \in BOOLEAN
    /\ ~lost.told => handedBytes = reportedBytes
    /\ lost.told => /\ handedBytes = received
                    /\ reader \notin Feeding \cup {"summing"}
                    /\ parser = "none"
    /\ owner = "launching" => ~lost.told
    /\ reportedBytes <= received \/ (reader = "none" /\ parser = "none")

\* Every step keeps it: characters are read and reported only by threads that are
\* gone when the totals are told.
LEMMA ReportedSteps ==
    ASSUME LInv, Reported, Next
    PROVE  Reported'
<1> USE DEF LInv, Places, ReaderKnows, OwnerKnows, Reported, Feeding, Closing, dataVars,
            sessionVars, readerVars, parserVars, ownerVars, toldVars, framerVars
<1>1. CASE ReadChar
  <2>1. /\ reader = "reading" /\ reader' \in {"framing", "putting", "loop"}
        /\ received' = received + 1
    BY <1>1 DEF ReadChar
  <2> QED BY <1>1, <2>1 DEF ReadChar
<1>2. CASE ReaderStep /\ ~ReadChar
  <2>1. CASE FinishSums BY <2>1 DEF FinishSums
  <2>2. CASE FinishJoins BY <2>2 DEF FinishJoins
  <2>3. CASE ReadEnd \/ ReadFails BY <2>3 DEF ReadEnd, ReadFails
  <2>4. CASE PutFrame BY <2>4 DEF PutFrame
  <2>5. CASE ReaderLoop \/ FramerLoop BY <2>5 DEF ReaderLoop, FramerLoop
  <2>6. CASE Finish BY <2>6 DEF Finish
  <2>7. CASE FinishTells \/ FinishCompletes BY <2>7 DEF FinishTells, FinishCompletes
  <2> QED BY <1>2, <2>1, <2>2, <2>3, <2>4, <2>5, <2>6, <2>7 DEF ReaderStep
<1>3. CASE Deliver BY <1>3 DEF Deliver
<1>4. CASE ParserStep /\ ~Deliver
  BY <1>4 DEF ParserStep, GetFrame, GetNothing, ParserIdle, Refuse, Accept
<1>5. CASE StartCalled \/ StopCalled \/ LaunchFails
  BY <1>5 DEF StartCalled, StopCalled, LaunchFails, BeginStop
<1>6. CASE JoinReader \/ JoinParser BY <1>6 DEF JoinReader, JoinParser
<1>7. CASE OpenFails BY <1>7 DEF OpenFails, Reset, NothingTold, Nothing
<1>8. CASE Open BY <1>8 DEF Open, Reset, NothingTold, Nothing
<1>9. CASE Launch BY <1>9 DEF Launch
<1> QED
  BY <1>1, <1>2, <1>3, <1>4, <1>5, <1>6, <1>7, <1>8, <1>9 DEF Next, OwnerGoesOn

\* The batches of a session together report every character that was read, each
\* once, although one thread counts and the other reports (finish()).
THEOREM EveryCharacterTold == Spec => []BytesTold
<1>1. Init => Reported
  BY DEF Init, Reported, Nothing
<1>2. LInv /\ Reported /\ [Next]_vars => Reported'
  <2>1. CASE UNCHANGED vars
    BY <2>1 DEF Reported, vars, dataVars, framerVars, readerVars, parserVars, ownerVars,
                toldVars
  <2> QED BY <2>1, ReportedSteps
<1>3. Reported => BytesTold
  BY DEF Reported, BytesTold
<1> QED BY <1>1, <1>2, <1>3, LInvHolds, PTL DEF Spec

-----------------------------------------------------------------------------
(***************************************************************************)
(* The times of the samples.  A packet passes from the framer through the  *)
(* queue to the parser, and what is on the way stays in the order of the   *)
(* recording, however many packets are pushed out; the clock of the parser *)
(* is that of the last sample.  Between two samples the 16 bits of the     *)
(* packet clock then determine the time that has passed, if it is less     *)
(* than half of what they can tell.                                        *)
(***************************************************************************)

Samples == [packet : Packets, at : Nat, session : Nat, elapsed : Nat]

Holding == parser \in {"parsing", "delivering"}

\* Of this session, and already read.
Fresh(f) == f.session = starts /\ f.at <= pos

\* Everything that has not reached the parser was read later than at.
Ahead(at) ==
    /\ \A i \in DOMAIN queue : at < queue[i].at
    /\ reader = "putting" => at < frame.at

Basics ==
    /\ file \in Recordings /\ pos \in Nat /\ starts \in Nat
    /\ pending \in Seq(Characters) /\ samples \in Seq(Samples)

QueueInOrder ==
    /\ queue \in Seq(Frames)
    /\ \A i \in DOMAIN queue : Fresh(queue[i])
    /\ \A i, j \in DOMAIN queue : i < j => queue[i].at < queue[j].at

FrameIsNewest ==
    reader = "putting" =>
        /\ frame \in Frames /\ Fresh(frame)
        /\ \A i \in DOMAIN queue : queue[i].at < frame.at

TakenIsOlder == Holding => taken \in Frames /\ Fresh(taken) /\ Ahead(taken.at)

SamplesAreOldest ==
    \A i \in DOMAIN samples :
        /\ Ahead(samples[i].at) /\ samples[i].at <= pos
        /\ Holding => samples[i].at < taken.at

Newest == samples[Len(samples)]

\* The time from x to y as a clock that wraps shows it.
Shown(x, y) ==
    LET ticks == (y % Period) - (x % Period) IN IF ticks < 0 THEN ticks + Period ELSE ticks

\* The clock is the last sample's, or already that of the sample to be delivered.
ClockIsLast ==
    /\ parser # "delivering" =>
          IF samples = <<>> THEN clock.first /\ clock.elapsed = 0
          ELSE /\ ~clock.first
               /\ clock.previous = Newest.packet.at % Period
               /\ clock.elapsed = Newest.elapsed
               /\ clock.serial = Newest.packet.device
    /\ parser = "delivering" =>
          /\ ~clock.first
          /\ clock.previous = taken.packet.at % Period
          /\ clock.serial = taken.packet.device
          /\ IF samples = <<>> THEN clock.elapsed = 0
             ELSE /\ Newest.packet.device = taken.packet.device
                  /\ Shown(Newest.packet.at, taken.packet.at) < Half
                  /\ clock.elapsed = Newest.elapsed + Shown(Newest.packet.at, taken.packet.at)

\* The part of TimelineIsTrue about two samples.
Follows(a, b) ==
    LET apart == b.packet.at - a.packet.at
    IN  /\ a.at < b.at /\ a.packet.device = b.packet.device
        /\ a.elapsed <= b.elapsed
        /\ apart \in -Half .. Half - 1 => b.elapsed - a.elapsed = apart

Timeline ==
    /\ \A i \in DOMAIN samples : samples[i].session = starts
    /\ samples # <<>> => samples[1].elapsed = 0
    /\ \A i \in 1 .. Len(samples) - 1 : Follows(samples[i], samples[i + 1])

OnTheWay == QueueInOrder /\ FrameIsNewest /\ TakenIsOlder /\ SamplesAreOldest /\ ClockIsLast

TInv == LInv /\ Basics /\ (parser # "none" => OnTheWay) /\ Timeline

-----------------------------------------------------------------------------

\* A remainder lies below its divisor.
LEMMA DivMod ==
    ASSUME NEW x \in Nat
    PROVE  /\ x % Period \in 0 .. Period - 1 /\ x \div Period \in Int
           /\ x = Period * (x \div Period) + (x % Period)
BY SessionAssumption

\* The only multiple of the period that is shorter than it is none at all.
LEMMA ShortMultiple ==
    ASSUME NEW k \in Int, NEW d \in Int, d = Period * k, -Period < d, d < Period
    PROVE  d = 0
<1>1. CASE k >= 1
  BY <1>1, SessionAssumption
<1>2. CASE k <= -1
  BY <1>2, SessionAssumption
<1>3. CASE k = 0
  BY <1>3, SessionAssumption
<1> QED BY <1>1, <1>2, <1>3

\* A clock that wraps shows the time that has passed, if that is less than half
\* of its period, and times further back as more than half.
LEMMA WrapIsInvisible ==
    ASSUME NEW x \in Nat, NEW y \in Nat
    PROVE  /\ Shown(x, y) \in 0 .. Period - 1
           /\ y - x \in -Half .. Half - 1 /\ Shown(x, y) < Half => Shown(x, y) = y - x
<1> DEFINE qx == x \div Period
           rx == x % Period
           qy == y \div Period
           ry == y % Period
           d == Shown(x, y)
<1>1. /\ rx \in 0 .. Period - 1 /\ qx \in Int /\ x = Period * qx + rx
      /\ ry \in 0 .. Period - 1 /\ qy \in Int /\ y = Period * qy + ry
  BY DivMod
<1>2. Period \in Nat \ {0} /\ Half \in Nat /\ 2 * Half = Period
  BY SessionAssumption DEF Half
<1>3. d = IF ry - rx < 0 THEN ry - rx + Period ELSE ry - rx
  BY DEF Shown
<1> HIDE DEF qx, rx, qy, ry, d
<1>4. d \in 0 .. Period - 1
  BY <1>1, <1>2, <1>3
<1>5. \E k \in Int : d - (y - x) = Period * k
  <2>1. CASE d = ry - rx
    <3>1. d - (y - x) = Period * (qx - qy)
      BY <1>1, <1>2, <2>1
    <3> QED BY <1>1, <3>1
  <2>2. CASE d = ry - rx + Period
    <3>1. d - (y - x) = Period * (qx - qy + 1)
      BY <1>1, <1>2, <2>2
    <3> QED BY <1>1, <3>1
  <2> QED BY <1>1, <1>3, <2>1, <2>2
<1>6. ASSUME y - x \in -Half .. Half - 1, d < Half PROVE d = y - x
  <2>1. PICK k \in Int : d - (y - x) = Period * k
    BY <1>5
  <2>2. -Period < d - (y - x) /\ d - (y - x) < Period
    BY <1>2, <1>4, <1>6
  <2>3. d - (y - x) = 0
    BY <1>4, <2>1, <2>2, ShortMultiple
  <2> QED BY <1>4, <2>3
<1> QED BY <1>4, <1>6 DEF d

\* What the framer keeps is a sequence of characters (AltosFramer::read_frame).
LEMMA FramerKeeps ==
    ASSUME NEW s \in Seq(Characters), NEW c \in Characters
    PROVE  FrameChar(s, c).pending \in Seq(Characters)
<1> DEFINE grown == Append(s, c)
<1>1. grown \in Seq(Characters) /\ <<c>> \in Seq(Characters) /\ <<>> \in Seq(Characters)
  OBVIOUS
<1> HIDE DEF grown
<1>2. PastMagic(grown).pending \in {grown, <<>>}
  BY DEF PastMagic, Throws, Goes
<1>3. FrameChar(s, c).pending \in {grown, <<>>, <<c>>, PastMagic(grown).pending}
  BY DEF FrameChar, grown, Throws, Goes
<1> QED BY <1>1, <1>2, <1>3

\* The first of a queue goes, the others keep their order.
LEMMA TailKeepsOrder ==
    ASSUME NEW q \in Seq(Frames), q # <<>>
    PROVE  /\ Head(q) = q[1] /\ 1 \in DOMAIN q /\ Head(q) \in Frames
           /\ Tail(q) \in Seq(Frames) /\ DOMAIN q = 1 .. Len(q) /\ Len(q) \in Nat
           /\ \A i \in DOMAIN Tail(q) : i \in Nat \ {0} /\ i + 1 \in DOMAIN q /\ Tail(q)[i] = q[i + 1]
OBVIOUS

\* A packet is added behind the others.
LEMMA AppendKeepsOrder ==
    ASSUME NEW q \in Seq(Frames), NEW f \in Frames
    PROVE  /\ Append(q, f) \in Seq(Frames)
           /\ DOMAIN q = 1 .. Len(q) /\ Len(q) \in Nat
           /\ DOMAIN Append(q, f) = 1 .. Len(q) + 1
           /\ \A i \in DOMAIN q : Append(q, f)[i] = q[i]
           /\ Append(q, f)[Len(q) + 1] = f
OBVIOUS

-----------------------------------------------------------------------------

\* A step that moves no packet: the reader stops putting, or the parser holding,
\* or neither.
LEMMA NothingMoves ==
    ASSUME TInv, LInv', pos' = pos, pending' \in Seq(Characters),
           UNCHANGED <<file, starts, queue, frame, taken, clock, samples>>,
           reader' = "putting" => reader = "putting",
           parser' # "none" => parser # "none",
           parser' \in {"parsing", "delivering"} => parser' = parser,
           parser = "delivering" => parser' \in {"delivering", "none"}
    PROVE  TInv'
<1>1. Basics' /\ Timeline'
  BY DEF TInv, Basics, Timeline, Follows
<1>2. ASSUME parser' # "none" PROVE OnTheWay'
  <2>1. OnTheWay
    BY <1>2 DEF TInv
  <2>2. Holding' => Holding
    BY DEF Holding
  <2>3. QueueInOrder' /\ FrameIsNewest'
    BY <2>1 DEF OnTheWay, QueueInOrder, FrameIsNewest, Fresh
  <2>4. TakenIsOlder' /\ SamplesAreOldest'
    BY <2>1, <2>2 DEF OnTheWay, TakenIsOlder, SamplesAreOldest, Fresh, Ahead
  <2>5. ClockIsLast'
    BY <1>2, <2>1 DEF OnTheWay, ClockIsLast, Newest
  <2> QED BY <2>3, <2>4, <2>5 DEF OnTheWay
<1> QED BY <1>1, <1>2 DEF TInv

\* A character is read: a packet it completes is the newest of all.
LEMMA ReadKeepsOrder ==
    ASSUME TInv, LInv', ReadChar
    PROVE  TInv'
<1> DEFINE c == file[pos + 1]
           did == FrameChar(pending, c)
<1>1. /\ reader = "reading" /\ parser # "none" /\ pos < Len(file)
      /\ pos' = pos + 1 /\ pending' = did.pending
      /\ UNCHANGED <<file, starts, queue, taken, clock, samples, parser>>
  BY DEF ReadChar, TInv, LInv, ReaderKnows, Feeding, sessionVars, queueVars, parserVars,
         toldVars
<1>2. Basics /\ OnTheWay /\ Timeline
  BY <1>1 DEF TInv
<1>3. c \in Characters
  <2>1. file \in Seq(Characters) /\ pos \in Nat
    BY <1>2, RecordingAssumption DEF Basics
  <2> QED BY <1>1, <2>1
<1>4. Basics' /\ Timeline'
  <2>1. pending' \in Seq(Characters)
    BY <1>1, <1>2, <1>3, FramerKeeps DEF Basics
  <2> QED BY <1>1, <1>2, <2>1 DEF Basics, Timeline, Follows
<1>5. reader' = "putting" =>
          frame' = [size |-> Len(pending) + 1, packet |-> c.packet, at |-> pos',
                    session |-> starts]
  BY <1>1 DEF ReadChar
<1> HIDE DEF c, did
<1>6. reader' = "putting" => frame' \in Frames /\ frame'.at = pos + 1 /\ frame'.session = starts
  <2>1. Len(pending) + 1 \in Nat /\ c.packet \in Packets /\ pos' \in Nat /\ starts \in Nat
    BY <1>1, <1>2, <1>3 DEF Basics, Characters
  <2> QED BY <1>1, <1>5, <2>1 DEF Frames
<1>7. pos \in Nat /\ \A i \in DOMAIN queue : queue[i].at \in Nat /\ queue[i].at <= pos
  <2>1. queue \in Seq(Frames) /\ pos \in Nat
    BY <1>2 DEF OnTheWay, QueueInOrder, Basics
  <2>2. \A i \in DOMAIN queue : queue[i] \in Frames
    BY <2>1
  <2> QED BY <1>2, <2>1, <2>2 DEF OnTheWay, QueueInOrder, Fresh, Frames
<1>8. QueueInOrder' /\ FrameIsNewest'
  BY <1>1, <1>2, <1>6, <1>7 DEF OnTheWay, QueueInOrder, FrameIsNewest, Fresh
<1>9. TakenIsOlder'
  <2>1. Holding => taken.at \in Nat /\ taken.at <= pos
    BY <1>2 DEF OnTheWay, TakenIsOlder, Fresh, Frames
  <2> QED BY <1>1, <1>2, <1>6, <1>7, <2>1 DEF OnTheWay, TakenIsOlder, Fresh, Ahead, Holding
<1>10. SamplesAreOldest'
  <2>1. \A i \in DOMAIN samples : samples[i].at \in Nat
    <3>1. \A i \in DOMAIN samples : samples[i] \in Samples
      BY <1>2 DEF Basics
    <3> QED BY <3>1 DEF Samples
  <2> QED BY <1>1, <1>2, <1>6, <1>7, <2>1 DEF OnTheWay, SamplesAreOldest, Ahead, Holding
<1>11. ClockIsLast'
  BY <1>1, <1>2 DEF OnTheWay, ClockIsLast, Newest
<1> QED BY <1>4, <1>8, <1>9, <1>10, <1>11 DEF TInv, OnTheWay

\* The reader's packet goes to the end of the queue, and may push out its first.
LEMMA PutKeepsOrder ==
    ASSUME TInv, LInv', PutFrame
    PROVE  TInv'
<1> DEFINE full == Len(queue) >= Capacity
           kept == IF full THEN Tail(queue) ELSE queue
<1>1. /\ reader = "putting" /\ reader' = "loop" /\ parser # "none"
      /\ queue' = Append(kept, frame)
      /\ UNCHANGED <<file, pos, starts, pending, taken, clock, samples, parser>>
  BY DEF PutFrame, Put, TInv, LInv, ReaderKnows, Feeding, commsVars, sessionVars, parserVars,
         toldVars
<1>2. Basics /\ OnTheWay /\ Timeline
  BY <1>1 DEF TInv
<1>3. /\ queue \in Seq(Frames) /\ frame \in Frames /\ Fresh(frame)
      /\ \A i \in DOMAIN queue : Fresh(queue[i]) /\ queue[i].at < frame.at
      /\ \A i, j \in DOMAIN queue : i < j => queue[i].at < queue[j].at
  BY <1>1, <1>2 DEF OnTheWay, QueueInOrder, FrameIsNewest
<1>4. /\ kept \in Seq(Frames)
      /\ \A i \in DOMAIN kept : \E k \in DOMAIN queue : kept[i] = queue[k]
      /\ \A i, j \in DOMAIN kept : i < j => kept[i].at < kept[j].at
  <2>1. CASE ~full
    BY <1>3, <2>1
  <2>2. CASE full
    <3>1. queue # <<>>
      BY <2>2, SessionAssumption
    <3>2. /\ Tail(queue) \in Seq(Frames)
          /\ \A i \in DOMAIN Tail(queue) :
                 i \in Nat \ {0} /\ i + 1 \in DOMAIN queue /\ Tail(queue)[i] = queue[i + 1]
      BY <1>3, <3>1, TailKeepsOrder
    <3>3. ASSUME NEW i \in DOMAIN Tail(queue), NEW j \in DOMAIN Tail(queue), i < j
          PROVE  Tail(queue)[i].at < Tail(queue)[j].at
      <4>1. i + 1 < j + 1
        BY <3>2, <3>3
      <4> QED BY <1>3, <3>2, <4>1
    <3> QED BY <2>2, <3>2, <3>3
  <2> QED BY <2>1, <2>2
<1> HIDE DEF kept, full
<1>5. /\ queue' \in Seq(Frames)
      /\ DOMAIN kept = 1 .. Len(kept) /\ Len(kept) \in Nat
      /\ DOMAIN queue' = 1 .. Len(kept) + 1
      /\ \A i \in DOMAIN kept : queue'[i] = kept[i]
      /\ queue'[Len(kept) + 1] = frame
  BY <1>1, <1>3, <1>4, AppendKeepsOrder
<1>6. \A i \in DOMAIN queue' : queue'[i] = frame \/ \E k \in DOMAIN queue : queue'[i] = queue[k]
  BY <1>4, <1>5
<1>7. QueueInOrder'
  <2>1. (\A i \in DOMAIN queue : Fresh(queue[i]))'
    BY <1>1, <1>3, <1>6 DEF Fresh
  <2>2. \A i \in DOMAIN kept : kept[i].at < frame.at
    BY <1>3, <1>4
  <2>3. \A i, j \in DOMAIN queue' : i < j => queue'[i].at < queue'[j].at
    <3> SUFFICES ASSUME NEW i \in DOMAIN queue', NEW j \in DOMAIN queue', i < j
                 PROVE  queue'[i].at < queue'[j].at
        OBVIOUS
    <3>1. i \in DOMAIN kept
      BY <1>5
    <3>2. CASE j \in DOMAIN kept
      BY <1>4, <1>5, <3>1, <3>2
    <3>3. CASE j = Len(kept) + 1
      BY <1>5, <2>2, <3>1, <3>3
    <3> QED BY <1>5, <3>2, <3>3
  <2> QED BY <1>5, <2>1, <2>3 DEF QueueInOrder
<1>8. ASSUME NEW at, Ahead(at) PROVE Ahead(at)'
  BY <1>1, <1>6, <1>8 DEF Ahead
<1>9. TakenIsOlder' /\ SamplesAreOldest'
  BY <1>1, <1>2, <1>8 DEF OnTheWay, TakenIsOlder, SamplesAreOldest, Fresh, Holding
<1>10. FrameIsNewest' /\ ClockIsLast'
  BY <1>1, <1>2 DEF OnTheWay, FrameIsNewest, ClockIsLast, Newest
<1>11. Basics' /\ Timeline'
  BY <1>1, <1>2 DEF Basics, Timeline, Follows
<1> QED BY <1>7, <1>9, <1>10, <1>11 DEF TInv, OnTheWay

\* The parser gets the first of the queue.
LEMMA GetKeepsOrder ==
    ASSUME TInv, LInv', GetFrame
    PROVE  TInv'
<1>1. /\ parser = "getting" /\ parser' = "parsing" /\ queue # <<>>
      /\ taken' = Head(queue) /\ queue' = Tail(queue)
      /\ UNCHANGED <<file, pos, starts, pending, frame, reader, clock, samples>>
  BY DEF GetFrame, Get, commsVars, sessionVars, framerVars, readerVars, toldVars
<1>2. Basics /\ OnTheWay /\ Timeline
  BY <1>1 DEF TInv
<1>3. /\ queue \in Seq(Frames)
      /\ \A i \in DOMAIN queue : Fresh(queue[i])
      /\ \A i, j \in DOMAIN queue : i < j => queue[i].at < queue[j].at
  BY <1>2 DEF OnTheWay, QueueInOrder
<1>4. /\ taken' = queue[1] /\ 1 \in DOMAIN queue /\ taken' \in Frames
      /\ queue' \in Seq(Frames)
      /\ \A i \in DOMAIN queue' : i \in Nat \ {0} /\ i + 1 \in DOMAIN queue /\ queue'[i] = queue[i + 1]
  BY <1>1, <1>3, TailKeepsOrder
<1>5. \A i, j \in DOMAIN queue' : i < j => queue'[i].at < queue'[j].at
  <2> SUFFICES ASSUME NEW i \in DOMAIN queue', NEW j \in DOMAIN queue', i < j
               PROVE  queue'[i].at < queue'[j].at
      OBVIOUS
  <2>1. i + 1 < j + 1
    BY <1>4
  <2> QED BY <1>3, <1>4, <2>1
<1>6. \A i \in DOMAIN queue' : taken'.at < queue'[i].at
  <2> SUFFICES ASSUME NEW i \in DOMAIN queue' PROVE taken'.at < queue'[i].at
      OBVIOUS
  <2>1. 1 < i + 1 /\ i + 1 \in DOMAIN queue
    BY <1>4
  <2> QED BY <1>3, <1>4, <2>1
<1>7. QueueInOrder' /\ FrameIsNewest'
  BY <1>1, <1>2, <1>3, <1>4, <1>5 DEF OnTheWay, QueueInOrder, FrameIsNewest, Fresh
<1>8. TakenIsOlder'
  <2>1. reader = "putting" => taken'.at < frame.at
    BY <1>2, <1>4 DEF OnTheWay, FrameIsNewest
  <2> QED BY <1>1, <1>3, <1>4, <1>6, <2>1 DEF TakenIsOlder, Fresh, Ahead
<1>9. SamplesAreOldest'
  BY <1>1, <1>2, <1>4 DEF OnTheWay, SamplesAreOldest, Ahead
<1>10. ClockIsLast'
  BY <1>1, <1>2 DEF OnTheWay, ClockIsLast, Newest
<1>11. Basics' /\ Timeline'
  BY <1>1, <1>2 DEF Basics, Timeline, Follows
<1> QED BY <1>7, <1>8, <1>9, <1>10, <1>11 DEF TInv, OnTheWay

\* A packet is accepted: the clock moves by less than half a period, and stays with
\* its device.
LEMMA AcceptKeepsTime ==
    ASSUME TInv, LInv', Accept
    PROVE  TInv'
<1> DEFINE p == taken.packet
<1>1. /\ parser = "parsing" /\ parser' = "delivering" /\ Verdict(p) = "sample"
      /\ clock' = [first |-> FALSE, previous |-> Counter(p),
                   elapsed |-> clock.elapsed + Delta(p), serial |-> p.device]
      /\ UNCHANGED <<file, pos, starts, pending, frame, reader, queue, taken, samples>>
  BY DEF Accept, dataVars, commsVars, sessionVars, framerVars, queueVars, readerVars, toldVars
<1>2. Basics /\ OnTheWay /\ Timeline
  BY <1>1 DEF TInv
<1>3. /\ ~clock.first => clock.serial = p.device /\ ~(Delta(p) >= Half)
  BY <1>1 DEF Verdict, Half
<1>4. IF samples = <<>> THEN clock.first /\ clock.elapsed = 0
      ELSE /\ ~clock.first
           /\ clock.previous = Newest.packet.at % Period
           /\ clock.elapsed = Newest.elapsed
           /\ clock.serial = Newest.packet.device
  BY <1>1, <1>2 DEF OnTheWay, ClockIsLast
<1>5. /\ ~clock'.first /\ clock'.previous = p.at % Period /\ clock'.serial = p.device
      /\ clock'.elapsed = clock.elapsed + Delta(p)
  BY <1>1 DEF Counter
<1>6. ClockIsLast'
  <2>1. CASE samples = <<>>
    <3>1. Delta(p) = 0
      BY <1>4, <2>1 DEF Delta
    <3>2. clock'.elapsed = 0
      BY <1>4, <1>5, <2>1, <3>1
    <3> QED BY <1>1, <1>5, <2>1, <3>2 DEF ClockIsLast
  <2>2. CASE samples # <<>>
    <3>1. Delta(p) = Shown(Newest.packet.at, p.at)
      BY <1>4, <2>2 DEF Delta, Shown, Counter
    <3>2. Newest.packet.at \in Nat /\ p.at \in Nat /\ Half \in Nat /\ Period \in Nat
      <4>1. Newest \in Samples /\ taken \in Frames
        BY <1>1, <1>2, <2>2 DEF Basics, Newest, OnTheWay, TakenIsOlder, Holding
      <4> QED BY <4>1, SessionAssumption DEF Samples, Frames, Packets, Half
    <3>3. Shown(Newest.packet.at, p.at) < Half
      <4> DEFINE d == Shown(Newest.packet.at, p.at)
      <4>1. d \in 0 .. Period - 1
        BY <3>2, WrapIsInvisible
      <4>2. ~(d >= Half)
        BY <1>3, <1>4, <2>2, <3>1
      <4> HIDE DEF d
      <4>3. d < Half
        BY <3>2, <4>1, <4>2
      <4> QED BY <4>3 DEF d
    <3>4. Newest' = Newest
      BY <1>1 DEF Newest
    <3> HIDE DEF p
    <3>5. /\ Newest.packet.device = p.device
          /\ clock'.elapsed = Newest.elapsed + Shown(Newest.packet.at, p.at)
      BY <1>3, <1>4, <1>5, <2>2, <3>1
    <3>6. Shown(Newest.packet.at, taken.packet.at)' = Shown(Newest.packet.at, p.at)
      BY <1>1, <3>4 DEF p, Shown
    <3> QED BY <1>1, <1>5, <2>2, <3>3, <3>4, <3>5, <3>6 DEF ClockIsLast, p
  <2> QED BY <2>1, <2>2
<1>7. QueueInOrder' /\ FrameIsNewest' /\ TakenIsOlder' /\ SamplesAreOldest'
  BY <1>1, <1>2 DEF OnTheWay, QueueInOrder, FrameIsNewest, TakenIsOlder, SamplesAreOldest,
                    Fresh, Ahead, Holding
<1>8. Basics' /\ Timeline'
  BY <1>1, <1>2 DEF Basics, Timeline, Follows
<1> QED BY <1>6, <1>7, <1>8 DEF TInv, OnTheWay

\* It is delivered: the sample follows the one before it.
LEMMA DeliverKeepsTime ==
    ASSUME TInv, LInv', Deliver
    PROVE  TInv'
<1> DEFINE s == [packet |-> taken.packet, at |-> taken.at, session |-> taken.session,
                 elapsed |-> clock.elapsed]
           p == taken.packet
<1>1. /\ parser = "delivering" /\ parser' = "getting" /\ samples' = Append(samples, s)
      /\ UNCHANGED <<file, pos, starts, pending, frame, reader, queue, clock>>
  BY DEF Deliver, commsVars, sessionVars, framerVars, queueVars, readerVars
<1>2. Basics /\ OnTheWay /\ Timeline
  BY <1>1 DEF TInv
<1>3. taken \in Frames /\ Fresh(taken) /\ Ahead(taken.at)
  BY <1>1, <1>2 DEF OnTheWay, TakenIsOlder, Holding
<1>4. /\ ~clock.first /\ clock.previous = p.at % Period /\ clock.serial = p.device
      /\ IF samples = <<>> THEN clock.elapsed = 0
         ELSE /\ Newest.packet.device = p.device
              /\ Shown(Newest.packet.at, p.at) < Half
              /\ clock.elapsed = Newest.elapsed + Shown(Newest.packet.at, p.at)
  BY <1>1, <1>2 DEF OnTheWay, ClockIsLast
<1>5. samples # <<>> => /\ Newest \in Samples /\ Len(samples) \in DOMAIN samples
                        /\ Newest.packet.at \in Nat /\ Newest.elapsed \in Nat
  <2>1. samples \in Seq(Samples)
    BY <1>2 DEF Basics
  <2>2. samples # <<>> => Newest \in Samples /\ Len(samples) \in DOMAIN samples
    BY <2>1 DEF Newest
  <2> QED BY <2>2 DEF Samples, Packets
<1>6. p \in Packets /\ p.at \in Nat /\ Half \in Nat /\ Period \in Nat \ {0}
  BY <1>3, SessionAssumption DEF Frames, Packets, Half
<1>7. samples # <<>> => /\ Shown(Newest.packet.at, p.at) \in 0 .. Period - 1
                        /\ clock.elapsed \in Nat
                        /\ p.at - Newest.packet.at \in -Half .. Half - 1 =>
                               clock.elapsed - Newest.elapsed = p.at - Newest.packet.at
  <2> SUFFICES ASSUME samples # <<>>
               PROVE  /\ Shown(Newest.packet.at, p.at) \in 0 .. Period - 1
                      /\ clock.elapsed \in Nat
                      /\ p.at - Newest.packet.at \in -Half .. Half - 1 =>
                             clock.elapsed - Newest.elapsed = p.at - Newest.packet.at
      OBVIOUS
  <2> DEFINE x == Newest.packet.at
             y == p.at
             d == Shown(x, y)
  <2>1. x \in Nat /\ y \in Nat /\ d < Half /\ clock.elapsed = Newest.elapsed + d
        /\ Newest.elapsed \in Nat
    BY <1>4, <1>5, <1>6
  <2>2. d \in 0 .. Period - 1 /\ (y - x \in -Half .. Half - 1 /\ d < Half => d = y - x)
    BY <2>1, WrapIsInvisible
  <2> HIDE DEF x, y, d
  <2>3. /\ clock.elapsed \in Nat
        /\ y - x \in -Half .. Half - 1 => clock.elapsed - Newest.elapsed = y - x
    BY <1>6, <2>1, <2>2
  <2> QED BY <2>2, <2>3 DEF x, y, d
<1>8. clock.elapsed \in Nat
  BY <1>4, <1>7
<1>9. s \in Samples
  <2>1. taken.at \in Nat /\ taken.session \in Nat
    BY <1>3 DEF Frames
  <2> QED BY <1>6, <1>8, <2>1 DEF Samples
<1>10. /\ s.packet = p /\ s.at = taken.at /\ s.session = starts /\ s.elapsed = clock.elapsed
  BY <1>3 DEF Fresh
<1> HIDE DEF s, p
<1>11. /\ samples \in Seq(Samples) /\ samples' \in Seq(Samples)
       /\ DOMAIN samples = 1 .. Len(samples) /\ Len(samples) \in Nat
       /\ Len(samples') = Len(samples) + 1 /\ DOMAIN samples' = 1 .. Len(samples) + 1
       /\ \A i \in DOMAIN samples : samples'[i] = samples[i]
       /\ samples'[Len(samples) + 1] = s /\ samples' # <<>>
  BY <1>1, <1>2, <1>9 DEF Basics
<1>12. samples # <<>> => Follows(Newest, s)
  <2> SUFFICES ASSUME samples # <<>> PROVE Follows(Newest, s)
      OBVIOUS
  <2>1. Newest.at < s.at
    BY <1>1, <1>2, <1>5, <1>10 DEF OnTheWay, SamplesAreOldest, Holding, Newest
  <2>2. Newest.elapsed <= clock.elapsed
    BY <1>4, <1>5, <1>6, <1>7, <1>8
  <2> QED BY <1>4, <1>7, <1>10, <2>1, <2>2 DEF Follows
<1>13. Timeline'
  <2>1. \A i \in DOMAIN samples' : samples'[i].session = starts'
    BY <1>1, <1>2, <1>10, <1>11 DEF Timeline
  <2>2. samples'[1].elapsed = 0
    <3>1. CASE samples = <<>>
      BY <1>4, <1>10, <1>11, <3>1
    <3>2. CASE samples # <<>>
      BY <1>2, <1>5, <1>11, <3>2 DEF Timeline
    <3> QED BY <3>1, <3>2
  <2>3. \A i \in 1 .. Len(samples') - 1 : Follows(samples'[i], samples'[i + 1])
    <3> SUFFICES ASSUME NEW i \in 1 .. Len(samples') - 1
                 PROVE  Follows(samples'[i], samples'[i + 1])
        OBVIOUS
    <3>1. i \in DOMAIN samples /\ i \in Nat
      BY <1>11
    <3>2. CASE i = Len(samples)
      <4>1. samples # <<>> /\ samples'[i] = Newest /\ samples'[i + 1] = s
        BY <1>11, <3>1, <3>2 DEF Newest
      <4> QED BY <1>12, <4>1
    <3>3. CASE i # Len(samples)
      <4>1. i \in 1 .. Len(samples) - 1 /\ i + 1 \in DOMAIN samples
        BY <1>11, <3>1, <3>3
      <4>2. samples'[i] = samples[i] /\ samples'[i + 1] = samples[i + 1]
        BY <1>11, <3>1, <4>1
      <4> QED BY <1>2, <4>1, <4>2 DEF Timeline
    <3> QED BY <3>2, <3>3
  <2>4. (\A i \in 1 .. Len(samples) - 1 : Follows(samples[i], samples[i + 1]))'
    BY <2>3 DEF Follows
  <2> QED BY <2>1, <2>2, <2>4 DEF Timeline
<1>14. ClockIsLast'
  <2>1. Newest' = s
    BY <1>11 DEF Newest
  <2> QED BY <1>1, <1>4, <1>10, <1>11, <2>1 DEF ClockIsLast
<1>15. SamplesAreOldest'
  <2>1. Ahead(s.at) /\ s.at <= pos
    BY <1>1, <1>3, <1>10 DEF Fresh
  <2>2. \A i \in DOMAIN samples : Ahead(samples[i].at) /\ samples[i].at <= pos
    BY <1>2 DEF OnTheWay, SamplesAreOldest
  <2>3. \A i \in DOMAIN samples' : Ahead(samples'[i].at) /\ samples'[i].at <= pos
    BY <1>11, <2>1, <2>2
  <2>4. ~Holding'
    BY <1>1 DEF Holding
  <2> QED BY <1>1, <2>3, <2>4 DEF SamplesAreOldest, Ahead
<1>16. QueueInOrder' /\ FrameIsNewest' /\ TakenIsOlder'
  BY <1>1, <1>2 DEF OnTheWay, QueueInOrder, FrameIsNewest, TakenIsOlder, Fresh, Holding
<1>17. Basics'
  BY <1>1, <1>2, <1>11 DEF Basics
<1> QED BY <1>13, <1>14, <1>15, <1>16, <1>17 DEF TInv, OnTheWay

\* start() makes everything anew, or leaves a session without threads.
LEMMA SessionBegins ==
    ASSUME TInv, LInv', OpenFails \/ Open
    PROVE  TInv'
<1>1. /\ starts' = starts + 1 /\ samples' = <<>> /\ UNCHANGED file /\ starts \in Nat
      /\ samples' \in Seq(Samples) /\ DOMAIN samples' = {}
  <2>1. starts' = starts + 1 /\ samples' = <<>>
    BY DEF OpenFails, Open, Reset, NothingTold
  <2>2. UNCHANGED file
    BY DEF OpenFails, Open, commsVars
  <2>3. starts \in Nat
    BY DEF TInv, Basics
  <2> QED BY <2>1, <2>2, <2>3
<1>2. Timeline'
  BY <1>1 DEF Timeline
<1>3. CASE OpenFails
  <2>1. UNCHANGED <<pos, pending, parser>> /\ parser = "none"
    BY <1>3 DEF OpenFails, commsVars, framerVars, parserVars, TInv, LInv, OwnerKnows
  <2> QED BY <1>1, <1>2, <2>1 DEF TInv, Basics
<1>4. CASE Open
  <2>1. /\ pos' = 0 /\ pending' = <<>> /\ queue' = <<>> /\ clock' = FreshClock
        /\ reader' = reader /\ parser' \in {"getting", "none"} /\ reader = "none"
    BY <1>4 DEF Open, OpenInput, FreshQueue, readerVars, TInv, LInv, OwnerKnows
  <2>2. queue' \in Seq(Frames) /\ DOMAIN queue' = {} /\ pending' \in Seq(Characters)
    BY <2>1
  <2>3. Basics'
    BY <1>1, <2>1, <2>2 DEF TInv, Basics
  <2>4. OnTheWay'
    BY <1>1, <2>1, <2>2
       DEF OnTheWay, QueueInOrder, FrameIsNewest, TakenIsOlder, SamplesAreOldest, ClockIsLast,
           Holding, FreshClock
  <2> QED BY <1>2, <2>3, <2>4 DEF TInv
<1> QED BY <1>3, <1>4

\* Every step keeps the times true.
LEMMA TInvHolds_Next == TInv /\ [Next]_vars => TInv'
<1> SUFFICES ASSUME TInv, [Next]_vars PROVE TInv'
    OBVIOUS
<1>0. LInv' /\ LInv /\ pending \in Seq(Characters) /\ <<>> \in Seq(Characters)
  BY LInvHolds_Next DEF TInv, Basics
<1>1. CASE ReaderLoop \/ FramerLoop
  BY <1>0, <1>1, NothingMoves
     DEF ReaderLoop, FramerLoop, dataVars, commsVars, sessionVars, framerVars, queueVars,
         parserVars, toldVars
<1>2. CASE ReadChar BY <1>0, <1>2, ReadKeepsOrder
<1>3. CASE ReadEnd \/ ReadFails
  BY <1>0, <1>3, NothingMoves
     DEF ReadEnd, ReadFails, sessionVars, framerVars, queueVars, parserVars, toldVars
<1>4. CASE PutFrame BY <1>0, <1>4, PutKeepsOrder
<1>5. CASE Finish \/ FinishJoins
  BY <1>0, <1>5, NothingMoves
     DEF Finish, FinishJoins, dataVars, commsVars, sessionVars, framerVars, queueVars, toldVars
<1>6. CASE FinishSums \/ FinishTells \/ FinishCompletes
  BY <1>0, <1>6, NothingMoves
     DEF FinishSums, FinishTells, FinishCompletes, dataVars, commsVars, sessionVars, framerVars,
         queueVars, parserVars, toldVars
<1>7. CASE GetFrame BY <1>0, <1>7, GetKeepsOrder
<1>8. CASE GetNothing \/ ParserIdle
  BY <1>0, <1>8, NothingMoves
     DEF GetNothing, ParserIdle, dataVars, commsVars, sessionVars, framerVars, queueVars,
         readerVars, toldVars
<1>9. CASE Refuse
  <2>1. /\ parser = "parsing" /\ parser' = "getting"
        /\ UNCHANGED <<file, pos, starts, pending, queue, frame, reader, clock, samples>>
    BY <1>9 DEF Refuse, commsVars, sessionVars, framerVars, queueVars, readerVars, toldVars
  <2>2. OnTheWay /\ Basics /\ Timeline
    BY <2>1 DEF TInv
  <2>3. OnTheWay'
    BY <2>1, <2>2 DEF OnTheWay, QueueInOrder, FrameIsNewest, TakenIsOlder, SamplesAreOldest,
                      ClockIsLast, Fresh, Ahead, Holding, Newest
  <2> QED BY <1>0, <2>1, <2>2, <2>3 DEF TInv, Basics, Timeline, Follows
<1>10. CASE Accept BY <1>0, <1>10, AcceptKeepsTime
<1>11. CASE Deliver BY <1>0, <1>11, DeliverKeepsTime
<1>12. CASE StartCalled \/ StopCalled \/ LaunchFails
  BY <1>0, <1>12, NothingMoves
     DEF StartCalled, StopCalled, LaunchFails, BeginStop, framerVars, queueVars, parserVars,
         toldVars
<1>13. CASE JoinReader \/ JoinParser
  BY <1>0, <1>13, NothingMoves
     DEF JoinReader, JoinParser, dataVars, commsVars, sessionVars, framerVars, queueVars,
         readerVars, toldVars
<1>14. CASE OpenFails \/ Open BY <1>0, <1>14, SessionBegins
<1>15. CASE Launch
  BY <1>0, <1>15, NothingMoves
     DEF Launch, dataVars, commsVars, sessionVars, framerVars, queueVars, parserVars, toldVars
<1>16. CASE UNCHANGED vars
  BY <1>0, <1>16, NothingMoves
     DEF vars, dataVars, commsVars, sessionVars, framerVars, queueVars, readerVars, parserVars,
         toldVars
<1> QED
  BY <1>1, <1>2, <1>3, <1>4, <1>5, <1>6, <1>7, <1>8, <1>9, <1>10, <1>11, <1>12, <1>13,
     <1>14, <1>15, <1>16
     DEF Next, ReaderStep, ParserStep, OwnerGoesOn

LEMMA TInvHolds_Init == Init => TInv
<1> SUFFICES ASSUME Init PROVE TInv
    OBVIOUS
<1>1. /\ file \in Recordings /\ pos = 0 /\ starts = 0 /\ pending = <<>> /\ samples = <<>>
      /\ parser = "none" /\ DOMAIN samples = {}
  BY DEF Init
<1>2. pending \in Seq(Characters) /\ samples \in Seq(Samples)
  BY <1>1
<1> QED BY <1>1, <1>2, LInvHolds_Init DEF TInv, Basics, Timeline

\* The samples of a session start at zero, never go back, and are the true times
\* apart wherever those are less than half the period of the packet clock; all are
\* of one device and of this session (ParserWorker::m_process).
THEOREM TimesAreTrue == Spec => []TimelineIsTrue
<1>1. TInv => TimelineIsTrue
  BY DEF TInv, Timeline, Follows, TimelineIsTrue
<1> QED BY <1>1, TInvHolds_Init, TInvHolds_Next, PTL DEF Spec

-----------------------------------------------------------------------------

(***************************************************************************)
(* Sums over finite sets: they are well defined, they depend on what is    *)
(* summed up only, and one thing more is its value more, whichever thing.  *)
(***************************************************************************)

\* Induction over the natural numbers, the formula being given by the set of the
\* numbers it holds for.
LEMMA EveryNumber ==
    ASSUME NEW T, 0 \in T, \A n \in Nat : n \in T => n + 1 \in T
    PROVE  Nat \subseteq T
<1> SUFFICES ASSUME Nat \ T # {} PROVE FALSE
    OBVIOUS
<1> DEFINE R == OpToRel(<, Nat)
<1>1. IsWellFoundedOn(R, Nat)
  BY NatLessThanWellFounded
<1>2. \A x, y \in Nat : y < x => <<y, x>> \in R
  BY DEF OpToRel
<1> HIDE DEF R
<1>3. PICK x \in Nat \ T : \A y \in Nat \ T : ~(<<y, x>> \in R)
  BY <1>1, WFMin
<1>4. x - 1 \in Nat /\ x - 1 < x /\ x = (x - 1) + 1
  BY <1>3
<1>5. x - 1 \in T
  BY <1>2, <1>3, <1>4
<1> QED BY <1>3, <1>4, <1>5

Some(s) == CHOOSE x \in s : TRUE

\* h[s] is the sum of w[x] over the x in s, for the s in D.
IsSum(h, w, D) ==
    h = [s \in D |-> IF s = {} THEN 0 ELSE w[Some(s)] + h[s \ {Some(s)}]]

\* A set that is not empty is larger than what is left of it.
LEMMA SomeGone ==
    ASSUME NEW S, IsFiniteSet(S), NEW s \in SUBSET S
    PROVE  /\ IsFiniteSet(s) /\ Cardinality(s) \in Nat /\ Cardinality(s) <= Cardinality(S)
           /\ (Cardinality(s) = 0 <=> s = {})
           /\ s # {} => Some(s) \in s
           /\ \A x \in s : /\ s \ {x} \in SUBSET S
                           /\ Cardinality(s \ {x}) = Cardinality(s) - 1
<1>1. IsFiniteSet(s) /\ Cardinality(s) <= Cardinality(S) /\ Cardinality(s) \in Nat
  BY FS_Subset, FS_CardinalityType
<1>2. Cardinality(s) = 0 <=> s = {}
  BY <1>1, FS_EmptySet
<1>3. s # {} => Some(s) \in s
  BY DEF Some
<1>4. \A x \in s : s \ {x} \in SUBSET S /\ Cardinality(s \ {x}) = Cardinality(s) - 1
  BY <1>1, FS_RemoveElement
<1> QED BY <1>1, <1>2, <1>3, <1>4

\* Summing up is well defined.
LEMMA SumExists ==
    ASSUME NEW w, NEW S, IsFiniteSet(S)
    PROVE  \E h : IsSum(h, w, SUBSET S)
<1> DEFINE Small(k) == {s \in SUBSET S : Cardinality(s) <= k}
           T == {k \in Nat : \E h : IsSum(h, w, Small(k))}
<1>0. \A s \in SUBSET S : /\ Cardinality(s) \in Nat /\ Cardinality(s) <= Cardinality(S)
                          /\ (Cardinality(s) = 0 <=> s = {})
                          /\ s # {} => /\ s \ {Some(s)} \in SUBSET S
                                       /\ Cardinality(s \ {Some(s)}) = Cardinality(s) - 1
  BY SomeGone
<1>1. 0 \in T
  <2> DEFINE h == [s \in Small(0) |-> 0]
  <2>1. \A s \in Small(0) : s = {}
    <3> TAKE s \in Small(0)
    <3>1. s \in SUBSET S /\ Cardinality(s) <= 0
      OBVIOUS
    <3>2. Cardinality(s) \in Nat
      BY <1>0, <3>1
    <3>3. Cardinality(s) = 0
      BY <3>1, <3>2
    <3> QED BY <1>0, <3>1, <3>3
  <2>2. h = [s \in Small(0) |-> IF s = {} THEN 0 ELSE w[Some(s)] + h[s \ {Some(s)}]]
    BY <2>1
  <2> QED BY <2>2 DEF IsSum
<1>2. ASSUME NEW k \in Nat, k \in T PROVE k + 1 \in T
  <2>1. PICK h : IsSum(h, w, Small(k))
    BY <1>2
  <2> DEFINE next(f, s) == IF s = {} THEN 0 ELSE w[Some(s)] + f[s \ {Some(s)}]
             g == [s \in Small(k + 1) |-> IF s \in Small(k) THEN h[s] ELSE next(h, s)]
  <2>2. \A s \in Small(k + 1) : s # {} => s \ {Some(s)} \in Small(k)
    BY <1>0
  <2>3. \A s \in Small(k) : h[s] = next(h, s)
    BY <2>1 DEF IsSum
  <2>4. \A s \in Small(k) : s \in Small(k + 1)
    <3> TAKE s \in Small(k)
    <3>1. s \in SUBSET S /\ Cardinality(s) \in Nat /\ Cardinality(s) <= k
      BY <1>0
    <3> QED BY <3>1
  <2> HIDE DEF Small
  <2>5. \A s \in Small(k + 1) : g[s] = next(h, s)
    BY <2>3
  <2>6. \A s \in Small(k + 1) : s # {} => g[s \ {Some(s)}] = h[s \ {Some(s)}]
    BY <2>2, <2>4
  <2>7. \A s \in Small(k + 1) : g[s] = next(g, s)
    BY <2>5, <2>6
  <2>8. g = [s \in Small(k + 1) |-> next(g, s)]
    BY <2>7
  <2> HIDE DEF g
  <2>9. IsSum(g, w, Small(k + 1))
    BY <2>8 DEF IsSum
  <2> QED BY <2>9
<1> DEFINE n == Cardinality(S)
<1>3. n \in T
  <2>1. n \in Nat
    BY FS_CardinalityType
  <2> HIDE DEF T, n
  <2> QED BY <1>1, <1>2, <2>1, EveryNumber
<1>4. Small(n) = SUBSET S
  BY <1>0
<1> QED BY <1>3, <1>4

\* All the sets of S with at most so many elements, for inductions over them.
Upto(S, k) == {s \in SUBSET S : Cardinality(s) <= k}

Alike(v, w, s) == \A x \in s : v[x] = w[x]

SameSum(g, h, s) == g[s] = h[s]

\* A sum depends on what is summed up only.
LEMMA SumsAgree ==
    ASSUME NEW S, IsFiniteSet(S), NEW A, NEW B, S \subseteq A, S \subseteq B,
           NEW v, NEW w, Alike(v, w, S), NEW g, NEW h,
           IsSum(g, v, SUBSET A), IsSum(h, w, SUBSET B)
    PROVE  SameSum(g, h, S)
<1> DEFINE T == {k \in Nat : \A s \in Upto(S, k) : g[s] = h[s]}
<1>0. \A s \in SUBSET S :
          /\ Cardinality(s) \in Nat
          /\ s \in SUBSET A /\ s \in SUBSET B
          /\ (Cardinality(s) = 0 <=> s = {})
          /\ s # {} => /\ s \ {Some(s)} \in SUBSET S /\ Some(s) \in S
                       /\ Cardinality(s \ {Some(s)}) = Cardinality(s) - 1
          /\ g[s] = IF s = {} THEN 0 ELSE v[Some(s)] + g[s \ {Some(s)}]
          /\ h[s] = IF s = {} THEN 0 ELSE w[Some(s)] + h[s \ {Some(s)}]
  <2> TAKE s \in SUBSET S
  <2>1. s \in SUBSET A /\ s \in SUBSET B
    OBVIOUS
  <2>2. g[s] = IF s = {} THEN 0 ELSE v[Some(s)] + g[s \ {Some(s)}]
    BY <2>1, Zenon DEF IsSum
  <2>3. h[s] = IF s = {} THEN 0 ELSE w[Some(s)] + h[s \ {Some(s)}]
    BY <2>1, Zenon DEF IsSum
  <2> QED BY <2>1, <2>2, <2>3, SomeGone
<1>1. 0 \in T
  <2>1. \A s \in Upto(S, 0) : s = {} /\ s \in SUBSET S
    <3> TAKE s \in Upto(S, 0)
    <3>1. s \in SUBSET S /\ Cardinality(s) <= 0
      BY DEF Upto
    <3>2. Cardinality(s) \in Nat
      BY <1>0, <3>1
    <3>3. Cardinality(s) = 0
      BY <3>1, <3>2
    <3> QED BY <1>0, <3>1, <3>3
  <2> QED BY <1>0, <2>1
<1>2. ASSUME NEW k \in Nat, k \in T PROVE k + 1 \in T
  <2>1. ASSUME NEW s \in Upto(S, k + 1) PROVE g[s] = h[s]
    <3>1. CASE s = {}
      BY <1>0, <3>1 DEF Upto
    <3>2. CASE s # {}
      <4> DEFINE r == s \ {Some(s)}
      <4>1. s \in SUBSET S /\ Cardinality(s) <= k + 1
        BY DEF Upto
      <4>2. r \in Upto(S, k)
        BY <1>0, <3>2, <4>1 DEF Upto
      <4>3. g[r] = h[r]
        BY <1>2, <4>2
      <4>4. v[Some(s)] = w[Some(s)]
        BY <1>0, <3>2, <4>1 DEF Alike
      <4> HIDE DEF r
      <4>5. g[s] = v[Some(s)] + g[r] /\ h[s] = w[Some(s)] + h[r]
        BY <1>0, <3>2, <4>1 DEF r
      <4> QED BY <4>3, <4>4, <4>5
    <3> QED BY <3>1, <3>2
  <2> QED BY <2>1
<1> DEFINE n == Cardinality(S)
<1>3. n \in Nat /\ n \in T
  <2>1. n \in Nat
    BY FS_CardinalityType
  <2> HIDE DEF T, n
  <2> QED BY <1>1, <1>2, <2>1, EveryNumber
<1>4. S \in Upto(S, n)
  BY <1>3 DEF Upto
<1> QED BY <1>3, <1>4 DEF SameSum

Summed(h, w, s, x) == h[s] = w[x] + h[s \ {x}] /\ h[s] \in Nat /\ h[s \ {x}] \in Nat

\* The order of adding up does not matter.
LEMMA SumIsCommutative ==
    ASSUME NEW S, IsFiniteSet(S), NEW w, \A x \in S : w[x] \in Nat, NEW h, IsSum(h, w, SUBSET S)
    PROVE  \A s \in SUBSET S : h[s] \in Nat /\ \A x \in s : Summed(h, w, s, x)
<1> DEFINE T == {k \in Nat : \A s \in Upto(S, k) :
                    h[s] \in Nat /\ \A x \in s : h[s] = w[x] + h[s \ {x}]}
<1>0. \A s \in SUBSET S :
          /\ Cardinality(s) \in Nat /\ Cardinality(s) <= Cardinality(S)
          /\ (Cardinality(s) = 0 <=> s = {})
          /\ s # {} => Some(s) \in s
          /\ \A x \in s : /\ s \ {x} \in SUBSET S
                          /\ Cardinality(s \ {x}) = Cardinality(s) - 1
          /\ h[s] = IF s = {} THEN 0 ELSE w[Some(s)] + h[s \ {Some(s)}]
  <2> TAKE s \in SUBSET S
  <2>1. h[s] = IF s = {} THEN 0 ELSE w[Some(s)] + h[s \ {Some(s)}]
    BY Zenon DEF IsSum
  <2> QED BY <2>1, SomeGone
<1>1. 0 \in T
  <2>1. \A s \in Upto(S, 0) : s = {} /\ s \in SUBSET S
    <3> TAKE s \in Upto(S, 0)
    <3>1. s \in SUBSET S /\ Cardinality(s) <= 0
      BY DEF Upto
    <3>2. Cardinality(s) \in Nat
      BY <1>0, <3>1
    <3>3. Cardinality(s) = 0
      BY <3>1, <3>2
    <3> QED BY <1>0, <3>1, <3>3
  <2>2. h[{}] = 0
    BY <1>0
  <2>3. \A s \in Upto(S, 0) : h[s] \in Nat /\ \A x \in s : h[s] = w[x] + h[s \ {x}]
    <3> TAKE s \in Upto(S, 0)
    <3>1. s = {}
      BY <2>1
    <3> QED BY <2>2, <3>1
  <2> QED BY <2>3
<1>2. ASSUME NEW k \in Nat, k \in T PROVE k + 1 \in T
  <2>0. \A s \in Upto(S, k) : h[s] \in Nat /\ \A x \in s : h[s] = w[x] + h[s \ {x}]
    BY <1>2
  <2>1. ASSUME NEW s \in Upto(S, k + 1), s # {} PROVE h[s] \in Nat /\ \A x \in s : h[s] = w[x] + h[s \ {x}]
    <3> DEFINE y == Some(s)
    <3>1. s \in SUBSET S /\ Cardinality(s) <= k + 1 /\ y \in s
      BY <1>0, <2>1 DEF Upto
    <3> HIDE DEF y
    <3>2. \A x \in s : s \ {x} \in Upto(S, k) /\ w[x] \in Nat
      <4> TAKE x \in s
      <4>1. s \ {x} \in SUBSET S /\ Cardinality(s \ {x}) = Cardinality(s) - 1
        BY <1>0, <3>1
      <4>2. Cardinality(s) \in Nat
        BY <1>0, <3>1
      <4>3. Cardinality(s \ {x}) <= k
        BY <3>1, <4>1, <4>2
      <4> QED BY <3>1, <4>1, <4>3 DEF Upto
    <3>3. h[s] = w[y] + h[s \ {y}]
      BY <1>0, <2>1, <3>1 DEF y
    <3>4. h[s] \in Nat
      BY <2>0, <3>1, <3>2, <3>3
    <3>5. ASSUME NEW x \in s, x # y PROVE h[s] = w[x] + h[s \ {x}]
      <4> DEFINE r == (s \ {y}) \ {x}
      <4>1. h[s \ {y}] = w[x] + h[r]
        BY <2>0, <3>1, <3>2, <3>5
      <4>2. r = (s \ {x}) \ {y}
        OBVIOUS
      <4> HIDE DEF r
      <4>3. h[s \ {x}] = w[y] + h[r]
        <5>1. y \in s \ {x}
          BY <3>1, <3>5
        <5> QED BY <2>0, <3>2, <4>2, <5>1
      <4>4. r \in Upto(S, k)
        <5>1. s \ {x} \in SUBSET S /\ Cardinality(s \ {x}) \in Nat /\ Cardinality(s \ {x}) <= k
          BY <1>0, <3>2 DEF Upto
        <5>2. y \in s \ {x}
          BY <3>1, <3>5
        <5>3. r \in SUBSET S /\ Cardinality(r) = Cardinality(s \ {x}) - 1
          BY <1>0, <4>2, <5>1, <5>2
        <5>4. Cardinality(r) <= k
          BY <5>1, <5>3
        <5> QED BY <5>3, <5>4 DEF Upto
      <4>5. h[r] \in Nat /\ w[x] \in Nat /\ w[y] \in Nat
        BY <2>0, <3>1, <3>2, <4>4
      <4> QED BY <3>3, <4>1, <4>3, <4>5
    <3> QED BY <3>3, <3>4, <3>5
  <2>2. ASSUME NEW s \in Upto(S, k + 1), s = {} PROVE h[s] \in Nat
    BY <1>0, <2>2
  <2> QED BY <2>1, <2>2
<1> DEFINE n == Cardinality(S)
<1>3. n \in Nat /\ n \in T
  <2>1. n \in Nat
    BY FS_CardinalityType
  <2> HIDE DEF T, n
  <2> QED BY <1>1, <1>2, <2>1, EveryNumber
<1>4. \A s \in SUBSET S : s \in Upto(S, n)
  BY <1>0 DEF Upto
<1>5. \A s \in SUBSET S : h[s] \in Nat /\ \A x \in s : h[s] = w[x] + h[s \ {x}]
  BY <1>3, <1>4
<1> QED BY <1>5 DEF Summed

-----------------------------------------------------------------------------

SizeOf(S) == MapThenSumSet(LAMBDA f : f.size, S)
Counted(c) == MapThenSumSet(LAMBDA m : c[m], Messages)

Sized(S) == IsFiniteSet(S) /\ \A f \in S : f.size \in Nat

IsSizes(h, D) ==
    h = [s \in D |-> IF s = {} THEN 0 ELSE Some(s).size + h[s \ {Some(s)}]]

\* The definition of the two sums, as functions of the sets of what is summed up.
LEMMA SizeIsSum ==
    ASSUME NEW S, Sized(S)
    PROVE  \E h : IsSum(h, [f \in S |-> f.size], SUBSET S) /\ SizeOf(S) = h[S]
<1> DEFINE w == [f \in S |-> f.size]
           fold == CHOOSE h : h = [s \in SUBSET S |->
                      IF s = {} THEN 0
                      ELSE (CHOOSE x \in s : TRUE).size + h[s \ {CHOOSE x \in s : TRUE}]]
<1>1. SizeOf(S) = fold[S]
  BY Zenon DEF SizeOf, MapThenSumSet, MapThenFoldSet
<1>2. fold = CHOOSE h : IsSizes(h, SUBSET S)
  BY DEF IsSizes, Some
<1>3. \A s \in SUBSET S : s # {} => Some(s).size = w[Some(s)]
  BY SomeGone DEF Sized
<1> HIDE DEF fold, w
<1>4. ASSUME NEW h PROVE IsSizes(h, SUBSET S) <=> IsSum(h, w, SUBSET S)
  BY <1>3 DEF IsSizes, IsSum
<1>5. \E h : IsSum(h, w, SUBSET S)
  BY SumExists DEF Sized
<1>6. \E h : IsSizes(h, SUBSET S)
  BY <1>4, <1>5
<1>7. IsSizes(fold, SUBSET S)
  BY <1>2, <1>6
<1>8. IsSum(fold, w, SUBSET S)
  BY <1>4, <1>7
<1> QED BY <1>1, <1>8 DEF w

LEMMA MessagesAreFinite == IsFiniteSet(Messages)
<1> DEFINE a == {"resync", "length", "cut", "end"}
           b == {"read", "packet", "device", "order"}
           c == {"elapsed", "delivery", "other"}
<1>1. \A x, y, z, u : IsFiniteSet({x, y, z}) /\ IsFiniteSet({x, y, z, u})
  <2> TAKE x, y, z, u
  <2>1. IsFiniteSet({x}) /\ IsFiniteSet({y}) /\ IsFiniteSet({z}) /\ IsFiniteSet({u})
    BY FS_Singleton
  <2>2. IsFiniteSet({x} \cup {y})
    BY <2>1, FS_Union
  <2>3. IsFiniteSet(({x} \cup {y}) \cup {z})
    BY <2>1, <2>2, FS_Union
  <2>4. IsFiniteSet((({x} \cup {y}) \cup {z}) \cup {u})
    BY <2>1, <2>3, FS_Union
  <2>5. /\ {x, y, z} = ({x} \cup {y}) \cup {z}
        /\ {x, y, z, u} = (({x} \cup {y}) \cup {z}) \cup {u}
    OBVIOUS
  <2> QED BY <2>3, <2>4, <2>5
<1>2. IsFiniteSet(a) /\ IsFiniteSet(b) /\ IsFiniteSet(c)
  BY <1>1
<1>3. Messages = (a \cup b) \cup c
  BY DEF Messages
<1> HIDE DEF a, b, c
<1>4. IsFiniteSet(a \cup b)
  BY <1>2, FS_Union
<1> QED BY <1>2, <1>3, <1>4, FS_Union

LEMMA CountedIsSum ==
    ASSUME NEW c
    PROVE  \E h : IsSum(h, c, SUBSET Messages) /\ Counted(c) = h[Messages]
<1> DEFINE fold == CHOOSE h : h = [s \in SUBSET Messages |->
                      IF s = {} THEN 0
                      ELSE c[CHOOSE x \in s : TRUE] + h[s \ {CHOOSE x \in s : TRUE}]]
<1>1. Counted(c) = fold[Messages]
  BY Zenon DEF Counted, MapThenSumSet, MapThenFoldSet
<1>2. fold = CHOOSE h : IsSum(h, c, SUBSET Messages)
  BY DEF IsSum, Some
<1> HIDE DEF fold
<1>3. \E h : IsSum(h, c, SUBSET Messages)
  BY SumExists, MessagesAreFinite
<1>4. IsSum(fold, c, SUBSET Messages)
  BY <1>2, <1>3
<1> QED BY <1>1, <1>4

\* No packets have no bytes.
LEMMA SizeOfNothing == SizeOf({}) = 0
<1>1. Sized({})
  BY FS_EmptySet DEF Sized
<1>2. PICK h : IsSum(h, [f \in {} |-> f.size], SUBSET {}) /\ SizeOf({}) = h[{}]
  BY <1>1, SizeIsSum
<1>3. h[{}] = 0
  BY <1>2 DEF IsSum
<1> QED BY <1>2, <1>3

\* One packet more has its bytes more, whichever it is.
LEMMA SizeOfOneMore ==
    ASSUME NEW S, Sized(S), NEW x, x \in S
    PROVE  /\ Sized(S \ {x}) /\ SizeOf(S \ {x}) \in Nat
           /\ SizeOf(S) = x.size + SizeOf(S \ {x})
<1> DEFINE R == S \ {x}
           w == [f \in S |-> f.size]
           v == [f \in R |-> f.size]
<1>1. Sized(R) /\ IsFiniteSet(R) /\ IsFiniteSet(S)
  BY FS_Subset DEF Sized
<1>2. PICK h : IsSum(h, w, SUBSET S) /\ SizeOf(S) = h[S]
  BY SizeIsSum
<1>3. PICK g : IsSum(g, v, SUBSET R) /\ SizeOf(R) = g[R]
  BY <1>1, SizeIsSum
<1>4. Alike(v, w, R)
  BY DEF Alike
<1>5. R \subseteq S /\ R \subseteq R /\ R = S \ {x}
  OBVIOUS
<1>6. (\A f \in S : w[f] \in Nat) /\ w[x] = x.size
  BY DEF Sized
<1> HIDE DEF R, v, w
<1>7. SameSum(g, h, R)
  BY <1>1, <1>2, <1>3, <1>4, <1>5, SumsAgree
<1>8. h[S] = w[x] + h[R] /\ h[R] \in Nat
  <2>1. \A s \in SUBSET S : h[s] \in Nat /\ \A y \in s : Summed(h, w, s, y)
    BY <1>1, <1>2, <1>6, SumIsCommutative
  <2>2. S \in SUBSET S
    OBVIOUS
  <2>3. Summed(h, w, S, x)
    BY <2>1, <2>2
  <2> QED BY <1>5, <2>3 DEF Summed
<1> QED BY <1>1, <1>2, <1>3, <1>5, <1>6, <1>7, <1>8 DEF SameSum

\* Nothing is counted at first.
LEMMA CountedNothing == Counted(NoCounts) = 0
<1>1. PICK h : IsSum(h, NoCounts, SUBSET Messages) /\ Counted(NoCounts) = h[Messages]
  BY CountedIsSum
<1> DEFINE z == [s \in SUBSET Messages |-> 0]
<1>2. \A s \in SUBSET Messages : z[s] = IF s = {} THEN 0 ELSE NoCounts[Some(s)] + z[s \ {Some(s)}]
  <2> TAKE s \in SUBSET Messages
  <2>1. s # {} => Some(s) \in Messages /\ s \ {Some(s)} \in SUBSET Messages
    BY DEF Some
  <2>2. s # {} => NoCounts[Some(s)] = 0 /\ z[s \ {Some(s)}] = 0
    BY <2>1 DEF NoCounts
  <2> QED BY <2>2
<1>3. z = [s \in SUBSET Messages |-> IF s = {} THEN 0 ELSE NoCounts[Some(s)] + z[s \ {Some(s)}]]
  BY <1>2
<1>4. z[Messages] = 0
  OBVIOUS
<1> HIDE DEF z
<1>5. IsSum(z, NoCounts, SUBSET Messages)
  BY <1>3 DEF IsSum
<1>6. Alike(NoCounts, NoCounts, Messages)
  BY DEF Alike
<1>7. SameSum(h, z, Messages)
  BY <1>1, <1>5, <1>6, MessagesAreFinite, SumsAgree
<1> QED BY <1>1, <1>4, <1>7 DEF SameSum

\* A message more is one more that is counted, whatever its kind.
LEMMA CountedOneMore ==
    ASSUME NEW c \in [Messages -> Nat], NEW m \in Messages
    PROVE  Counted(c) \in Nat /\ Counted([c EXCEPT ![m] = @ + 1]) = Counted(c) + 1
<1> DEFINE d == [c EXCEPT ![m] = @ + 1]
           R == Messages \ {m}
<1>1. PICK g : IsSum(g, c, SUBSET Messages) /\ Counted(c) = g[Messages]
  BY CountedIsSum
<1>2. PICK h : IsSum(h, d, SUBSET Messages) /\ Counted(d) = h[Messages]
  BY CountedIsSum
<1>3. /\ \A x \in Messages : c[x] \in Nat /\ d[x] \in Nat
      /\ d[m] = c[m] + 1 /\ Alike(c, d, R) /\ R \subseteq Messages
      /\ R = Messages \ {m} /\ Messages \in SUBSET Messages
  BY DEF Alike
<1>4. IsFiniteSet(Messages) /\ IsFiniteSet(R)
  BY MessagesAreFinite, FS_Subset
<1> HIDE DEF d, R
<1>5. SameSum(g, h, R)
  BY <1>1, <1>2, <1>3, <1>4, SumsAgree
<1>6. \A s \in SUBSET Messages : g[s] \in Nat /\ \A x \in s : Summed(g, c, s, x)
  BY <1>1, <1>3, <1>4, SumIsCommutative
<1>7. \A s \in SUBSET Messages : h[s] \in Nat /\ \A x \in s : Summed(h, d, s, x)
  BY <1>2, <1>3, <1>4, SumIsCommutative
<1>8. Summed(g, c, Messages, m) /\ Summed(h, d, Messages, m)
  BY <1>3, <1>6, <1>7
<1>9. Counted(d) = Counted(c) + 1 /\ Counted(c) \in Nat
  BY <1>1, <1>2, <1>3, <1>5, <1>8 DEF Summed, SameSum
<1> QED BY <1>9 DEF d

-----------------------------------------------------------------------------
(***************************************************************************)
(* The totals.  What the parser has not got is in the queue or was pushed  *)
(* out of it, and the two counts of bytes differ by its size; what the     *)
(* parser has got has become a sample, is being handled or was counted.    *)
(* Both hold while threads run, so they hold of what the last batch says.  *)
(***************************************************************************)

\* The packets that were accepted and that the parser never got, so far.
Unheard == accepted \ parsed

QueueAddsUp ==
    /\ IsFiniteSet(accepted) /\ accepted \subseteq Frames /\ parsed \subseteq accepted
    /\ queue \in Seq(Frames) /\ \A i \in DOMAIN queue : queue[i] \in Unheard
    /\ dropped \in Nat /\ inputBytes \in Nat /\ outputBytes \in Nat
    /\ dropped + Len(queue) = Cardinality(Unheard)
    /\ inputBytes - outputBytes = SizeOf(Unheard)

\* A packet is put once: what has been accepted was read before it.
AcceptedIsOlder ==
    \A f \in accepted : f.at <= pos /\ (reader = "putting" => f.at < frame.at)

LossesAreThose ==
    lost.told => lost.chunks = dropped /\ lost.bytes = inputBytes - outputBytes

InHand == IF Holding THEN 1 ELSE 0

MessagesAddUp ==
    /\ counts \in [Messages -> Nat] /\ errors \in Nat
    /\ active \/ lost.told =>
          Counted(counts) + Len(samples) + InHand = Cardinality(parsed) + errors

AInv == TInv /\ Reported /\ QueueAddsUp /\ AcceptedIsOlder /\ LossesAreThose /\ MessagesAddUp

-----------------------------------------------------------------------------

\* The sets of the account are finite, and have a size.
LEMMA Countable ==
    ASSUME QueueAddsUp
    PROVE  /\ IsFiniteSet(parsed) /\ Cardinality(parsed) \in Nat
           /\ Sized(Unheard) /\ IsFiniteSet(Unheard) /\ Cardinality(Unheard) \in Nat
<1>1. IsFiniteSet(parsed) /\ IsFiniteSet(Unheard)
  BY FS_Subset DEF QueueAddsUp, Unheard
<1>2. \A f \in Unheard : f.size \in Nat
  BY DEF QueueAddsUp, Unheard, Frames
<1> QED BY <1>1, <1>2, FS_CardinalityType DEF Sized

\* FrameQueue::put: one packet more that is not heard of yet, and one of the queue
\* may be pushed out.
LEMMA PutAddsUp ==
    ASSUME AInv, PutFrame
    PROVE  QueueAddsUp' /\ AcceptedIsOlder'
<1> DEFINE full == Len(queue) >= Capacity
           kept == IF full THEN Tail(queue) ELSE queue
           more == IF full THEN 1 ELSE 0
<1>1. /\ reader = "putting" /\ reader' = "loop" /\ pos' = pos
      /\ queue' = Append(kept, frame) /\ dropped' = dropped + more
      /\ inputBytes' = inputBytes + frame.size /\ accepted' = accepted \cup {frame}
      /\ UNCHANGED <<outputBytes, parsed>>
  BY DEF PutFrame, Put, commsVars
<1>2. QueueAddsUp /\ AcceptedIsOlder /\ frame \in Frames /\ Fresh(frame)
  <2>1. parser # "none"
    BY <1>1 DEF AInv, TInv, LInv, ReaderKnows, Feeding
  <2> QED BY <1>1, <2>1 DEF AInv, TInv, OnTheWay, FrameIsNewest
<1>3. /\ kept \in Seq(Frames) /\ Len(kept) + more = Len(queue) /\ more \in Nat
      /\ \A i \in DOMAIN kept : kept[i] \in Unheard
  <2>1. CASE ~full
    BY <1>2, <2>1 DEF QueueAddsUp
  <2>2. CASE full
    <3>1. queue # <<>> /\ queue \in Seq(Frames)
      BY <1>2, <2>2, SessionAssumption DEF QueueAddsUp
    <3>2. Len(Tail(queue)) + 1 = Len(queue)
      BY <3>1
    <3>3. \A i \in DOMAIN Tail(queue) : Tail(queue)[i] \in Unheard
      BY <1>2, <3>1, TailKeepsOrder DEF QueueAddsUp
    <3> QED BY <2>2, <3>1, <3>2, <3>3
  <2> QED BY <2>1, <2>2
<1> HIDE DEF kept, full, more
<1>4. /\ queue' \in Seq(Frames) /\ Len(queue') = Len(kept) + 1 /\ Len(kept) \in Nat
      /\ \A i \in DOMAIN queue' : queue'[i] = frame \/ queue'[i] \in Unheard
  <2>1. /\ Append(kept, frame) \in Seq(Frames) /\ DOMAIN kept = 1 .. Len(kept)
        /\ Len(kept) \in Nat /\ DOMAIN Append(kept, frame) = 1 .. Len(kept) + 1
        /\ \A i \in DOMAIN kept : Append(kept, frame)[i] = kept[i]
        /\ Append(kept, frame)[Len(kept) + 1] = frame
    BY <1>2, <1>3, AppendKeepsOrder
  <2>2. Len(Append(kept, frame)) = Len(kept) + 1
    BY <1>2, <1>3
  <2>3. \A i \in DOMAIN Append(kept, frame) : i \in DOMAIN kept \/ i = Len(kept) + 1
    BY <2>1
  <2> QED BY <1>1, <1>3, <2>1, <2>2, <2>3
<1>5. /\ frame \notin accepted /\ frame.at \in Nat /\ frame.size \in Nat
      /\ \A f \in accepted : f.at \in Nat
  BY <1>1, <1>2 DEF AcceptedIsOlder, QueueAddsUp, Frames
<1>6. /\ frame \in Unheard' /\ Unheard' \ {frame} = Unheard /\ parsed' \subseteq accepted'
      /\ Unheard \subseteq Unheard'
  BY <1>1, <1>2, <1>5 DEF Unheard, QueueAddsUp
<1>7. IsFiniteSet(accepted') /\ accepted' \subseteq Frames
  BY <1>1, <1>2, FS_AddElement DEF QueueAddsUp
<1>8. IsFiniteSet(Unheard') /\ Sized(Unheard')
  <2>1. Unheard' \subseteq accepted'
    BY DEF Unheard
  <2>2. IsFiniteSet(Unheard')
    BY <1>7, <2>1, FS_Subset
  <2>3. \A f \in Unheard' : f.size \in Nat
    BY <1>7, <2>1 DEF Frames
  <2> QED BY <2>2, <2>3 DEF Sized
<1> DEFINE U == Unheard'
           n == Cardinality(Unheard)
<1>9. Cardinality(U \ {frame}) = Cardinality(U) - 1 /\ Cardinality(U) \in Nat
  BY <1>6, <1>8, FS_RemoveElement, FS_CardinalityType
<1>10. SizeOf(U) = frame.size + SizeOf(U \ {frame}) /\ SizeOf(U \ {frame}) \in Nat
  BY <1>6, <1>8, SizeOfOneMore
<1> HIDE DEF U
<1>11. Cardinality(U) = Cardinality(Unheard) + 1
  <2>1. U \ {frame} = Unheard
    BY <1>6 DEF U
  <2>2. Cardinality(Unheard) \in Nat
    BY <1>2, Countable
  <2> QED BY <1>9, <2>1, <2>2
<1>12. SizeOf(U) = frame.size + SizeOf(Unheard)
  BY <1>6, <1>10 DEF U
<1>13. dropped' + Len(queue') = Cardinality(U)
  <2>1. dropped \in Nat /\ Len(queue) \in Nat /\ dropped + Len(queue) = Cardinality(Unheard)
    BY <1>2 DEF QueueAddsUp
  <2>2. Len(queue') = Len(kept) + 1 /\ Len(kept) + more = Len(queue)
    BY <1>3, <1>4
  <2>3. Len(kept) \in Nat /\ more \in Nat /\ dropped' = dropped + more
    BY <1>1, <1>3, <1>4
  <2>4. dropped' + Len(queue') = dropped + Len(queue) + 1
    BY <2>1, <2>2, <2>3
  <2> QED BY <1>11, <2>1, <2>4
<1>14. inputBytes' - outputBytes' = SizeOf(U)
  <2>1. /\ inputBytes \in Nat /\ outputBytes \in Nat
        /\ inputBytes - outputBytes = SizeOf(Unheard)
    BY <1>2 DEF QueueAddsUp
  <2> QED BY <1>1, <1>5, <1>12, <2>1
<1>15. dropped' \in Nat /\ inputBytes' \in Nat /\ outputBytes' \in Nat
  BY <1>1, <1>2, <1>3, <1>5 DEF QueueAddsUp
<1>16. \A i \in DOMAIN queue' : queue'[i] \in Unheard'
  BY <1>4, <1>6
<1>17. QueueAddsUp'
  BY <1>4, <1>6, <1>7, <1>13, <1>14, <1>15, <1>16 DEF QueueAddsUp, U
<1>18. AcceptedIsOlder'
  BY <1>1, <1>2 DEF AcceptedIsOlder, Fresh
<1> QED BY <1>17, <1>18

\* FrameQueue::get: the first of the queue is heard of.
LEMMA GetAddsUp ==
    ASSUME AInv, GetFrame
    PROVE  QueueAddsUp' /\ AcceptedIsOlder'
<1> DEFINE f == Head(queue)
<1>1. /\ queue # <<>> /\ queue' = Tail(queue) /\ outputBytes' = outputBytes + f.size
      /\ parsed' = parsed \cup {f}
      /\ UNCHANGED <<dropped, inputBytes, accepted, pos, frame, reader>>
  BY DEF GetFrame, Get, commsVars, framerVars, readerVars
<1>2. QueueAddsUp /\ AcceptedIsOlder
  BY DEF AInv
<1>3. /\ queue \in Seq(Frames) /\ Len(queue) \in Nat /\ Len(queue') = Len(queue) - 1
      /\ f = queue[1] /\ 1 \in DOMAIN queue
      /\ queue' \in Seq(Frames)
      /\ \A i \in DOMAIN queue' :
             i \in Nat \ {0} /\ i + 1 \in DOMAIN queue /\ queue'[i] = queue[i + 1]
  <2>1. queue \in Seq(Frames)
    BY <1>2 DEF QueueAddsUp
  <2>2. Len(queue) \in Nat /\ Len(Tail(queue)) = Len(queue) - 1
    BY <1>1, <2>1
  <2> QED BY <1>1, <2>1, <2>2, TailKeepsOrder
<1>4. f \in Unheard /\ f \in Frames
  BY <1>2, <1>3 DEF QueueAddsUp, Unheard
<1>5. \A i \in DOMAIN queue' : queue'[i] \in Unheard /\ queue'[i] # f
  <2>0. parser # "none"
    BY DEF GetFrame
  <2>1. OnTheWay
    BY <2>0 DEF AInv, TInv
  <2>2. \A i \in DOMAIN queue' : queue[1].at < queue[i + 1].at
    <3> SUFFICES ASSUME NEW i \in DOMAIN queue' PROVE queue[1].at < queue[i + 1].at
        OBVIOUS
    <3>1. i + 1 \in DOMAIN queue /\ 1 < i + 1
      BY <1>3
    <3> QED BY <1>3, <2>1, <3>1 DEF OnTheWay, QueueInOrder
  <2>3. f.at \in Nat
    BY <1>4 DEF Frames
  <2>4. \A i \in DOMAIN queue' : queue'[i] \in Unheard /\ f.at < queue'[i].at
    BY <1>2, <1>3, <2>2 DEF QueueAddsUp
  <2> HIDE DEF f
  <2>5. ~(f.at < f.at)
    BY <2>3
  <2> QED BY <2>4, <2>5
<1> HIDE DEF f
<1>6. Unheard' = Unheard \ {f} /\ parsed' \subseteq accepted'
  BY <1>1, <1>2, <1>4 DEF Unheard, QueueAddsUp
<1>7. IsFiniteSet(Unheard) /\ Sized(Unheard) /\ f.size \in Nat
  BY <1>2, <1>4, Countable DEF Frames
<1> DEFINE R == Unheard \ {f}
<1>8. Cardinality(R) = Cardinality(Unheard) - 1
  BY <1>4, <1>7, FS_RemoveElement
<1>9. SizeOf(Unheard) = f.size + SizeOf(R) /\ SizeOf(R) \in Nat
  BY <1>4, <1>7, SizeOfOneMore
<1>10. Unheard' = R
  BY <1>6
<1> HIDE DEF R
<1>11. dropped' + Len(queue') = Cardinality(R)
  <2>1. dropped \in Nat /\ dropped + Len(queue) = Cardinality(Unheard)
    BY <1>2 DEF QueueAddsUp
  <2> QED BY <1>1, <1>3, <1>8, <2>1
<1>12. inputBytes' - outputBytes' = SizeOf(R) /\ outputBytes' \in Nat
  <2>1. /\ inputBytes \in Nat /\ outputBytes \in Nat
        /\ inputBytes - outputBytes = SizeOf(Unheard)
    BY <1>2 DEF QueueAddsUp
  <2> QED BY <1>1, <1>7, <1>9, <2>1
<1>13. \A i \in DOMAIN queue' : queue'[i] \in Unheard'
  BY <1>5, <1>6
<1>14. QueueAddsUp'
  BY <1>1, <1>2, <1>3, <1>6, <1>10, <1>11, <1>12, <1>13 DEF QueueAddsUp
<1>15. AcceptedIsOlder'
  BY <1>1, <1>2 DEF AcceptedIsOlder
<1> QED BY <1>14, <1>15

\* A new queue has accepted nothing.
LEMMA FreshQueueAddsUp ==
    ASSUME FreshQueue
    PROVE  QueueAddsUp' /\ AcceptedIsOlder'
<1>1. /\ queue' = <<>> /\ dropped' = 0 /\ inputBytes' = 0 /\ outputBytes' = 0
      /\ accepted' = {} /\ parsed' = {}
  BY DEF FreshQueue
<1>2. Unheard' = {}
  BY <1>1 DEF Unheard
<1>3. Cardinality({}) = 0 /\ IsFiniteSet({}) /\ SizeOf({}) = 0
  BY FS_EmptySet, SizeOfNothing
<1>4. dropped' + Len(queue') = Cardinality(Unheard') /\ inputBytes' - outputBytes' = SizeOf(Unheard')
  BY <1>1, <1>2, <1>3
<1>5. queue' \in Seq(Frames) /\ DOMAIN queue' = {}
  BY <1>1
<1> QED BY <1>1, <1>3, <1>4, <1>5 DEF QueueAddsUp, AcceptedIsOlder

\* A step that touches neither the queue nor what the reader is about to put.
LEMMA QueueStays ==
    ASSUME QueueAddsUp, AcceptedIsOlder, UNCHANGED <<queueVars, frame, pos>>,
           reader' = "putting" => reader = "putting"
    PROVE  QueueAddsUp' /\ AcceptedIsOlder'
<1>1. UNCHANGED <<queue, dropped, inputBytes, outputBytes, accepted, parsed, frame, pos>>
  BY DEF queueVars
<1>2. UNCHANGED Unheard
  BY <1>1 DEF Unheard
<1>3. QueueAddsUp'
  BY <1>1, <1>2 DEF QueueAddsUp
<1> QED BY <1>1, <1>3 DEF AcceptedIsOlder

\* Every step keeps the account of the queue.
LEMMA QueueSteps ==
    ASSUME AInv, Next
    PROVE  QueueAddsUp' /\ AcceptedIsOlder'
<1>0. QueueAddsUp /\ AcceptedIsOlder
  BY DEF AInv
<1>1. CASE ReadChar
  <2>1. /\ pos' = pos + 1 /\ UNCHANGED queueVars
        /\ reader' = "putting" => frame'.at = pos'
    BY <1>1 DEF ReadChar
  <2>2. pos \in Nat /\ \A f \in accepted : f.at \in Nat /\ f.at <= pos
    BY <1>0 DEF AInv, TInv, Basics, QueueAddsUp, AcceptedIsOlder, Frames
  <2>3. UNCHANGED <<queue, dropped, inputBytes, outputBytes, accepted, parsed>>
    BY <2>1 DEF queueVars
  <2>4. UNCHANGED Unheard
    BY <2>3 DEF Unheard
  <2>5. QueueAddsUp'
    BY <1>0, <2>3, <2>4 DEF QueueAddsUp
  <2>6. AcceptedIsOlder'
    BY <2>1, <2>2, <2>3 DEF AcceptedIsOlder
  <2> QED BY <2>5, <2>6
<1>2. CASE PutFrame BY <1>2, PutAddsUp
<1>3. CASE GetFrame BY <1>3, GetAddsUp
<1>4. CASE Open BY <1>4, FreshQueueAddsUp DEF Open
<1>5. CASE ReaderStep /\ ~ReadChar /\ ~PutFrame
  BY <1>0, <1>5, QueueStays
     DEF ReaderStep, ReaderLoop, FramerLoop, ReadEnd, ReadFails, Finish, FinishJoins,
         FinishSums, FinishTells, FinishCompletes, dataVars, commsVars, framerVars
<1>6. CASE ParserStep /\ ~GetFrame
  BY <1>0, <1>6, QueueStays
     DEF ParserStep, GetNothing, ParserIdle, Refuse, Accept, Deliver, dataVars, commsVars,
         framerVars, readerVars
<1>7. CASE StartCalled \/ StopCalled \/ LaunchFails
  BY <1>0, <1>7, QueueStays DEF StartCalled, StopCalled, LaunchFails, BeginStop, framerVars
<1>8. CASE JoinReader \/ JoinParser \/ OpenFails \/ Launch
  BY <1>0, <1>8, QueueStays
     DEF JoinReader, JoinParser, OpenFails, Launch, Reset, dataVars, commsVars, framerVars,
         readerVars
<1> QED
  BY <1>1, <1>2, <1>3, <1>4, <1>5, <1>6, <1>7, <1>8 DEF Next, OwnerGoesOn

-----------------------------------------------------------------------------

\* LossesAreThose: the totals are told by a reader that has nothing left to put and
\* has joined the parser.
LEMMA LossesSteps ==
    ASSUME AInv, Next
    PROVE  LossesAreThose'
<1> USE DEF AInv, Reported, LossesAreThose, Feeding, queueVars
<1>1. CASE FinishSums
  <2>1. /\ lost' = [told |-> TRUE, chunks |-> dropped, bytes |-> inputBytes - outputBytes]
        /\ UNCHANGED <<dropped, inputBytes, outputBytes>>
    BY <1>1 DEF FinishSums, dataVars
  <2> QED BY <2>1
<1>2. CASE PutFrame
  <2>1. ~lost.told /\ UNCHANGED lost
    BY <1>2 DEF PutFrame, toldVars
  <2> QED BY <2>1
<1>3. CASE GetFrame
  <2>1. ~lost.told /\ UNCHANGED lost
    BY <1>3 DEF GetFrame, toldVars
  <2> QED BY <2>1
<1>4. CASE Open \/ OpenFails
  BY <1>4 DEF Open, OpenFails, Reset, NothingTold, Nothing
<1>5. CASE UNCHANGED <<lost, queueVars>>
  BY <1>5
<1>6. ReaderStep /\ ~FinishSums /\ ~PutFrame => UNCHANGED <<lost, queueVars>>
  BY DEF ReaderStep, ReaderLoop, FramerLoop, ReadChar, ReadEnd, ReadFails, Finish,
         FinishJoins, FinishTells, FinishCompletes, dataVars, toldVars
<1>7. ParserStep /\ ~GetFrame => UNCHANGED <<lost, queueVars>>
  BY DEF ParserStep, GetNothing, ParserIdle, Refuse, Accept, Deliver, dataVars, toldVars
<1>8. StartCalled \/ StopCalled \/ JoinReader \/ JoinParser \/ Launch \/ LaunchFails
          => UNCHANGED <<lost, queueVars>>
  BY DEF StartCalled, StopCalled, JoinReader, JoinParser, Launch, LaunchFails, dataVars, toldVars
<1> QED BY <1>1, <1>2, <1>3, <1>4, <1>5, <1>6, <1>7, <1>8 DEF Next, OwnerGoesOn

-----------------------------------------------------------------------------

\* What the framer answers is a frame, nothing or a kind of error
\* (AltosFramer::read_frame).
LEMMA FramerAnswers ==
    ASSUME NEW s, NEW c
    PROVE  FrameChar(s, c).answer \in {"none", "frame", "resync", "length", "cut"}
<1> DEFINE grown == Append(s, c)
<1> HIDE DEF grown
<1>1. PastMagic(grown).answer \in {"none", "frame", "length", "cut"}
  BY DEF PastMagic, Throws, Goes
<1>2. FrameChar(s, c).answer \in {"none", "resync", PastMagic(grown).answer}
  BY DEF FrameChar, grown, Throws, Goes
<1> QED BY <1>1, <1>2

\* Diagnostics::LogLine counts one message, under its own kind or as "other".
LEMMA LogAddsUp ==
    ASSUME NEW m \in Messages, counts \in [Messages -> Nat], LogLine(m)
    PROVE  /\ counts' \in [Messages -> Nat] /\ Counted(counts) \in Nat
           /\ Counted(counts') = Counted(counts) + 1
<1>1. PICK kind \in Messages : counts' = [counts EXCEPT ![kind] = @ + 1]
  <2> DEFINE kinds == {k \in Messages : counts[k] > 0}
             kind == IF Cardinality(kinds) >= MaxKinds /\ m \notin kinds THEN "other" ELSE m
  <2>1. kind \in Messages
    BY DEF Messages
  <2>2. counts' = [counts EXCEPT ![kind] = @ + 1]
    BY DEF LogLine
  <2> HIDE DEF kind
  <2> QED BY <2>1, <2>2
<1>2. Counted([counts EXCEPT ![kind] = @ + 1]) = Counted(counts) + 1 /\ Counted(counts) \in Nat
  BY CountedOneMore
<1>3. \A c \in [Messages -> Nat], k \in Messages : [c EXCEPT ![k] = @ + 1] \in [Messages -> Nat]
  OBVIOUS
<1>4. counts' \in [Messages -> Nat]
  BY <1>1, <1>3
<1> QED BY <1>1, <1>2, <1>4

\* The numbers of the balance are numbers.
LEMMA MessagesAreNumbers ==
    ASSUME AInv
    PROVE  /\ counts \in [Messages -> Nat] /\ errors \in Nat /\ Len(samples) \in Nat
           /\ InHand \in Nat /\ Cardinality(parsed) \in Nat /\ Counted(counts) \in Nat
           /\ active \/ lost.told =>
                 Counted(counts) + Len(samples) + InHand = Cardinality(parsed) + errors
<1>1. counts \in [Messages -> Nat] /\ errors \in Nat /\ InHand \in Nat
  BY DEF AInv, MessagesAddUp, InHand
<1>2. Len(samples) \in Nat
  <2>1. samples \in Seq(Samples)
    BY DEF AInv, TInv, Basics
  <2> QED BY <2>1
<1>3. Cardinality(parsed) \in Nat
  BY Countable DEF AInv
<1>4. "other" \in Messages
  BY DEF Messages
<1>5. Counted(counts) \in Nat
  BY <1>1, <1>4, CountedOneMore
<1> QED BY <1>1, <1>2, <1>3, <1>5 DEF AInv, MessagesAddUp

\* An error of the reader or of a callback is counted twice: as a message and as an
\* error.
LEMMA ErrorAddsUp ==
    ASSUME AInv, NEW m \in Messages, LogLine(m), errors' = errors + 1,
           UNCHANGED <<parsed, lost, active, samples, parser>>
    PROVE  MessagesAddUp'
<1>1. /\ counts' \in [Messages -> Nat] /\ Counted(counts) \in Nat
      /\ Counted(counts') = Counted(counts) + 1
  BY MessagesAreNumbers, LogAddsUp
<1>2. InHand' = InHand
  BY DEF InHand, Holding
<1>3. ASSUME active' \/ lost'.told
      PROVE  Counted(counts') + Len(samples') + InHand' = Cardinality(parsed') + errors'
  <2>1. active \/ lost.told
    BY <1>3
  <2>2. /\ errors \in Nat /\ Len(samples) \in Nat /\ InHand \in Nat
        /\ Cardinality(parsed) \in Nat
        /\ Counted(counts) + Len(samples) + InHand = Cardinality(parsed) + errors
    BY <2>1, MessagesAreNumbers
  <2>3. Counted(counts') + Len(samples) + InHand = Cardinality(parsed) + errors'
    BY <1>1, <2>2
  <2> QED BY <1>2, <2>3
<1>4. errors' \in Nat
  BY MessagesAreNumbers
<1> QED BY <1>1, <1>3, <1>4 DEF MessagesAddUp

\* A step that neither counts nor gets, holds or delivers a packet.
LEMMA MessagesStay ==
    ASSUME AInv, UNCHANGED <<counts, errors, parsed, samples>>, UNCHANGED InHand,
           active' \/ lost'.told => active \/ lost.told
    PROVE  MessagesAddUp'
BY DEF AInv, MessagesAddUp

\* Every step keeps the balance: a packet is got, held and delivered or counted, and
\* a thread does any of it only while the session is running.
LEMMA MessagesSteps ==
    ASSUME AInv, Next
    PROVE  MessagesAddUp'
<1> USE DEF Holding, InHand
<1>0. /\ LInv /\ Reported
      /\ parser # "none" => active /\ ~lost.told
      /\ reader \in Feeding \cup {"summing"} => active /\ ~lost.told
  BY DEF AInv, TInv, LInv, Reported, OwnerKnows, ReaderKnows, Closing
<1>1. CASE ReadChar
  <2> DEFINE did == FrameChar(pending, file[pos + 1])
  <2>1. UNCHANGED <<parsed, lost, active, samples, parser>>
    BY <1>1 DEF ReadChar, sessionVars, queueVars, parserVars, toldVars
  <2>2. CASE did.answer \in {"none", "frame"}
    <3>1. UNCHANGED <<counts, errors>>
      BY <1>1, <2>2 DEF ReadChar, diagVars
    <3> QED BY <2>1, <3>1, MessagesStay
  <2>3. CASE did.answer \notin {"none", "frame"}
    <3>1. did.answer \in Messages
      BY <2>3, FramerAnswers DEF Messages
    <3>2. LogLine(did.answer) /\ errors' = errors + 1
      BY <1>1, <2>3 DEF ReadChar
    <3> HIDE DEF did
    <3> QED BY <2>1, <3>1, <3>2, ErrorAddsUp
  <2> QED BY <2>2, <2>3
<1>2. CASE ReadEnd
  <2>1. UNCHANGED <<parsed, lost, active, samples, parser>>
    BY <1>2 DEF ReadEnd, sessionVars, queueVars, parserVars, toldVars
  <2>2. CASE pending = <<>>
    <3>1. UNCHANGED <<counts, errors>>
      BY <1>2, <2>2 DEF ReadEnd, diagVars
    <3> QED BY <2>1, <3>1, MessagesStay
  <2>3. CASE pending # <<>>
    <3>1. LogLine("end") /\ errors' = errors + 1 /\ "end" \in Messages
      BY <1>2, <2>3 DEF ReadEnd, Messages
    <3> QED BY <2>1, <3>1, ErrorAddsUp
  <2> QED BY <2>2, <2>3
<1>3. CASE ReadFails
  <2>1. UNCHANGED <<parsed, lost, active, samples, parser>>
    BY <1>3 DEF ReadFails, sessionVars, queueVars, parserVars, toldVars
  <2>2. LogLine("read") /\ errors' = errors + 1 /\ "read" \in Messages
    BY <1>3 DEF ReadFails, Messages
  <2> QED BY <2>1, <2>2, ErrorAddsUp
<1>4. CASE ReaderStep /\ ~ReadChar /\ ~ReadEnd /\ ~ReadFails
  <2>1. UNCHANGED <<counts, errors, parsed, samples>>
    BY <1>4
       DEF ReaderStep, ReaderLoop, FramerLoop, PutFrame, Put, Finish, FinishJoins,
           FinishSums, FinishTells, FinishCompletes, dataVars, diagVars, queueVars, toldVars
  <2>2. UNCHANGED InHand
    BY <1>4
       DEF ReaderStep, ReaderLoop, FramerLoop, PutFrame, Finish, FinishJoins,
           FinishSums, FinishTells, FinishCompletes, parserVars
  <2>3. active' \/ lost'.told => active \/ lost.told
    <3>1. CASE FinishSums
      BY <1>0, <3>1 DEF FinishSums
    <3>2. CASE ~FinishSums
      BY <1>4, <3>2
         DEF ReaderStep, ReaderLoop, FramerLoop, PutFrame, Finish, FinishJoins,
             FinishTells, FinishCompletes, sessionVars, toldVars
    <3> QED BY <3>1, <3>2
  <2> QED BY <2>1, <2>2, <2>3, MessagesStay
<1>5. CASE GetFrame
  <2> DEFINE f == Head(queue)
  <2>1. /\ parser = "getting" /\ parser' = "parsing" /\ queue # <<>>
        /\ parsed' = parsed \cup {f}
        /\ UNCHANGED <<counts, errors, samples, active, lost>>
    BY <1>5 DEF GetFrame, Get, sessionVars, diagVars, toldVars
  <2>2. f \notin parsed
    <3>1. queue \in Seq(Frames) /\ \A i \in DOMAIN queue : queue[i] \in Unheard
      BY DEF AInv, QueueAddsUp
    <3>2. f = queue[1] /\ 1 \in DOMAIN queue
      BY <2>1, <3>1, TailKeepsOrder
    <3> QED BY <3>1, <3>2 DEF Unheard
  <2> HIDE DEF f
  <2>3. Cardinality(parsed') = Cardinality(parsed) + 1
    <3>1. IsFiniteSet(parsed)
      BY Countable DEF AInv
    <3> QED BY <2>1, <2>2, <3>1, FS_AddElement
  <2>4. InHand = 0 /\ InHand' = 1
    BY <2>1
  <2>5. /\ errors \in Nat /\ Len(samples) \in Nat /\ Cardinality(parsed) \in Nat
        /\ counts \in [Messages -> Nat] /\ Counted(counts) \in Nat
        /\ Counted(counts) + Len(samples) + InHand = Cardinality(parsed) + errors
    BY <1>0, <2>1, MessagesAreNumbers
  <2> HIDE DEF InHand
  <2>6. Counted(counts) + Len(samples) + InHand' = Cardinality(parsed') + errors
    BY <2>3, <2>4, <2>5
  <2> QED BY <2>1, <2>5, <2>6 DEF MessagesAddUp
<1>6. CASE Refuse
  <2> DEFINE m == Verdict(taken.packet)
  <2>1. /\ parser = "parsing" /\ parser' = "getting" /\ LogLine(m) /\ m # "sample"
        /\ UNCHANGED <<parsed, errors, samples, active, lost>>
    BY <1>6 DEF Refuse, sessionVars, queueVars, toldVars
  <2>2. m \in Messages
    BY <2>1 DEF Verdict, Messages
  <2> HIDE DEF m
  <2>3. InHand = 1 /\ InHand' = 0
    BY <2>1
  <2>4. /\ errors \in Nat /\ Len(samples) \in Nat /\ Cardinality(parsed) \in Nat
        /\ counts \in [Messages -> Nat] /\ Counted(counts) \in Nat
        /\ Counted(counts) + Len(samples) + InHand = Cardinality(parsed) + errors
    BY <1>0, <2>1, MessagesAreNumbers
  <2>5. counts' \in [Messages -> Nat] /\ Counted(counts') = Counted(counts) + 1
    BY <2>1, <2>2, <2>4, LogAddsUp
  <2> HIDE DEF InHand
  <2>6. Counted(counts') + Len(samples) + InHand' = Cardinality(parsed) + errors
    BY <2>3, <2>4, <2>5
  <2> QED BY <2>1, <2>4, <2>5, <2>6 DEF MessagesAddUp
<1>7. CASE Deliver
  <2>1. /\ parser = "delivering" /\ parser' = "getting"
        /\ \E s : samples' = Append(samples, s)
        /\ UNCHANGED <<parsed, active, lost>>
        /\ \/ UNCHANGED <<counts, errors>>
           \/ LogLine("delivery") /\ errors' = errors + 1
    BY <1>7 DEF Deliver, sessionVars, queueVars, diagVars
  <2>2. Len(samples') = Len(samples) + 1
    <3>1. samples \in Seq(Samples)
      BY DEF AInv, TInv, Basics
    <3> QED BY <2>1, <3>1
  <2>3. InHand = 1 /\ InHand' = 0
    BY <2>1
  <2>4. /\ errors \in Nat /\ Len(samples) \in Nat /\ Cardinality(parsed) \in Nat
        /\ counts \in [Messages -> Nat] /\ Counted(counts) \in Nat
        /\ Counted(counts) + Len(samples) + InHand = Cardinality(parsed) + errors
    BY <1>0, <2>1, MessagesAreNumbers
  <2> HIDE DEF InHand
  <2>5. CASE UNCHANGED <<counts, errors>>
    <3>1. Counted(counts) + Len(samples') + InHand' = Cardinality(parsed) + errors
      BY <2>2, <2>3, <2>4
    <3> QED BY <2>1, <2>4, <2>5, <3>1 DEF MessagesAddUp
  <2>6. CASE LogLine("delivery") /\ errors' = errors + 1
    <3>1. counts' \in [Messages -> Nat] /\ Counted(counts') = Counted(counts) + 1
      <4>1. "delivery" \in Messages
        BY DEF Messages
      <4> QED BY <2>4, <2>6, <4>1, LogAddsUp
    <3>2. Counted(counts') + Len(samples') + InHand' = Cardinality(parsed) + errors'
      BY <2>2, <2>3, <2>4, <2>6, <3>1
    <3>3. errors' \in Nat
      BY <2>4, <2>6
    <3> QED BY <2>1, <3>1, <3>2, <3>3 DEF MessagesAddUp
  <2> QED BY <2>1, <2>5, <2>6
<1>8. CASE GetNothing \/ ParserIdle \/ Accept
  <2>1. UNCHANGED <<counts, errors, parsed, samples, active, lost>>
    BY <1>8 DEF GetNothing, ParserIdle, Accept, dataVars, diagVars, queueVars, sessionVars,
                toldVars
  <2>2. UNCHANGED InHand
    BY <1>8 DEF GetNothing, ParserIdle, Accept
  <2> QED BY <2>1, <2>2, MessagesStay
<1>9. CASE StartCalled \/ StopCalled \/ JoinReader \/ JoinParser \/ Launch \/ LaunchFails
  <2>1. UNCHANGED <<counts, errors, parsed, samples, lost>>
    BY <1>9 DEF StartCalled, StopCalled, JoinReader, JoinParser, Launch, LaunchFails,
                dataVars, diagVars, queueVars, toldVars
  <2>2. active' => active
    BY <1>9 DEF StartCalled, StopCalled, JoinReader, JoinParser, Launch, LaunchFails,
                sessionVars
  <2>3. UNCHANGED InHand
    BY <1>9 DEF StartCalled, StopCalled, JoinReader, JoinParser, Launch, LaunchFails,
                parserVars
  <2> QED BY <2>1, <2>2, <2>3, MessagesStay
<1>10. CASE OpenFails
  <2>1. UNCHANGED <<counts, errors, active>> /\ ~active /\ ~lost'.told
    BY <1>0, <1>10 DEF OpenFails, Reset, NothingTold, Nothing, diagVars, LInv, OwnerKnows
  <2> QED BY <2>1 DEF AInv, MessagesAddUp
<1>11. CASE Open
  <2>1. /\ counts' = NoCounts /\ errors' = 0 /\ parsed' = {} /\ samples' = <<>>
        /\ parser' \in {"getting", "none"}
    BY <1>11 DEF Open, Reset, NothingTold, FreshQueue
  <2>2. InHand' = 0 /\ Len(samples') = 0 /\ counts' \in [Messages -> Nat]
    BY <2>1 DEF NoCounts
  <2>3. Cardinality(parsed') = 0 /\ Counted(counts') = 0
    BY <2>1, FS_EmptySet, CountedNothing
  <2> HIDE DEF InHand
  <2> QED BY <2>1, <2>2, <2>3 DEF MessagesAddUp
<1> QED
  BY <1>1, <1>2, <1>3, <1>4, <1>5, <1>6, <1>7, <1>8, <1>9, <1>10, <1>11
     DEF Next, ParserStep, OwnerGoesOn

-----------------------------------------------------------------------------

\* The accounts hold at first and are kept.
LEMMA AInvHolds_Init == Init => AInv
<1> SUFFICES ASSUME Init PROVE AInv
    OBVIOUS
<1>1. /\ queue = <<>> /\ dropped = 0 /\ inputBytes = 0 /\ outputBytes = 0
      /\ accepted = {} /\ parsed = {} /\ counts = NoCounts /\ errors = 0
      /\ lost = Nothing /\ active = FALSE
  BY DEF Init
<1>2. TInv /\ Reported
  <2>1. Reported
    BY DEF Init, Reported, Nothing
  <2> QED BY <2>1, TInvHolds_Init
<1>3. Unheard = {}
  BY <1>1 DEF Unheard
<1>4. Cardinality({}) = 0 /\ IsFiniteSet({}) /\ SizeOf({}) = 0
  BY FS_EmptySet, SizeOfNothing
<1>5. dropped + Len(queue) = Cardinality(Unheard) /\ inputBytes - outputBytes = SizeOf(Unheard)
  BY <1>1, <1>3, <1>4
<1>6. queue \in Seq(Frames) /\ DOMAIN queue = {}
  BY <1>1
<1>7. QueueAddsUp /\ AcceptedIsOlder
  BY <1>1, <1>4, <1>5, <1>6 DEF QueueAddsUp, AcceptedIsOlder
<1>8. LossesAreThose /\ MessagesAddUp
  BY <1>1 DEF LossesAreThose, MessagesAddUp, Nothing, NoCounts
<1> QED BY <1>2, <1>7, <1>8 DEF AInv

LEMMA AInvHolds_Next == AInv /\ [Next]_vars => AInv'
<1> SUFFICES ASSUME AInv, [Next]_vars PROVE AInv'
    OBVIOUS
<1>1. TInv' /\ LInv /\ Reported
  BY TInvHolds_Next DEF AInv, TInv
<1>2. CASE Next
  <2>1. Reported'
    BY <1>1, <1>2, ReportedSteps
  <2>2. QueueAddsUp' /\ AcceptedIsOlder' /\ LossesAreThose' /\ MessagesAddUp'
    BY <1>2, QueueSteps, LossesSteps, MessagesSteps
  <2> QED BY <1>1, <2>1, <2>2 DEF AInv
<1>3. CASE UNCHANGED vars
  <2>1. UNCHANGED <<queueVars, frame, pos, reader, lost, counts, errors, parsed, samples, active,
                    parser, received, reportedBytes, handedBytes, owner>>
    BY <1>3 DEF vars, dataVars, commsVars, sessionVars, framerVars, queueVars, diagVars,
                readerVars, parserVars, ownerVars, toldVars
  <2>2. QueueAddsUp' /\ AcceptedIsOlder'
    BY <2>1, QueueStays DEF AInv
  <2>3. Reported' /\ LossesAreThose'
    BY <1>1, <2>1 DEF Reported, AInv, LossesAreThose, queueVars
  <2>4. MessagesAddUp'
    <3>1. UNCHANGED InHand
      BY <2>1 DEF InHand, Holding
    <3> QED BY <2>1, <3>1, MessagesStay
  <2> QED BY <1>1, <2>2, <2>3, <2>4 DEF AInv
<1> QED BY <1>2, <1>3

\* What the owner has been told when a session ends adds up: the characters, the
\* packets and bytes that were lost between the two threads, and everything that
\* was refused or failed (TelemetrySession::finish, Diagnostics).
THEOREM TotalsAreTrue == Spec => []TotalsAddUp
<1>1. AInv => TotalsAddUp
  <2> SUFFICES ASSUME AInv PROVE TotalsAddUp
      OBVIOUS
  <2>1. BytesTold
    BY DEF AInv, Reported, BytesTold
  <2>2. LossesTold
    <3> SUFFICES ASSUME lost.told
                 PROVE  /\ lost.bytes = SizeOf(Unheard)
                        /\ lost.chunks + Len(queue) = Cardinality(Unheard)
        BY DEF LossesTold, SizeOf, Unheard
    <3> QED BY DEF AInv, LossesAreThose, QueueAddsUp
  <2>3. RefusalsCounted
    <3> SUFFICES ASSUME lost.told
                 PROVE  Counted(counts) + Len(samples) = Cardinality(parsed) + errors
        BY DEF RefusalsCounted, Counted
    <3>1. InHand = 0
      BY DEF AInv, Reported, InHand, Holding
    <3>2. Counted(counts) + Len(samples) + InHand = Cardinality(parsed) + errors
          /\ Counted(counts) \in Nat /\ Len(samples) \in Nat
      BY MessagesAreNumbers
    <3> QED BY <3>1, <3>2
  <2> QED BY <2>1, <2>2, <2>3 DEF TotalsAddUp
<1> QED BY <1>1, AInvHolds_Init, AInvHolds_Next, PTL DEF Spec

=============================================================================
