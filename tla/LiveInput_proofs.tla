--------------------------- MODULE LiveInput_proofs ---------------------------
(***************************************************************************)
(* Proofs about LiveInput, for every capacity of the mailbox, every bound  *)
(* and all sizes of chunks.  The invariants build on each other.           *)
(*                                                                         *)
(* DInv: the flag by which the mailbox coalesces drain requests neither    *)
(* strands a batch nor lets a second drain be posted.  The two facts hold  *)
(* each other up.  The flag is set exactly while one drain of the live     *)
(* generation is on its way, so a batch that finds it set will be drained, *)
(* and one that finds it clear may post the only drain.  For that the      *)
(* generations must be ordered: no thread, event or mailbox ever holds a   *)
(* generation the GUI thread has not begun.                                *)
(*                                                                         *)
(* SInv: a sample is in one of the stages to the recording, and a stage is *)
(* empty once its thread is joined.  OInv: the stages are in the order of  *)
(* decoding.  TInv and UInv: what is overwritten is told.  FInv: every     *)
(* chunk has one fate, and those that were dropped are counted.            *)
(***************************************************************************)
EXTENDS LiveInput, SequenceTheorems, FiniteSetTheorems, WellFoundedInduction, TLAPS

DrainType ==
    /\ activeGeneration \in Nat \cup {NoGeneration}
    /\ drainScheduled \in BOOLEAN
    /\ liveGeneration \in Nat
    /\ inputGeneration \in Nat
    /\ events \in Seq(Event)
    /\ gui \in {"idle", "joinReader", "joinWorker", "opening"}
    /\ worker \in {"none", "running", "posting", "exited"}

\* The i-th event of the GUI thread's queue is a drain of the live input.
LiveDrain(i) == events[i] = DrainEvent(liveGeneration)

GenerationsOrdered ==
    /\ activeGeneration <= liveGeneration
    /\ inputGeneration <= liveGeneration
    /\ \A i \in DOMAIN events : events[i].generation <= liveGeneration
    /\ worker # "none" => inputGeneration = liveGeneration
    /\ worker = "none" => activeGeneration < liveGeneration
    /\ gui = "opening" => worker = "none"

\* drainScheduled is set exactly while one drain is on its way.
FlagMeansOneDrain ==
    /\ \A i \in DOMAIN events :
          LiveDrain(i) => activeGeneration = liveGeneration /\ drainScheduled
    /\ \A i, j \in DOMAIN events : LiveDrain(i) /\ LiveDrain(j) => i = j
    /\ worker = "posting" =>
          /\ activeGeneration = liveGeneration /\ drainScheduled
          /\ \A i \in DOMAIN events : ~LiveDrain(i)
    /\ activeGeneration = liveGeneration /\ drainScheduled =>
          worker = "posting" \/ \E i \in DOMAIN events : LiveDrain(i)

BatchesAreLive ==
    batches # <<>> => activeGeneration = liveGeneration /\ drainScheduled

DInv == DrainType /\ GenerationsOrdered /\ FlagMeansOneDrain /\ BatchesAreLive

-----------------------------------------------------------------------------

\* The inductive invariant implies what the runs check.
LEMMA DInvImplies == DInv => NoStrandedBatch /\ OneDrainInFlight
  BY DEF DInv, DrainType, GenerationsOrdered, FlagMeansOneDrain, BatchesAreLive, LiveDrain,
         DrainEvent, NoStrandedBatch, OneDrainInFlight, NoGeneration

LEMMA InitDInv == Init => DInv
<1> SUFFICES ASSUME Init PROVE DInv
  OBVIOUS
<1> USE DEF Init, MailboxInit, NoGeneration
<1>1. DOMAIN events = {} /\ events \in Seq(Event)
  OBVIOUS
<1>2. DrainType
  BY <1>1 DEF DrainType
<1>3. GenerationsOrdered
  BY <1>1 DEF GenerationsOrdered
<1>4. FlagMeansOneDrain
  BY <1>1 DEF FlagMeansOneDrain
<1>5. BatchesAreLive
  BY DEF BatchesAreLive
<1> QED
  BY <1>2, <1>3, <1>4, <1>5 DEF DInv

\* A step that moves neither the mailbox, nor the generations, nor the events.
LEMMA DInvUnchanged ==
  ASSUME DInv, UNCHANGED <<mailbox, liveGeneration, events, inputGeneration>>,
         gui' \in {"idle", "joinReader", "joinWorker", "opening"},
         worker' \in {"none", "running", "posting", "exited"},
         worker' = "posting" <=> worker = "posting",
         worker' = "none" <=> worker = "none",
         gui' = "opening" => gui = "opening"
  PROVE  DInv'
  BY DEF DInv, DrainType, GenerationsOrdered, FlagMeansOneDrain, BatchesAreLive, LiveDrain,
         mailbox, NoGeneration

\* An event that is not a drain of the live input is added.
LEMMA ErrorPosted ==
  ASSUME DInv, UNCHANGED <<mailbox, liveGeneration, inputGeneration>>,
         events' = Append(events, ErrorEvent(inputGeneration)),
         gui' = gui,
         worker' = worker \/ (worker = "running" /\ worker' = "exited")
  PROVE  DInv'
<1> USE DEF DInv, DrainType, NoGeneration, mailbox
<1> DEFINE e == ErrorEvent(inputGeneration)
<1>1. e \in Event /\ e.generation = inputGeneration /\ e # DrainEvent(liveGeneration)
  BY DEF Event, ErrorEvent, DrainEvent
<1>2. /\ events' \in Seq(Event) /\ DOMAIN events' = 1..(Len(events) + 1)
      /\ DOMAIN events = 1..Len(events) /\ Len(events) \in Nat
      /\ \A i \in DOMAIN events : events'[i] = events[i]
      /\ events'[Len(events) + 1] = e
  BY <1>1
<1>3. \A i \in DOMAIN events' : i \in DOMAIN events \/ i = Len(events) + 1
  BY <1>2
<1>4. \A i \in DOMAIN events' : LiveDrain(i)' <=> i \in DOMAIN events /\ LiveDrain(i)
  BY <1>1, <1>2, <1>3 DEF LiveDrain
<1>5. GenerationsOrdered'
  BY <1>1, <1>2, <1>3 DEF GenerationsOrdered
<1>6. FlagMeansOneDrain'
  BY <1>2, <1>4 DEF FlagMeansOneDrain
<1>7. BatchesAreLive'
  BY DEF BatchesAreLive
<1> QED
  BY <1>2, <1>5, <1>6, <1>7

\* The worker posts the drain the mailbox asked it for.
LEMMA DrainPosted == DInv /\ PostDrain => DInv'
<1> SUFFICES ASSUME DInv, PostDrain PROVE DInv'
  OBVIOUS
<1> USE DEF DInv, DrainType, NoGeneration, mailbox
<1> DEFINE e == DrainEvent(inputGeneration)
<1>1. /\ UNCHANGED <<mailbox, guiVars, inputGeneration>>
      /\ worker = "posting" /\ worker' = "running"
      /\ events' = Append(events, e)
  BY DEF PostDrain
<1>2. UNCHANGED <<batches, activeGeneration, drainScheduled, liveGeneration, gui>>
  BY <1>1 DEF guiVars
<1>3. inputGeneration = liveGeneration /\ activeGeneration = liveGeneration /\ drainScheduled
  BY <1>1 DEF GenerationsOrdered, FlagMeansOneDrain
<1>4. e \in Event /\ e.generation = inputGeneration
  BY DEF Event, DrainEvent
<1>5. /\ events' \in Seq(Event) /\ DOMAIN events' = 1..(Len(events) + 1)
      /\ DOMAIN events = 1..Len(events) /\ Len(events) \in Nat
      /\ \A i \in DOMAIN events : events'[i] = events[i]
      /\ events'[Len(events) + 1] = e
  BY <1>1, <1>4
<1>6. \A i \in DOMAIN events' : i \in DOMAIN events \/ i = Len(events) + 1
  BY <1>5
<1>7. \A i \in DOMAIN events' : LiveDrain(i)' <=> i = Len(events) + 1
  BY <1>1, <1>2, <1>3, <1>5, <1>6 DEF LiveDrain, FlagMeansOneDrain
<1>8. Len(events) + 1 \in DOMAIN events'
  BY <1>5
<1>9. GenerationsOrdered'
  BY <1>1, <1>2, <1>3, <1>4, <1>5, <1>6 DEF GenerationsOrdered
<1>10. FlagMeansOneDrain'
  BY <1>1, <1>2, <1>3, <1>7, <1>8 DEF FlagMeansOneDrain
<1>11. BatchesAreLive'
  BY <1>2 DEF BatchesAreLive
<1> QED
  BY <1>1, <1>2, <1>5, <1>9, <1>10, <1>11

\* A batch reaches the mailbox; the worker goes on to post a drain exactly when
\* push says so.
LEMMA BatchDelivered == ASSUME DInv, DeliverBatch PROVE DInv'
<1> USE DEF DInv, DrainType, NoGeneration
<1>1. /\ worker = "running"
      /\ worker' = IF RequestsDrain(inputGeneration) THEN "posting" ELSE "running"
      /\ UNCHANGED <<liveGeneration, gui, events, inputGeneration>>
  BY DEF DeliverBatch, guiVars
<1>2. inputGeneration = liveGeneration /\ inputGeneration >= activeGeneration
  BY <1>1 DEF GenerationsOrdered
<1>3. activeGeneration' = inputGeneration /\ drainScheduled' = TRUE
  BY <1>2 DEF DeliverBatch, Push
<1>4. RequestsDrain(inputGeneration) <=>
          ~(activeGeneration = liveGeneration /\ drainScheduled)
  BY <1>2 DEF RequestsDrain
<1>5. GenerationsOrdered'
  BY <1>1, <1>2, <1>3 DEF GenerationsOrdered
<1>6. CASE RequestsDrain(inputGeneration)
  <2>1. worker' = "posting"
    BY <1>1, <1>6
  <2>2. \A i \in DOMAIN events : ~LiveDrain(i)
    BY <1>4, <1>6 DEF FlagMeansOneDrain
  <2>3. FlagMeansOneDrain'
    BY <1>1, <1>2, <1>3, <2>1, <2>2 DEF FlagMeansOneDrain, LiveDrain
  <2> QED
    BY <1>1, <1>2, <1>3, <1>5, <2>1, <2>3 DEF BatchesAreLive
<1>7. CASE ~RequestsDrain(inputGeneration)
  <2>1. worker' = "running" /\ activeGeneration = liveGeneration /\ drainScheduled
    BY <1>1, <1>4, <1>7
  <2>2. FlagMeansOneDrain'
    BY <1>1, <1>2, <1>3, <2>1 DEF FlagMeansOneDrain, LiveDrain
  <2> QED
    BY <1>1, <1>2, <1>3, <1>5, <2>1, <2>2 DEF BatchesAreLive
<1> QED
  BY <1>6, <1>7

\* An event leaves the queue: every other one moves up by one.
LEMMA TailOfEvents ==
  ASSUME events \in Seq(Event), events # <<>>, events' = Tail(events)
  PROVE  /\ events' \in Seq(Event)
         /\ DOMAIN events = 1..Len(events) /\ Len(events) \in Nat /\ 1 \in DOMAIN events
         /\ DOMAIN events' = 1..(Len(events) - 1)
         /\ \A i \in DOMAIN events' : i + 1 \in DOMAIN events /\ events'[i] = events[i + 1]
         /\ \A i \in DOMAIN events : i # 1 => i - 1 \in DOMAIN events' /\ events'[i - 1] = events[i]
         /\ Head(events) = events[1]
  OBVIOUS

\* The GUI thread serves a drain: it takes what the flag promised, or it is a
\* drain of an earlier input and takes nothing.
LEMMA DrainServed == DInv /\ RunDrain => DInv'
<1> SUFFICES ASSUME DInv, RunDrain PROVE DInv'
  OBVIOUS
<1> USE DEF DInv, DrainType, NoGeneration
<1> DEFINE g == Head(events).generation
<1>1. /\ UNCHANGED <<liveGeneration, gui, inputGeneration, worker>>
      /\ events # <<>> /\ events' = Tail(events)
      /\ Head(events).kind = "drain" /\ Drain(g)
  BY DEF RunDrain, guiVars
<1>2. /\ events' \in Seq(Event)
      /\ DOMAIN events = 1..Len(events) /\ Len(events) \in Nat /\ 1 \in DOMAIN events
      /\ DOMAIN events' = 1..(Len(events) - 1)
      /\ \A i \in DOMAIN events' : i + 1 \in DOMAIN events /\ events'[i] = events[i + 1]
      /\ \A i \in DOMAIN events : i # 1 => i - 1 \in DOMAIN events' /\ events'[i - 1] = events[i]
      /\ Head(events) = events[1]
  BY <1>1, TailOfEvents
<1>3. \A i \in DOMAIN events' : LiveDrain(i)' <=> LiveDrain(i + 1)
  BY <1>1, <1>2 DEF LiveDrain
<1>4. \A i \in DOMAIN events' : i + 1 # 1 /\ i + 1 \in DOMAIN events
  BY <1>2
<1>5. CASE g # liveGeneration
  <2>1. UNCHANGED mailbox
    BY <1>1, <1>5 DEF Drain
  <2>2. ~LiveDrain(1)
    BY <1>2, <1>5 DEF LiveDrain, DrainEvent
  <2>3. GenerationsOrdered'
    BY <1>1, <1>2, <2>1 DEF GenerationsOrdered, mailbox
  <2>4. (\E i \in DOMAIN events : LiveDrain(i)) => \E i \in DOMAIN events' : LiveDrain(i)'
    <3> SUFFICES ASSUME NEW i \in DOMAIN events, LiveDrain(i)
                 PROVE  \E j \in DOMAIN events' : LiveDrain(j)'
      OBVIOUS
    <3>1. i - 1 \in DOMAIN events' /\ events'[i - 1] = events[i]
      BY <1>2, <2>2
    <3> QED
      BY <1>1, <3>1 DEF LiveDrain
  <2>5. FlagMeansOneDrain'
    <3>1. \A i \in DOMAIN events' : LiveDrain(i)' =>
              activeGeneration' = liveGeneration' /\ drainScheduled'
      BY <1>1, <1>3, <1>4, <2>1 DEF FlagMeansOneDrain, mailbox
    <3>2. \A i, j \in DOMAIN events' : LiveDrain(i)' /\ LiveDrain(j)' => i = j
      <4> SUFFICES ASSUME NEW i \in DOMAIN events', NEW j \in DOMAIN events',
                          LiveDrain(i)', LiveDrain(j)'
                   PROVE  i = j
        OBVIOUS
      <4>1. i + 1 = j + 1
        BY <1>3, <1>4 DEF FlagMeansOneDrain
      <4> QED
        BY <1>2, <4>1
    <3>3. worker' = "posting" =>
              /\ activeGeneration' = liveGeneration' /\ drainScheduled'
              /\ \A i \in DOMAIN events' : ~LiveDrain(i)'
      BY <1>1, <1>3, <1>4, <2>1 DEF FlagMeansOneDrain, mailbox
    <3>4. activeGeneration' = liveGeneration' /\ drainScheduled' =>
              worker' = "posting" \/ \E i \in DOMAIN events' : LiveDrain(i)'
      BY <1>1, <2>1, <2>4 DEF FlagMeansOneDrain, mailbox
    <3> QED
      BY <3>1, <3>2, <3>3, <3>4 DEF FlagMeansOneDrain
  <2>6. BatchesAreLive'
    BY <1>1, <2>1 DEF BatchesAreLive, mailbox
  <2> QED
    BY <1>1, <1>2, <2>1, <2>3, <2>5, <2>6 DEF mailbox
<1>6. CASE g = liveGeneration
  <2>1. LiveDrain(1)
    <3>1. events[1] \in Event
      BY <1>2
    <3>2. events[1] = [kind |-> events[1].kind, generation |-> events[1].generation]
      BY <3>1 DEF Event
    <3>3. events[1].kind = "drain" /\ events[1].generation = liveGeneration
      BY <1>1, <1>2, <1>6
    <3> QED
      BY <3>2, <3>3 DEF LiveDrain, DrainEvent
  <2>2. activeGeneration = liveGeneration /\ worker # "posting"
    BY <1>2, <2>1 DEF FlagMeansOneDrain
  <2>3. batches' = <<>> /\ drainScheduled' = FALSE /\ activeGeneration' = activeGeneration
    BY <1>1, <1>6, <2>2 DEF Drain, Take
  <2>4. \A i \in DOMAIN events' : ~LiveDrain(i)'
    BY <1>2, <1>3, <1>4, <2>1 DEF FlagMeansOneDrain
  <2>5. GenerationsOrdered'
    BY <1>1, <1>2, <2>3 DEF GenerationsOrdered
  <2>6. FlagMeansOneDrain'
    BY <1>1, <2>2, <2>3, <2>4 DEF FlagMeansOneDrain
  <2> QED
    BY <1>1, <1>2, <2>3, <2>5, <2>6 DEF BatchesAreLive
<1> QED
  BY <1>5, <1>6

\* The GUI thread serves an error.
LEMMA ErrorServed == DInv /\ RunError => DInv'
<1> SUFFICES ASSUME DInv, RunError PROVE DInv'
  OBVIOUS
<1> USE DEF DInv, DrainType, NoGeneration
<1>1. /\ UNCHANGED <<mailbox, liveGeneration, inputGeneration, worker>>
      /\ events # <<>> /\ events' = Tail(events)
      /\ Head(events).kind = "error" /\ gui' \in {gui, "joinReader"}
  BY DEF RunError
<1>2. /\ events' \in Seq(Event)
      /\ DOMAIN events = 1..Len(events) /\ Len(events) \in Nat /\ 1 \in DOMAIN events
      /\ DOMAIN events' = 1..(Len(events) - 1)
      /\ \A i \in DOMAIN events' : i + 1 \in DOMAIN events /\ events'[i] = events[i + 1]
      /\ \A i \in DOMAIN events : i # 1 => i - 1 \in DOMAIN events' /\ events'[i - 1] = events[i]
      /\ Head(events) = events[1]
  BY <1>1, TailOfEvents
<1>3. \A i \in DOMAIN events' : LiveDrain(i)' <=> LiveDrain(i + 1)
  BY <1>1, <1>2 DEF LiveDrain
<1>4. ~LiveDrain(1)
  BY <1>1, <1>2 DEF LiveDrain, DrainEvent
<1>5. GenerationsOrdered'
  BY <1>1, <1>2 DEF GenerationsOrdered, mailbox
<1>6. FlagMeansOneDrain'
  <2>1. \A i \in DOMAIN events' : LiveDrain(i)' =>
            activeGeneration' = liveGeneration' /\ drainScheduled'
    BY <1>1, <1>2, <1>3 DEF FlagMeansOneDrain, mailbox
  <2>2. \A i, j \in DOMAIN events' : LiveDrain(i)' /\ LiveDrain(j)' => i = j
    <3> SUFFICES ASSUME NEW i \in DOMAIN events', NEW j \in DOMAIN events',
                        LiveDrain(i)', LiveDrain(j)'
                 PROVE  i = j
      OBVIOUS
    <3>1. i + 1 = j + 1
      BY <1>2, <1>3 DEF FlagMeansOneDrain
    <3> QED
      BY <1>2, <3>1
  <2>3. worker' = "posting" =>
            /\ activeGeneration' = liveGeneration' /\ drainScheduled'
            /\ \A i \in DOMAIN events' : ~LiveDrain(i)'
    BY <1>1, <1>2, <1>3 DEF FlagMeansOneDrain, mailbox
  <2>4. (\E i \in DOMAIN events : LiveDrain(i)) => \E i \in DOMAIN events' : LiveDrain(i)'
    <3> SUFFICES ASSUME NEW i \in DOMAIN events, LiveDrain(i)
                 PROVE  \E j \in DOMAIN events' : LiveDrain(j)'
      OBVIOUS
    <3>1. i - 1 \in DOMAIN events' /\ events'[i - 1] = events[i]
      BY <1>2, <1>4
    <3> QED
      BY <1>1, <3>1 DEF LiveDrain
  <2>5. activeGeneration' = liveGeneration' /\ drainScheduled' =>
            worker' = "posting" \/ \E i \in DOMAIN events' : LiveDrain(i)'
    BY <1>1, <2>4 DEF FlagMeansOneDrain, mailbox
  <2> QED
    BY <2>1, <2>2, <2>3, <2>5 DEF FlagMeansOneDrain
<1>7. BatchesAreLive'
  BY <1>1 DEF BatchesAreLive, mailbox
<1> QED
  BY <1>1, <1>2, <1>5, <1>6, <1>7 DEF mailbox

\* A generation begins or ends: nothing that is queued, posted or under way
\* belongs to it.
LEMMA NewGeneration ==
  ASSUME DInv, UNCHANGED <<activeGeneration, events>>,
         liveGeneration' \in Nat, liveGeneration' > liveGeneration,
         drainScheduled' \in BOOLEAN, batches' = <<>>,
         inputGeneration' \in Nat, inputGeneration' <= liveGeneration',
         gui' \in {"idle", "opening"},
         worker' \in {"none", "running"},
         worker' # "none" => inputGeneration' = liveGeneration',
         gui' = "opening" => worker' = "none"
  PROVE  DInv'
<1> USE DEF DInv, DrainType, NoGeneration
<1>1. \A i \in DOMAIN events : events[i] \in Event
  OBVIOUS
<1>2. \A i \in DOMAIN events' : ~LiveDrain(i)'
  BY <1>1 DEF LiveDrain, DrainEvent, Event, GenerationsOrdered
<1>3. GenerationsOrdered'
  BY <1>1 DEF GenerationsOrdered, Event
<1>4. activeGeneration' # liveGeneration'
  BY DEF GenerationsOrdered
<1>5. FlagMeansOneDrain'
  BY <1>2, <1>4 DEF FlagMeansOneDrain
<1> QED
  BY <1>3, <1>5 DEF BatchesAreLive

\* stopSerial drains the mailbox before it ends the generation.
LEMMA GenerationEnds == DInv /\ JoinWorker => DInv'
<1> SUFFICES ASSUME DInv, JoinWorker PROVE DInv'
  OBVIOUS
<1>1. /\ UNCHANGED <<events, inputGeneration>>
      /\ liveGeneration' = liveGeneration + 1
      /\ worker' = "none" /\ gui' \in {"idle", "opening"}
      /\ Drain(liveGeneration)
  BY DEF JoinWorker
<1>2. Take(liveGeneration)
  BY <1>1 DEF Drain
<1>3. batches' = <<>> /\ activeGeneration' = activeGeneration /\ drainScheduled' \in BOOLEAN
  BY <1>2 DEF Take, mailbox, DInv, DrainType, BatchesAreLive
<1> QED
  BY <1>1, <1>3, NewGeneration DEF DInv, DrainType, GenerationsOrdered

-----------------------------------------------------------------------------

\* Every step preserves the inductive invariant.
LEMMA NextDInv == DInv /\ [Next]_vars => DInv'
<1> SUFFICES ASSUME DInv, [Next]_vars PROVE DInv'
  OBVIOUS
<1>0. /\ gui \in {"idle", "joinReader", "joinWorker", "opening"}
      /\ worker \in {"none", "running", "posting", "exited"}
      /\ liveGeneration \in Nat /\ inputGeneration \in Nat
  BY DEF DInv, DrainType
<1>1. ASSUME NEW size \in ChunkSizes, ReadChunk(size) PROVE DInv'
  BY <1>0, <1>1, DInvUnchanged DEF ReadChunk, guiVars
<1>2. CASE HandOver
  BY <1>0, <1>2, DInvUnchanged DEF HandOver, guiVars
<1>3. CASE ReaderStops
  BY <1>0, <1>3, DInvUnchanged DEF ReaderStops, guiVars
<1>4. CASE ReaderFails
  BY <1>0, <1>4, ErrorPosted DEF ReaderFails, guiVars
<1>5. CASE DeliverBatch
  BY <1>5, BatchDelivered
<1>6. CASE PostDrain
  BY <1>6, DrainPosted
<1>7. CASE WorkerFails
  BY <1>0, <1>7, ErrorPosted DEF WorkerFails, guiVars
<1>8. CASE WorkerStops
  BY <1>0, <1>8, DInvUnchanged DEF WorkerStops, guiVars
<1>9. CASE RunDrain
  BY <1>9, DrainServed
<1>10. CASE RunError
  BY <1>10, ErrorServed
<1>11. CASE JoinReader
  BY <1>0, <1>11, DInvUnchanged DEF JoinReader
<1>12. CASE JoinWorker
  BY <1>12, GenerationEnds
<1>13. CASE OpenFails
  BY <1>0, <1>13, DInvUnchanged DEF OpenFails
<1>14. gui = "opening" => worker = "none" /\ batches = <<>>
  BY <1>0 DEF DInv, DrainType, GenerationsOrdered, BatchesAreLive, NoGeneration
<1>15. CASE StartSucceeds \/ StartFails
  <2>1. /\ gui = "opening" /\ gui' = "idle"
        /\ UNCHANGED <<mailbox, events>>
        /\ worker' \in {worker, "running"}
        /\ inputGeneration' = liveGeneration + 1
        /\ liveGeneration' \in {liveGeneration + 1, liveGeneration + 2}
        /\ worker' # "none" => inputGeneration' = liveGeneration'
    BY <1>14, <1>15 DEF StartSucceeds, StartFails
  <2>2. UNCHANGED <<batches, activeGeneration, drainScheduled>>
    BY <2>1 DEF mailbox
  <2>3. drainScheduled' \in BOOLEAN
    BY <2>2 DEF DInv, DrainType
  <2> QED
    BY <1>0, <1>14, <2>1, <2>2, <2>3, NewGeneration
<1>16. ASSUME NEW start \in BOOLEAN, UserRequest(start) PROVE DInv'
  BY <1>0, <1>16, DInvUnchanged DEF UserRequest
<1>17. CASE Idle \/ UNCHANGED vars
  BY <1>0, <1>17, DInvUnchanged DEF Idle, vars, guiVars
<1>18. ASSUME NEW outcome \in {"sample", "malformed", "partial"}, DecodeChunk(outcome)
       PROVE  DInv'
  BY <1>0, <1>18, DInvUnchanged DEF DecodeChunk, guiVars
<1> QED
  BY <1>1, <1>2, <1>3, <1>4, <1>5, <1>6, <1>7, <1>8, <1>9, <1>10, <1>11, <1>12, <1>13,
     <1>15, <1>16, <1>17, <1>18
     DEF Next, ReaderStep, WorkerStep, EventStep, StopStep, StartStep

-----------------------------------------------------------------------------

LEMMA Invariance == Spec => []DInv
<1>1. Init => DInv
  BY InitDInv
<1>2. DInv /\ [Next]_vars => DInv'
  BY NextDInv
<1> QED
  BY <1>1, <1>2, PTL DEF Spec

\* A batch in the mailbox always has a drain coming that will take it, and however
\* fast the decode worker pushes, at most one drain of an input is posted or about
\* to be (LineTelemetryBatchMailbox's flag, and the drains MainWindow posts).
THEOREM DrainsMatchBatches == Spec => []DrainsAreCoalesced
<1>1. DInv => DrainsAreCoalesced
  BY DInvImplies DEF DrainsAreCoalesced
<1> QED
  BY <1>1, Invariance, PTL

-----------------------------------------------------------------------------
(***************************************************************************)
(* On the way from the worker to the recording a sample is pending,        *)
(* waiting in the mailbox, recorded or counted as overwritten, and each    *)
(* stage is empty once its thread is joined.                               *)
(***************************************************************************)

\* A sequence, whatever its elements are.
IsSeq(s) == s \in Seq({s[i] : i \in DOMAIN s})

Accounted ==
    /\ IsSeq(batches)
    /\ accepted = recorded \cup overwritten \cup SamplesOf(batches)

NothingLeft == inbox = <<>> /\ pending = <<>> /\ unreported = NothingNew

StagesEmptyInOrder ==
    /\ reader \in {"none", "reading", "holding", "exited"}
    /\ reader # "holding" => held = <<>>
    /\ gui = "joinWorker" \/ worker = "none" => reader = "none"
    /\ worker \in {"none", "exited"} => failed \/ NothingLeft
    /\ worker = "exited" => failed \/ gui = "joinWorker"

SInv == DInv /\ Accounted /\ StagesEmptyInOrder

\* Appending to a sequence adds one element at its end.
LEMMA AppendSamples ==
  ASSUME NEW s, IsSeq(s), NEW b
  PROVE  /\ IsSeq(Append(s, b))
         /\ SamplesOf(Append(s, b)) = SamplesOf(s) \cup b.samples
<1> DEFINE S == {s[i] : i \in DOMAIN s} \cup {b}
           t == Append(s, b)
<1>1. s \in Seq(S)
  BY DEF IsSeq
<1>2. /\ t \in Seq(S) /\ Len(s) \in Nat
      /\ DOMAIN s = 1..Len(s) /\ DOMAIN t = 1..(Len(s) + 1) /\ Len(t) = Len(s) + 1
      /\ \A i \in 1..Len(s) : t[i] = s[i]
      /\ t[Len(s) + 1] = b
  BY <1>1
<1>3. IsSeq(t)
  BY <1>2 DEF IsSeq
<1>4. \A i \in DOMAIN t : i \in DOMAIN s \/ i = Len(s) + 1
  BY <1>2
<1>5. DOMAIN s \subseteq DOMAIN t /\ Len(s) + 1 \in DOMAIN t
  BY <1>2
<1>6. \A x : x \in SamplesOf(t) <=> x \in SamplesOf(s) \cup b.samples
  BY <1>2, <1>4, <1>5 DEF SamplesOf
<1> QED
  BY <1>3, <1>6

\* Taking the head off a sequence removes its first element.
LEMMA TailSamples ==
  ASSUME NEW s, IsSeq(s), s # <<>>
  PROVE  /\ IsSeq(Tail(s))
         /\ SamplesOf(s) = Head(s).samples \cup SamplesOf(Tail(s))
<1> DEFINE S == {s[i] : i \in DOMAIN s}
           t == Tail(s)
<1>1. /\ t \in Seq(S) /\ Len(s) \in Nat
      /\ DOMAIN s = 1..Len(s) /\ 1 \in DOMAIN s /\ DOMAIN t = 1..(Len(s) - 1)
      /\ Len(t) = Len(s) - 1
      /\ \A i \in DOMAIN t : t[i] = s[i + 1]
      /\ Head(s) = s[1]
  BY DEF IsSeq
<1>2. IsSeq(t)
  <2> DEFINE T == {t[i] : i \in DOMAIN t}
  <2>1. Len(t) \in Nat /\ t \in [1..Len(t) -> S]
    BY <1>1, LenProperties
  <2>2. t \in [1..Len(t) -> T]
    BY <2>1
  <2>3. t \in Seq(T)
    BY <2>1, <2>2, SeqDef
  <2> QED
    BY <2>3 DEF IsSeq
<1>3. \A i \in DOMAIN s : i = 1 \/ (i - 1 \in DOMAIN t /\ t[i - 1] = s[i])
  BY <1>1
<1>4. \A i \in DOMAIN t : i + 1 \in DOMAIN s /\ t[i] = s[i + 1]
  BY <1>1
<1>5. \A x : x \in SamplesOf(s) <=> x \in Head(s).samples \cup SamplesOf(t)
  BY <1>1, <1>3, <1>4 DEF SamplesOf
<1> QED
  BY <1>2, <1>5

LEMMA NoSamples == IsSeq(<<>>) /\ SamplesOf(<<>>) = {}
  BY DEF IsSeq, SamplesOf

\* A merged batch keeps the samples of the batch that is pushed.
LEMMA MergedSamples ==
  ASSUME NEW s, NEW source
  PROVE  PreserveCounters(BatchOf(s), source).samples = BatchOf(s).samples
  BY DEF PreserveCounters, BatchOf

\* Every sample a push brings in is queued, and every one it drives out is
\* counted as overwritten.
LEMMA PushAccounts ==
  ASSUME SInv, DeliverBatch
  PROVE  Accounted'
<1> DEFINE g == inputGeneration
           b == BatchOf(pending)
           m == PreserveCounters(b, Head(batches))
<1>1. worker = "running" /\ UNCHANGED recorded
      /\ accepted' = accepted \cup b.samples
      /\ overwritten' = overwritten \cup Evicted(g)
      /\ Push(g, b)
  BY DEF DeliverBatch, shownVars
<1>2. g = liveGeneration /\ g >= activeGeneration /\ ~(g < activeGeneration)
  BY <1>1 DEF SInv, DInv, DrainType, GenerationsOrdered, NoGeneration
<1>3. Retained(g) = batches
  BY <1>2 DEF SInv, DInv, DrainType, NoGeneration, BatchesAreLive, Retained
<1>4. batches' = IF Overflows(g) THEN Append(Tail(batches), m) ELSE Append(batches, b)
  BY <1>1, <1>2, <1>3 DEF Push
<1>5. IsSeq(batches) /\ accepted = recorded \cup overwritten \cup SamplesOf(batches)
  BY DEF SInv, Accounted
<1>6. CASE Overflows(g)
  <2>1. batches # <<>>
    BY <1>3, <1>6, CapacityAssumption DEF Overflows
  <2>2. /\ IsSeq(Tail(batches))
        /\ SamplesOf(batches) = Head(batches).samples \cup SamplesOf(Tail(batches))
    BY <1>5, <2>1, TailSamples
  <2>3. /\ IsSeq(batches')
        /\ SamplesOf(batches') = SamplesOf(Tail(batches)) \cup m.samples
    BY <1>4, <1>6, <2>2, AppendSamples
  <2>4. m.samples = b.samples
    BY MergedSamples
  <2>5. Evicted(g) = Head(batches).samples
    BY <1>3, <1>6 DEF Evicted
  <2>6. SamplesOf(batches)' = SamplesOf(batches')
    BY DEF SamplesOf
  <2>7. accepted' = recorded' \cup overwritten' \cup SamplesOf(batches')
    BY <1>1, <1>5, <2>2, <2>3, <2>4, <2>5
  <2>8. IsSeq(batches)'
    BY <2>3 DEF IsSeq
  <2> QED
    BY <2>6, <2>7, <2>8 DEF Accounted
<1>7. CASE ~Overflows(g)
  <2>1. IsSeq(batches') /\ SamplesOf(batches') = SamplesOf(batches) \cup b.samples
    BY <1>4, <1>5, <1>7, AppendSamples
  <2>2. Evicted(g) = {}
    BY <1>7 DEF Evicted
  <2>3. accepted' = recorded' \cup overwritten' \cup SamplesOf(batches')
    BY <1>1, <1>5, <2>1, <2>2
  <2>4. IsSeq(batches)' /\ SamplesOf(batches)' = SamplesOf(batches')
    BY <2>1 DEF IsSeq, SamplesOf
  <2> QED
    BY <2>3, <2>4 DEF Accounted
<1> QED
  BY <1>6, <1>7

\* What a drain takes from the mailbox is recorded.
LEMMA DrainAccounts ==
  ASSUME Accounted, NEW g, Drain(g), UNCHANGED <<accepted, overwritten>>
  PROVE  Accounted'
<1>1. CASE g # liveGeneration \/ g # activeGeneration
  <2>1. UNCHANGED batches /\ recorded' = recorded
    BY <1>1, NoSamples DEF Drain, Take, Taken, mailbox, shownVars
  <2> QED
    BY <2>1 DEF Accounted, IsSeq, SamplesOf
<1>2. CASE g = liveGeneration /\ g = activeGeneration
  <2>1. batches' = <<>> /\ recorded' = recorded \cup SamplesOf(batches)
    BY <1>2 DEF Drain, Take, Taken
  <2>2. IsSeq(batches)' /\ SamplesOf(batches)' = {}
    BY <2>1, NoSamples DEF IsSeq, SamplesOf
  <2> QED
    BY <2>1, <2>2 DEF Accounted
<1> QED
  BY <1>1, <1>2

LEMMA AccountedUnchanged ==
  ASSUME Accounted, UNCHANGED <<batches, accepted, recorded, overwritten>>
  PROVE  Accounted'
  BY DEF Accounted, IsSeq, SamplesOf

\* A new recording starts with nothing accepted and nothing waiting.
LEMMA NewSessionAccounts ==
  ASSUME NewSession, batches = <<>>, UNCHANGED batches
  PROVE  Accounted'
<1>1. IsSeq(batches)' /\ SamplesOf(batches)' = {}
  BY NoSamples DEF IsSeq, SamplesOf
<1> QED
  BY <1>1 DEF NewSession, Accounted

LEMMA InitSInv == Init => SInv
<1> SUFFICES ASSUME Init PROVE SInv
  OBVIOUS
<1>1. DInv
  BY InitDInv
<1>2. Accounted
  BY NoSamples DEF Init, MailboxInit, Accounted
<1>3. StagesEmptyInOrder
  BY DEF Init, StagesEmptyInOrder, NothingLeft
<1> QED
  BY <1>1, <1>2, <1>3 DEF SInv

\* Every step preserves it.
LEMMA NextSInv == SInv /\ [Next]_vars => SInv'
<1> SUFFICES ASSUME SInv, [Next]_vars PROVE SInv'
  OBVIOUS
<1>0. DInv' /\ Accounted /\ StagesEmptyInOrder
      /\ gui \in {"idle", "joinReader", "joinWorker", "opening"}
      /\ worker \in {"none", "running", "posting", "exited"}
  BY NextDInv DEF SInv, DInv, DrainType
<1> USE <1>0 DEF SInv, StagesEmptyInOrder, NothingLeft
<1> HIDE DEF SInv
<1>a. ASSUME NEW size \in ChunkSizes, ReadChunk(size) PROVE SInv'
  BY <1>a, AccountedUnchanged
     DEF ReadChunk, mailbox, guiVars, shownVars, history, fate, queueVars, SInv
<1>b. CASE HandOver
  <2>1. Accounted'
    BY <1>b, AccountedUnchanged DEF HandOver, mailbox, shownVars, history
  <2>2. worker # "none" /\ gui # "joinWorker"
    BY <1>b DEF HandOver
  <2>3. worker \in {"none", "exited"} => UNCHANGED queueVars
    BY <1>b DEF HandOver, Accepting, queueVars
  <2>4. UNCHANGED <<gui, worker, failed>> /\ reader' = "reading" /\ held' = <<>>
    BY <1>b DEF HandOver, guiVars
  <2> QED
    BY <2>1, <2>2, <2>3, <2>4 DEF queueVars, SInv
<1>c. CASE ReaderStops
  BY <1>c, AccountedUnchanged DEF ReaderStops, StopRequested, mailbox, guiVars, shownVars,
     history, fate, queueVars, SInv
<1>d. CASE ReaderFails
  BY <1>d, AccountedUnchanged DEF ReaderFails, mailbox, guiVars, shownVars, history, fate, queueVars,
     SInv
<1>e. CASE DeliverBatch
  <2>2. Accounted'
    BY <1>e, PushAccounts DEF SInv, DInv
  <2>3. worker' \in {"running", "posting"}
    BY <1>e DEF DeliverBatch
  <2> QED
    BY <1>e, <2>2, <2>3 DEF DeliverBatch, guiVars, readerVars, fate, SInv
<1>f. CASE PostDrain
  BY <1>f, AccountedUnchanged DEF PostDrain, mailbox, guiVars, readerVars, shownVars,
     history, fate, queueVars, SInv
<1>g. CASE WorkerFails
  BY <1>g, AccountedUnchanged DEF WorkerFails, mailbox, guiVars, readerVars, shownVars,
     history, queueVars, SInv
<1>h. CASE WorkerStops
  BY <1>h, AccountedUnchanged DEF WorkerStops, SomethingToSay, mailbox, guiVars, readerVars,
     shownVars, history, fate, queueVars, SInv
<1>i. CASE RunDrain
  <2>1. Accounted'
    BY <1>i, DrainAccounts DEF RunDrain, history
  <2> QED
    BY <1>i, <2>1 DEF RunDrain, guiVars, readerVars, fate, queueVars, SInv
<1>j. CASE RunError
  BY <1>j, AccountedUnchanged DEF RunError, mailbox, readerVars, shownVars, history,
     fate, queueVars, SInv
<1>k. CASE JoinReader
  BY <1>k, AccountedUnchanged DEF JoinReader, mailbox, shownVars, history, fate, queueVars, SInv
<1>l. CASE JoinWorker
  <2>1. Accounted'
    BY <1>l, DrainAccounts DEF JoinWorker, history
  <2> QED
    BY <1>l, <2>1 DEF JoinWorker, readerVars, fate, queueVars, SInv
<1>m. CASE OpenFails
  BY <1>m, AccountedUnchanged DEF OpenFails, mailbox, readerVars, shownVars, history,
     fate, queueVars, SInv
<1>n. gui = "opening" => worker = "none" /\ batches = <<>>
  BY DEF SInv, DInv, DrainType, GenerationsOrdered, BatchesAreLive, NoGeneration
<1>o. CASE StartSucceeds \/ StartFails
  <2>1. gui = "opening" /\ NewSession /\ UNCHANGED batches
    BY <1>o DEF StartSucceeds, StartFails, mailbox
  <2>2. Accounted'
    BY <1>n, <2>1, NewSessionAccounts
  <2> QED
    BY <1>n, <1>o, <2>1, <2>2 DEF StartSucceeds, StartFails, ResetWorker, SInv
<1>p. ASSUME NEW start \in BOOLEAN, UserRequest(start) PROVE SInv'
  BY <1>p, AccountedUnchanged DEF UserRequest, mailbox, readerVars, shownVars, history,
     fate, queueVars, SInv
<1>q. CASE Idle \/ UNCHANGED vars
  BY <1>q, AccountedUnchanged DEF Idle, vars, mailbox, guiVars, readerVars, shownVars,
     history, fate, queueVars, SInv
<1>r. ASSUME NEW outcome \in {"sample", "malformed", "partial"}, DecodeChunk(outcome)
      PROVE  SInv'
  BY <1>r, AccountedUnchanged DEF DecodeChunk, mailbox, guiVars, readerVars, shownVars,
     history, SInv
<1> QED
  BY <1>a, <1>b, <1>c, <1>d, <1>e, <1>f, <1>g, <1>h, <1>i, <1>j, <1>k, <1>l, <1>m,
     <1>o, <1>p, <1>q, <1>r
     DEF Next, ReaderStep, WorkerStep, EventStep, StopStep, StartStep

-----------------------------------------------------------------------------
(***************************************************************************)
(* The path implements SampleChannel.  A sample has the number of its      *)
(* chunk, so the mailbox sacrifices the oldest and the recording grows in  *)
(* order because chunks stay in order: the rows that are pending are older *)
(* than the chunks that are queued, these than the one the reader holds,   *)
(* and the batches in the mailbox are in the order they were decoded.      *)
(***************************************************************************)

Before(S, T) == \A s \in S, t \in T : s < t

ChunksInOrder ==
    /\ chunks \in 0..MaxChunk
    /\ inbox \in Seq([id : 1..chunks, size : ChunkSizes])
    /\ \A i, j \in DOMAIN inbox : i < j => inbox[i].id < inbox[j].id
    /\ pending \in Seq([id : 1..chunks, kind : {"sample", "malformed"}])
    /\ \A k \in DOMAIN pending, i \in DOMAIN inbox : pending[k].id < inbox[i].id
    /\ reader = "holding" =>
          /\ \E size \in ChunkSizes : held = <<[id |-> chunks, size |-> size]>>
          /\ chunks > 0
          /\ \A i \in DOMAIN inbox : inbox[i].id < chunks
          /\ \A k \in DOMAIN pending : pending[k].id < chunks

AcceptedFirst ==
    /\ accepted \subseteq 1..chunks
    /\ \A s \in accepted, k \in DOMAIN pending : s < pending[k].id
    /\ \A s \in accepted, i \in DOMAIN inbox : s < inbox[i].id
    /\ reader = "holding" => \A s \in accepted : s < chunks

BatchesInOrder ==
    \A i, j \in DOMAIN batches : i < j => Before(batches[i].samples, batches[j].samples)

OInv == ChunksInOrder /\ AcceptedFirst /\ BatchesInOrder

\* The elements of the queue and of the pending rows, by their numbers.
LEMMA QueueElements ==
  ASSUME ChunksInOrder
  PROVE  /\ Len(inbox) \in Nat /\ DOMAIN inbox = 1..Len(inbox)
         /\ \A i \in DOMAIN inbox : inbox[i] \in [id : 1..chunks, size : ChunkSizes]
         /\ Len(pending) \in Nat /\ DOMAIN pending = 1..Len(pending)
         /\ \A k \in DOMAIN pending :
               pending[k] \in [id : 1..chunks, kind : {"sample", "malformed"}]
<1> DEFINE S == [id : 1..chunks, size : ChunkSizes]
           R == [id : 1..chunks, kind : {"sample", "malformed"}]
<1>1. inbox \in Seq(S) /\ pending \in Seq(R)
  BY DEF ChunksInOrder
<1> HIDE DEF S, R
<1>2. \A i \in 1..Len(inbox) : inbox[i] \in S
  BY <1>1, ElementOfSeq
<1>3. \A k \in 1..Len(pending) : pending[k] \in R
  BY <1>1, ElementOfSeq
<1> QED
  BY <1>1, <1>2, <1>3, LenProperties DEF S, R

\* A queue parts into its n oldest chunks and the rest.
LEMMA PartsOfQueue ==
  ASSUME ChunksInOrder, NEW n \in 0..Len(inbox)
  PROVE  /\ Len(SubSeq(inbox, 1, n)) = n /\ DOMAIN SubSeq(inbox, 1, n) = 1..n
         /\ \A i \in 1..n : i \in DOMAIN inbox /\ SubSeq(inbox, 1, n)[i] = inbox[i]
         /\ SubSeq(inbox, n + 1, Len(inbox)) \in Seq([id : 1..chunks, size : ChunkSizes])
         /\ Len(SubSeq(inbox, n + 1, Len(inbox))) = Len(inbox) - n
         /\ DOMAIN SubSeq(inbox, n + 1, Len(inbox)) = 1..(Len(inbox) - n)
         /\ \A i \in 1..(Len(inbox) - n) :
               /\ n + i \in DOMAIN inbox
               /\ SubSeq(inbox, n + 1, Len(inbox))[i] = inbox[n + i]
<1> DEFINE S == [id : 1..chunks, size : ChunkSizes]
           first == SubSeq(inbox, 1, n)
           rest == SubSeq(inbox, n + 1, Len(inbox))
<1>1. /\ Len(inbox) \in Nat /\ DOMAIN inbox = 1..Len(inbox) /\ inbox \in Seq(S)
      /\ n \in Nat /\ n <= Len(inbox)
      /\ \A i \in 1..Len(inbox) : inbox[i] \in S
  BY QueueElements DEF ChunksInOrder
<1>2. /\ Len(first) = n /\ DOMAIN first = 1..n
      /\ \A i \in 1..n : first[i] = inbox[i]
  <2>1. /\ first \in Seq(S) /\ Len(first) = IF 1 <= n THEN n - 1 + 1 ELSE 0
        /\ \A i \in 1..n - 1 + 1 : first[i] = inbox[1 + i - 1]
    BY <1>1, SubSeqProperties
  <2>2. Len(first) = n /\ DOMAIN first = 1..Len(first)
    BY <1>1, <2>1, LenProperties
  <2> QED
    BY <1>1, <2>1, <2>2
<1>3. /\ rest \in Seq(S) /\ Len(rest) = Len(inbox) - n /\ DOMAIN rest = 1..(Len(inbox) - n)
      /\ \A i \in 1..(Len(inbox) - n) : rest[i] = inbox[n + i]
  <2>1. /\ rest \in Seq(S)
        /\ Len(rest) = IF n + 1 <= Len(inbox) THEN Len(inbox) - (n + 1) + 1 ELSE 0
        /\ \A i \in 1..Len(inbox) - (n + 1) + 1 : rest[i] = inbox[n + 1 + i - 1]
    BY <1>1, SubSeqProperties
  <2> HIDE DEF rest
  <2>2. Len(rest) = Len(inbox) - n /\ DOMAIN rest = 1..Len(rest)
    <3>1. DOMAIN rest = 1..Len(rest)
      BY <2>1, LenProperties
    <3> DEFINE k == Len(inbox)
               l == Len(rest)
    <3>2. k \in Nat /\ n <= k /\ n \in Nat /\ l = IF n + 1 <= k THEN k - (n + 1) + 1 ELSE 0
      BY <1>1, <2>1
    <3> HIDE DEF k, l
    <3>3. l = k - n
      BY <3>2
    <3> QED
      BY <3>1, <3>3 DEF k, l
  <2>3. Len(inbox) - (n + 1) + 1 = Len(inbox) - n
    BY <1>1
  <2>4. ASSUME NEW i \in 1..(Len(inbox) - n) PROVE rest[i] = inbox[n + i]
    <3>1. n + 1 + i - 1 = n + i
      BY <1>1
    <3>2. rest[i] = inbox[n + 1 + i - 1]
      BY <2>1, <2>3
    <3> QED
      BY <3>1, <3>2
  <2> QED
    BY <2>1, <2>2, <2>4
<1> HIDE DEF first, rest
<1>4. \A i \in 1..n : i \in DOMAIN inbox
  BY <1>1
<1>5. \A i \in 1..(Len(inbox) - n) : n + i \in DOMAIN inbox
  BY <1>1
<1> QED
  BY <1>2, <1>3, <1>4, <1>5 DEF first, rest

\* The samples of a batch are those of the pending rows.
LEMMA PendingSamples ==
  BatchOf(pending).samples = {pending[k].id : k \in {j \in DOMAIN pending : pending[j].kind = "sample"}}
  BY DEF BatchOf, IdsOfKind

\* Delivered, they are newer than all accepted so far, older than all that is still
\* queued or held, and numbered within the connection.
LEMMA DeliveredInOrder ==
  ASSUME OInv, UNCHANGED <<chunks, held, reader, inbox>>, pending' = <<>>,
         accepted' = accepted \cup BatchOf(pending).samples
  PROVE  /\ ChunksInOrder' /\ AcceptedFirst'
         /\ Before(accepted, BatchOf(pending).samples)
         /\ BatchOf(pending).samples \subseteq 1..chunks
<1> DEFINE new == BatchOf(pending).samples
<1>0. ChunksInOrder /\ AcceptedFirst /\ chunks \in Nat
  BY BoundAssumption DEF OInv, ChunksInOrder
<1>1. \A x \in new : \E k \in DOMAIN pending : x = pending[k].id
  BY PendingSamples
<1>2. pending' \in Seq([id : 1..chunks, kind : {"sample", "malformed"}]) /\ DOMAIN pending' = {}
  OBVIOUS
<1> HIDE DEF new
<1>3. new \subseteq 1..chunks
  BY <1>0, <1>1, QueueElements
<1>4. Before(accepted, new)
  BY <1>0, <1>1 DEF AcceptedFirst, Before
<1>5. ChunksInOrder'
  BY <1>0, <1>2 DEF ChunksInOrder
<1>6. AcceptedFirst'
  <2>1. accepted' = accepted \cup new
    BY DEF new
  <2>2. \A x \in new, i \in DOMAIN inbox : x < inbox[i].id
    BY <1>0, <1>1 DEF ChunksInOrder
  <2>3. reader = "holding" => \A x \in new : x < chunks
    BY <1>0, <1>1 DEF ChunksInOrder
  <2> QED
    BY <1>0, <1>2, <1>3, <2>1, <2>2, <2>3 DEF AcceptedFirst
<1> QED
  BY <1>3, <1>4, <1>5, <1>6 DEF new

\* A sample is in the mailbox if it is in one of the batches.
LEMMA BatchSamples ==
  ASSUME NEW s, NEW i \in DOMAIN s
  PROVE  s[i].samples \subseteq SamplesOf(s)
BY DEF SamplesOf

\* A push keeps the batches in order, and what it evicts is the oldest that waits.
LEMMA PushInOrder ==
  ASSUME SInv, BatchesInOrder, DeliverBatch, accepted \subseteq Nat,
         Before(accepted, BatchOf(pending).samples)
  PROVE  /\ BatchesInOrder'
         /\ Evicted(inputGeneration) \subseteq Queued
         /\ Before(Evicted(inputGeneration), Queued \ Evicted(inputGeneration))
         /\ Queued' = (Queued \ Evicted(inputGeneration))
                          \cup BatchOf(pending).samples
<1> DEFINE g == inputGeneration
           b == BatchOf(pending)
           m == PreserveCounters(b, Head(batches))
<1>1. worker = "running" /\ Push(g, b)
  BY DEF DeliverBatch
<1>2. g = liveGeneration /\ g >= activeGeneration /\ ~(g < activeGeneration)
  BY <1>1 DEF SInv, DInv, DrainType, GenerationsOrdered, NoGeneration
<1>3. Retained(g) = batches
  BY <1>2 DEF SInv, DInv, DrainType, NoGeneration, BatchesAreLive, Retained
<1>4. batches' = IF Overflows(g) THEN Append(Tail(batches), m) ELSE Append(batches, b)
  BY <1>1, <1>2, <1>3 DEF Push
<1>5. IsSeq(batches) /\ Queued \subseteq accepted
  BY DEF SInv, Accounted, Queued
<1>6. m.samples = b.samples
  BY MergedSamples
<1>7. ASSUME NEW s, IsSeq(s), NEW c, c.samples = b.samples, SamplesOf(s) \subseteq accepted,
             \A i, j \in DOMAIN s : i < j => Before(s[i].samples, s[j].samples),
             batches' = Append(s, c)
      PROVE  BatchesInOrder' /\ Queued' = SamplesOf(s) \cup b.samples
  <2>1. s \in Seq({s[i] : i \in DOMAIN s} \cup {c})
    BY <1>7 DEF IsSeq
  <2>2. /\ Len(s) \in Nat /\ DOMAIN s = 1..Len(s) /\ DOMAIN batches' = 1..(Len(s) + 1)
        /\ \A i \in 1..Len(s) : batches'[i] = s[i]
        /\ batches'[Len(s) + 1] = c
    BY <1>7, <2>1
  <2>3. \A i \in DOMAIN s : Before(s[i].samples, c.samples)
    BY <1>7, BatchSamples DEF Before
  <2>4. BatchesInOrder'
    BY <1>7, <2>2, <2>3 DEF BatchesInOrder
  <2>5. SamplesOf(batches') = SamplesOf(s) \cup c.samples
    BY <1>7, AppendSamples
  <2>6. Queued' = SamplesOf(batches')
    BY DEF Queued, SamplesOf
  <2> QED
    BY <1>7, <2>4, <2>5, <2>6
<1>8. CASE ~Overflows(g)
  <2>1. Evicted(g) = {}
    BY <1>8 DEF Evicted
  <2>2. BatchesInOrder' /\ Queued' = Queued \cup b.samples
    BY <1>4, <1>5, <1>7, <1>8 DEF BatchesInOrder, Queued
  <2> QED
    BY <2>1, <2>2 DEF Before
<1>9. CASE Overflows(g)
  <2> DEFINE rest == Tail(batches)
  <2>1. batches # <<>>
    BY <1>3, <1>9, CapacityAssumption DEF Overflows
  <2>2. /\ IsSeq(rest) /\ SamplesOf(batches) = Head(batches).samples \cup SamplesOf(rest)
    BY <1>5, <2>1, TailSamples
  <2>3. Evicted(g) = Head(batches).samples
    BY <1>3, <1>9 DEF Evicted
  <2>4. /\ Len(batches) \in Nat /\ DOMAIN batches = 1..Len(batches) /\ 1 \in DOMAIN batches
        /\ DOMAIN rest = 1..(Len(batches) - 1)
        /\ \A i \in DOMAIN rest : i + 1 \in DOMAIN batches /\ rest[i] = batches[i + 1]
        /\ Head(batches) = batches[1]
    <3>1. batches \in Seq({batches[i] : i \in DOMAIN batches})
      BY <1>5 DEF IsSeq
    <3> QED
      BY <2>1, <3>1
  <2> HIDE DEF rest
  <2>5. \A i, j \in DOMAIN rest : i < j => Before(rest[i].samples, rest[j].samples)
    <3> SUFFICES ASSUME NEW i \in DOMAIN rest, NEW j \in DOMAIN rest, i < j
                 PROVE  Before(rest[i].samples, rest[j].samples)
      OBVIOUS
    <3>1. i + 1 < j + 1
      BY <2>4
    <3> QED
      BY <2>4, <3>1 DEF BatchesInOrder
  <2>6. \A i \in DOMAIN rest : Before(Head(batches).samples, rest[i].samples)
    BY <2>4 DEF BatchesInOrder
  <2>7. Before(Head(batches).samples, SamplesOf(rest))
    BY <2>6 DEF Before, SamplesOf
  <2>8. Head(batches).samples \subseteq Nat
    BY <1>5, <2>2 DEF Queued
  <2>9. batches' = Append(rest, m)
    BY <1>4, <1>9 DEF rest
  <2>10. SamplesOf(rest) \subseteq accepted
    BY <1>5, <2>2 DEF Queued
  <2>11. BatchesInOrder' /\ Queued' = SamplesOf(rest) \cup b.samples
    BY <1>6, <1>7, <2>2, <2>5, <2>9, <2>10
  <2>12. Queued = Evicted(g) \cup SamplesOf(rest)
    BY <2>2, <2>3 DEF Queued
  <2>13. Queued \ Evicted(g) = SamplesOf(rest)
    <3>1. \A x \in Evicted(g) : x \in Nat /\ x \notin SamplesOf(rest)
      BY <2>3, <2>7, <2>8 DEF Before
    <3> QED
      BY <2>12, <3>1
  <2> QED
    BY <2>3, <2>7, <2>11, <2>12, <2>13
<1> QED
  BY <1>8, <1>9

LEMMA InitOInv == Init => OInv
<1> SUFFICES ASSUME Init PROVE OInv
  OBVIOUS
<1>1. /\ inbox = <<>> /\ pending = <<>> /\ batches = <<>> /\ accepted = {}
      /\ chunks = 0 /\ reader = "none"
  BY DEF Init, MailboxInit
<1>2. DOMAIN inbox = {} /\ DOMAIN pending = {} /\ DOMAIN batches = {}
  BY <1>1
<1>3. ChunksInOrder
  BY <1>1, <1>2, BoundAssumption DEF ChunksInOrder
<1>4. AcceptedFirst /\ BatchesInOrder
  BY <1>1, <1>2 DEF AcceptedFirst, BatchesInOrder
<1> QED
  BY <1>3, <1>4 DEF OInv

\* A step that decodes nothing and leaves the mailbox alone.
LEMMA OInvUnchanged ==
  ASSUME OInv, UNCHANGED <<chunks, inbox, pending, accepted, batches>>,
         reader' # "holding" \/ UNCHANGED <<reader, held>>
  PROVE  OInv'
  BY DEF OInv, ChunksInOrder, AcceptedFirst, BatchesInOrder

\* The chunk just read is newer than all before it.
LEMMA ReadInOrder ==
  ASSUME OInv, NEW size \in ChunkSizes, ReadChunk(size)
  PROVE  OInv'
<1>1. /\ chunks \in Nat /\ chunks + 1 \in 0..MaxChunk
      /\ chunks' = chunks + 1 /\ held' = <<[id |-> chunks + 1, size |-> size]>>
      /\ UNCHANGED <<inbox, pending, accepted, batches>>
  BY BoundAssumption DEF ReadChunk, ChunkBound, OInv, ChunksInOrder, mailbox, history, queueVars
<1>2. /\ \A i \in DOMAIN inbox : inbox[i].id \in 1..chunks
      /\ \A k \in DOMAIN pending : pending[k].id \in 1..chunks
  BY QueueElements DEF OInv
<1>3. inbox' \in Seq([id : 1..chunks', size : ChunkSizes])
  <2> DEFINE S == [id : 1..chunks, size : ChunkSizes]
             T == [id : 1..chunks + 1, size : ChunkSizes]
  <2>1. S \subseteq T /\ inbox \in Seq(S)
    BY <1>1 DEF OInv, ChunksInOrder
  <2> HIDE DEF S, T
  <2>2. inbox' \in Seq(T)
    BY <1>1, <2>1
  <2> QED
    BY <1>1, <2>2 DEF T
<1>4. pending' \in Seq([id : 1..chunks', kind : {"sample", "malformed"}])
  <2> DEFINE S == [id : 1..chunks, kind : {"sample", "malformed"}]
             T == [id : 1..chunks + 1, kind : {"sample", "malformed"}]
  <2>1. S \subseteq T /\ pending \in Seq(S)
    BY <1>1 DEF OInv, ChunksInOrder
  <2> HIDE DEF S, T
  <2>2. pending' \in Seq(T)
    BY <1>1, <2>1
  <2> QED
    BY <1>1, <2>2 DEF T
<1>5. ChunksInOrder'
  BY <1>1, <1>2, <1>3, <1>4 DEF OInv, ChunksInOrder
<1>6. AcceptedFirst'
  BY <1>1 DEF OInv, AcceptedFirst
<1> QED
  BY <1>1, <1>5, <1>6 DEF OInv, BatchesInOrder

\* A sequence with one element more.
LEMMA QueuedLast ==
  ASSUME NEW S, NEW s \in Seq(S), NEW c \in S
  PROVE  /\ s \o <<c>> \in Seq(S) /\ Len(s \o <<c>>) = Len(s) + 1
         /\ DOMAIN (s \o <<c>>) = 1..(Len(s) + 1)
         /\ \A i \in 1..Len(s) : (s \o <<c>>)[i] = s[i]
         /\ (s \o <<c>>)[Len(s) + 1] = c
  OBVIOUS

\* Queued behind the chunks that are not evicted, it is the newest of them.
LEMMA QueuedInOrder ==
  ASSUME OInv, reader = "holding", reader' # "holding", NEW n \in 0..Len(inbox),
         inbox' = SubSeq(inbox, n + 1, Len(inbox)) \o held,
         UNCHANGED <<chunks, pending, accepted, batches>>
  PROVE  /\ OInv' /\ Len(inbox') = Len(inbox) - n + 1
         /\ \A i \in DOMAIN inbox' :
               \/ /\ i \in 1..(Len(inbox) - n) /\ n + i \in DOMAIN inbox
                  /\ inbox'[i] = inbox[n + i]
               \/ i = Len(inbox) - n + 1 /\ inbox'[i].id = chunks
         /\ \A i \in 1..(Len(inbox) - n + 1) : i \in DOMAIN inbox'
<1>0. ChunksInOrder /\ AcceptedFirst /\ chunks \in Nat /\ chunks > 0
      /\ Len(inbox) \in Nat /\ n \in Nat
  BY BoundAssumption, QueueElements DEF OInv, ChunksInOrder
<1>1. PICK size \in ChunkSizes : held = <<[id |-> chunks, size |-> size]>>
  BY <1>0 DEF ChunksInOrder
<1> DEFINE c == [id |-> chunks, size |-> size]
           S == [id : 1..chunks, size : ChunkSizes]
           rest == SubSeq(inbox, n + 1, Len(inbox))
           k == Len(inbox) - n
<1>2. /\ rest \in Seq(S) /\ Len(rest) = k /\ DOMAIN rest = 1..k /\ k \in Nat
      /\ \A i \in 1..k : n + i \in DOMAIN inbox /\ rest[i] = inbox[n + i]
  <2>1. k \in Nat
    BY <1>0
  <2> QED
    BY <1>0, <2>1, PartsOfQueue
<1>3. c \in S /\ c.id = chunks
  BY <1>0
<1> HIDE DEF c, S, rest, k
<1>4. inbox' = rest \o <<c>>
  BY <1>1 DEF c, rest
<1>5. /\ inbox' \in Seq(S) /\ Len(inbox') = k + 1 /\ DOMAIN inbox' = 1..(k + 1)
      /\ \A i \in 1..k : inbox'[i] = rest[i]
      /\ inbox'[k + 1] = c
  <2>1. /\ rest \o <<c>> \in Seq(S) /\ Len(rest \o <<c>>) = Len(rest) + 1
        /\ DOMAIN (rest \o <<c>>) = 1..(Len(rest) + 1)
        /\ \A i \in 1..Len(rest) : (rest \o <<c>>)[i] = rest[i]
        /\ (rest \o <<c>>)[Len(rest) + 1] = c
    BY <1>2, <1>3, QueuedLast
  <2>2. PICK q : q = rest \o <<c>>
    OBVIOUS
  <2>3. /\ q \in Seq(S) /\ Len(q) = k + 1 /\ DOMAIN q = 1..(k + 1)
        /\ \A i \in 1..k : q[i] = rest[i]
        /\ q[k + 1] = c
    BY <1>2, <2>1, <2>2, Zenon
  <2> QED
    BY <1>4, <2>2, <2>3, Zenon
<1>6. \A i \in DOMAIN inbox' :
         \/ i \in 1..k /\ n + i \in DOMAIN inbox /\ inbox'[i] = inbox[n + i]
         \/ i = k + 1 /\ inbox'[i].id = chunks
  <2>1. \A i \in 1..(k + 1) : i \in 1..k \/ i = k + 1
    BY <1>2
  <2> QED
    BY <1>2, <1>3, <1>5, <2>1
<1>7. ASSUME NEW i \in DOMAIN inbox', NEW j \in DOMAIN inbox', i < j
      PROVE  inbox'[i].id < inbox'[j].id
  <2>1. i \in 1..k /\ n + i \in DOMAIN inbox /\ inbox'[i] = inbox[n + i]
    <3>1. i \in 1..(k + 1) /\ j \in 1..(k + 1) /\ k \in Nat
      BY <1>2, <1>5, <1>7
    <3>2. i # k + 1
      BY <1>7, <3>1
    <3> QED
      BY <1>6, <3>2
  <2>2. CASE j \in 1..k /\ n + j \in DOMAIN inbox /\ inbox'[j] = inbox[n + j]
    <3>1. n + i < n + j
      BY <1>0, <1>7, <2>1, <2>2
    <3> QED
      BY <1>0, <2>1, <2>2, <3>1 DEF ChunksInOrder
  <2>3. CASE j = k + 1 /\ inbox'[j].id = chunks
    BY <1>0, <2>1, <2>3 DEF ChunksInOrder
  <2> QED
    BY <1>6, <2>2, <2>3
<1>8. \A p \in DOMAIN pending, i \in DOMAIN inbox' : pending[p].id < inbox'[i].id
  BY <1>0, <1>6 DEF ChunksInOrder
<1>9. \A s \in accepted, i \in DOMAIN inbox' : s < inbox'[i].id
  BY <1>0, <1>6 DEF AcceptedFirst
<1>10. ChunksInOrder'
  BY <1>0, <1>5, <1>7, <1>8 DEF S, ChunksInOrder
<1>11. AcceptedFirst' /\ BatchesInOrder'
  BY <1>0, <1>9 DEF OInv, AcceptedFirst, BatchesInOrder
<1> QED
  BY <1>5, <1>6, <1>10, <1>11 DEF k, OInv

\* Handed over, the chunk goes to the end of the queue, or nowhere.
LEMMA HandedInOrder ==
  ASSUME OInv, HandOver
  PROVE  OInv'
<1>1. /\ UNCHANGED <<chunks, pending, accepted, batches>>
      /\ reader = "holding" /\ reader' # "holding"
  BY DEF HandOver, mailbox, history
<1>2. CASE UNCHANGED inbox
  BY <1>1, <1>2, OInvUnchanged
<1>3. CASE Enqueue
  <2>1. PICK n \in 0..Len(inbox) : inbox' = SubSeq(inbox, n + 1, Len(inbox)) \o held
    BY <1>3 DEF Enqueue
  <2> QED
    BY <1>1, <2>1, QueuedInOrder
<1> QED
  BY <1>2, <1>3 DEF HandOver, RefuseOversized

\* Decoding takes the oldest chunk off the queue.
LEMMA QueueAdvances ==
  ASSUME ChunksInOrder, inbox # <<>>, inbox' = Tail(inbox)
  PROVE  /\ inbox' \in Seq([id : 1..chunks, size : ChunkSizes])
         /\ Len(inbox') = Len(inbox) - 1
         /\ 1 \in DOMAIN inbox /\ Head(inbox) = inbox[1] /\ inbox[1].id \in 1..chunks
         /\ \A i \in DOMAIN inbox' : i \in Nat \ {0} /\ i + 1 \in DOMAIN inbox
                                     /\ inbox'[i] = inbox[i + 1]
         /\ \A i \in DOMAIN inbox : i = 1 \/ (i - 1 \in DOMAIN inbox' /\ inbox'[i - 1] = inbox[i])
<1> DEFINE S == [id : 1..chunks, size : ChunkSizes]
<1>1. inbox \in Seq(S)
  BY DEF ChunksInOrder
<1>2. \A c \in S : c.id \in 1..chunks
  OBVIOUS
<1> HIDE DEF S
<1>3. /\ inbox' \in Seq(S) /\ Len(inbox') = Len(inbox) - 1
      /\ Len(inbox) \in Nat \ {0} /\ DOMAIN inbox = 1..Len(inbox)
      /\ DOMAIN inbox' = 1..(Len(inbox) - 1)
      /\ \A i \in DOMAIN inbox' : inbox'[i] = inbox[i + 1]
      /\ Head(inbox) = inbox[1] /\ inbox[1] \in S
  BY <1>1
<1> QED
  BY <1>2, <1>3 DEF S

\* Appended to a sequence, x is its last element.
LEMMA AppendedElement ==
  ASSUME NEW R, NEW s \in Seq(R), NEW x \in R, NEW t, t = Append(s, x)
  PROVE  /\ t \in Seq(R) /\ Len(t) = Len(s) + 1 /\ Len(s) \in Nat
         /\ \A k \in DOMAIN t : (k \in DOMAIN s /\ t[k] = s[k]) \/ t[k] = x
         /\ \A k \in DOMAIN s : k \in DOMAIN t /\ t[k] = s[k]
         /\ \E k \in DOMAIN t : t[k] = x
<1>1. /\ Len(s) \in Nat /\ DOMAIN s = 1..Len(s)
      /\ t \in Seq(R) /\ Len(t) = Len(s) + 1 /\ DOMAIN t = 1..(Len(s) + 1)
      /\ \A k \in 1..Len(s) : t[k] = s[k]
      /\ t[Len(s) + 1] = x
  OBVIOUS
<1>2. Len(s) + 1 \in DOMAIN t /\ \A k \in DOMAIN t : k \in DOMAIN s \/ k = Len(s) + 1
  BY <1>1
<1> QED
  BY <1>1, <1>2

\* The row it completes is newer than those that are pending.
LEMMA DecodedInOrder ==
  ASSUME OInv, NEW outcome \in {"sample", "malformed", "partial"}, DecodeChunk(outcome)
  PROVE  OInv'
<1>0. ChunksInOrder /\ AcceptedFirst
  BY DEF OInv
<1>1. /\ UNCHANGED <<chunks, reader, held, accepted, batches>>
      /\ inbox # <<>> /\ inbox' = Tail(inbox)
      /\ pending' = IF outcome = "partial" THEN pending
                    ELSE Append(pending, [id |-> Head(inbox).id, kind |-> outcome])
  BY DEF DecodeChunk, mailbox, readerVars, history
<1> DEFINE R == [id : 1..chunks, kind : {"sample", "malformed"}]
           row == [id |-> inbox[1].id, kind |-> outcome]
<1>2. /\ inbox' \in Seq([id : 1..chunks, size : ChunkSizes])
      /\ 1 \in DOMAIN inbox /\ Head(inbox) = inbox[1] /\ inbox[1].id \in 1..chunks
      /\ \A i \in DOMAIN inbox' : i \in Nat \ {0} /\ i + 1 \in DOMAIN inbox
                                  /\ inbox'[i] = inbox[i + 1]
  BY <1>0, <1>1, QueueAdvances
<1>3. pending' \in Seq(R) /\ \A k \in DOMAIN pending' :
                               \/ k \in DOMAIN pending /\ pending'[k] = pending[k]
                               \/ pending'[k].id = inbox[1].id
  <2>1. pending \in Seq(R)
    BY <1>0 DEF ChunksInOrder
  <2>2. CASE outcome = "partial"
    BY <1>1, <2>1, <2>2
  <2>3. CASE outcome # "partial"
    <3>1. row \in R /\ row.id = inbox[1].id /\ pending' = Append(pending, row)
      BY <1>1, <1>2, <2>3
    <3> HIDE DEF row, R
    <3> QED
      BY <2>1, <3>1, AppendedElement
  <2> QED
    BY <2>2, <2>3
<1> HIDE DEF R, row
<1>4. ASSUME NEW i \in DOMAIN inbox', NEW j \in DOMAIN inbox', i < j
      PROVE  inbox'[i].id < inbox'[j].id
  <2>1. i + 1 < j + 1
    BY <1>2, <1>4
  <2> QED
    BY <1>0, <1>2, <2>1 DEF ChunksInOrder
<1>5. \A i \in DOMAIN inbox' : inbox[1].id < inbox'[i].id
  <2> TAKE i \in DOMAIN inbox'
  <2>1. 1 < i + 1
    BY <1>2
  <2> QED
    BY <1>0, <1>2, <2>1 DEF ChunksInOrder
<1>6. \A k \in DOMAIN pending', i \in DOMAIN inbox' : pending'[k].id < inbox'[i].id
  BY <1>0, <1>2, <1>3, <1>5 DEF ChunksInOrder
<1>7. ChunksInOrder'
  BY <1>0, <1>1, <1>2, <1>3, <1>4, <1>6 DEF R, ChunksInOrder
<1>8. AcceptedFirst'
  BY <1>0, <1>1, <1>2, <1>3 DEF AcceptedFirst
<1> QED
  BY <1>1, <1>7, <1>8 DEF OInv, BatchesInOrder

\* A delivery is an Offer: new samples enter and the oldest make room.
LEMMA DeliveryOffers ==
  ASSUME SInv, OInv, DeliverBatch
  PROVE  OInv' /\ Channel!Next
<1> DEFINE new == BatchOf(pending).samples
           old == Evicted(inputGeneration)
<1>1. /\ UNCHANGED <<chunks, held, reader, inbox, recorded>> /\ pending' = <<>>
      /\ accepted' = accepted \cup new /\ overwritten' = overwritten \cup old
  BY DEF DeliverBatch, readerVars, shownVars
<1>2. /\ ChunksInOrder' /\ AcceptedFirst' /\ Before(accepted, new) /\ new \subseteq 1..chunks
  BY <1>1, DeliveredInOrder
<1>3. chunks \in 0..MaxChunk /\ accepted \subseteq Nat /\ MaxChunk \in Nat
  BY BoundAssumption DEF OInv, ChunksInOrder, AcceptedFirst
<1>4. /\ BatchesInOrder' /\ old \subseteq Queued /\ Before(old, Queued \ old)
      /\ Queued' = (Queued \ old) \cup new
  BY <1>2, <1>3, PushInOrder DEF OInv
<1>5. Queued \cup recorded \cup overwritten = accepted
  BY DEF SInv, Accounted, Queued
<1> HIDE DEF new, old
<1>6. Channel!Offer(new, old)
  BY <1>1, <1>2, <1>4, <1>5 DEF Channel!Offer, Channel!Seen, Channel!Before, Before
<1>7. new \in SUBSET Numbers /\ old \in SUBSET Queued
  BY <1>2, <1>3, <1>4 DEF Numbers
<1> QED
  BY <1>2, <1>4, <1>6, <1>7 DEF OInv, Channel!Next

\* A drain is a Record, unless it is a stale one.
LEMMA DrainRecords ==
  ASSUME BatchesInOrder, NEW g, Drain(g), UNCHANGED overwritten
  PROVE  BatchesInOrder' /\ [Channel!Next]_(Channel!channel)
<1>1. CASE g # liveGeneration \/ g # activeGeneration
  <2>1. UNCHANGED <<batches, recorded>>
    BY <1>1, NoSamples DEF Drain, Take, Taken, mailbox, shownVars
  <2> QED
    BY <2>1 DEF BatchesInOrder, Channel!channel, Queued, SamplesOf
<1>2. CASE g = liveGeneration /\ g = activeGeneration
  <2>1. batches' = <<>> /\ recorded' = recorded \cup Queued
    BY <1>2 DEF Drain, Take, Taken, Queued
  <2>2. BatchesInOrder' /\ Queued' = {}
    BY <2>1 DEF BatchesInOrder, Queued, SamplesOf
  <2> QED
    BY <2>1, <2>2 DEF Channel!Next, Channel!Record
<1> QED
  BY <1>1, <1>2

\* Every step preserves the order and is a step of the abstract channel.
LEMMA StepOfChannel ==
  SInv /\ OInv /\ [Next]_vars => OInv' /\ [Channel!Next]_(Channel!channel)
<1> SUFFICES ASSUME SInv, OInv, [Next]_vars PROVE OInv' /\ [Channel!Next]_(Channel!channel)
  OBVIOUS
<1>0. ASSUME UNCHANGED <<batches, recorded, overwritten>>
      PROVE  [Channel!Next]_(Channel!channel)
  BY <1>0 DEF Channel!channel, Queued, SamplesOf
<1>1. ASSUME NEW size \in ChunkSizes, ReadChunk(size)
      PROVE  OInv' /\ [Channel!Next]_(Channel!channel)
  BY <1>0, <1>1, ReadInOrder DEF ReadChunk, mailbox, shownVars, history
<1>2. CASE HandOver
  BY <1>0, <1>2, HandedInOrder DEF HandOver, mailbox, shownVars, history
<1>3. CASE ReaderStops \/ ReaderFails
  BY <1>0, <1>3, OInvUnchanged DEF ReaderStops, ReaderFails, mailbox, shownVars, history, queueVars
<1>4. CASE DeliverBatch
  BY <1>4, DeliveryOffers
<1>5. CASE PostDrain \/ WorkerStops \/ WorkerFails
  BY <1>0, <1>5, OInvUnchanged
     DEF PostDrain, WorkerStops, WorkerFails, mailbox, readerVars, shownVars, history, queueVars
<1>6. ASSUME NEW outcome \in {"sample", "malformed", "partial"}, DecodeChunk(outcome)
      PROVE  OInv' /\ [Channel!Next]_(Channel!channel)
  BY <1>0, <1>6, DecodedInOrder DEF DecodeChunk, mailbox, shownVars, history
<1>7. ASSUME NEW g, Drain(g), UNCHANGED <<queueVars, readerVars, accepted, overwritten>>
      PROVE  OInv' /\ [Channel!Next]_(Channel!channel)
  <2>1. BatchesInOrder' /\ [Channel!Next]_(Channel!channel)
    BY <1>7, DrainRecords DEF OInv
  <2>2. ChunksInOrder' /\ AcceptedFirst'
    BY <1>7 DEF OInv, ChunksInOrder, AcceptedFirst, queueVars, readerVars
  <2> QED
    BY <2>1, <2>2 DEF OInv
<1>8. CASE RunDrain
  BY <1>7, <1>8 DEF RunDrain, history
<1>9. CASE JoinWorker
  BY <1>7, <1>9 DEF JoinWorker, history
<1>10. CASE RunError \/ JoinReader \/ OpenFails
  BY <1>0, <1>10, OInvUnchanged
     DEF RunError, JoinReader, OpenFails, mailbox, readerVars, shownVars, history, queueVars
<1>11. CASE StartSucceeds \/ StartFails
  <2>1. worker = "none" /\ batches = <<>>
    BY <1>11 DEF StartSucceeds, StartFails, SInv, DInv, DrainType, GenerationsOrdered,
                 BatchesAreLive, NoGeneration
  <2>2. reader = "none"
    BY <2>1 DEF SInv, StagesEmptyInOrder
  <2>3. /\ UNCHANGED batches /\ inbox' = <<>> /\ pending' = <<>> /\ reader' # "holding"
        /\ chunks' = 0 /\ accepted' = {} /\ recorded' = {} /\ overwritten' = {}
    BY <1>11, <2>2 DEF StartSucceeds, StartFails, NewSession, ResetWorker, mailbox
  <2>4. /\ inbox' \in Seq([id : 1..chunks', size : ChunkSizes]) /\ DOMAIN inbox' = {}
        /\ pending' \in Seq([id : 1..chunks', kind : {"sample", "malformed"}])
        /\ DOMAIN pending' = {}
    BY <2>3
  <2>5. OInv'
    BY <2>3, <2>4, BoundAssumption DEF OInv, ChunksInOrder, AcceptedFirst, BatchesInOrder
  <2>6. Queued = {} /\ Queued' = {}
    BY <2>1, <2>3 DEF Queued, SamplesOf
  <2> QED
    BY <2>3, <2>5, <2>6 DEF Channel!Next, Channel!Restart
<1>12. ASSUME NEW start \in BOOLEAN, UserRequest(start)
       PROVE  OInv' /\ [Channel!Next]_(Channel!channel)
  BY <1>0, <1>12, OInvUnchanged DEF UserRequest, mailbox, readerVars, shownVars, history, queueVars
<1>13. CASE Idle \/ UNCHANGED vars
  BY <1>0, <1>13, OInvUnchanged DEF Idle, vars, mailbox, readerVars, shownVars, history, queueVars
<1> QED
  BY <1>1, <1>2, <1>3, <1>4, <1>5, <1>6, <1>8, <1>9, <1>10, <1>11, <1>12, <1>13
     DEF Next, ReaderStep, WorkerStep, EventStep, StopStep, StartStep

\* The path from the serial port to the recording implements SampleChannel: the
\* recording grows in the order of decoding, and what the full mailbox sacrifices
\* is always the oldest that waits, never a newer sample or one already recorded.
THEOREM RecordingIsAChannel == Spec => OldestFirst
<1>1. Init => SInv /\ OInv
  BY InitSInv, InitOInv
<1>2. SInv /\ [Next]_vars => SInv'
  BY NextSInv
<1>3. SInv /\ OInv /\ [Next]_vars => OInv' /\ [Channel!Next]_(Channel!channel)
  BY StepOfChannel
<1>4. Init => Channel!Init
  BY DEF Init, MailboxInit, Channel!Init, Queued, SamplesOf
<1> QED
  BY <1>1, <1>2, <1>3, <1>4, PTL DEF Spec, OldestFirst, Channel!Spec

-----------------------------------------------------------------------------
(***************************************************************************)
(* What the full mailbox costs is told.  A sample is overwritten once,     *)
(* since those that wait are neither recorded nor overwritten yet, so the  *)
(* counter grows by exactly what is lost until it saturates; and it is     *)
(* never left behind without a batch whose drain will report it.           *)
(***************************************************************************)

Told == reported + discarded

WaitingIsUnsettled == Queued \cap (recorded \cup overwritten) = {}

CountIsTrue ==
    /\ reported \in Nat /\ discarded \in 0..CounterMax
    /\ discarded # 0 => batches # <<>>
    /\ Told <= Cardinality(overwritten)
    /\ Told < Cardinality(overwritten) => Told >= CounterMax

TInv == SInv /\ OInv /\ WaitingIsUnsettled /\ CountIsTrue

\* All the samples of a connection are finitely many.
LEMMA SettledIsFinite ==
  ASSUME SInv, OInv
  PROVE  IsFiniteSet(accepted) /\ Queued \subseteq accepted /\ overwritten \subseteq accepted
<1>1. accepted \subseteq 1..chunks /\ chunks \in Nat
  BY BoundAssumption DEF OInv, ChunksInOrder, AcceptedFirst
<1>2. IsFiniteSet(1..chunks)
  BY <1>1, FS_Interval
<1>3. IsFiniteSet(accepted)
  BY <1>1, <1>2, FS_Subset
<1> QED
  BY <1>3 DEF SInv, Accounted, Queued

\* Adding at the limit of the counter's width.
LEMMA Saturates ==
  ASSUME NEW x \in 0..CounterMax, NEW y \in Nat
  PROVE  /\ SaturatingAdd(x, y) \in 0..CounterMax
         /\ SaturatingAdd(x, y) <= x + y
         /\ SaturatingAdd(x, y) < x + y => SaturatingAdd(x, y) = CounterMax
  BY CounterAssumption DEF SaturatingAdd

\* What a delivery overwrites is counted.
LEMMA DeliveryCounts ==
  ASSUME TInv, DeliverBatch
  PROVE  WaitingIsUnsettled' /\ CountIsTrue'
<1> DEFINE new == BatchOf(pending).samples
           old == Evicted(inputGeneration)
<1>1. /\ UNCHANGED <<chunks, held, reader, inbox, recorded, reported>> /\ pending' = <<>>
      /\ accepted' = accepted \cup new /\ overwritten' = overwritten \cup old
      /\ worker = "running" /\ Push(inputGeneration, BatchOf(pending))
  BY DEF DeliverBatch, readerVars, shownVars
<1>2. Before(accepted, new) /\ new \subseteq 1..chunks
  BY <1>1, DeliveredInOrder DEF TInv
<1>3. accepted \subseteq Nat /\ accepted = recorded \cup overwritten \cup Queued
  BY BoundAssumption DEF TInv, OInv, ChunksInOrder, AcceptedFirst, SInv, Accounted, Queued
<1>4. /\ old \subseteq Queued /\ Queued' = (Queued \ old) \cup new
  BY <1>2, <1>3, PushInOrder DEF TInv, OInv
<1>5. new \cap accepted = {}
  BY <1>2, <1>3 DEF Before
<1> HIDE DEF new
<1>6. WaitingIsUnsettled'
  <2>1. Queued' \cap (recorded \cup overwritten) = {}
    BY <1>3, <1>4, <1>5 DEF TInv, WaitingIsUnsettled
  <2>2. Queued' \cap old = {}
    BY <1>3, <1>4, <1>5
  <2> QED
    BY <1>1, <2>1, <2>2 DEF WaitingIsUnsettled
<1>7. /\ IsFiniteSet(old) /\ IsFiniteSet(overwritten) /\ overwritten \cap old = {}
  BY <1>3, <1>4, SettledIsFinite, FS_Subset DEF TInv, WaitingIsUnsettled
<1> HIDE DEF old
<1>8. /\ Cardinality(old) \in Nat /\ Cardinality(overwritten) \in Nat
      /\ Cardinality(overwritten') = Cardinality(overwritten) + Cardinality(old)
  <2>1. Cardinality(overwritten \cap old) = 0
    BY <1>7, FS_EmptySet
  <2>2. Cardinality(old) \in Nat /\ Cardinality(overwritten) \in Nat
    BY <1>7, FS_CardinalityType
  <2>3. Cardinality(overwritten \cup old)
           = Cardinality(overwritten) + Cardinality(old) - Cardinality(overwritten \cap old)
    BY <1>7, FS_Union
  <2>4. Cardinality(overwritten \cup old) = Cardinality(overwritten) + Cardinality(old)
    BY <2>1, <2>2, <2>3
  <2> QED
    BY <1>1, <2>2, <2>4
<1>9. discarded' = SaturatingAdd(discarded, Cardinality(old)) /\ batches' # <<>>
  <2> DEFINE g == inputGeneration
             b == BatchOf(pending)
             m == PreserveCounters(b, Head(batches))
  <2>1. g = liveGeneration /\ g >= activeGeneration /\ ~(g < activeGeneration)
    BY <1>1 DEF TInv, SInv, DInv, DrainType, GenerationsOrdered, NoGeneration
  <2>2. g > activeGeneration => batches = <<>> /\ discarded = 0
    BY <2>1 DEF TInv, SInv, DInv, DrainType, NoGeneration, BatchesAreLive, CountIsTrue
  <2>3. Retained(g) = batches
    BY <2>2 DEF Retained
  <2>4. batches' = IF Overflows(g) THEN Append(Tail(batches), m) ELSE Append(batches, b)
    BY <1>1, <2>1, <2>3 DEF Push
  <2>5. discarded' = SaturatingAdd(discarded, Cardinality(Evicted(g)))
    BY <1>1, <2>1, <2>2 DEF Push
  <2>6. IsSeq(batches)
    BY DEF TInv, SInv, Accounted
  <2> HIDE DEF b, m
  <2>7. CASE ~Overflows(g)
    <3>1. batches' = Append(batches, b) /\ IsSeq(batches)
      BY <2>4, <2>6, <2>7
    <3>2. batches \in Seq({batches[i] : i \in DOMAIN batches} \cup {b})
      BY <3>1 DEF IsSeq
    <3> QED
      BY <2>5, <3>1, <3>2 DEF old
  <2>8. CASE Overflows(g)
    <3>1. batches # <<>>
      BY <2>3, <2>8, CapacityAssumption DEF Overflows
    <3>2. IsSeq(Tail(batches)) /\ batches' = Append(Tail(batches), m)
      BY <2>4, <2>6, <2>8, <3>1, TailSamples
    <3> DEFINE r == Tail(batches)
    <3>3. r \in Seq({r[i] : i \in DOMAIN r} \cup {m})
      BY <3>2 DEF IsSeq
    <3> HIDE DEF r
    <3>4. Append(r, m) # <<>>
      BY <3>3
    <3> QED
      BY <2>5, <3>2, <3>4 DEF r, old
  <2> QED
    BY <2>7, <2>8
<1>10. /\ reported' = reported /\ reported \in Nat /\ discarded \in 0..CounterMax
       /\ CounterMax \in Nat
       /\ reported + discarded <= Cardinality(overwritten)
       /\ reported + discarded < Cardinality(overwritten) => reported + discarded >= CounterMax
  BY <1>1, CounterAssumption DEF TInv, CountIsTrue, Told
<1>11. /\ discarded' \in 0..CounterMax
       /\ discarded' <= discarded + Cardinality(old)
       /\ discarded' < discarded + Cardinality(old) => discarded' = CounterMax
  BY <1>8, <1>9, <1>10, Saturates
<1>12. Cardinality(overwritten)' = Cardinality(overwritten')
  OBVIOUS
<1> QED
  BY <1>6, <1>8, <1>9, <1>10, <1>11, <1>12 DEF CountIsTrue, Told

\* A drain reports what was counted, and settles what waited.
LEMMA DrainCounts ==
  ASSUME TInv, NEW g, Drain(g), UNCHANGED overwritten
  PROVE  WaitingIsUnsettled' /\ CountIsTrue'
<1>1. CASE g # liveGeneration \/ g # activeGeneration
  <2>0. reported + 0 = reported
    BY DEF TInv, CountIsTrue
  <2>1. UNCHANGED <<batches, discarded, recorded, reported>>
    BY <1>1, <2>0, NoSamples DEF Drain, Take, Taken, TakenDiscarded, mailbox, shownVars
  <2> QED
    BY <2>1 DEF TInv, WaitingIsUnsettled, CountIsTrue, Told, Queued, SamplesOf
<1>2. CASE g = liveGeneration /\ g = activeGeneration
  <2>1. batches' = <<>> /\ discarded' = 0 /\ reported' = reported + discarded
    BY <1>2 DEF Drain, Take, TakenDiscarded
  <2>2. Queued' = {}
    BY <2>1 DEF Queued, SamplesOf
  <2> QED
    BY <2>1, <2>2, CounterAssumption DEF TInv, WaitingIsUnsettled, CountIsTrue, Told
<1> QED
  BY <1>1, <1>2

LEMMA CountUnchanged ==
  ASSUME TInv, UNCHANGED <<batches, discarded, recorded, overwritten, reported>>
  PROVE  WaitingIsUnsettled' /\ CountIsTrue'
  BY DEF TInv, WaitingIsUnsettled, CountIsTrue, Told, Queued, SamplesOf

LEMMA InitTInv == Init => TInv
<1> SUFFICES ASSUME Init PROVE TInv
  OBVIOUS
<1>1. /\ batches = <<>> /\ discarded = 0 /\ reported = 0 /\ overwritten = {}
      /\ Queued = {}
  BY DEF Init, MailboxInit, Queued, SamplesOf
<1>2. WaitingIsUnsettled /\ CountIsTrue
  BY <1>1, FS_EmptySet, CounterAssumption DEF WaitingIsUnsettled, CountIsTrue, Told
<1> QED
  BY <1>2, InitSInv, InitOInv DEF TInv

LEMMA NextTInv == TInv /\ [Next]_vars => TInv'
<1> SUFFICES ASSUME TInv, [Next]_vars PROVE TInv'
  OBVIOUS
<1>0. SInv' /\ OInv'
  BY NextSInv, StepOfChannel DEF TInv
<1> SUFFICES WaitingIsUnsettled' /\ CountIsTrue'
  BY <1>0 DEF TInv
<1>1. CASE ReaderStep
  BY <1>1, CountUnchanged
     DEF ReaderStep, ReadChunk, HandOver, ReaderStops, ReaderFails, mailbox, shownVars, history
<1>2. CASE DeliverBatch
  BY <1>2, DeliveryCounts
<1>3. CASE PostDrain \/ WorkerFails \/ WorkerStops
  BY <1>3, CountUnchanged
     DEF PostDrain, WorkerFails, WorkerStops, mailbox, shownVars, history
<1>10. ASSUME NEW outcome \in {"sample", "malformed", "partial"}, DecodeChunk(outcome)
       PROVE  WaitingIsUnsettled' /\ CountIsTrue'
  BY <1>10, CountUnchanged DEF DecodeChunk, mailbox, shownVars, history
<1>4. CASE RunDrain
  BY <1>4, DrainCounts DEF RunDrain, history
<1>5. CASE JoinWorker
  BY <1>5, DrainCounts DEF JoinWorker, history
<1>6. CASE RunError \/ JoinReader \/ OpenFails
  BY <1>6, CountUnchanged DEF RunError, JoinReader, OpenFails, mailbox, shownVars, history
<1>7. CASE StartSucceeds \/ StartFails
  <2>1. batches = <<>>
    BY <1>7 DEF StartSucceeds, StartFails, TInv, SInv, DInv, DrainType, GenerationsOrdered,
                BatchesAreLive, NoGeneration
  <2>2. discarded = 0
    BY <2>1 DEF TInv, CountIsTrue
  <2>3. /\ batches' = <<>> /\ discarded' = 0 /\ reported' = 0 /\ overwritten' = {}
    BY <1>7, <2>1, <2>2 DEF StartSucceeds, StartFails, NewSession, mailbox
  <2>4. Queued' = {}
    BY <2>3 DEF Queued, SamplesOf
  <2> QED
    BY <2>3, <2>4, FS_EmptySet, CounterAssumption DEF WaitingIsUnsettled, CountIsTrue, Told
<1>8. ASSUME NEW start \in BOOLEAN, UserRequest(start)
      PROVE  WaitingIsUnsettled' /\ CountIsTrue'
  BY <1>8, CountUnchanged DEF UserRequest, mailbox, shownVars, history
<1>9. CASE Idle \/ UNCHANGED vars
  BY <1>9, CountUnchanged DEF Idle, vars, mailbox, shownVars, history
<1> QED
  BY <1>1, <1>2, <1>3, <1>4, <1>5, <1>6, <1>7, <1>8, <1>9, <1>10
     DEF Next, WorkerStep, EventStep, StopStep, StartStep

\* The number of samples the operator is told were discarded is the number that
\* were overwritten before they could be recorded, up to the width of the counter,
\* and none is left to tell once the input is at rest.
THEOREM OverflowTold == Spec => []OverflowReported
<1>1. Init => TInv
  BY InitTInv
<1>2. TInv /\ [Next]_vars => TInv'
  BY NextTInv
<1>3. TInv => OverflowReported
  <2>1. ASSUME TInv, AtRest PROVE discarded = 0
    BY <2>1 DEF AtRest, TInv, SInv, DInv, DrainType, GenerationsOrdered, BatchesAreLive,
                NoGeneration, CountIsTrue
  <2> QED
    BY <2>1 DEF OverflowReported, TInv, CountIsTrue, Told
<1> QED
  BY <1>1, <1>2, <1>3, PTL DEF Spec

-----------------------------------------------------------------------------
(***************************************************************************)
(* The counters and the row diagnostics survive.  A batch that is pushed   *)
(* out hands both to the one that takes its place, so what has been shown  *)
(* and what waits add up to what was counted, as long as no counter        *)
(* reaches its width.                                                      *)
(***************************************************************************)

\* Induction over the natural numbers, the formula being given by the set of the
\* numbers it holds for.
LEMMA EveryNumber ==
  ASSUME NEW T, 0 \in T, \A n \in Nat : n \in T => n + 1 \in T
  PROVE  Nat \subseteq T
<1> SUFFICES ASSUME Nat \ T # {} PROVE FALSE
    OBVIOUS
<1> DEFINE R == OpToRel(<, Nat)
<1>1. IsWellFoundedOn(R, Nat)
  BY NatLessThanWellFounded
<1>2. \A x, y \in Nat : y < x => <<y, x>> \in R
  BY DEF OpToRel
<1> HIDE DEF R
<1>3. PICK x \in Nat \ T : \A y \in Nat \ T : ~(<<y, x>> \in R)
  BY <1>1, WFMin
<1>4. x - 1 \in Nat /\ x - 1 < x /\ x = (x - 1) + 1
  BY <1>3
<1>5. x - 1 \in T
  BY <1>2, <1>3, <1>4
<1> QED
  BY <1>3, <1>4, <1>5

\* The first i batches of bs count f[i] of c.
IsCount(f, bs, c, n) ==
    f = [i \in 0..n |-> IF i = 0 THEN 0 ELSE f[i - 1] + bs[i].counters[c]]

\* Adding up the counters of a sequence is well defined.
LEMMA CountExists ==
  ASSUME NEW bs, NEW c, NEW n \in Nat
  PROVE  \E f : IsCount(f, bs, c, n)
<1> DEFINE T == {k \in Nat : \E f : IsCount(f, bs, c, k)}
<1>1. 0 \in T
  <2> DEFINE f == [i \in 0..0 |-> 0]
  <2>1. f = [i \in 0..0 |-> IF i = 0 THEN 0 ELSE f[i - 1] + bs[i].counters[c]]
    OBVIOUS
  <2> QED
    BY <2>1 DEF IsCount
<1>2. ASSUME NEW k \in Nat, k \in T PROVE k + 1 \in T
  <2>1. PICK f : IsCount(f, bs, c, k)
    BY <1>2
  <2> DEFINE add(h, i) == IF i = 0 THEN 0 ELSE h[i - 1] + bs[i].counters[c]
             g == [i \in 0..(k + 1) |-> IF i \in 0..k THEN f[i] ELSE add(f, i)]
  <2>2. \A i \in 0..k : f[i] = add(f, i)
    BY <2>1 DEF IsCount
  <2>3. \A i \in 0..(k + 1) : i = 0 \/ i - 1 \in 0..k
    OBVIOUS
  <2>4. \A i \in 0..(k + 1) : g[i] = add(f, i)
    BY <2>2
  <2>5. \A i \in 0..(k + 1) : i # 0 => g[i - 1] = f[i - 1]
    BY <2>3
  <2>6. \A i \in 0..(k + 1) : g[i] = add(g, i)
    BY <2>4, <2>5
  <2>7. g = [i \in 0..(k + 1) |-> add(g, i)]
    BY <2>6
  <2> HIDE DEF g
  <2>8. IsCount(g, bs, c, k + 1)
    BY <2>7 DEF IsCount
  <2> QED
    BY <2>8
<1>3. n \in T
  <2> HIDE DEF T
  <2> QED
    BY <1>1, <1>2, EveryNumber
<1> QED
  BY <1>3

\* The definition of CountsOf, as a function of the number of batches added up.
LEMMA CountsOfIsCount ==
  ASSUME NEW bs, NEW c, Len(bs) \in Nat
  PROVE  \E f : IsCount(f, bs, c, Len(bs)) /\ CountsOf(bs, c) = f[Len(bs)]
<1> DEFINE f == CHOOSE h : IsCount(h, bs, c, Len(bs))
<1>1. IsCount(f, bs, c, Len(bs))
  BY CountExists
<1>2. CountsOf(bs, c) = f[Len(bs)]
  BY Zenon DEF CountsOf, IsCount
<1> QED
  BY <1>1, <1>2

\* The counters of the batches that are queued.
CountersOf(bs) == \A i \in DOMAIN bs : bs[i].counters \in [Counters -> 0..CounterMax]

\* From the k-th on, bs has the batches of cs.
Matches(bs, cs, c, k, m) ==
    \A i \in 1..m : bs[k + i].counters[c] = cs[i].counters[c] /\ cs[i].counters[c] \in Nat

CountsOn(f, g, k, m) == f[k + m] = f[k] + g[m] /\ g[m] \in Nat

\* The same batches count the same.
LEMMA CountsAgree ==
  ASSUME NEW bs, NEW cs, NEW c, NEW n \in Nat, NEW m \in Nat, NEW k \in Nat, NEW f, NEW g,
         IsCount(f, bs, c, n), IsCount(g, cs, c, m), k + m <= n,
         Matches(bs, cs, c, k, m), f[k] \in Nat
  PROVE  CountsOn(f, g, k, m)
<1> DEFINE z == f[k]
<1> DEFINE T == {j \in Nat : j <= m => f[k + j] = z + g[j] /\ g[j] \in Nat}
<1>1. 0 \in T
  BY DEF IsCount
<1>2. ASSUME NEW j \in Nat, j \in T PROVE j + 1 \in T
  <2> SUFFICES ASSUME j + 1 <= m PROVE f[k + (j + 1)] = z + g[j + 1] /\ g[j + 1] \in Nat
      OBVIOUS
  <2>1. f[k + j] = z + g[j] /\ g[j] \in Nat
    BY <1>2
  <2>2. j + 1 \in 0..m /\ j + 1 \in 1..m /\ k + (j + 1) \in 0..n /\ k + (j + 1) # 0 /\ j + 1 # 0
        /\ (k + (j + 1)) - 1 = k + j /\ (j + 1) - 1 = j
    OBVIOUS
  <2>3. g[j + 1] = g[j] + cs[j + 1].counters[c]
    BY <2>2 DEF IsCount
  <2>4. f[k + (j + 1)] = f[k + j] + bs[k + (j + 1)].counters[c]
    BY <2>2 DEF IsCount
  <2>5. bs[k + (j + 1)].counters[c] = cs[j + 1].counters[c] /\ cs[j + 1].counters[c] \in Nat
    BY <2>2 DEF Matches
  <2> HIDE DEF z
  <2>6. z \in Nat
    BY DEF z
  <2> QED
    BY <2>1, <2>3, <2>4, <2>5, <2>6
<1>3. m \in T
  <2> HIDE DEF T
  <2> QED
    BY <1>1, <1>2, EveryNumber
<1> QED
  BY <1>3 DEF CountsOn

\* Nothing queued counts nothing.
LEMMA CountsOfNone == ASSUME NEW c PROVE CountsOf(<<>>, c) = 0
<1>1. Len(<<>>) = 0 /\ 0 \in Nat
  OBVIOUS
<1>2. PICK f : IsCount(f, <<>>, c, 0) /\ CountsOf(<<>>, c) = f[0]
  BY <1>1, CountsOfIsCount
<1>3. f[0] = 0
  BY <1>2 DEF IsCount
<1> QED
  BY <1>2, <1>3

\* A batch more counts what it has counted.
LEMMA CountsOfAppend ==
  ASSUME NEW bs, IsSeq(bs), CountersOf(bs), NEW b, NEW c \in Counters,
         b.counters[c] \in Nat
  PROVE  /\ CountsOf(bs, c) \in Nat
         /\ CountsOf(Append(bs, b), c) = CountsOf(bs, c) + b.counters[c]
<1> DEFINE S == {bs[i] : i \in DOMAIN bs} \cup {b}
           cs == Append(bs, b)
           n == Len(bs)
<1>1. /\ n \in Nat /\ DOMAIN bs = 1..n /\ Len(cs) = n + 1 /\ n + 1 \in Nat
      /\ \A i \in 1..n : cs[i] = bs[i]
      /\ cs[n + 1] = b
  <2>1. bs \in Seq(S)
    BY DEF IsSeq
  <2> QED
    BY <2>1
<1>2. \A i \in 1..n : bs[i].counters[c] \in Nat
  BY <1>1, CounterAssumption DEF CountersOf
<1> HIDE DEF n, cs
<1>3. PICK g : IsCount(g, bs, c, n) /\ CountsOf(bs, c) = g[n]
  BY <1>1, CountsOfIsCount DEF n
<1>4. PICK f : IsCount(f, cs, c, n + 1) /\ CountsOf(cs, c) = f[n + 1]
  BY <1>1, CountsOfIsCount
<1>5. f[0] = 0 /\ f[n + 1] = f[n] + cs[n + 1].counters[c]
  <2>1. 0 \in 0..(n + 1) /\ n + 1 \in 0..(n + 1) /\ n + 1 # 0 /\ (n + 1) - 1 = n
    BY <1>1
  <2> QED
    BY <1>4, <2>1 DEF IsCount
<1>6. f[n] = g[n] /\ g[n] \in Nat
  <2>1. 0 + n <= n + 1 /\ 0 + n = n /\ 0 \in Nat /\ \A i \in 1..n : 0 + i = i
    BY <1>1
  <2>2. Matches(cs, bs, c, 0, n)
    BY <1>1, <1>2, <2>1 DEF Matches
  <2>3. CountsOn(f, g, 0, n)
    BY <1>1, <1>3, <1>4, <1>5, <2>1, <2>2, CountsAgree
  <2> QED
    BY <1>1, <1>5, <2>1, <2>3 DEF CountsOn
<1> QED
  BY <1>1, <1>3, <1>4, <1>5, <1>6 DEF cs

\* The first batch gone is what it has counted gone.
LEMMA CountsOfTail ==
  ASSUME NEW bs, IsSeq(bs), CountersOf(bs), bs # <<>>, NEW c \in Counters
  PROVE  /\ CountsOf(Tail(bs), c) \in Nat
         /\ CountsOf(bs, c) = Head(bs).counters[c] + CountsOf(Tail(bs), c)
<1> DEFINE S == {bs[i] : i \in DOMAIN bs}
           cs == Tail(bs)
           m == Len(bs) - 1
<1>1. /\ m \in Nat /\ m + 1 = Len(bs) /\ Len(cs) = m /\ Head(bs) = bs[1]
      /\ \A i \in 1..m : cs[i] = bs[1 + i]
      /\ DOMAIN bs = 1..(m + 1)
  <2>1. bs \in Seq(S)
    BY DEF IsSeq
  <2>2. Len(bs) \in Nat \ {0} /\ DOMAIN bs = 1..Len(bs) /\ Len(cs) = Len(bs) - 1
        /\ Head(bs) = bs[1]
    BY <2>1
  <2>3. \A i \in 1..m : cs[i] = bs[i + 1]
    BY <2>1, <2>2
  <2> QED
    BY <2>2, <2>3
<1>2. \A i \in 1..(m + 1) : bs[i].counters[c] \in Nat
  BY <1>1, CounterAssumption DEF CountersOf
<1>3. PICK f : IsCount(f, bs, c, m + 1) /\ CountsOf(bs, c) = f[m + 1]
  BY <1>1, CountsOfIsCount
<1>4. PICK g : IsCount(g, cs, c, m) /\ CountsOf(cs, c) = g[m]
  BY <1>1, CountsOfIsCount
<1> HIDE DEF m, cs
<1>5. f[1] = bs[1].counters[c] /\ bs[1].counters[c] \in Nat
  <2>1. 0 \in 0..(m + 1) /\ 1 \in 0..(m + 1) /\ 1 # 0 /\ 1 - 1 = 0 /\ 1 \in 1..(m + 1)
    BY <1>1
  <2>2. bs[1].counters[c] \in Nat
    BY <1>2, <2>1
  <2>3. f[0] = 0
    BY <1>3, <2>1 DEF IsCount
  <2>4. f[1] = f[0] + bs[1].counters[c]
    BY <1>3, <2>1 DEF IsCount
  <2> QED
    BY <2>2, <2>3, <2>4
<1>6. Matches(bs, cs, c, 1, m)
  <2>1. \A i \in 1..m : 1 + i \in 1..(m + 1)
    BY <1>1
  <2> QED
    BY <1>1, <1>2, <2>1 DEF Matches
<1>7. f[1 + m] = bs[1].counters[c] + g[m] /\ g[m] \in Nat
  <2>1. 1 + m <= m + 1 /\ 1 \in Nat /\ m + 1 \in Nat
    BY <1>1
  <2>2. CountsOn(f, g, 1, m)
    BY <1>1, <1>3, <1>4, <1>5, <1>6, <2>1, CountsAgree
  <2> QED
    BY <1>5, <2>2 DEF CountsOn
<1>8. 1 + m = m + 1
  BY <1>1
<1> QED
  BY <1>1, <1>3, <1>4, <1>7, <1>8 DEF cs

\* A set of numbers below a bound has a greatest one.
LEMMA NewestIsGreatest ==
  ASSUME NEW u \in Nat, NEW S \in SUBSET (0..u)
  PROVE  /\ Newest(S) \in S \cup {NoRow}
         /\ \A y \in S : y <= Newest(S)
<1>1. CASE S = {}
  BY <1>1 DEF Newest
<1>2. CASE S # {}
  <2> DEFINE T == {k \in Nat : \A y \in S : y <= u - k}
  <2>1. \E x \in S : \A y \in S : y <= x
    <3> SUFFICES ASSUME \A x \in S : \E y \in S : ~(y <= x) PROVE FALSE
        OBVIOUS
    <3>1. 0 \in T
      OBVIOUS
    <3>2. ASSUME NEW k \in Nat, k \in T PROVE k + 1 \in T
      <4>1. \A y \in S : y # u - k
        BY <3>2
      <4>2. \A y \in S : y <= u - (k + 1)
        BY <3>2, <4>1
      <4> QED
        BY <4>2
    <3>3. u + 1 \in T
      <4> HIDE DEF T
      <4> QED
        BY <3>1, <3>2, EveryNumber
    <3>4. PICK y \in S : TRUE
      BY <1>2
    <3>5. y \in 0..u /\ y <= u - (u + 1)
      BY <3>3, <3>4
    <3> QED
      BY <3>5
  <2> QED
    BY <1>2, <2>1 DEF Newest
<1> QED
  BY <1>1, <1>2

UpToWidth(sum, total) == sum <= total /\ (sum < total => sum >= CounterMax)

CountsTold ==
    /\ CountersOf(batches)
    /\ shown \in [Counters -> Nat] /\ counted \in [Counters -> Nat]
    /\ \A c \in Counters : UpToWidth(shown[c] + CountsOf(batches, c), counted[c])

RowsOf(bs) == {bs[i].row : i \in DOMAIN bs}

\* r is the newest row of S, if there is one.
Peak(S, r) == S \subseteq Nat /\ r \in S \cup {NoRow} /\ \A y \in S : y <= r

RowsTold ==
    /\ shownRow \in Nat
    /\ \E r : Peak(RowsOf(batches), r) /\ countedRow = NewerRow(shownRow, r)

\* What the worker has counted and not reported fits the counters of a batch.
WithinWidth ==
    /\ unreported \in [receivedBytes : 0..CounterMax, droppedChunks : 0..CounterMax]
    /\ Len(pending) <= MaxBatch
    /\ reader = "holding" => WorkerCanCount

UInv == TInv /\ WithinWidth /\ CountsTold /\ RowsTold

LEMMA InitWithinWidth == Init => WithinWidth
<1> SUFFICES ASSUME Init PROVE WithinWidth
  OBVIOUS
<1>1. pending = <<>> /\ unreported = NothingNew /\ reader = "none"
  BY DEF Init
<1>2. Len(pending) = 0 /\ 0 <= MaxBatch /\ 0 \in 0..CounterMax
  BY <1>1, QueueAssumption, CounterAssumption
<1> QED
  BY <1>1, <1>2 DEF WithinWidth, NothingNew

\* enqueueChunk counts no more than the port was allowed to yield.
LEMMA HandOverCounts ==
  ASSUME OInv, WithinWidth, HandOver
  PROVE  unreported' \in [receivedBytes : 0..CounterMax, droppedChunks : 0..CounterMax]
<1>0. /\ ChunksInOrder /\ CounterMax \in Nat
      /\ unreported.receivedBytes \in 0..CounterMax
      /\ unreported.droppedChunks \in 0..CounterMax
      /\ unreported.receivedBytes < CounterMax /\ unreported.droppedChunks < CounterMax
      /\ unreported.droppedChunks + Len(inbox) <= CounterMax
  BY CounterAssumption DEF OInv, WithinWidth, HandOver, WorkerCanCount
<1>1. ASSUME NEW lost, CountDropped(lost), Len(lost) \in Nat,
             unreported.droppedChunks + Len(lost) <= CounterMax
      PROVE  unreported' \in [receivedBytes : 0..CounterMax, droppedChunks : 0..CounterMax]
  <2>1. /\ unreported.receivedBytes + 1 \in 0..CounterMax
        /\ unreported.droppedChunks + Len(lost) \in 0..CounterMax
    BY <1>0, <1>1
  <2> QED
    BY <1>1, <2>1 DEF CountDropped
<1>2. CASE RefuseOversized
  <2>1. Len(held) = 1 /\ CountDropped(held)
    BY <1>0, <1>2 DEF HandOver, ChunksInOrder, RefuseOversized
  <2>2. unreported.droppedChunks + Len(held) <= CounterMax /\ Len(held) \in Nat
    BY <1>0, <2>1
  <2> QED
    BY <1>1, <2>1, <2>2
<1>3. CASE Enqueue
  <2>1. PICK n \in 0..Len(inbox) : CountDropped(SubSeq(inbox, 1, n))
    BY <1>3 DEF Enqueue
  <2>2. n \in Nat /\ n <= Len(inbox) /\ Len(inbox) \in Nat
    BY <1>0, QueueElements
  <2>4. Len(SubSeq(inbox, 1, n)) = n
    BY <1>0, PartsOfQueue
  <2>3. unreported.droppedChunks + n <= CounterMax
    BY <1>0, <2>2
  <2> QED
    BY <1>1, <2>1, <2>2, <2>3, <2>4
<1>4. CASE UNCHANGED unreported
  BY <1>4 DEF WithinWidth
<1> QED
  BY <1>2, <1>3, <1>4 DEF HandOver

LEMMA NextWithinWidth == OInv /\ WithinWidth /\ [Next]_vars => WithinWidth'
<1> SUFFICES ASSUME OInv, WithinWidth, [Next]_vars PROVE WithinWidth'
  OBVIOUS
<1>0. /\ ChunksInOrder /\ CounterMax \in Nat /\ MaxBatch \in Nat /\ Len(inbox) \in Nat
      /\ Len(pending) \in Nat
  BY CounterAssumption, QueueAssumption, QueueElements DEF OInv
<1>a. ASSUME UNCHANGED queueVars, reader' # "holding" \/ reader' = reader PROVE WithinWidth'
  BY <1>a DEF WithinWidth, WorkerCanCount, queueVars
<1>1. ASSUME NEW size \in ChunkSizes, ReadChunk(size) PROVE WithinWidth'
  BY <1>1 DEF ReadChunk, WithinWidth, WorkerCanCount, queueVars
<1>2. CASE HandOver
  <2>1. UNCHANGED pending /\ reader' = "reading"
    BY <1>2 DEF HandOver
  <2> QED
    BY <1>2, <2>1, HandOverCounts DEF WithinWidth
<1>3. CASE ReaderStops \/ ReaderFails
  BY <1>a, <1>3 DEF ReaderStops, ReaderFails
<1>4. ASSUME NEW outcome \in {"sample", "malformed", "partial"}, DecodeChunk(outcome)
      PROVE  WithinWidth'
  <2>1. /\ UNCHANGED <<unreported, reader>> /\ inbox # <<>> /\ inbox' = Tail(inbox)
        /\ Len(pending) < MaxBatch
        /\ \/ pending' = pending
           \/ \E row : pending' = Append(pending, row)
    BY <1>4 DEF DecodeChunk, readerVars
  <2>2. Len(inbox') = Len(inbox) - 1
    BY <1>0, <2>1, QueueAdvances
  <2>3. OInv' /\ Len(pending') \in Nat
    BY <1>4, DecodedInOrder, QueueElements DEF OInv
  <2>4. Len(pending') <= Len(pending) + 1
    <3>1. CASE pending' = pending
      BY <1>0, <3>1
    <3>2. CASE pending' # pending
      <4> DEFINE R == [id : 1..chunks, kind : {"sample", "malformed"}]
      <4>1. PICK row : pending' = Append(pending, row)
        BY <2>1, <3>2
      <4>2. pending \in Seq(R \cup {row})
        <5>1. pending \in Seq(R)
          BY <1>0 DEF ChunksInOrder
        <5> HIDE DEF R
        <5> QED
          BY <5>1
      <4> HIDE DEF R
      <4>3. Len(pending') = Len(pending) + 1
        BY <4>1, <4>2
      <4> QED
        BY <1>0, <4>3
    <3> QED
      BY <3>1, <3>2
  <2>5. Len(pending') <= MaxBatch
    BY <1>0, <2>1, <2>3, <2>4
  <2>6. WorkerCanCount => WorkerCanCount'
    <3>1. unreported.droppedChunks \in Nat
      BY <1>0 DEF WithinWidth
    <3> QED
      BY <1>0, <2>1, <2>2, <3>1 DEF WorkerCanCount
  <2> QED
    BY <2>1, <2>5, <2>6 DEF WithinWidth
<1>5. CASE DeliverBatch
  <2>1. pending' = <<>> /\ unreported' = NothingNew /\ UNCHANGED <<inbox, reader>>
    BY <1>5 DEF DeliverBatch, readerVars
  <2>2. Len(pending') <= MaxBatch
    BY <1>0, <2>1
  <2>3. WorkerCanCount => WorkerCanCount'
    <3>1. unreported.droppedChunks \in Nat
      BY <1>0 DEF WithinWidth
    <3>2. unreported'.receivedBytes = 0 /\ unreported'.droppedChunks = 0
      BY <2>1 DEF NothingNew
    <3> QED
      BY <1>0, <2>1, <3>1, <3>2 DEF WorkerCanCount
  <2>4. unreported' \in [receivedBytes : 0..CounterMax, droppedChunks : 0..CounterMax]
    BY <1>0, <2>1 DEF NothingNew
  <2> QED
    BY <2>1, <2>2, <2>3, <2>4 DEF WithinWidth
<1>6. CASE PostDrain \/ WorkerFails \/ WorkerStops
  BY <1>a, <1>6 DEF PostDrain, WorkerFails, WorkerStops, readerVars
<1>7. CASE EventStep
  BY <1>a, <1>7 DEF EventStep, RunDrain, RunError, readerVars
<1>8. CASE StopStep \/ OpenFails
  BY <1>a, <1>8 DEF StopStep, JoinReader, JoinWorker, OpenFails, readerVars
<1>9. CASE StartSucceeds \/ StartFails
  <2>1. pending' = <<>> /\ unreported' = NothingNew
    BY <1>9 DEF StartSucceeds, StartFails, ResetWorker
  <2>2. reader' = "holding" => UNCHANGED reader /\ inbox' = <<>>
    BY <1>9 DEF StartSucceeds, StartFails, ResetWorker
  <2>3. Len(pending') <= MaxBatch
    BY <1>0, <2>1
  <2>4. unreported' \in [receivedBytes : 0..CounterMax, droppedChunks : 0..CounterMax]
    BY <1>0, <2>1 DEF NothingNew
  <2>5. reader' = "holding" => WorkerCanCount'
    <3> SUFFICES ASSUME reader' = "holding" PROVE WorkerCanCount'
      OBVIOUS
    <3>1. unreported.receivedBytes < CounterMax /\ unreported.receivedBytes \in Nat
      BY <1>0, <2>2 DEF WithinWidth, WorkerCanCount
    <3>2. /\ unreported'.receivedBytes = 0 /\ unreported'.droppedChunks = 0
          /\ Len(inbox') = 0
      BY <2>1, <2>2 DEF NothingNew
    <3> QED
      BY <1>0, <3>1, <3>2 DEF WorkerCanCount
  <2> QED
    BY <2>3, <2>4, <2>5 DEF WithinWidth
<1>10. CASE (\E start \in BOOLEAN : UserRequest(start)) \/ Idle \/ UNCHANGED vars
  BY <1>a, <1>10 DEF UserRequest, Idle, vars, readerVars
<1> QED
  BY <1>1, <1>2, <1>3, <1>4, <1>5, <1>6, <1>7, <1>8, <1>9, <1>10
     DEF Next, ReaderStep, WorkerStep, StartStep

\* What a batch counts fits its counters, and its rows are numbered.
LEMMA BatchCounts ==
  ASSUME OInv, WithinWidth
  PROVE  /\ BatchOf(pending).counters \in [Counters -> 0..CounterMax]
         /\ BatchOf(pending).row \in Nat
<1> DEFINE s == pending
           n == Len(pending)
           Found(kinds) == {i \in 1..n : s[i].kind \in kinds}
<1>1. n \in Nat /\ chunks \in Nat /\ n <= CounterMax /\ CounterMax \in Nat
  BY QueueElements, BoundAssumption, CounterAssumption, QueueAssumption
     DEF OInv, ChunksInOrder, WithinWidth
<1>2. DOMAIN s = 1..n /\ \A i \in 1..n : s[i].id \in 1..chunks
  BY QueueElements DEF OInv
<1> HIDE DEF s, n
<1>4. \A kinds : IdsOfKind(s, kinds) = {s[i].id : i \in Found(kinds)}
  BY <1>2 DEF IdsOfKind
<1>5. \A kinds : IdsOfKind(s, kinds) \in SUBSET (0..chunks)
  BY <1>1, <1>2, <1>4
<1>6. BatchOf(s).row \in Nat
  <2> DEFINE R == IdsOfKind(s, {"sample", "malformed"})
  <2>1. Newest(R) \in R \cup {NoRow} /\ R \in SUBSET (0..chunks)
    BY <1>1, <1>5, NewestIsGreatest
  <2> HIDE DEF R
  <2> DEFINE x == Newest(R)
  <2>2. \A y \in R \cup {NoRow} : y \in Nat
    BY <1>1, <2>1 DEF NoRow
  <2>3. x \in R \cup {NoRow}
    BY <2>1
  <2> HIDE DEF x
  <2>4. x \in Nat
    BY <2>2, <2>3
  <2> QED
    BY <2>4 DEF R, x, BatchOf
<1>7. Cardinality(IdsOfKind(s, {"malformed"})) \in 0..CounterMax
  <2> DEFINE M == IdsOfKind(s, {"malformed"})
             F == Found({"malformed"})
             f == [i \in F |-> s[i].id]
  <2>1. IsFiniteSet(F) /\ Cardinality(F) <= n /\ Cardinality(F) \in Nat
    <3>1. IsFiniteSet(1..n) /\ Cardinality(1..n) = n
      BY <1>1, FS_Interval
    <3>2. F \in SUBSET (1..n)
      OBVIOUS
    <3> HIDE DEF F
    <3>3. IsFiniteSet(F) /\ Cardinality(F) <= Cardinality(1..n)
      BY <3>1, <3>2, FS_Subset
    <3> QED
      BY <3>1, <3>3, FS_CardinalityType
  <2>2. f \in Surjection(F, M)
    BY <1>4 DEF Surjection
  <2> HIDE DEF f, M, F
  <2>3. IsFiniteSet(M) /\ Cardinality(M) <= Cardinality(F)
    BY <2>1, <2>2, FS_Surjection
  <2>4. Cardinality(M) \in Nat
    BY <2>3, FS_CardinalityType
  <2>5. Cardinality(M) \in 0..CounterMax
    BY <1>1, <2>1, <2>3, <2>4
  <2> QED
    BY <2>5 DEF M
<1>8. BatchOf(s).counters \in [Counters -> 0..CounterMax]
  <2>1. \A c \in Counters : c # "malformedLines" => unreported[c] \in 0..CounterMax
    BY CountersAssumption DEF WithinWidth
  <2> QED
    BY <1>7, <2>1 DEF BatchOf
<1> QED
  BY <1>6, <1>8 DEF s

\* A full mailbox gives its first batch up, the others keep waiting.
LEMMA PushedBatches ==
  ASSUME SInv, DeliverBatch
  PROVE  \/ batches' = Append(batches, BatchOf(pending))
         \/ /\ batches # <<>>
            /\ batches' = Append(Tail(batches), PreserveCounters(BatchOf(pending),
                                                                Head(batches)))
<1> DEFINE g == inputGeneration
           b == BatchOf(pending)
<1>1. worker = "running" /\ Push(g, b)
  BY DEF DeliverBatch
<1>2. g = liveGeneration /\ g >= activeGeneration /\ ~(g < activeGeneration)
  BY <1>1 DEF SInv, DInv, DrainType, GenerationsOrdered, NoGeneration
<1>3. Retained(g) = batches
  BY <1>2 DEF SInv, DInv, DrainType, NoGeneration, BatchesAreLive, Retained
<1> HIDE DEF b
<1>4. batches' = IF Overflows(g) THEN Append(Tail(batches), PreserveCounters(b, Head(batches)))
                 ELSE Append(batches, b)
  BY <1>1, <1>2, <1>3 DEF Push
<1>5. Overflows(g) => batches # <<>>
  BY <1>3, CapacityAssumption DEF Overflows
<1> QED
  BY <1>4, <1>5 DEF b

\* The elements of a sequence to which one is appended, and of one whose first
\* is taken off.
LEMMA AppendElements ==
  ASSUME NEW s, IsSeq(s), NEW b
  PROVE  /\ IsSeq(Append(s, b))
         /\ \A i \in DOMAIN Append(s, b) :
               \/ Append(s, b)[i] = b
               \/ i \in DOMAIN s /\ Append(s, b)[i] = s[i]
         /\ \A i \in DOMAIN s : i \in DOMAIN Append(s, b) /\ Append(s, b)[i] = s[i]
         /\ \E i \in DOMAIN Append(s, b) : Append(s, b)[i] = b
<1> DEFINE S == {s[i] : i \in DOMAIN s} \cup {b}
           t == Append(s, b)
<1>1. s \in Seq(S)
  BY DEF IsSeq
<1>2. /\ Len(s) \in Nat
      /\ DOMAIN s = 1..Len(s) /\ DOMAIN t = 1..(Len(s) + 1) /\ Len(t) = Len(s) + 1
      /\ \A i \in 1..Len(s) : t[i] = s[i]
      /\ t[Len(s) + 1] = b
  BY <1>1
<1>3. Len(s) + 1 \in DOMAIN t /\ \A i \in DOMAIN t : i \in DOMAIN s \/ i = Len(s) + 1
  BY <1>2
<1> QED
  BY <1>2, <1>3, AppendSamples

LEMMA TailElements ==
  ASSUME NEW s, IsSeq(s), s # <<>>
  PROVE  /\ IsSeq(Tail(s)) /\ 1 \in DOMAIN s /\ Head(s) = s[1]
         /\ \A i \in DOMAIN Tail(s) : i + 1 \in DOMAIN s /\ Tail(s)[i] = s[i + 1]
         /\ \A i \in DOMAIN s : i = 1 \/ (i - 1 \in DOMAIN Tail(s) /\ Tail(s)[i - 1] = s[i])
<1> DEFINE S == {s[i] : i \in DOMAIN s}
           t == Tail(s)
<1>1. /\ t \in Seq(S) /\ Len(s) \in Nat
      /\ DOMAIN s = 1..Len(s) /\ 1 \in DOMAIN s /\ DOMAIN t = 1..(Len(s) - 1)
      /\ \A i \in DOMAIN t : t[i] = s[i + 1]
      /\ Head(s) = s[1]
  BY DEF IsSeq
<1> QED
  BY <1>1, TailSamples

\* A counter that inherits another's count.
LEMMA CountInherited ==
  ASSUME NEW x \in 0..CounterMax, NEW y \in 0..CounterMax, NEW w \in Nat, NEW v \in Nat,
         NEW total \in Nat, UpToWidth(v + (y + w), total)
  PROVE  UpToWidth(v + (w + SaturatingAdd(x, y)), total + x)
<1>1. /\ SaturatingAdd(x, y) \in 0..CounterMax /\ SaturatingAdd(x, y) <= x + y
      /\ SaturatingAdd(x, y) < x + y => SaturatingAdd(x, y) = CounterMax
  BY Saturates, CounterAssumption
<1> QED
  BY <1>1, CounterAssumption DEF UpToWidth

\* A delivery adds the same to what waits and to what was counted.
LEMMA DeliveryKeepsCounts ==
  ASSUME UInv, DeliverBatch
  PROVE  CountsTold'
<1> DEFINE b == BatchOf(pending)
           m == PreserveCounters(b, Head(batches))
<1>0. CounterMax \in Nat
  BY CounterAssumption
<1>1. /\ UNCHANGED shown
      /\ counted' = [c \in Counters |-> counted[c] + b.counters[c]]
  BY DEF DeliverBatch, shownVars
<1>2. b.counters \in [Counters -> 0..CounterMax]
  BY BatchCounts DEF UInv, TInv
<1>3. \/ batches' = Append(batches, b)
      \/ batches # <<>> /\ batches' = Append(Tail(batches), m)
  BY PushedBatches DEF UInv, TInv
<1>4. IsSeq(batches) /\ CountersOf(batches)
      /\ shown \in [Counters -> Nat] /\ counted \in [Counters -> Nat]
      /\ \A c \in Counters : UpToWidth(shown[c] + CountsOf(batches, c), counted[c])
  BY DEF UInv, TInv, SInv, Accounted, CountsTold
<1>5. batches # <<>> =>
          /\ Head(batches).counters \in [Counters -> 0..CounterMax]
          /\ m.counters = [c \in Counters |->
                              SaturatingAdd(b.counters[c], Head(batches).counters[c])]
          /\ m.counters \in [Counters -> 0..CounterMax]
          /\ IsSeq(Tail(batches)) /\ CountersOf(Tail(batches))
  <2> SUFFICES ASSUME batches # <<>>
               PROVE  /\ Head(batches).counters \in [Counters -> 0..CounterMax]
                      /\ m.counters = [c \in Counters |->
                              SaturatingAdd(b.counters[c], Head(batches).counters[c])]
                      /\ m.counters \in [Counters -> 0..CounterMax]
                      /\ IsSeq(Tail(batches)) /\ CountersOf(Tail(batches))
      OBVIOUS
  <2>1. /\ IsSeq(Tail(batches)) /\ 1 \in DOMAIN batches /\ Head(batches) = batches[1]
        /\ \A i \in DOMAIN Tail(batches) : i + 1 \in DOMAIN batches
                                            /\ Tail(batches)[i] = batches[i + 1]
    BY <1>4, TailElements
  <2>2. Head(batches).counters \in [Counters -> 0..CounterMax] /\ CountersOf(Tail(batches))
    BY <1>4, <2>1 DEF CountersOf
  <2>3. m.counters = [c \in Counters |->
                        SaturatingAdd(b.counters[c], Head(batches).counters[c])]
    <3> HIDE DEF b
    <3> QED
      BY DEF PreserveCounters, BatchOf, b
  <2>4. \A c \in Counters :
            SaturatingAdd(b.counters[c], Head(batches).counters[c]) \in 0..CounterMax
    <3> HIDE DEF b
    <3> TAKE c \in Counters
    <3> DEFINE x == b.counters[c]
               y == Head(batches).counters[c]
    <3>1. x \in 0..CounterMax /\ y \in Nat
      BY <1>0, <1>2, <2>2
    <3> HIDE DEF x, y
    <3>2. SaturatingAdd(x, y) \in 0..CounterMax
      BY <3>1, Saturates
    <3> QED
      BY <3>2 DEF x, y
  <2> QED
    BY <2>1, <2>2, <2>3, <2>4
<1> HIDE DEF b, m
<1>6. \A c \in Counters : counted[c] \in Nat /\ shown[c] \in Nat /\ b.counters[c] \in 0..CounterMax
                         /\ b.counters[c] \in Nat
  BY <1>0, <1>2, <1>4
<1>7. counted' \in [Counters -> Nat]
  BY <1>1, <1>6
<1>8. CASE batches' = Append(batches, b)
  <2>1. CountersOf(batches')
    BY <1>2, <1>4, <1>8, AppendElements DEF CountersOf
  <2>2. ASSUME NEW c \in Counters
        PROVE  UpToWidth(shown[c] + CountsOf(batches', c), counted'[c])
    <3>1. /\ CountsOf(batches, c) \in Nat
          /\ CountsOf(batches', c) = CountsOf(batches, c) + b.counters[c]
      BY <1>4, <1>6, <1>8, CountsOfAppend
    <3>2. UpToWidth(shown[c] + CountsOf(batches, c), counted[c]) /\ counted'[c] = counted[c] + b.counters[c]
      BY <1>1, <1>4
    <3> QED
      BY <1>0, <1>6, <3>1, <3>2 DEF UpToWidth
  <2> QED
    BY <1>1, <1>4, <1>7, <2>1, <2>2 DEF CountsTold, CountersOf, CountsOf
<1>9. CASE batches # <<>> /\ batches' = Append(Tail(batches), m)
  <2>1. CountersOf(batches')
    BY <1>5, <1>9, AppendElements DEF CountersOf
  <2>2. ASSUME NEW c \in Counters
        PROVE  UpToWidth(shown[c] + CountsOf(batches', c), counted'[c])
    <3>0. m.counters[c] \in Nat
      BY <1>0, <1>5, <1>9
    <3>1. /\ CountsOf(Tail(batches), c) \in Nat
          /\ CountsOf(batches', c) = CountsOf(Tail(batches), c) + m.counters[c]
      BY <1>5, <1>9, <3>0, CountsOfAppend
    <3>2. CountsOf(batches, c) = Head(batches).counters[c] + CountsOf(Tail(batches), c)
      BY <1>4, <1>9, CountsOfTail
    <3>3. /\ UpToWidth(shown[c] + CountsOf(batches, c), counted[c])
          /\ counted'[c] = counted[c] + b.counters[c]
          /\ m.counters[c] = SaturatingAdd(b.counters[c], Head(batches).counters[c])
          /\ Head(batches).counters[c] \in 0..CounterMax
      BY <1>1, <1>4, <1>5, <1>9
    <3> QED
      BY <1>6, <3>1, <3>2, <3>3, CountInherited
  <2> QED
    BY <1>1, <1>4, <1>7, <2>1, <2>2 DEF CountsTold, CountersOf, CountsOf
<1> QED
  BY <1>3, <1>8, <1>9

\* There is only one newest row, and Newest finds it.
LEMMA NewestIsPeak ==
  ASSUME NEW S, NEW r, Peak(S, r)
  PROVE  Newest(S) = r
<1>1. CASE S = {}
  BY <1>1 DEF Newest, Peak
<1>2. CASE S # {}
  <2>0. PICK some \in S : TRUE
    BY <1>2
  <2>1. r \in S /\ \A z \in S : z <= r
    <3>1. S \subseteq Nat /\ (r \in S \/ r = 0) /\ \A z \in S : z <= r
      BY DEF Peak, NoRow
    <3>2. r = 0 => some = r
      BY <2>0, <3>1
    <3> QED
      BY <2>0, <3>1, <3>2
  <2> DEFINE x == CHOOSE z \in S : \A y \in S : y <= z
  <2>2. x \in S /\ \A y \in S : y <= x
    BY <2>1
  <2> HIDE DEF x
  <2>3. x \in Nat /\ r \in Nat /\ x <= r /\ r <= x
    BY <2>1, <2>2 DEF Peak
  <2>4. x = r
    BY <2>3
  <2> QED
    BY <1>2, <2>4 DEF Newest, x
<1> QED
  BY <1>1, <1>2

\* A delivery keeps the newest row, whether its batch has it or inherits it.
LEMMA DeliveryKeepsRow ==
  ASSUME UInv, DeliverBatch
  PROVE  RowsTold'
<1> DEFINE b == BatchOf(pending)
           m == PreserveCounters(b, Head(batches))
<1>1. UNCHANGED shownRow /\ countedRow' = NewerRow(countedRow, b.row)
  BY DEF DeliverBatch, shownVars
<1>2. b.row \in Nat
  BY BatchCounts DEF UInv, TInv
<1>3. \/ batches' = Append(batches, b)
      \/ batches # <<>> /\ batches' = Append(Tail(batches), m)
  BY PushedBatches DEF UInv, TInv
<1>4. m.row = NewerRow(b.row, Head(batches).row)
  BY DEF PreserveCounters, BatchOf
<1> HIDE DEF b, m
<1>5. IsSeq(batches) /\ shownRow \in Nat
  BY DEF UInv, TInv, SInv, Accounted, RowsTold
<1>6. PICK r : Peak(RowsOf(batches), r) /\ countedRow = NewerRow(shownRow, r)
  BY DEF UInv, RowsTold
<1>7. /\ r \in Nat /\ RowsOf(batches) \subseteq Nat
      /\ r \in RowsOf(batches) \/ r = 0
      /\ \A y \in RowsOf(batches) : y <= r
  BY <1>6 DEF Peak, NoRow
<1> DEFINE later == NewerRow(r, b.row)
<1>71. PICK p : p = later
  OBVIOUS
<1>8. /\ p \in Nat /\ countedRow' = NewerRow(shownRow, p)
      /\ r <= p /\ b.row <= p /\ p \in {r, b.row}
  BY <1>1, <1>2, <1>5, <1>6, <1>7, <1>71 DEF NewerRow
<1> HIDE DEF later
<1>9. Peak(RowsOf(batches'), p)
  <2>1. CASE batches' = Append(batches, b)
    <3>1. RowsOf(batches') = RowsOf(batches) \cup {b.row}
      BY <1>5, <2>1, AppendElements DEF RowsOf
    <3>3. \A y \in RowsOf(batches') : y \in Nat /\ y <= p
      BY <1>2, <1>7, <1>8, <3>1
    <3> QED
      BY <1>7, <1>8, <3>1, <3>3 DEF Peak, NoRow
  <2>2. CASE batches # <<>> /\ batches' = Append(Tail(batches), m)
    <3> DEFINE h == Head(batches).row
    <3>1. /\ IsSeq(Tail(batches)) /\ 1 \in DOMAIN batches /\ Head(batches) = batches[1]
          /\ \A i \in DOMAIN Tail(batches) : i + 1 \in DOMAIN batches
                                              /\ Tail(batches)[i] = batches[i + 1]
          /\ \A i \in DOMAIN batches :
                 i = 1 \/ (i - 1 \in DOMAIN Tail(batches) /\ Tail(batches)[i - 1] = batches[i])
      BY <1>5, <2>2, TailElements
    <3>2. RowsOf(batches) = RowsOf(Tail(batches)) \cup {h}
      BY <3>1 DEF RowsOf
    <3>3. RowsOf(batches') = RowsOf(Tail(batches)) \cup {m.row}
      BY <2>2, <3>1, AppendElements DEF RowsOf
    <3> HIDE DEF h
    <3>4. m.row = NewerRow(b.row, h)
      BY <1>4 DEF h
    <3>5. h \in Nat /\ h <= r /\ RowsOf(Tail(batches)) \subseteq Nat
          /\ \A y \in RowsOf(Tail(batches)) : y <= r
      BY <1>7, <3>2
    <3>6. m.row \in Nat /\ m.row <= p /\ m.row \in {b.row, h} /\ b.row <= m.row /\ h <= m.row
      BY <1>2, <1>7, <1>8, <3>4, <3>5 DEF NewerRow
    <3>7. \A y \in RowsOf(batches') : y \in Nat /\ y <= p
      BY <1>7, <1>8, <3>3, <3>5, <3>6
    <3>8. p \in RowsOf(batches') \/ p = 0
      <4>1. CASE p = b.row
        <5>1. m.row = p
          BY <1>8, <3>6, <4>1
        <5> QED
          BY <3>3, <5>1
      <4>2. CASE p = r /\ r = h
        <5>1. m.row = p
          BY <1>8, <3>5, <3>6, <4>2
        <5> QED
          BY <3>3, <5>1
      <4>3. CASE p = r /\ r # h
        BY <1>7, <3>2, <3>3, <4>3
      <4> QED
        BY <1>8, <4>1, <4>2, <4>3
    <3> QED
      BY <3>7, <3>8 DEF Peak, NoRow
  <2> QED
    BY <1>3, <2>1, <2>2
<1>10. RowsOf(batches') = RowsOf(batches)' /\ shownRow' \in Nat
  BY <1>1, <1>5 DEF RowsOf
<1>11. Peak(RowsOf(batches), p)'
  BY <1>9, <1>10 DEF Peak
<1>12. (countedRow = NewerRow(shownRow, p))'
  BY <1>1, <1>8 DEF NewerRow
<1> QED
  BY <1>10, <1>11, <1>12 DEF RowsTold

\* A drain shows what waited.
LEMMA DrainShows ==
  ASSUME UInv, NEW g, Drain(g), UNCHANGED <<counted, countedRow>>
  PROVE  CountsTold' /\ RowsTold'
<1>0. /\ CountersOf(batches) /\ shown \in [Counters -> Nat] /\ counted \in [Counters -> Nat]
      /\ \A c \in Counters : UpToWidth(shown[c] + CountsOf(batches, c), counted[c])
      /\ \A c \in Counters : CountsOf(batches, c) \in Nat
      /\ shownRow \in Nat
  <2>1. IsSeq(batches) /\ CountersOf(batches)
    BY DEF UInv, TInv, SInv, Accounted, CountsTold
  <2>2. ASSUME NEW c \in Counters PROVE CountsOf(batches, c) \in Nat
    <3>1. CASE batches = <<>>
      BY <3>1, CountsOfNone
    <3>2. CASE batches # <<>>
      <4>1. /\ CountsOf(Tail(batches), c) \in Nat
            /\ CountsOf(batches, c) = Head(batches).counters[c] + CountsOf(Tail(batches), c)
        BY <2>1, <3>2, CountsOfTail
      <4>2. 1 \in DOMAIN batches /\ Head(batches) = batches[1]
        BY <2>1, <3>2, TailElements
      <4>3. Head(batches).counters[c] \in Nat
        BY <2>1, <4>2, CounterAssumption DEF CountersOf
      <4> QED
        BY <4>1, <4>3
    <3> QED
      BY <3>1, <3>2
  <2> QED
    BY <2>1, <2>2 DEF UInv, CountsTold, RowsTold
<1>1. CASE g = liveGeneration /\ g = activeGeneration
  <2>1. /\ batches' = <<>> /\ Taken(g) = batches
        /\ shown' = [c \in Counters |-> shown[c] + CountsOf(batches, c)]
        /\ shownRow' = NewerRow(shownRow, NewestRow(batches))
    BY <1>1 DEF Drain, Take, Taken
  <2>2. \A c \in Counters : shown'[c] = shown[c] + CountsOf(batches, c) /\ CountsOf(batches', c) = 0
                           /\ shown'[c] \in Nat /\ counted[c] \in Nat
    BY <1>0, <2>1, CountsOfNone
  <2>3. \A c \in Counters : UpToWidth(shown'[c] + CountsOf(batches', c), counted[c])
    BY <1>0, <2>2 DEF UpToWidth
  <2>4. shown' \in [Counters -> Nat]
    BY <2>1, <2>2
  <2>5. DOMAIN batches' = {}
    BY <2>1
  <2>6. CountsTold'
    BY <1>0, <2>3, <2>4, <2>5 DEF CountsTold, CountersOf, CountsOf
  <2>7. PICK r : Peak(RowsOf(batches), r) /\ countedRow = NewerRow(shownRow, r)
    BY DEF UInv, RowsTold
  <2>8. NewestRow(batches) = r /\ r \in Nat
    <3>1. NewestRow(batches) = Newest(RowsOf(batches))
      BY DEF NewestRow, RowsOf
    <3>2. Newest(RowsOf(batches)) = r
      BY <2>7, NewestIsPeak
    <3>3. r \in Nat
      BY <2>7 DEF Peak, NoRow
    <3> QED
      BY <3>1, <3>2, <3>3
  <2>9. shownRow' = countedRow /\ countedRow \in Nat
    BY <1>0, <2>1, <2>7, <2>8 DEF NewerRow
  <2>10. Peak(RowsOf(batches), 0)'
    BY <2>5 DEF Peak, RowsOf, NoRow
  <2>11. countedRow' = NewerRow(shownRow', 0) /\ shownRow' \in Nat
    BY <2>9 DEF NewerRow
  <2> QED
    BY <2>6, <2>10, <2>11 DEF RowsTold
<1>2. CASE ~(g = liveGeneration /\ g = activeGeneration)
  <2>1. UNCHANGED batches /\ (g # liveGeneration => UNCHANGED <<shown, shownRow>>)
    BY <1>2 DEF Drain, Take, mailbox, shownVars
  <2>2. g = liveGeneration => /\ Taken(g) = <<>>
                              /\ shown' = [c \in Counters |-> shown[c] + CountsOf(<<>>, c)]
                              /\ shownRow' = NewerRow(shownRow, NewestRow(<<>>))
    BY <1>2 DEF Drain, Taken
  <2>3. NewestRow(<<>>) = 0
    BY DEF NewestRow, Newest, NoRow
  <2>4. shown' = shown /\ shownRow' = shownRow
    BY <1>0, <2>1, <2>2, <2>3, CountsOfNone DEF NewerRow
  <2> QED
    BY <2>1, <2>4 DEF UInv, CountsTold, RowsTold, CountersOf, CountsOf, RowsOf, Peak
<1> QED
  BY <1>1, <1>2

LEMMA ToldUnchanged ==
  ASSUME UInv, UNCHANGED <<batches, shown, shownRow, counted, countedRow>>
  PROVE  CountsTold' /\ RowsTold'
  BY DEF UInv, CountsTold, RowsTold, CountersOf, CountsOf, RowsOf, Peak

\* With nothing waiting, nothing shown and nothing counted, all adds up.
LEMMA NothingToTell ==
  ASSUME batches = <<>>, shown = NoCounts, shownRow = 0, counted = NoCounts, countedRow = 0
  PROVE  CountsTold /\ RowsTold
<1>1. DOMAIN batches = {} /\ \A c \in Counters : CountsOf(batches, c) = 0
  BY CountsOfNone
<1>2. CountsTold
  BY <1>1 DEF CountsTold, CountersOf, NoCounts, UpToWidth
<1>3. Peak(RowsOf(batches), 0) /\ countedRow = NewerRow(shownRow, 0)
  BY <1>1 DEF Peak, RowsOf, NoRow, NewerRow
<1> QED
  BY <1>2, <1>3 DEF RowsTold

LEMMA InitUInv == Init => UInv
<1> SUFFICES ASSUME Init PROVE UInv
  OBVIOUS
<1>1. CountsTold /\ RowsTold
  BY NothingToTell DEF Init, MailboxInit
<1> QED
  BY <1>1, InitTInv, InitWithinWidth DEF UInv

LEMMA NextUInv == UInv /\ [Next]_vars => UInv'
<1> SUFFICES ASSUME UInv, [Next]_vars PROVE UInv'
  OBVIOUS
<1>0. TInv' /\ WithinWidth'
  BY NextTInv, NextWithinWidth DEF UInv, TInv
<1> SUFFICES CountsTold' /\ RowsTold'
  BY <1>0 DEF UInv
<1>1. CASE ReaderStep
  BY <1>1, ToldUnchanged
     DEF ReaderStep, ReadChunk, HandOver, ReaderStops, ReaderFails, mailbox, shownVars, history
<1>2. CASE DeliverBatch
  BY <1>2, DeliveryKeepsCounts, DeliveryKeepsRow
<1>3. CASE PostDrain \/ WorkerFails \/ WorkerStops
  BY <1>3, ToldUnchanged
     DEF PostDrain, WorkerFails, WorkerStops, mailbox, shownVars, history
<1>10. ASSUME NEW outcome \in {"sample", "malformed", "partial"}, DecodeChunk(outcome)
       PROVE  CountsTold' /\ RowsTold'
  BY <1>10, ToldUnchanged DEF DecodeChunk, mailbox, shownVars, history
<1>4. CASE RunDrain
  BY <1>4, DrainShows DEF RunDrain, history
<1>5. CASE JoinWorker
  BY <1>5, DrainShows DEF JoinWorker, history
<1>6. CASE RunError \/ JoinReader \/ OpenFails
  BY <1>6, ToldUnchanged DEF RunError, JoinReader, OpenFails, mailbox, shownVars, history
<1>7. CASE StartSucceeds \/ StartFails
  <2>1. batches = <<>>
    BY <1>7 DEF StartSucceeds, StartFails, UInv, TInv, SInv, DInv, DrainType, GenerationsOrdered,
                BatchesAreLive, NoGeneration
  <2>2. /\ batches' = <<>> /\ shown' = NoCounts /\ shownRow' = 0 /\ counted' = NoCounts
        /\ countedRow' = 0
    BY <1>7, <2>1 DEF StartSucceeds, StartFails, NewSession, mailbox
  <2>3. DOMAIN batches' = {} /\ \A c \in Counters : CountsOf(batches', c) = 0
    BY <2>2, CountsOfNone
  <2>4. CountsTold'
    BY <2>2, <2>3 DEF CountsTold, CountersOf, CountsOf, NoCounts, UpToWidth
  <2>5. Peak(RowsOf(batches), 0)' /\ countedRow' = NewerRow(shownRow', 0)
    BY <2>2, <2>3 DEF Peak, RowsOf, NoRow, NewerRow
  <2> QED
    BY <2>2, <2>4, <2>5 DEF RowsTold
<1>8. ASSUME NEW start \in BOOLEAN, UserRequest(start) PROVE CountsTold' /\ RowsTold'
  BY <1>8, ToldUnchanged DEF UserRequest, mailbox, shownVars, history
<1>9. CASE Idle \/ UNCHANGED vars
  BY <1>9, ToldUnchanged DEF Idle, vars, mailbox, shownVars, history
<1> QED
  BY <1>1, <1>2, <1>3, <1>4, <1>5, <1>6, <1>7, <1>8, <1>9, <1>10
     DEF Next, WorkerStep, EventStep, StopStep, StartStep

\* Whatever the mailbox overwrites, the operator is told of it: of the number of
\* samples lost, of every byte and error the worker counted up to the width of the
\* counters, and of the newest row diagnostic (LineTelemetryBatchMailbox::push and
\* take, updateLinkDiagnostics).
THEOREM OperatorIsTold == Spec => []NothingUntold
<1>1. Init => UInv
  BY InitUInv
<1>2. UInv /\ [Next]_vars => UInv'
  BY NextUInv
<1>3. UInv => DiagnosticsSurvive
  <2>1. ASSUME UInv PROVE NewerRow(shownRow, NewestRow(batches)) = countedRow
    <3>1. PICK r : Peak(RowsOf(batches), r) /\ countedRow = NewerRow(shownRow, r)
      BY <2>1 DEF UInv, RowsTold
    <3> QED
      BY <3>1, NewestIsPeak DEF NewestRow, RowsOf
  <2> QED
    BY <2>1 DEF UInv, CountsTold, UpToWidth, DiagnosticsSurvive
<1>4. Spec => []DiagnosticsSurvive
  BY <1>1, <1>2, <1>3, PTL DEF Spec
<1> QED
  BY <1>4, OverflowTold, PTL DEF NothingUntold

-----------------------------------------------------------------------------
(***************************************************************************)
(* stopSerial accounts for all.  While the worker has not failed, a chunk  *)
(* of the connection is held, queued, decoded or dropped, and only one of  *)
(* these; a sample that is decoded is pending or accepted; and the dropped *)
(* chunks are those reported and those counted since.                      *)
(***************************************************************************)

ChunksPlaced ==
    /\ decoded \cup dropped \cup Ids(inbox) \cup Ids(held) = 1..chunks
    /\ decoded \cap dropped = {}
    /\ (decoded \cup dropped) \cap (Ids(inbox) \cup Ids(held)) = {}

SamplesPlaced == sampled = accepted \cup IdsOfKind(pending, {"sample"})

DropsCounted == counted["droppedChunks"] + unreported.droppedChunks = Cardinality(dropped)

Fates == ~failed => ChunksPlaced /\ SamplesPlaced /\ DropsCounted

FInv == UInv /\ Fates

LEMMA NoIds == Ids(<<>>) = {} /\ \A kinds : IdsOfKind(<<>>, kinds) = {}
  BY DEF Ids, IdsOfKind

\* The reader holds the last chunk it has read, or none.
LEMMA HeldIds ==
  ASSUME SInv, OInv
  PROVE  Ids(held) = IF reader = "holding" THEN {chunks} ELSE {}
<1>1. CASE reader = "holding"
  <2>1. PICK size \in ChunkSizes : held = <<[id |-> chunks, size |-> size]>>
    BY <1>1 DEF OInv, ChunksInOrder
  <2>2. DOMAIN held = {1} /\ held[1].id = chunks
    BY <2>1
  <2> QED
    BY <1>1, <2>2 DEF Ids
<1>2. CASE reader # "holding"
  BY <1>2, NoIds DEF SInv, StagesEmptyInOrder
<1> QED
  BY <1>1, <1>2

\* The evicted chunks are as many as their numbers, and the others stay.
LEMMA EvictedIds ==
  ASSUME ChunksInOrder, NEW n \in 0..Len(inbox)
  PROVE  /\ IsFiniteSet(Ids(SubSeq(inbox, 1, n)))
         /\ Cardinality(Ids(SubSeq(inbox, 1, n))) = n
         /\ \A x : x \in Ids(SubSeq(inbox, 1, n)) <=> \E i \in 1..n : x = inbox[i].id
<1> DEFINE s == SubSeq(inbox, 1, n)
           f == [i \in 1..n |-> inbox[i].id]
<1>1. DOMAIN s = 1..n /\ \A i \in 1..n : i \in DOMAIN inbox /\ s[i] = inbox[i]
  BY PartsOfQueue
<1>2. n \in Nat
  BY QueueElements
<1> HIDE DEF s
<1>3. Ids(s) = {inbox[i].id : i \in 1..n}
  BY <1>1 DEF Ids
<1>4. \A i, j \in 1..n : inbox[i].id = inbox[j].id => i = j
  <2> SUFFICES ASSUME NEW i \in 1..n, NEW j \in 1..n, i < j PROVE inbox[i].id # inbox[j].id
    BY <1>2
  <2>1. inbox[i].id < inbox[j].id /\ inbox[i].id \in Int
    BY <1>1, QueueElements DEF ChunksInOrder
  <2>2. inbox[j].id \in Int
    BY <1>1, QueueElements
  <2> QED
    BY <2>1, <2>2
<1>5. f \in Bijection(1..n, Ids(s))
  BY <1>3, <1>4 DEF Bijection, Injection, Surjection, IsInjective
<1>6. IsFiniteSet(1..n) /\ Cardinality(1..n) = n
  BY <1>2, FS_Interval
<1> HIDE DEF f
<1>7. IsFiniteSet(Ids(s)) /\ Cardinality(Ids(s)) = Cardinality(1..n)
  BY <1>5, <1>6, FS_Bijection DEF ExistsBijection
<1> QED
  BY <1>3, <1>6, <1>7 DEF s

\* Chunks that are dropped are counted one by one.
LEMMA DropsAdded ==
  ASSUME IsFiniteSet(dropped), DropsCounted, counted["droppedChunks"] \in Nat,
         unreported.droppedChunks \in Nat,
         NEW lost, IsFiniteSet(Ids(lost)), Cardinality(Ids(lost)) = Len(lost),
         Ids(lost) \cap dropped = {}, CountDropped(lost), UNCHANGED counted
  PROVE  DropsCounted'
<1>1. Cardinality(dropped \cap Ids(lost)) = 0
  BY FS_EmptySet
<1>2. Cardinality(dropped) \in Nat /\ Len(lost) \in Nat
  BY FS_CardinalityType
<1>3. Cardinality(dropped \cup Ids(lost))
         = Cardinality(dropped) + Cardinality(Ids(lost)) - Cardinality(dropped \cap Ids(lost))
  BY FS_Union
<1>4. /\ unreported'.droppedChunks = unreported.droppedChunks + Len(lost)
      /\ dropped' = dropped \cup Ids(lost)
  BY DEF CountDropped
<1>5. Cardinality(dropped') = Cardinality(dropped) + Len(lost)
  BY <1>1, <1>2, <1>3, <1>4
<1> QED
  BY <1>2, <1>4, <1>5 DEF DropsCounted

\* The numbers that occur are those of chunks that have been read.
LEMMA FatesAreFinite ==
  ASSUME FInv, ~failed
  PROVE  /\ decoded \subseteq 1..chunks /\ dropped \subseteq 1..chunks
         /\ IsFiniteSet(dropped) /\ chunks \in Nat
         /\ counted["droppedChunks"] \in Nat /\ unreported.droppedChunks \in Nat
<1>1. decoded \subseteq 1..chunks /\ dropped \subseteq 1..chunks
  BY DEF FInv, Fates, ChunksPlaced
<1>2. chunks \in Nat /\ IsFiniteSet(1..chunks)
  BY BoundAssumption, FS_Interval DEF FInv, UInv, TInv, OInv, ChunksInOrder
<1>3. counted["droppedChunks"] \in Nat
  BY CountersAssumption DEF FInv, UInv, CountsTold
<1>4. unreported.droppedChunks \in Nat
  BY CounterAssumption DEF FInv, UInv, WithinWidth
<1> QED
  BY <1>1, <1>2, <1>3, <1>4, FS_Subset

\* Read, a chunk is held.
LEMMA ReadPlaced ==
  ASSUME FInv, NEW size \in ChunkSizes, ReadChunk(size)
  PROVE  Fates'
<1> SUFFICES ASSUME ~failed PROVE ChunksPlaced' /\ SamplesPlaced' /\ DropsCounted'
  BY DEF Fates, ReadChunk, fate
<1>1. /\ reader = "reading" /\ chunks' = chunks + 1
      /\ held' = <<[id |-> chunks + 1, size |-> size]>>
      /\ UNCHANGED <<inbox, pending, unreported, decoded, sampled, dropped, accepted, counted>>
  BY DEF ReadChunk, history, queueVars, fate
<1>2. Ids(held) = {}
  BY <1>1, HeldIds DEF FInv, UInv, TInv
<1>3. Ids(held') = {chunks + 1}
  <2>1. DOMAIN held' = {1} /\ held'[1].id = chunks + 1
    BY <1>1
  <2> QED
    BY <2>1 DEF Ids
<1>4. ChunksPlaced /\ SamplesPlaced /\ DropsCounted /\ chunks \in Nat
  BY FatesAreFinite DEF FInv, Fates
<1>5. 1..(chunks + 1) = 1..chunks \cup {chunks + 1} /\ chunks + 1 \notin 1..chunks
  BY <1>4
<1>6. ChunksPlaced'
  <2>1. Ids(held)' = {chunks + 1} /\ Ids(inbox)' = Ids(inbox)
    BY <1>1, <1>3 DEF Ids
  <2> QED
    BY <1>1, <1>2, <1>4, <1>5, <2>1 DEF ChunksPlaced
<1> QED
  BY <1>1, <1>4, <1>6 DEF SamplesPlaced, DropsCounted, IdsOfKind

\* Handed over, it is queued or dropped, and may drop the oldest of the queue.
LEMMA HandOverPlaced ==
  ASSUME FInv, HandOver
  PROVE  Fates'
<1> SUFFICES ASSUME ~failed PROVE ChunksPlaced' /\ SamplesPlaced' /\ DropsCounted'
  BY DEF Fates, HandOver
<1>0. SInv /\ OInv /\ ChunksInOrder /\ ChunksPlaced /\ SamplesPlaced /\ DropsCounted
  BY DEF FInv, UInv, TInv, OInv, Fates
<1>1. /\ reader = "holding" /\ reader' = "reading" /\ held' = <<>>
      /\ UNCHANGED <<chunks, pending, decoded, sampled, accepted, batches, counted>>
  BY DEF HandOver, history, mailbox
<1>2. Ids(held) = {chunks} /\ Ids(held)' = {}
  BY <1>0, <1>1, HeldIds, NoIds DEF Ids
<1>3. Accepting
  BY <1>0, <1>1 DEF Accepting, SInv, StagesEmptyInOrder, DInv, DrainType
<1>4. SamplesPlaced'
  BY <1>0, <1>1 DEF SamplesPlaced, IdsOfKind
<1>5. CASE RefuseOversized
  <2>1. dropped' = dropped \cup {chunks} /\ UNCHANGED inbox /\ CountDropped(held)
    BY <1>2, <1>5 DEF RefuseOversized, CountDropped
  <2>2. Ids(inbox)' = Ids(inbox) /\ chunks \notin Ids(inbox)
    <3>1. \A i \in DOMAIN inbox : inbox[i].id < chunks /\ inbox[i].id \in Nat
      BY <1>0, <1>1, QueueElements DEF ChunksInOrder
    <3> QED
      BY <2>1, <3>1 DEF Ids
  <2>3. ChunksPlaced'
    BY <1>0, <1>1, <1>2, <2>1, <2>2 DEF ChunksPlaced
  <2>4. Cardinality(Ids(held)) = Len(held) /\ IsFiniteSet(Ids(held))
    <3>1. Len(held) = 1
      BY <1>0, <1>1 DEF ChunksInOrder
    <3> QED
      BY <1>2, <3>1, FS_Singleton
  <2>5. Ids(held) \cap dropped = {}
    BY <1>0 DEF ChunksPlaced
  <2>6. DropsCounted'
    BY <1>0, <1>1, <2>1, <2>4, <2>5, FatesAreFinite, DropsAdded
  <2> QED
    BY <1>4, <2>3, <2>6
<1>6. CASE Enqueue
  <2>1. PICK n \in 0..Len(inbox) : /\ inbox' = SubSeq(inbox, n + 1, Len(inbox)) \o held
                                   /\ CountDropped(SubSeq(inbox, 1, n))
    BY <1>6 DEF Enqueue
  <2> DEFINE gone == SubSeq(inbox, 1, n)
  <2>2. /\ IsFiniteSet(Ids(gone)) /\ Cardinality(Ids(gone)) = n /\ Len(gone) = n
        /\ \A x : x \in Ids(gone) <=> \E i \in 1..n : x = inbox[i].id
    BY <1>0, EvictedIds, PartsOfQueue
  <2>3. CountDropped(gone) /\ dropped' = dropped \cup Ids(gone)
    BY <2>1 DEF CountDropped
  <2> HIDE DEF gone
  <2>4. /\ \A i \in DOMAIN inbox' :
              \/ i \in 1..(Len(inbox) - n) /\ n + i \in DOMAIN inbox /\ inbox'[i] = inbox[n + i]
              \/ i = Len(inbox) - n + 1 /\ inbox'[i].id = chunks
        /\ \A i \in 1..(Len(inbox) - n + 1) : i \in DOMAIN inbox'
    BY <1>0, <1>1, <2>1, QueuedInOrder
  <2>5. /\ Len(inbox) \in Nat /\ n \in Nat /\ n <= Len(inbox) /\ DOMAIN inbox = 1..Len(inbox)
        /\ \A i \in DOMAIN inbox : inbox[i].id \in Nat /\ inbox[i].id < chunks
    BY <1>0, <1>1, QueueElements DEF ChunksInOrder
  <2>6. \A x : x \in Ids(inbox') <=> x = chunks \/ \E j \in (n + 1)..Len(inbox) : x = inbox[j].id
    <3>1. ASSUME NEW x \in Ids(inbox')
          PROVE  x = chunks \/ \E j \in (n + 1)..Len(inbox) : x = inbox[j].id
      <4>1. PICK i \in DOMAIN inbox' : x = inbox'[i].id
        BY <3>1 DEF Ids
      <4>2. CASE i \in 1..(Len(inbox) - n) /\ inbox'[i] = inbox[n + i]
        <5>1. n + i \in (n + 1)..Len(inbox)
          BY <2>5, <4>2
        <5> QED
          BY <4>1, <4>2, <5>1
      <4> QED
        BY <2>4, <4>1, <4>2
    <3>2. ASSUME NEW j \in (n + 1)..Len(inbox) PROVE inbox[j].id \in Ids(inbox')
      <4> DEFINE i == j - n
      <4>1. /\ i \in 1..(Len(inbox) - n) /\ i \in 1..(Len(inbox) - n + 1) /\ n + i = j
            /\ i # Len(inbox) - n + 1
        BY <2>5
      <4> HIDE DEF i
      <4>2. i \in DOMAIN inbox' /\ inbox'[i] = inbox[j]
        BY <2>4, <4>1
      <4> QED
        BY <4>2 DEF Ids
    <3>3. chunks \in Ids(inbox')
      <4> DEFINE l == Len(inbox) - n + 1
      <4>1. l \in 1..(Len(inbox) - n + 1) /\ l \notin 1..(Len(inbox) - n)
        BY <2>5
      <4>2. l \in DOMAIN inbox' /\ inbox'[l].id = chunks
        BY <2>4, <4>1
      <4> QED
        BY <4>2 DEF Ids
    <3> QED
      BY <3>1, <3>2, <3>3
  <2>7. \A x : x \in Ids(inbox) <=>
              x \in Ids(gone) \/ \E j \in (n + 1)..Len(inbox) : x = inbox[j].id
    <3>1. \A i \in DOMAIN inbox : i \in 1..n \/ i \in (n + 1)..Len(inbox)
      BY <2>5
    <3>2. 1..n \subseteq DOMAIN inbox /\ (n + 1)..Len(inbox) \subseteq DOMAIN inbox
      BY <2>5
    <3> QED
      BY <2>2, <3>1, <3>2 DEF Ids
  <2>8. \A i \in 1..n, j \in (n + 1)..Len(inbox) : inbox[i].id # inbox[j].id
    <3> TAKE i \in 1..n, j \in (n + 1)..Len(inbox)
    <3>1. i \in DOMAIN inbox /\ j \in DOMAIN inbox /\ i < j
      BY <2>5
    <3>2. inbox[i].id < inbox[j].id
      BY <1>0, <3>1 DEF ChunksInOrder
    <3> QED
      BY <2>5, <3>1, <3>2
  <2>9. Ids(gone) \cap Ids(inbox') = {}
    <3>1. \A x \in Ids(gone) : x # chunks
      BY <2>2, <2>5
    <3> QED
      BY <2>2, <2>6, <2>8, <3>1
  <2>10. Ids(gone) \subseteq Ids(inbox) /\ Ids(inbox') \subseteq Ids(inbox) \cup {chunks}
         /\ Ids(inbox) \cup {chunks} \subseteq Ids(gone) \cup Ids(inbox')
    BY <2>6, <2>7
  <2>11. Ids(inbox)' = Ids(inbox')
    BY DEF Ids
  <2>12. ChunksPlaced'
    BY <1>0, <1>1, <1>2, <2>3, <2>9, <2>10, <2>11 DEF ChunksPlaced
  <2>13. Ids(gone) \cap dropped = {}
    BY <1>0, <2>10 DEF ChunksPlaced
  <2>14. DropsCounted'
    BY <1>0, <1>1, <2>2, <2>3, <2>13, FatesAreFinite, DropsAdded
  <2> QED
    BY <1>4, <2>12, <2>14
<1> QED
  BY <1>3, <1>5, <1>6 DEF HandOver

\* Decoded, it leaves the queue, and its sample is pending.
LEMMA DecodePlaced ==
  ASSUME FInv, NEW outcome \in {"sample", "malformed", "partial"}, DecodeChunk(outcome)
  PROVE  Fates'
<1> SUFFICES ASSUME ~failed PROVE ChunksPlaced' /\ SamplesPlaced' /\ DropsCounted'
  BY DEF Fates, DecodeChunk
<1>0. ChunksInOrder /\ ChunksPlaced /\ SamplesPlaced /\ DropsCounted
  BY DEF FInv, UInv, TInv, OInv, Fates
<1>1. /\ UNCHANGED <<chunks, held, accepted, counted, unreported, dropped>>
      /\ inbox # <<>> /\ inbox' = Tail(inbox)
      /\ decoded' = decoded \cup {Head(inbox).id}
      /\ sampled' = IF outcome = "sample" THEN sampled \cup {Head(inbox).id} ELSE sampled
      /\ pending' = IF outcome = "partial" THEN pending
                    ELSE Append(pending, [id |-> Head(inbox).id, kind |-> outcome])
  BY DEF DecodeChunk, readerVars, history
<1> DEFINE x == inbox[1].id
<1>2. /\ 1 \in DOMAIN inbox /\ Head(inbox) = inbox[1] /\ x \in 1..chunks
      /\ \A i \in DOMAIN inbox' : i \in Nat \ {0} /\ i + 1 \in DOMAIN inbox
                                  /\ inbox'[i] = inbox[i + 1]
      /\ \A i \in DOMAIN inbox : i = 1 \/ (i - 1 \in DOMAIN inbox' /\ inbox'[i - 1] = inbox[i])
  BY <1>0, <1>1, QueueAdvances
<1>3. Ids(inbox) = {x} \cup Ids(inbox') /\ x \notin Ids(inbox')
  <2>1. \A y : y \in Ids(inbox) <=> y = x \/ y \in Ids(inbox')
    BY <1>2 DEF Ids
  <2>2. \A i \in DOMAIN inbox' : x # inbox'[i].id
    <3> TAKE i \in DOMAIN inbox'
    <3>1. 1 < i + 1 /\ i + 1 \in DOMAIN inbox
      BY <1>2
    <3>2. x < inbox[i + 1].id
      BY <1>0, <1>2, <3>1 DEF ChunksInOrder
    <3>3. x \in Int /\ inbox[i + 1].id \in Int
      BY <1>0, <1>2, <3>1, QueueElements
    <3> QED
      BY <1>2, <3>2, <3>3
  <2> QED
    BY <2>1, <2>2 DEF Ids
<1> HIDE DEF x
<1>4. ChunksPlaced'
  <2>1. decoded' = decoded \cup {x}
    BY <1>1, <1>2 DEF x
  <2>2. Ids(inbox)' = Ids(inbox') /\ Ids(held)' = Ids(held)
    BY <1>1 DEF Ids
  <2>3. x \notin Ids(held)
    <3>1. CASE reader = "holding"
      <4>1. x < chunks /\ x \in Int /\ chunks \in Int
        BY <1>0, <1>2, <3>1, BoundAssumption DEF ChunksInOrder, x
      <4> QED
        BY <3>1, <4>1, HeldIds DEF FInv, UInv, TInv
    <3>2. CASE reader # "holding"
      BY <3>2, HeldIds DEF FInv, UInv, TInv
    <3> QED
      BY <3>1, <3>2
  <2> QED
    BY <1>0, <1>1, <1>3, <2>1, <2>2, <2>3 DEF ChunksPlaced
<1>5. SamplesPlaced'
  <2> DEFINE R == [id : 1..chunks, kind : {"sample", "malformed"}]
             row == [id |-> x, kind |-> outcome]
  <2>1. CASE outcome = "partial"
    BY <1>0, <1>1, <2>1 DEF SamplesPlaced, IdsOfKind
  <2>2. CASE outcome # "partial"
    <3>1. /\ row \in R /\ row.id = x /\ row.kind = outcome
          /\ pending' = Append(pending, row) /\ pending \in Seq(R)
      BY <1>0, <1>1, <1>2, <2>2 DEF ChunksInOrder, x
    <3> HIDE DEF row, R
    <3>2. /\ \A k \in DOMAIN pending' : (k \in DOMAIN pending /\ pending'[k] = pending[k])
                                         \/ pending'[k] = row
          /\ \A k \in DOMAIN pending : k \in DOMAIN pending' /\ pending'[k] = pending[k]
          /\ \E k \in DOMAIN pending' : pending'[k] = row
      BY <3>1, AppendedElement
    <3>3. \A y : y \in IdsOfKind(pending', {"sample"}) <=>
                    y \in IdsOfKind(pending, {"sample"}) \/ (outcome = "sample" /\ y = x)
      BY <3>1, <3>2 DEF IdsOfKind
    <3>4. IdsOfKind(pending, {"sample"})' = IdsOfKind(pending', {"sample"})
      BY DEF IdsOfKind
    <3>5. sampled' = IF outcome = "sample" THEN sampled \cup {x} ELSE sampled
      BY <1>1, <1>2 DEF x
    <3> QED
      BY <1>0, <1>1, <3>3, <3>4, <3>5 DEF SamplesPlaced
  <2> QED
    BY <2>1, <2>2
<1>6. DropsCounted'
  BY <1>0, <1>1 DEF DropsCounted
<1> QED
  BY <1>4, <1>5, <1>6

\* Delivered, what was pending is accepted and what was counted is reported.
LEMMA DeliveryPlaced ==
  ASSUME FInv, DeliverBatch
  PROVE  Fates'
<1> SUFFICES ASSUME ~failed PROVE ChunksPlaced' /\ SamplesPlaced' /\ DropsCounted'
  BY DEF Fates, DeliverBatch, fate
<1>0. ChunksPlaced /\ SamplesPlaced /\ DropsCounted
  BY DEF FInv, Fates
<1>1. /\ UNCHANGED <<chunks, held, inbox, decoded, sampled, dropped>>
      /\ pending' = <<>> /\ unreported' = NothingNew
      /\ accepted' = accepted \cup IdsOfKind(pending, {"sample"})
      /\ counted' = [c \in Counters |-> counted[c] + BatchOf(pending).counters[c]]
  BY DEF DeliverBatch, readerVars, fate, BatchOf
<1>2. ChunksPlaced'
  BY <1>0, <1>1 DEF ChunksPlaced, Ids
<1>3. SamplesPlaced'
  <2>1. IdsOfKind(pending, {"sample"})' = {}
    BY <1>1, NoIds DEF IdsOfKind
  <2> QED
    BY <1>0, <1>1, <2>1 DEF SamplesPlaced
<1>4. DropsCounted'
  <2>1. BatchOf(pending).counters["droppedChunks"] = unreported.droppedChunks
    BY CountersAssumption DEF BatchOf
  <2>2. counted'["droppedChunks"] = counted["droppedChunks"] + unreported.droppedChunks
    BY <1>1, <2>1, CountersAssumption
  <2>3. unreported'.droppedChunks = 0
    BY <1>1 DEF NothingNew
  <2> QED
    BY <1>0, <1>1, <2>2, <2>3, FatesAreFinite DEF DropsCounted
<1> QED
  BY <1>2, <1>3, <1>4

\* A step that neither reads, decodes, delivers nor drops.
LEMMA FatesUnchanged ==
  ASSUME Fates, UNCHANGED <<queueVars, chunks, held, decoded, sampled, dropped, accepted, counted>>,
         failed' = failed \/ failed'
  PROVE  Fates'
  BY DEF Fates, ChunksPlaced, SamplesPlaced, DropsCounted, Ids, IdsOfKind, queueVars

\* A new session has read nothing.
LEMMA NothingPlaced ==
  ASSUME held = <<>>, inbox = <<>>, pending = <<>>, unreported = NothingNew, chunks = 0,
         accepted = {}, counted = NoCounts, decoded = {}, sampled = {}, dropped = {}
  PROVE  Fates
<1>1. Ids(held) = {} /\ Ids(inbox) = {} /\ IdsOfKind(pending, {"sample"}) = {}
  BY NoIds
<1>2. 1..0 = {}
  OBVIOUS
<1>3. ChunksPlaced
  BY <1>1, <1>2 DEF ChunksPlaced
<1>4. SamplesPlaced
  BY <1>1 DEF SamplesPlaced
<1>5. counted["droppedChunks"] = 0 /\ unreported.droppedChunks = 0
  BY CountersAssumption DEF NoCounts, NothingNew
<1>6. DropsCounted
  BY <1>5, FS_EmptySet DEF DropsCounted
<1> QED
  BY <1>3, <1>4, <1>6 DEF Fates

LEMMA InitFInv == Init => FInv
<1> SUFFICES ASSUME Init PROVE FInv
  OBVIOUS
<1>1. Fates
  BY NothingPlaced DEF Init
<1> QED
  BY <1>1, InitUInv DEF FInv

LEMMA NextFInv == FInv /\ [Next]_vars => FInv'
<1> SUFFICES ASSUME FInv, [Next]_vars PROVE FInv'
  OBVIOUS
<1>0. UInv' /\ Fates
  BY NextUInv DEF FInv
<1> SUFFICES Fates'
  BY <1>0 DEF FInv
<1>1. ASSUME NEW size \in ChunkSizes, ReadChunk(size) PROVE Fates'
  BY <1>1, ReadPlaced
<1>2. CASE HandOver
  BY <1>2, HandOverPlaced
<1>3. CASE ReaderStops \/ ReaderFails
  BY <1>0, <1>3, FatesUnchanged DEF ReaderStops, ReaderFails, history, fate
<1>4. ASSUME NEW outcome \in {"sample", "malformed", "partial"}, DecodeChunk(outcome)
      PROVE  Fates'
  BY <1>4, DecodePlaced
<1>5. CASE DeliverBatch
  BY <1>5, DeliveryPlaced
<1>6. CASE PostDrain \/ WorkerStops
  BY <1>0, <1>6, FatesUnchanged DEF PostDrain, WorkerStops, history, readerVars, fate
<1>7. CASE WorkerFails
  BY <1>7 DEF WorkerFails, Fates
<1>8. CASE RunDrain \/ JoinWorker
  BY <1>0, <1>8, FatesUnchanged DEF RunDrain, JoinWorker, history, readerVars, fate
<1>9. CASE RunError \/ JoinReader \/ OpenFails
  BY <1>0, <1>9, FatesUnchanged DEF RunError, JoinReader, OpenFails, history, readerVars, fate
<1>10. CASE StartSucceeds \/ StartFails
  <2>1. gui = "opening" /\ NewSession /\ ResetWorker /\ UNCHANGED held
    BY <1>10 DEF StartSucceeds, StartFails
  <2>2. held = <<>>
    BY <2>1 DEF FInv, UInv, TInv, SInv, StagesEmptyInOrder, DInv, GenerationsOrdered
  <2>3. /\ held' = <<>> /\ inbox' = <<>> /\ pending' = <<>> /\ unreported' = NothingNew
        /\ chunks' = 0 /\ accepted' = {} /\ counted' = NoCounts
        /\ decoded' = {} /\ sampled' = {} /\ dropped' = {}
    BY <2>1, <2>2 DEF NewSession, ResetWorker
  <2>4. Ids(held)' = {} /\ Ids(inbox)' = {} /\ IdsOfKind(pending, {"sample"})' = {}
    BY <2>3, NoIds DEF Ids, IdsOfKind
  <2>5. 1..0 = {}
    OBVIOUS
  <2>6. ChunksPlaced' /\ SamplesPlaced'
    BY <2>3, <2>4, <2>5 DEF ChunksPlaced, SamplesPlaced
  <2>7. counted'["droppedChunks"] = 0 /\ unreported'.droppedChunks = 0
    BY <2>3, CountersAssumption DEF NoCounts, NothingNew
  <2>8. DropsCounted'
    BY <2>3, <2>7, FS_EmptySet DEF DropsCounted
  <2> QED
    BY <2>6, <2>8 DEF Fates
<1>11. ASSUME NEW start \in BOOLEAN, UserRequest(start) PROVE Fates'
  BY <1>0, <1>11, FatesUnchanged DEF UserRequest, history, readerVars, fate
<1>12. CASE Idle \/ UNCHANGED vars
  BY <1>0, <1>12, FatesUnchanged DEF Idle, vars, history, readerVars, fate
<1> QED
  BY <1>1, <1>2, <1>3, <1>4, <1>5, <1>6, <1>7, <1>8, <1>9, <1>10, <1>11, <1>12
     DEF Next, ReaderStep, WorkerStep, EventStep, StopStep, StartStep

\* When MainWindow::stopSerial has returned, every chunk the reader got hold of was
\* decoded or dropped by the worker's full queue, unless the worker failed; every
\* sample decoded is in the recording or was counted as overwritten; and the
\* operator has been shown how many chunks were dropped, up to the counters' width
\* (LineTelemetryDecodeWorker::enqueueChunk, run and deliver, MainWindow::stopSerial).
THEOREM StopAccounts == Spec => []StopAccountsForAll
<1>1. Init => FInv
  BY InitFInv
<1>2. FInv /\ [Next]_vars => FInv'
  BY NextFInv
<1>3. FInv => StopAccountsForAll
  <2> SUFFICES ASSUME FInv, AtRest PROVE
          /\ accepted = recorded \cup overwritten
          /\ held = <<>> /\ batches = <<>>
          /\ ~failed =>
                /\ decoded \cup dropped = 1..chunks
                /\ decoded \cap dropped = {}
                /\ sampled = accepted
                /\ UpToWidth(shown["droppedChunks"], Cardinality(dropped))
    BY DEF StopAccountsForAll, UpToWidth
  <2>1. worker = "none" /\ SInv /\ OInv
    BY DEF AtRest, FInv, UInv, TInv
  <2>2. batches = <<>>
    BY <2>1 DEF SInv, DInv, DrainType, GenerationsOrdered, BatchesAreLive, NoGeneration
  <2>3. accepted = recorded \cup overwritten
    BY <2>1, <2>2, NoSamples DEF SInv, Accounted
  <2>4. held = <<>> /\ (~failed => NothingLeft)
    BY <2>1 DEF SInv, StagesEmptyInOrder
  <2>5. ASSUME ~failed
        PROVE  /\ decoded \cup dropped = 1..chunks /\ decoded \cap dropped = {}
               /\ sampled = accepted
               /\ UpToWidth(shown["droppedChunks"], Cardinality(dropped))
    <3>1. ChunksPlaced /\ SamplesPlaced /\ DropsCounted
      BY <2>5 DEF FInv, Fates
    <3>2. Ids(held) = {} /\ Ids(inbox) = {} /\ IdsOfKind(pending, {"sample"}) = {}
      BY <2>4, <2>5, NoIds DEF NothingLeft
    <3>3. unreported.droppedChunks = 0
      BY <2>4, <2>5 DEF NothingLeft, NothingNew
    <3>4. counted["droppedChunks"] = Cardinality(dropped)
      BY <2>5, <3>1, <3>3, FatesAreFinite DEF DropsCounted
    <3>5. UpToWidth(shown["droppedChunks"] + 0, counted["droppedChunks"])
          /\ shown["droppedChunks"] \in Nat
      BY <2>2, CountsOfNone, CountersAssumption DEF FInv, UInv, CountsTold
    <3>6. UpToWidth(shown["droppedChunks"], counted["droppedChunks"])
      <4>1. shown["droppedChunks"] + 0 = shown["droppedChunks"]
        BY <3>5
      <4> QED
        BY <3>5, <4>1
    <3> QED
      BY <3>1, <3>2, <3>4, <3>6 DEF ChunksPlaced, SamplesPlaced
  <2> QED
    BY <2>2, <2>3, <2>4, <2>5
<1> QED
  BY <1>1, <1>2, <1>3, PTL DEF Spec

=============================================================================
