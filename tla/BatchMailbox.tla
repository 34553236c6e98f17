---------------------------- MODULE BatchMailbox ----------------------------
(***************************************************************************)
(* cosmo::telemetry::LineTelemetryBatchMailbox: the bounded mailbox that   *)
(* carries decoded batches from a producer thread to the GUI thread.       *)
(*                                                                         *)
(* Each call holds m_mutex from its first line to its last, so each is one *)
(* action here.  A batch is abstracted to the set of its sample numbers    *)
(* (numbered in the order the samples were decoded), its counters, and the *)
(* sequence number of the row diagnostic it carries.                       *)
(***************************************************************************)
EXTENDS Integers, Sequences, FiniteSets

CONSTANTS
    Capacity,     \* m_maxQueuedBatches
    Counters,     \* the counter fields of LineTelemetryBatch
    CounterMax    \* std::numeric_limits<T>::max() of a counter

ASSUME CapacityAssumption == Capacity \in Nat \ {0}
ASSUME CounterAssumption == CounterMax \in Nat

VARIABLES
    batches,           \* m_batches, oldest first
    discarded,         \* m_discardedDecodedSamples
    activeGeneration,  \* m_activeGeneration, or NoGeneration
    drainScheduled     \* m_drainScheduled

mailbox == <<batches, discarded, activeGeneration, drainScheduled>>

\* m_hasActiveGeneration = false.  Every generation is newer than this one, so
\* the two tests of that flag are the two comparisons with the generation.
NoGeneration == -1

\* A batch without a rowDiagnostic; a decoder numbers its rows from 1.
NoRow == 0

Batch == [samples  : SUBSET (Nat \ {0}),
          counters : [Counters -> 0..CounterMax],
          row      : Nat]

NewerRow(r, s) == IF s > r THEN s ELSE r

SaturatingAdd(target, increment) ==
    IF increment > CounterMax - target THEN CounterMax ELSE target + increment

Bug_PreserveRowOnly(target, source) ==
    [target EXCEPT !.row = NewerRow(target.row, source.row)]

\* preserveCounters: the batch that takes an evicted batch's place inherits its
\* counters, and its row diagnostic when it has no newer one.
PreserveCounters(target, source) ==
    [target EXCEPT
        !.row      = NewerRow(target.row, source.row),
        !.counters = [c \in Counters |->
                         SaturatingAdd(target.counters[c], source.counters[c])]]

-----------------------------------------------------------------------------

MailboxTypeOK ==
    /\ batches \in Seq(Batch)
    /\ Len(batches) <= Capacity
    /\ discarded \in 0..CounterMax
    /\ activeGeneration \in Nat \cup {NoGeneration}
    /\ drainScheduled \in BOOLEAN

MailboxInit ==
    /\ batches = <<>>
    /\ discarded = 0
    /\ activeGeneration = NoGeneration
    /\ drainScheduled = FALSE

\* What a push by generation g finds queued: nothing if it starts a generation.
Retained(g) == IF g > activeGeneration THEN <<>> ELSE batches

\* The loop that makes room runs at most once: only a push adds a batch, and it
\* adds one.
Overflows(g) == Len(Retained(g)) >= Capacity

\* The samples a push by generation g overwrites.
Evicted(g) == IF Overflows(g) THEN Head(Retained(g)).samples ELSE {}

\* push returns true: the caller has to schedule a drain.
RequestsDrain(g) ==
    /\ g >= activeGeneration
    /\ g > activeGeneration \/ ~drainScheduled

\* push(generation, batch)
Push(g, batch) ==
    \/ /\ g < activeGeneration
       /\ UNCHANGED mailbox
    \/ /\ g >= activeGeneration
       /\ batches' = IF Overflows(g)
                     THEN Append(Tail(Retained(g)),
                                 PreserveCounters(batch, Head(Retained(g))))
                     ELSE Append(Retained(g), batch)
       /\ discarded' = SaturatingAdd(IF g > activeGeneration THEN 0 ELSE discarded,
                                     Cardinality(Evicted(g)))
       /\ activeGeneration' = g
       /\ drainScheduled' = TRUE

\* What take(generation) returns: nothing to a stale generation.
Taken(g) == IF g = activeGeneration THEN batches ELSE <<>>
TakenDiscarded(g) == IF g = activeGeneration THEN discarded ELSE 0

Bug_TakeKeepsFlag(g) ==
    \/ /\ g # activeGeneration
       /\ UNCHANGED mailbox
    \/ /\ g = activeGeneration
       /\ batches' = <<>>
       /\ discarded' = 0
       /\ UNCHANGED <<activeGeneration, drainScheduled>>

\* take(generation)
Take(g) ==
    \/ /\ g # activeGeneration
       /\ UNCHANGED mailbox
    \/ /\ g = activeGeneration
       /\ batches' = <<>>
       /\ discarded' = 0
       /\ drainScheduled' = FALSE
       /\ UNCHANGED activeGeneration

=============================================================================
