---------------------------- MODULE SampleChannel ----------------------------
(***************************************************************************)
(* What the live path promises for one recording: samples are numbered in  *)
(* the order they were decoded, the recording receives them in that order, *)
(* and overload costs the oldest samples that were still waiting, never a  *)
(* newer one and never one already recorded.  A new recording starts only  *)
(* when nothing of the old one is waiting any more.                        *)
(***************************************************************************)
EXTENDS Integers

CONSTANT SampleNumber   \* the sample numbers one recording may use

VARIABLES
    waiting,     \* accepted, not yet recorded
    kept,        \* recorded
    sacrificed   \* accepted, given up under overload

channel == <<waiting, kept, sacrificed>>

Seen == waiting \cup kept \cup sacrificed

Before(S, T) == \A s \in S, t \in T : s < t

Init ==
    /\ waiting = {}
    /\ kept = {}
    /\ sacrificed = {}

\* New samples arrive; the oldest waiting ones may have to make room.
Offer(new, old) ==
    /\ Before(Seen, new)
    /\ old \subseteq waiting
    /\ Before(old, waiting \ old)
    /\ waiting' = (waiting \ old) \cup new
    /\ sacrificed' = sacrificed \cup old
    /\ UNCHANGED kept

\* Everything that waits is recorded.
Record ==
    /\ kept' = kept \cup waiting
    /\ waiting' = {}
    /\ UNCHANGED sacrificed

\* A new recording begins.
Restart ==
    /\ waiting = {}
    /\ waiting' = {}
    /\ kept' = {}
    /\ sacrificed' = {}

Next ==
    \/ \E new \in SUBSET SampleNumber, old \in SUBSET waiting : Offer(new, old)
    \/ Record
    \/ Restart

Spec == Init /\ [][Next]_channel

=============================================================================
