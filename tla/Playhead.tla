------------------------------ MODULE Playhead ------------------------------
(***************************************************************************)
(* What a replay promises of the place it has reached in a flight.  Every  *)
(* step names its cause - the clock, the timer, a request of the user, a   *)
(* new flight, or anything else - and the cause decides where the replay   *)
(* is after it and whether it still runs: only the clock moves it on, by   *)
(* the speed and not past the end, only a request sends it elsewhere, to   *)
(* the place asked for, and what else happens neither loses nor gains time.*)
(***************************************************************************)
EXTENDS Integers, Sequences

VARIABLES
    head,       \* the time of the flight that has been reached
    marks,      \* the time of each sample of the flight
    rate,       \* flight time per unit of real time
    running,
    cause       \* of the last step

vars == <<head, marks, rate, running, cause>>

MarkAt(place) == IF place = 0 THEN 0 ELSE marks[place]

End == MarkAt(Len(marks))

Init ==
    /\ head = 0 /\ marks = <<>> /\ rate \in Nat \ {0} /\ ~running
    /\ cause = [what |-> "other", to |-> 0]

\* Real time passes.
Clock ==
    /\ cause'.what = "clock"
    /\ running /\ head < End
    /\ head' = (IF head + rate < End THEN head + rate ELSE End)
    /\ UNCHANGED <<marks, rate, running>>

\* The timer fires, however late: at the end it stops.
Tick ==
    /\ cause'.what = "tick"
    /\ running' = (running /\ head < End)
    /\ UNCHANGED <<head, marks, rate>>

Pause ==
    /\ cause'.what = "pause"
    /\ ~running'
    /\ UNCHANGED <<head, marks, rate>>

ChangeRate ==
    /\ cause'.what = "speed"
    /\ rate' = cause'.to
    /\ running' = (running /\ (head < End \/ rate' = rate))
    /\ UNCHANGED <<head, marks>>

\* A seek may have sent it to a sample before the last that has the same time.
LastInstantShared == Len(marks) > 1 /\ marks[Len(marks) - 1] = End

\* It starts where it rests, at the end from the beginning.
Play ==
    /\ cause'.what = "play"
    /\ ~running
    /\ \/ head = End /\ head' = 0
       \/ (head < End \/ LastInstantShared) /\ head' = head
    /\ running' = (head' < End)
    /\ UNCHANGED <<marks, rate>>

Stop ==
    /\ cause'.what = "stop"
    /\ head' = 0 /\ ~running'
    /\ UNCHANGED <<marks, rate>>

Seek ==
    /\ cause'.what = "seek"
    /\ cause'.to \in 0..Len(marks)
    /\ head' = MarkAt(cause'.to) /\ ~running'
    /\ UNCHANGED <<marks, rate>>

\* Another flight, or none, rests at its end.
Load ==
    /\ cause'.what = "load"
    /\ marks' \in Seq(Nat)
    /\ head' = End' /\ ~running'
    /\ UNCHANGED rate

Other ==
    /\ cause'.what = "other"
    /\ UNCHANGED <<head, marks, rate, running>>

Next == Clock \/ Tick \/ Pause \/ ChangeRate \/ Play \/ Stop \/ Seek \/ Load \/ Other

Spec == Init /\ [][Next]_vars
=============================================================================
