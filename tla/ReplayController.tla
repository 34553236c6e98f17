-------------------------- MODULE ReplayController --------------------------
(***************************************************************************)
(* FlightReplayController: the clock of a replay.  Its state is the record  *)
(* "replay"; every method is an operator from that record to the next.      *)
(*                                                                          *)
(* The controller emits Qt signals in the middle of its methods, and the    *)
(* slots run there.  A signal is recorded in "out" together with what a     *)
(* slot could read of the controller at that point.  No slot of the program *)
(* calls back into the controller, so running the slots on this record      *)
(* afterwards (ReplayView) is the same as running them at the emission.     *)
(*                                                                          *)
(* Who calls the methods, and when, is left to the module that composes the *)
(* controller with its view; only the timer and the clock act here.         *)
(*                                                                          *)
(* Times are integers.  One unit of real time at NormalSpeed is NormalSpeed *)
(* units of flight time, so that the program's quarter speeds are exact.    *)
(***************************************************************************)
EXTENDS Integers, Sequences, FiniteSets

CONSTANTS
    Flights,        \* the sessions that can be loaded
    NoFlight,
    Timeline,       \* of a flight: the corrected display time of each sample
    MinSpeed, NormalSpeed, MaxSpeed,
    AskedSpeeds     \* what setSpeed may be called with

ASSUME FlightAssumption ==
    /\ NoFlight \notin Flights
    /\ Timeline \in [Flights -> Seq(Nat)]
    /\ \A f \in Flights :
        /\ Len(Timeline[f]) > 0
        /\ \A i, j \in DOMAIN Timeline[f] :
            i <= j => Timeline[f][i] <= Timeline[f][j]

ASSUME SpeedAssumption ==
    /\ MinSpeed \in Nat \ {0} /\ NormalSpeed \in Nat /\ MaxSpeed \in Nat
    /\ MinSpeed <= NormalSpeed /\ NormalSpeed <= MaxSpeed
    /\ AskedSpeeds \subseteq Int

VARIABLE replay

Lesser(a, b) == IF a <= b THEN a ELSE b
Greater(a, b) == IF a >= b THEN a ELSE b
Clamped(x, low, high) == Greater(low, Lesser(x, high))

normalizedSpeed(asked) ==
    IF asked <= 0 THEN NormalSpeed ELSE Clamped(asked, MinSpeed, MaxSpeed)

timeline(f) == IF f = NoFlight THEN <<>> ELSE Timeline[f]

sampleCount(f) == IF f = NoFlight THEN 0 ELSE Len(Timeline[f])

duration(f) == IF f = NoFlight THEN 0 ELSE Timeline[f][Len(Timeline[f])]

\* The samples up to a time: the timeline is sorted, so upper_bound counts them.
positionForPlaybackTime(f, time) ==
    IF f = NoFlight THEN 0
    ELSE Cardinality({i \in DOMAIN Timeline[f] : Timeline[f][i] <= time})

playbackTimeForPosition(f, position) ==
    IF f = NoFlight \/ position <= 0 THEN 0
    ELSE IF position >= sampleCount(f) THEN duration(f)
    ELSE Timeline[f][position]

\* Where playback is now, which the controller only writes down when it synchronises.
playbackTimeAt(c) ==
    IF c.playing
    THEN Lesser(c.anchor + c.elapsed * c.speed, duration(c.flight))
    ELSE c.time

-----------------------------------------------------------------------------
Signal(what, c) == [what |-> what, index |-> c.index, playing |-> c.playing]

Emit(c, what) == [c EXCEPT !.out = Append(@, Signal(what, c))]

updatePosition(c, trail, force) ==
    LET position == Clamped(trail, 0, sampleCount(c.flight)) IN
    IF position = c.index /\ ~force
    THEN c
    ELSE Emit([c EXCEPT !.index = position], "position")

haltPlayback(c, tell) ==
    LET halted == [c EXCEPT !.playing = FALSE, !.timer = FALSE] IN
    IF c.playing /\ tell THEN Emit(halted, "paused") ELSE halted

anchorPlayback(c) == [c EXCEPT !.anchor = c.time, !.elapsed = 0]

\* A place that is not reached by playing.  The anchor is set when playback starts.
Place(c, time) == [c EXCEPT !.time = time, !.anchor = time, !.elapsed = 0]

Follow(c) ==
    LET time == Greater(c.time, playbackTimeAt(c))
    IN  updatePosition([c EXCEPT !.time = time],
                       Greater(c.index, positionForPlaybackTime(c.flight, time)), FALSE)

Finish(c) ==
    LET end == updatePosition(c, sampleCount(c.flight), FALSE) IN
    Emit([end EXCEPT !.playing = FALSE, !.timer = FALSE,
                     !.anchor = end.time, !.elapsed = 0], "finished")

Bug_synchronizePlaybackPastTheEnd(c) ==
    IF ~c.playing
    THEN c
    ELSE LET moved == Follow(c)
         IN  IF moved.time > duration(c.flight) THEN Finish(moved) ELSE moved

synchronizePlayback(c) ==
    IF ~c.playing
    THEN c
    ELSE LET moved == Follow(c)
         IN  IF moved.time >= duration(c.flight) THEN Finish(moved) ELSE moved

-----------------------------------------------------------------------------
\* MainWindow only passes a preview that was built for the session.
setSession(c, f) ==
    updatePosition(Place([haltPlayback(c, TRUE) EXCEPT !.flight = f], 0), 0, TRUE)

setSpeed(c, asked) ==
    LET speed == normalizedSpeed(asked)
        synced == synchronizePlayback(c)
        changed == [synced EXCEPT !.speed = speed]
    IN  IF speed = c.speed THEN c
        ELSE IF synced.playing THEN anchorPlayback(changed) ELSE changed

Bug_playStartsTimerAnyway(c) ==
    LET begun == Emit(anchorPlayback([c EXCEPT !.playing = TRUE]), "started")
    IN  IF sampleCount(c.flight) <= 0 THEN Emit(c, "error")
        ELSE IF c.playing THEN c
        ELSE [synchronizePlayback(begun) EXCEPT !.timer = TRUE]

play(c) ==
    IF sampleCount(c.flight) <= 0 THEN Emit(c, "error")
    ELSE IF c.playing THEN c
    ELSE LET placed == IF c.index >= sampleCount(c.flight)
                       THEN updatePosition([c EXCEPT !.time = 0], 0, FALSE)
                       ELSE c
             begun == Emit(anchorPlayback([placed EXCEPT !.playing = TRUE]), "started")
             synced == synchronizePlayback(begun)
         IN  [synced EXCEPT !.timer = synced.playing]

Bug_pauseLosesTime(c) ==
    IF ~c.playing
    THEN c
    ELSE Emit([c EXCEPT !.playing = FALSE, !.timer = FALSE], "paused")

pause(c) ==
    LET synced == synchronizePlayback(c) IN
    IF ~c.playing \/ ~synced.playing
    THEN synced
    ELSE Emit([synced EXCEPT !.playing = FALSE, !.timer = FALSE], "paused")

stop(c) ==
    LET halted == updatePosition(Place(haltPlayback(c, FALSE), 0), 0, FALSE) IN
    IF c.playing \/ c.index # 0 THEN Emit(halted, "stopped") ELSE halted

setPosition(c, trail) ==
    LET count == sampleCount(c.flight)
        position == Clamped(trail, 0, count)
        halted == haltPlayback(c, TRUE)
    IN  IF count <= 0 THEN c
        ELSE updatePosition(Place(halted, playbackTimeForPosition(c.flight, position)),
                            position, FALSE)

-----------------------------------------------------------------------------
Fresh ==
    [flight |-> NoFlight, index |-> 0, speed |-> NormalSpeed, time |-> 0,
     anchor |-> 0, elapsed |-> 0, playing |-> FALSE, timer |-> FALSE, out |-> <<>>]

\* Beyond the end of the flight more real time makes no difference.
Passed(c) == [c EXCEPT !.elapsed = @ + 1, !.out = <<>>]

TimeMatters(c) == c.playing /\ playbackTimeAt(c) < duration(c.flight)

Quiet(c) == [c EXCEPT !.out = <<>>]

Init == replay = Fresh

onTimerTick ==
    /\ replay.timer
    /\ replay' = synchronizePlayback(Quiet(replay))

ClockAdvances == TimeMatters(replay) /\ replay' = Passed(replay)

-----------------------------------------------------------------------------
Signals == [what : {"position", "started", "paused", "stopped", "finished", "error"},
            index : Nat, playing : BOOLEAN]

Controllers == [flight : Flights \union {NoFlight}, index : Nat, speed : Nat \ {0},
                time : Nat, anchor : Nat, elapsed : Nat,
                playing : BOOLEAN, timer : BOOLEAN, out : Seq(Signals)]

TypeOK == replay \in Controllers

\* The trail that is shown holds no sample of a later time than the one that
\* has been reached, and the timer that moves it on runs while it plays and
\* not otherwise, whatever pauses, seeks, speeds and flights came in between.
TrailBehindHead ==
    /\ replay.index <= positionForPlaybackTime(replay.flight, replay.time)
    /\ replay.time <= playbackTimeAt(replay)
    /\ playbackTimeAt(replay) <= duration(replay.flight)
    /\ replay.timer <=> replay.playing
=============================================================================
