-------------------------- MODULE FlightViews_proofs --------------------------
(***************************************************************************)
(* Proofs about the two views of a flight.                                 *)
(*                                                                         *)
(* The dashboard's replay (ReplayView): the trail of a replay never runs   *)
(* ahead of the time reached, the controller is a playhead, and the        *)
(* widgets show the controller's state when the event loop is idle,        *)
(* whatever the flights, the speeds and the order of requests, ticks,      *)
(* loads and pages.                                                        *)
(* The view never writes the controller: a step of the composition applies *)
(* the controller's methods to its record.  So each method is shown to keep *)
(* the invariant of the record once, and every step follows.               *)
(* A method emits signals while it runs, and the widgets' slots are folded *)
(* over them.  What holds after the last signal is shown by induction on   *)
(* the number delivered (EveryNumber, from WFMin of the library), the fold *)
(* itself being unrolled by the same induction.                            *)
(*                                                                         *)
(* The map (LiveMap): once nothing waits to be published the page draws    *)
(* the flight the widget has, and a sample drawn between two measured      *)
(* places stays where it was.  The invariant says which rows of the        *)
(* history the page draws, each where the trajectory now places it; that a *)
(* row does not move when the history grows, is thinned or is counted anew *)
(* is a matter of which fixes lie before it, so the lemmas about the       *)
(* trajectory count fixes: those before a row are the first ones, and each *)
(* operation keeps each fix on its side of each row.                       *)
(***************************************************************************)
EXTENDS ReplayView, LiveMap, FiniteSetTheorems, WellFoundedInduction, TLAPS

\* What the controller wrote down is no later than where playback is.
Sound(c) ==
    /\ c \in Controllers
    /\ c.index <= positionForPlaybackTime(c.flight, c.time)
    /\ c.time <= duration(c.flight)
    /\ c.playing => c.time <= c.anchor + c.elapsed * c.speed

Served(c) == c.timer <=> c.playing

\* A replay that rests at the end of its flight shows all of it, unless it was sent
\* to an earlier sample of the last instant.
Shared(f) == sampleCount(f) > 1 /\ Timeline[f][sampleCount(f) - 1] = duration(f)

Rests(c) ==
    ~c.playing /\ c.time = duration(c.flight) /\ c.time > 0 =>
        c.index = sampleCount(c.flight) \/ Shared(c.flight)

CInv(c) == Sound(c) /\ Served(c) /\ Rests(c)

Places == Flights \union {NoFlight}

\* The parts of the controller's record that a helper leaves alone.
SameTime(c, d) ==
    /\ d.flight = c.flight /\ d.speed = c.speed
    /\ d.time = c.time /\ d.anchor = c.anchor /\ d.elapsed = c.elapsed
SameState(c, d) == d.playing = c.playing /\ d.timer = c.timer

-----------------------------------------------------------------------------
(* The timeline. *)

\* A flight has a number of samples and a length; no flight has neither.
LEMMA TimelineBounds ==
    ASSUME NEW f \in Places
    PROVE  /\ sampleCount(f) \in Nat /\ duration(f) \in Nat
           /\ f = NoFlight => sampleCount(f) = 0 /\ duration(f) = 0
           /\ f # NoFlight => /\ sampleCount(f) > 0 /\ Timeline[f] \in Seq(Nat)
                              /\ DOMAIN Timeline[f] = 1..sampleCount(f)
                              /\ duration(f) = Timeline[f][sampleCount(f)]
                              /\ \A i \in 1..sampleCount(f) :
                                    Timeline[f][i] \in Nat /\ Timeline[f][i] <= duration(f)
<1>1. CASE f = NoFlight
  BY <1>1 DEF sampleCount, duration
<1>2. CASE f # NoFlight
  <2>1. f \in Flights
    BY <1>2 DEF Places
  <2>2. /\ Timeline[f] \in Seq(Nat) /\ Len(Timeline[f]) > 0
        /\ \A i, j \in DOMAIN Timeline[f] : i <= j => Timeline[f][i] <= Timeline[f][j]
    BY <2>1, FlightAssumption
  <2>3. DOMAIN Timeline[f] = 1..Len(Timeline[f]) /\ Len(Timeline[f]) \in Nat
    BY <2>2
  <2>4. \A i \in 1..Len(Timeline[f]) : Timeline[f][i] \in Nat
    BY <2>2
  <2>5. sampleCount(f) = Len(Timeline[f]) /\ duration(f) = Timeline[f][Len(Timeline[f])]
    BY <1>2 DEF sampleCount, duration
  <2> DEFINE n == Len(Timeline[f])
  <2>6. n \in 1..n
    BY <2>2, <2>3
  <2>7. \A i \in 1..n : Timeline[f][i] <= Timeline[f][n]
    BY <2>2, <2>3, <2>6
  <2> QED
    BY <1>2, <2>2, <2>3, <2>4, <2>5, <2>6, <2>7
<1> QED
  BY <1>1, <1>2

\* A later time has no fewer samples up to it, and the end has them all.
LEMMA PositionMonotone ==
    ASSUME NEW f \in Places, NEW t \in Nat, NEW u \in Nat
    PROVE  /\ positionForPlaybackTime(f, t) \in 0..sampleCount(f)
           /\ t <= u => positionForPlaybackTime(f, t) <= positionForPlaybackTime(f, u)
           /\ duration(f) <= t => positionForPlaybackTime(f, t) = sampleCount(f)
           /\ t < duration(f) => positionForPlaybackTime(f, t) < sampleCount(f)
<1>1. CASE f = NoFlight
  BY <1>1, TimelineBounds DEF positionForPlaybackTime
<1>2. CASE f # NoFlight
  <2> DEFINE upTo(x) == {i \in 1..sampleCount(f) : Timeline[f][i] <= x}
  <2>0. sampleCount(f) \in Nat /\ DOMAIN Timeline[f] = 1..sampleCount(f)
    BY <1>2, TimelineBounds
  <2>1. IsFiniteSet(1..sampleCount(f)) /\ Cardinality(1..sampleCount(f)) = sampleCount(f)
    BY <2>0, FS_Interval
  <2>2. \A x \in Nat : positionForPlaybackTime(f, x) = Cardinality(upTo(x))
    BY <1>2, <2>0 DEF positionForPlaybackTime
  <2>3. \A x \in Nat : /\ IsFiniteSet(upTo(x)) /\ Cardinality(upTo(x)) \in Nat
               /\ Cardinality(upTo(x)) <= sampleCount(f)
    <3> TAKE x \in Nat
    <3>1. upTo(x) \subseteq 1..sampleCount(f)
      OBVIOUS
    <3> QED
      BY <3>1, <2>1, FS_Subset, FS_CardinalityType
  <2>4. ASSUME t <= u PROVE Cardinality(upTo(t)) <= Cardinality(upTo(u))
    <3>1. upTo(t) \subseteq upTo(u)
      BY <2>4, <1>2, TimelineBounds
    <3> QED
      BY <3>1, <2>3, FS_Subset
  <2>5. ASSUME duration(f) <= t PROVE upTo(t) = 1..sampleCount(f)
    BY <2>5, <1>2, TimelineBounds
  <2>9. ASSUME t < duration(f) PROVE Cardinality(upTo(t)) < sampleCount(f)
    <3>1. upTo(t) \subseteq 1..(sampleCount(f) - 1)
      BY <2>9, <1>2, TimelineBounds
    <3> HIDE DEF upTo
    <3>2. sampleCount(f) > 0
      BY <1>2, TimelineBounds
    <3>3. /\ IsFiniteSet(1..(sampleCount(f) - 1))
          /\ Cardinality(1..(sampleCount(f) - 1)) = sampleCount(f) - 1
      BY <2>0, <3>2, FS_Interval
    <3>4. Cardinality(upTo(t)) <= sampleCount(f) - 1
      BY <3>1, <3>3, FS_Subset
    <3> QED
      BY <2>0, <2>3, <3>4, <3>2
  <2> HIDE DEF upTo
  <2>6. positionForPlaybackTime(f, t) \in 0..sampleCount(f)
    BY <2>0, <2>2, <2>3
  <2>7. t <= u => positionForPlaybackTime(f, t) <= positionForPlaybackTime(f, u)
    BY <2>2, <2>4
  <2>8. duration(f) <= t => positionForPlaybackTime(f, t) = sampleCount(f)
    BY <2>1, <2>2, <2>5
  <2>10. t < duration(f) => positionForPlaybackTime(f, t) < sampleCount(f)
    BY <2>2, <2>9
  <2> QED
    BY <2>6, <2>7, <2>8, <2>10
<1> QED
  BY <1>1, <1>2

\* A seek goes to a time of the flight that the place asked for belongs to.
LEMMA SeekTime ==
    ASSUME NEW f \in Places, NEW p \in 0..sampleCount(f)
    PROVE  /\ playbackTimeForPosition(f, p) \in 0..duration(f)
           /\ p <= positionForPlaybackTime(f, playbackTimeForPosition(f, p))
<1>0. sampleCount(f) \in Nat /\ duration(f) \in Nat
  BY TimelineBounds
<1>1. CASE f = NoFlight \/ p = 0
  <2>1. playbackTimeForPosition(f, p) = 0
    BY <1>1 DEF playbackTimeForPosition
  <2>2. p = 0
    BY <1>1, TimelineBounds
  <2> QED
    BY <1>0, <2>1, <2>2, PositionMonotone
<1>2. CASE f # NoFlight /\ p > 0 /\ p = sampleCount(f)
  <2>1. playbackTimeForPosition(f, p) = duration(f)
    BY <1>2 DEF playbackTimeForPosition
  <2> QED
    BY <1>0, <1>2, <2>1, PositionMonotone
<1>3. CASE f # NoFlight /\ p > 0 /\ p < sampleCount(f)
  <2> DEFINE t == Timeline[f][p]
             set == {i \in 1..sampleCount(f) : Timeline[f][i] <= t}
  <2>1. playbackTimeForPosition(f, p) = t /\ t \in 0..duration(f)
    BY <1>0, <1>3, TimelineBounds DEF playbackTimeForPosition
  <2>2. positionForPlaybackTime(f, t) = Cardinality(set)
    BY <1>3, TimelineBounds DEF positionForPlaybackTime
  <2>3. 1..p \subseteq set
    BY <1>0, <1>3, TimelineBounds, FlightAssumption DEF Places
  <2>4. IsFiniteSet(1..sampleCount(f)) /\ Cardinality(1..p) = p
    BY <1>0, <1>3, FS_Interval
  <2>5. IsFiniteSet(set)
    BY <2>4, FS_Subset
  <2> QED
    BY <2>1, <2>2, <2>3, <2>4, <2>5, FS_Subset
<1> QED
  BY <1>0, <1>1, <1>2, <1>3

\* A seek that ends at the last instant went to the last sample, or there are two.
LEMMA SharedEnd ==
    ASSUME NEW f \in Places, NEW p \in 0..sampleCount(f),
           playbackTimeForPosition(f, p) = duration(f), duration(f) > 0
    PROVE  p = sampleCount(f) \/ Shared(f)
<1>0. sampleCount(f) \in Nat /\ duration(f) \in Nat
  BY TimelineBounds
<1> SUFFICES ASSUME p # sampleCount(f) PROVE Shared(f)
  OBVIOUS
<1>1. f # NoFlight /\ p > 0 /\ p < sampleCount(f)
  BY <1>0, TimelineBounds DEF playbackTimeForPosition
<1> DEFINE last == sampleCount(f) - 1
<1>2. Timeline[f][p] = duration(f)
  BY <1>0, <1>1 DEF playbackTimeForPosition
<1>3. /\ DOMAIN Timeline[f] = 1..sampleCount(f) /\ p \in 1..sampleCount(f)
      /\ last \in 1..sampleCount(f) /\ p <= last
  BY <1>0, <1>1, TimelineBounds
<1>4. Timeline[f][last] \in Nat /\ Timeline[f][last] <= duration(f)
  BY <1>1, <1>3, TimelineBounds
<1>5. Timeline[f][p] <= Timeline[f][last]
  BY <1>1, <1>3, FlightAssumption DEF Places
<1>6. Timeline[f][last] = duration(f)
  BY <1>0, <1>2, <1>4, <1>5
<1> QED
  BY <1>0, <1>1, <1>6 DEF Shared

-----------------------------------------------------------------------------
(* The helpers: what they change, and that they keep the invariant. *)

\* A signal changes nothing but what has been said.
LEMMA EmitKeeps ==
    ASSUME NEW c \in Controllers,
           NEW what \in {"position", "started", "paused", "stopped", "finished", "error"}
    PROVE  /\ Emit(c, what) \in Controllers /\ Emit(c, what).index = c.index
           /\ SameTime(c, Emit(c, what)) /\ SameState(c, Emit(c, what))
<1>1. Signal(what, c) \in Signals
  BY DEF Signal, Signals, Controllers
<1>2. Append(c.out, Signal(what, c)) \in Seq(Signals)
  BY <1>1 DEF Controllers
<1> QED
  BY <1>2 DEF Emit, Controllers, SameTime, SameState

\* A new trail is a number of samples of the flight, and only that changes.
LEMMA UpdateKeeps ==
    ASSUME NEW c \in Controllers, NEW trail \in 0..sampleCount(c.flight),
           NEW force \in BOOLEAN, NEW d, d = updatePosition(c, trail, force)
    PROVE  /\ d \in Controllers
           /\ d.index = trail
           /\ SameTime(c, d) /\ SameState(c, d)
<1>1. c.flight \in Places /\ sampleCount(c.flight) \in Nat
  BY TimelineBounds DEF Controllers, Places
<1>2. Clamped(trail, 0, sampleCount(c.flight)) = trail
  BY <1>1 DEF Clamped, Greater, Lesser
<1> DEFINE e == [c EXCEPT !.index = trail]
<1>3. e \in Controllers /\ e.index = trail /\ SameTime(c, e) /\ SameState(c, e)
  BY <1>1 DEF Controllers, SameTime, SameState
<1> HIDE DEF e
<1>4. CASE trail = c.index /\ ~force
  BY <1>2, <1>4 DEF updatePosition, SameTime, SameState
<1>5. CASE ~(trail = c.index /\ ~force)
  <2>1. d = Emit(e, "position")
    BY <1>2, <1>5 DEF updatePosition, e
  <2> QED
    BY <1>3, <2>1, EmitKeeps DEF SameTime, SameState
<1> QED
  BY <1>4, <1>5

\* A halt stops the timer, and only that and what has been said changes.
LEMMA HaltKeeps ==
    ASSUME NEW c \in Controllers, NEW tell \in BOOLEAN,
           NEW d, d = haltPlayback(c, tell)
    PROVE  /\ d \in Controllers /\ ~d.playing /\ ~d.timer
           /\ SameTime(c, d) /\ d.index = c.index
<1> DEFINE e == [c EXCEPT !.playing = FALSE, !.timer = FALSE]
<1>1. /\ e \in Controllers /\ ~e.playing /\ ~e.timer
      /\ SameTime(c, e) /\ e.index = c.index
  BY DEF Controllers, SameTime
<1> HIDE DEF e
<1>2. CASE c.playing /\ tell
  <2>1. d = Emit(e, "paused")
    BY <1>2 DEF haltPlayback, e
  <2> QED
    BY <1>1, <2>1, EmitKeeps DEF SameTime, SameState
<1>3. CASE ~(c.playing /\ tell)
  BY <1>1, <1>3 DEF haltPlayback, e
<1> QED
  BY <1>2, <1>3

\* Playback is somewhere in the flight and not before what was written down.
LEMMA PlaybackTimeRange ==
    ASSUME NEW c, Sound(c)
    PROVE  /\ c.flight \in Places /\ duration(c.flight) \in Nat
           /\ playbackTimeAt(c) \in c.time..duration(c.flight)
           /\ ~c.playing => playbackTimeAt(c) = c.time
<1>1. c.flight \in Places /\ duration(c.flight) \in Nat
  BY TimelineBounds DEF Sound, Controllers, Places
<1>2. c.elapsed * c.speed \in Nat
  BY DEF Sound, Controllers
<1> QED
  BY <1>1, <1>2 DEF Sound, Controllers, playbackTimeAt, Lesser

\* A synchronisation writes the time down and loses none of it; at the end of
\* the flight it stops the replay there.
LEMMA SynchronizeKeeps ==
    ASSUME NEW c, Sound(c), NEW d, d = synchronizePlayback(c)
    PROVE  /\ Sound(d) /\ d.flight = c.flight /\ d.speed = c.speed
           /\ d.time = playbackTimeAt(c) /\ playbackTimeAt(d) = playbackTimeAt(c)
           /\ d.playing => c.playing /\ d.timer = c.timer /\ d.time < duration(c.flight)
           /\ ~d.playing => \/ /\ d.time = duration(c.flight) /\ ~d.timer
                               /\ d.index = sampleCount(c.flight)
                            \/ d = c /\ ~c.playing
<1>0. c \in Controllers
  BY DEF Sound
<1>1. CASE ~c.playing
  BY <1>1, <1>0 DEF synchronizePlayback, playbackTimeAt, Controllers
<1>2. CASE c.playing
  <2> DEFINE time == playbackTimeAt(c)
             moved == Follow(c)
  <2>1. /\ c.flight \in Places /\ duration(c.flight) \in Nat /\ sampleCount(c.flight) \in Nat
        /\ time \in Nat /\ c.time <= time /\ time <= duration(c.flight)
    BY PlaybackTimeRange, TimelineBounds, <1>0 DEF Controllers
  <2>2. Greater(c.time, time) = time
    BY <2>1, <1>0 DEF Greater, Controllers
  <2> DEFINE at(t) == positionForPlaybackTime(c.flight, t)
  <2>14. c.time \in Nat /\ c.index \in Nat /\ c.index <= at(c.time)
    BY DEF Sound, Controllers
  <2>15. at(c.time) \in Nat /\ at(time) \in 0..sampleCount(c.flight) /\ at(c.time) <= at(time)
    <3> HIDE DEF time
    <3> QED
      BY <2>1, <2>14, PositionMonotone
  <2>3. positionForPlaybackTime(c.flight, time) \in c.index..sampleCount(c.flight)
    BY <2>1, <2>14, <2>15
  <2>4. Greater(c.index, positionForPlaybackTime(c.flight, time))
            = positionForPlaybackTime(c.flight, time)
    BY <2>1, <2>3, <1>0 DEF Greater, Controllers
  <2>5. [c EXCEPT !.time = time] \in Controllers
    BY <2>1, <1>0 DEF Controllers
  <2>6. moved = updatePosition([c EXCEPT !.time = time],
                               positionForPlaybackTime(c.flight, time), FALSE)
    BY <2>2, <2>4 DEF Follow
  <2> DEFINE e == [c EXCEPT !.time = time]
  <2>11. /\ e.flight = c.flight /\ e.speed = c.speed /\ e.time = time
         /\ e.anchor = c.anchor /\ e.elapsed = c.elapsed /\ SameState(c, e)
    BY <1>0 DEF Controllers, SameState
  <2>12. positionForPlaybackTime(c.flight, time) \in 0..sampleCount(e.flight)
    BY <2>1, <2>11, PositionMonotone
  <2>7. /\ moved \in Controllers /\ moved.index = positionForPlaybackTime(c.flight, time)
        /\ SameTime(e, moved) /\ SameState(e, moved)
    BY <2>5, <2>6, <2>12, UpdateKeeps
  <2>13. /\ moved.flight = c.flight /\ moved.speed = c.speed /\ moved.time = time
         /\ moved.anchor = c.anchor /\ moved.elapsed = c.elapsed
         /\ moved.playing = c.playing /\ moved.timer = c.timer
    BY <2>7, <2>11 DEF SameTime, SameState
  <2>8. time <= c.anchor + c.elapsed * c.speed
    <3>1. c.elapsed * c.speed \in Nat
      BY <1>0 DEF Controllers
    <3> QED
      BY <1>2, <1>0, <2>1, <3>1 DEF playbackTimeAt, Lesser, Controllers
  <2> HIDE DEF e, moved, time
  <2>9. CASE time < duration(c.flight)
    <3>1. d = moved
      BY <1>2, <2>1, <2>13, <2>9 DEF synchronizePlayback, moved
    <3>2. playbackTimeAt(d) = playbackTimeAt(c)
      BY <3>1, <2>13, <1>2 DEF playbackTimeAt
    <3> QED
      BY <3>1, <3>2, <2>1, <2>3, <2>7, <2>8, <2>9, <2>13, <1>2 DEF Sound, time
  <2>10. CASE time = duration(c.flight)
    <3> DEFINE end == updatePosition(moved, sampleCount(moved.flight), FALSE)
               rest == [end EXCEPT !.playing = FALSE, !.timer = FALSE,
                                   !.anchor = end.time, !.elapsed = 0]
    <3>1. d = Finish(moved)
      BY <1>2, <2>1, <2>13, <2>10 DEF synchronizePlayback, moved
    <3>3. end \in Controllers /\ end.index = sampleCount(c.flight) /\ SameTime(moved, end)
      <4>1. sampleCount(moved.flight) \in 0..sampleCount(moved.flight) /\ moved.flight = c.flight
        BY <2>1, <2>13
      <4> QED
        BY <2>7, <4>1, UpdateKeeps
    <3>4. /\ rest \in Controllers /\ rest.index = end.index /\ ~rest.playing /\ ~rest.timer
          /\ rest.flight = end.flight /\ rest.speed = end.speed /\ rest.time = end.time
      BY <3>3 DEF Controllers
    <3>5. d = Emit(rest, "finished")
      BY <3>1 DEF Finish
    <3> HIDE DEF rest, end
    <3>6. /\ d \in Controllers /\ d.flight = c.flight /\ d.speed = c.speed /\ d.time = time
          /\ d.index = sampleCount(c.flight) /\ ~d.playing /\ ~d.timer
      BY <2>13, <3>3, <3>4, <3>5, EmitKeeps DEF SameTime, SameState
    <3>7. positionForPlaybackTime(c.flight, time) = sampleCount(c.flight)
      BY <2>1, <2>10, PositionMonotone
    <3> QED
      BY <3>6, <3>7, <2>1, <2>10, <1>2 DEF Sound, playbackTimeAt, time
  <2> QED
    BY <2>1, <2>9, <2>10
<1> QED
  BY <1>1, <1>2

-----------------------------------------------------------------------------
(* The methods: each keeps the invariant, and answers its call: where the     *)
(* place is after it and whether it runs.                                     *)

\* The place stays where it is.
Unmoved(c, d) == d.flight = c.flight /\ playbackTimeAt(d) = playbackTimeAt(c)

AtEnd(c) == playbackTimeAt(c) = duration(c.flight)

Ticked(c, d) == Unmoved(c, d) /\ d.speed = c.speed /\ (d.playing <=> c.playing /\ ~AtEnd(c))

Paused(c, d) == Unmoved(c, d) /\ d.speed = c.speed /\ ~d.playing

Paced(c, d, speed) ==
    /\ Unmoved(c, d) /\ d.speed = speed
    /\ d.playing <=> c.playing /\ (~AtEnd(c) \/ speed = c.speed)

\* A replay that rested at the end begins again.
Played(c, d) ==
    /\ d.flight = c.flight /\ d.speed = c.speed
    /\ \/ AtEnd(c) /\ playbackTimeAt(d) = 0
       \/ (~AtEnd(c) \/ Shared(c.flight)) /\ playbackTimeAt(d) = playbackTimeAt(c)
    /\ d.playing <=> ~AtEnd(d)

\* It rests at that time of that flight.
Placed(c, d, f, time) ==
    d.flight = f /\ d.speed = c.speed /\ ~d.playing /\ playbackTimeAt(d) = time

\* Forgetting what has been said changes nothing else.
LEMMA QuietKeeps ==
    ASSUME NEW c, CInv(c), NEW d, d = Quiet(c)
    PROVE  CInv(d) /\ d.index = c.index /\ SameTime(c, d) /\ SameState(c, d)
                   /\ playbackTimeAt(d) = playbackTimeAt(c)
<1>0. <<>> \in Seq(Signals)
  OBVIOUS
<1>1. d \in Controllers /\ d.index = c.index /\ SameTime(c, d) /\ SameState(c, d)
  BY <1>0 DEF CInv, Sound, Controllers, Quiet, SameTime, SameState
<1> QED
  BY <1>1 DEF CInv, Sound, Served, Rests, SameTime, SameState, playbackTimeAt

\* The shape of stop, setPosition and setSession: the replay halts, is sent to a
\* time of its flight and to a trail that belongs there.
LEMMA PlacedSound ==
    ASSUME NEW c \in Controllers, ~c.playing, ~c.timer,
           NEW time \in 0..duration(c.flight),
           NEW trail \in 0..positionForPlaybackTime(c.flight, time),
           NEW force \in BOOLEAN,
           time = duration(c.flight) /\ time > 0 =>
                trail = sampleCount(c.flight) \/ Shared(c.flight),
           NEW d, d = updatePosition(Place(c, time), trail, force)
    PROVE  CInv(d) /\ Placed(c, d, c.flight, time)
<1> DEFINE e == Place(c, time)
<1>1. /\ duration(c.flight) \in Nat /\ sampleCount(c.flight) \in Nat
      /\ positionForPlaybackTime(c.flight, time) \in 0..sampleCount(c.flight)
  BY TimelineBounds, PositionMonotone DEF Controllers, Places
<1>6. time \in Nat
  BY <1>1
<1>2. /\ e \in Controllers /\ e.time = time /\ e.flight = c.flight /\ e.speed = c.speed
      /\ ~e.playing /\ ~e.timer
  BY <1>6 DEF Place, Controllers
<1> HIDE DEF e
<1>3. trail \in 0..sampleCount(e.flight)
  BY <1>1, <1>2
<1>4. d = updatePosition(e, trail, force)
  BY DEF e
<1>5. d \in Controllers /\ d.index = trail /\ SameTime(e, d) /\ SameState(e, d)
  BY <1>2, <1>3, <1>4, UpdateKeeps
<1>7. /\ d.time = time /\ d.flight = c.flight /\ d.speed = c.speed
      /\ ~d.playing /\ ~d.timer
  BY <1>2, <1>5 DEF SameTime, SameState
<1>8. Sound(d) /\ Served(d)
  BY <1>1, <1>5, <1>7 DEF Sound, Served
<1>9. Rests(d)
  BY <1>5, <1>7 DEF Rests
<1> QED
  BY <1>7, <1>8, <1>9 DEF CInv, Placed, playbackTimeAt

\* stop() leaves the controller sound, at 0 and at rest.
LEMMA StopKeeps ==
    ASSUME NEW c, CInv(c), NEW d, d = stop(c)
    PROVE  CInv(d) /\ Placed(c, d, c.flight, 0)
<1> DEFINE halted == haltPlayback(c, FALSE)
           placed == updatePosition(Place(halted, 0), 0, FALSE)
<1>1. c \in Controllers /\ c.flight \in Places
  BY DEF CInv, Sound, Controllers, Places
<1>2. halted \in Controllers /\ ~halted.playing /\ ~halted.timer /\ SameTime(c, halted)
  BY <1>1, HaltKeeps
<1> HIDE DEF halted
<1>3. /\ 0 \in 0..duration(halted.flight)
      /\ 0 \in 0..positionForPlaybackTime(halted.flight, 0)
      /\ 0 = duration(halted.flight) /\ 0 > 0 =>
            0 = sampleCount(halted.flight) \/ Shared(halted.flight)
  BY <1>1, <1>2, TimelineBounds, PositionMonotone DEF SameTime
<1>4. CInv(placed) /\ Placed(halted, placed, halted.flight, 0)
  BY <1>2, <1>3, PlacedSound
<1>5. d = placed \/ d = Emit(placed, "stopped")
  BY DEF stop, placed, halted
<1> HIDE DEF placed
<1>6. CInv(d) /\ Placed(halted, d, halted.flight, 0)
  <2>1. CASE d = placed
    BY <1>4, <2>1
  <2>2. CASE d = Emit(placed, "stopped")
    <3>1. placed \in Controllers
      BY <1>4 DEF CInv, Sound
    <3>2. /\ d \in Controllers /\ d.index = placed.index
          /\ SameTime(placed, d) /\ SameState(placed, d)
      BY <3>1, <2>2, EmitKeeps
    <3> QED
      BY <1>4, <3>2
         DEF CInv, Sound, Served, Rests, SameTime, SameState, Placed, playbackTimeAt
  <2> QED
    BY <1>5, <2>1, <2>2
<1> QED
  BY <1>2, <1>6 DEF Placed, SameTime

\* setSession() leaves it sound, at the start of the new flight and at rest.
LEMMA SetSessionKeeps ==
    ASSUME NEW c, CInv(c), NEW f \in Places, NEW d, d = setSession(c, f)
    PROVE  CInv(d) /\ Placed(c, d, f, 0)
<1> DEFINE halted == haltPlayback(c, TRUE)
           given == [halted EXCEPT !.flight = f]
<1>1. c \in Controllers
  BY DEF CInv, Sound
<1>2. halted \in Controllers /\ ~halted.playing /\ ~halted.timer /\ SameTime(c, halted)
  BY <1>1, HaltKeeps
<1>3. /\ given \in Controllers /\ ~given.playing /\ ~given.timer
      /\ given.flight = f /\ given.speed = halted.speed
  BY <1>2 DEF Controllers, Places
<1>4. d = updatePosition(Place(given, 0), 0, TRUE)
  BY DEF setSession
<1> HIDE DEF halted, given
<1>5. /\ 0 \in 0..duration(given.flight) /\ 0 \in 0..positionForPlaybackTime(given.flight, 0)
      /\ 0 = duration(given.flight) /\ 0 > 0 =>
            0 = sampleCount(given.flight) \/ Shared(given.flight)
  BY <1>3, TimelineBounds, PositionMonotone
<1>6. CInv(d) /\ Placed(given, d, f, 0)
  BY <1>3, <1>4, <1>5, PlacedSound
<1> QED
  BY <1>2, <1>3, <1>6 DEF Placed, SameTime

\* setPosition() leaves it sound, at a time of its flight and at rest.
LEMMA SetPositionKeeps ==
    ASSUME NEW c, CInv(c), NEW trail \in Int, NEW d, d = setPosition(c, trail)
    PROVE  /\ CInv(d)
           /\ sampleCount(c.flight) > 0 /\ trail \in 0..sampleCount(c.flight) =>
                Placed(c, d, c.flight, playbackTimeForPosition(c.flight, trail))
<1> DEFINE position == Clamped(trail, 0, sampleCount(c.flight))
           halted == haltPlayback(c, TRUE)
           time == playbackTimeForPosition(c.flight, position)
<1>1. c \in Controllers /\ c.flight \in Places /\ sampleCount(c.flight) \in Nat
  BY TimelineBounds DEF CInv, Sound, Controllers, Places
<1>2. halted \in Controllers /\ ~halted.playing /\ ~halted.timer /\ SameTime(c, halted)
  BY <1>1, HaltKeeps
<1>3. /\ position \in 0..sampleCount(c.flight)
      /\ trail \in 0..sampleCount(c.flight) => position = trail
  BY <1>1 DEF Clamped, Greater, Lesser
<1>5. CASE sampleCount(c.flight) <= 0
  BY <1>1, <1>5 DEF setPosition
<1>6. CASE ~(sampleCount(c.flight) <= 0)
  <2>1. d = updatePosition(Place(halted, time), position, FALSE)
    BY <1>6 DEF setPosition, halted, position
  <2> HIDE DEF halted, position
  <2>5. time \in 0..duration(c.flight) /\ position <= positionForPlaybackTime(c.flight, time)
    BY <1>1, <1>3, SeekTime
  <2>2. positionForPlaybackTime(c.flight, time) \in Nat
    BY <1>1, <2>5, TimelineBounds, PositionMonotone
  <2>6. time = duration(c.flight) /\ time > 0 =>
            position = sampleCount(c.flight) \/ Shared(c.flight)
    BY <1>1, <1>3, SharedEnd
  <2> HIDE DEF time
  <2>3. /\ time \in 0..duration(halted.flight)
        /\ position \in 0..positionForPlaybackTime(halted.flight, time)
        /\ time = duration(halted.flight) /\ time > 0 =>
              position = sampleCount(halted.flight) \/ Shared(halted.flight)
    BY <1>1, <1>2, <1>3, <2>2, <2>5, <2>6 DEF SameTime
  <2>4. CInv(d) /\ Placed(halted, d, halted.flight, time)
    <3>1. \A force \in BOOLEAN :
            LET e == updatePosition(Place(halted, time), position, force)
            IN  CInv(e) /\ Placed(halted, e, halted.flight, time)
      BY <1>2, <2>3, PlacedSound
    <3> QED
      BY <2>1, <3>1
  <2>7. Placed(c, d, c.flight, time)
    BY <1>2, <2>4 DEF Placed, SameTime
  <2> QED
    BY <1>3, <2>4, <2>7 DEF time
<1> QED
  BY <1>1, <1>5, <1>6

\* setSpeed() leaves it sound and where it was, with a speed that is not 0.
LEMMA SetSpeedKeeps ==
    ASSUME NEW c, CInv(c), NEW asked \in Int, NEW d, d = setSpeed(c, asked)
    PROVE  CInv(d) /\ Paced(c, d, normalizedSpeed(asked))
<1> DEFINE speed == normalizedSpeed(asked)
           synced == synchronizePlayback(c)
           changed == [synced EXCEPT !.speed = speed]
<1>1. speed \in Nat \ {0}
  BY SpeedAssumption DEF normalizedSpeed, Clamped, Greater, Lesser
<1>2. Sound(c) /\ Served(c)
  BY DEF CInv
<1>3. /\ Sound(synced) /\ synced.flight = c.flight
      /\ synced.time = playbackTimeAt(c) /\ playbackTimeAt(synced) = playbackTimeAt(c)
      /\ synced.playing => /\ c.playing /\ synced.timer = c.timer
                           /\ synced.time < duration(c.flight)
      /\ ~synced.playing => \/ /\ synced.time = duration(c.flight) /\ ~synced.timer
                               /\ synced.index = sampleCount(c.flight)
                            \/ synced = c /\ ~c.playing
  BY <1>2, SynchronizeKeeps
<1>4. d = IF speed = c.speed THEN c
          ELSE IF synced.playing THEN anchorPlayback(changed) ELSE changed
  BY DEF setSpeed
<1>5. Served(synced)
  BY <1>2, <1>3 DEF Served
<1>9. duration(c.flight) \in Nat /\ synced.time \in Nat /\ synced.speed = c.speed
  BY <1>2, <1>3, SynchronizeKeeps, TimelineBounds DEF Sound, Controllers, Places, synced
<1>6. CASE speed = c.speed
  BY <1>4, <1>6 DEF Paced, Unmoved, speed
<1> HIDE DEF speed, synced
<1>7. CASE speed # c.speed /\ synced.playing
  <2>1. d = [synced EXCEPT !.speed = speed, !.anchor = synced.time, !.elapsed = 0]
    <3>1. d = anchorPlayback(changed) /\ changed.time = synced.time
      BY <1>3, <1>4, <1>7 DEF Sound, Controllers
    <3> QED
      BY <1>3, <3>1 DEF anchorPlayback, Sound, Controllers
  <2>2. /\ d \in Controllers /\ d.index = synced.index /\ d.flight = synced.flight
        /\ d.time = synced.time /\ d.anchor = synced.time /\ d.elapsed = 0
        /\ d.speed = speed /\ SameState(synced, d)
    <3>1. synced \in Controllers /\ synced.time \in Nat
      BY <1>3 DEF Sound, Controllers
    <3>2. d \in Controllers
      <4> DEFINE a == [synced EXCEPT !.speed = speed]
                 b == [a EXCEPT !.anchor = synced.time]
      <4>1. a \in Controllers
        BY <1>1, <3>1 DEF Controllers
      <4> HIDE DEF a
      <4>2. b \in Controllers
        BY <3>1, <4>1 DEF Controllers
      <4>3. d = [b EXCEPT !.elapsed = 0]
        BY <2>1 DEF a
      <4> HIDE DEF b
      <4> QED
        BY <4>2, <4>3 DEF Controllers
    <3> QED
      BY <2>1, <3>1, <3>2 DEF Controllers, SameState
  <2>3. synced.time <= duration(c.flight) /\ duration(c.flight) \in Nat /\ synced.time \in Nat
    BY <1>2, <1>3, TimelineBounds DEF Sound, Controllers, Places
  <2>4. d.elapsed * d.speed = 0
    BY <1>1, <2>2
  <2>5. playbackTimeAt(d) = synced.time
    BY <1>3, <1>7, <2>2, <2>3, <2>4 DEF playbackTimeAt, Lesser, SameState
  <2>6. Sound(d) /\ Served(d) /\ d.playing /\ Rests(d)
    BY <1>3, <1>5, <1>7, <2>2, <2>3, <2>4 DEF Sound, Served, Rests, SameState
  <2>7. Paced(c, d, speed)
    BY <1>3, <1>7, <1>9, <2>2, <2>5, <2>6 DEF Paced, Unmoved, AtEnd
  <2> QED
    BY <2>6, <2>7 DEF CInv, speed
<1>8. CASE speed # c.speed /\ ~synced.playing
  <2>1. d = changed
    BY <1>4, <1>8
  <2>2. /\ d \in Controllers /\ d.index = synced.index /\ d.flight = synced.flight
        /\ d.time = synced.time /\ d.speed = speed /\ SameState(synced, d)
    BY <1>1, <1>3, <2>1 DEF Sound, Controllers, SameState
  <2>3. Sound(d) /\ Served(d) /\ ~d.playing
    BY <1>3, <1>5, <1>8, <2>2 DEF Sound, Served, SameState
  <2>4. playbackTimeAt(d) = playbackTimeAt(c)
    BY <1>3, <2>2, <2>3 DEF playbackTimeAt
  <2>5. Rests(d)
    <3>1. CASE synced = c
      BY <2>2, <3>1 DEF CInv, Rests, SameState
    <3>2. CASE synced.index = sampleCount(c.flight)
      BY <1>3, <2>2, <3>2 DEF Rests
    <3> QED BY <1>3, <1>8, <3>1, <3>2
  <2>6. Paced(c, d, speed)
    BY <1>3, <1>8, <2>2, <2>3, <2>4 DEF Paced, Unmoved, AtEnd
  <2> QED
    BY <2>3, <2>5, <2>6 DEF CInv, speed
<1> QED
  BY <1>6, <1>7, <1>8

\* pause() leaves it sound, where it was and at its speed.
LEMMA PauseKeeps ==
    ASSUME NEW c, CInv(c), NEW d, d = pause(c)
    PROVE  CInv(d) /\ Paused(c, d)
<1> DEFINE synced == synchronizePlayback(c)
           halted == [synced EXCEPT !.playing = FALSE, !.timer = FALSE]
<1>1. Sound(c) /\ Served(c)
  BY DEF CInv
<1>2. /\ Sound(synced) /\ synced.flight = c.flight
      /\ synced.time = playbackTimeAt(c) /\ playbackTimeAt(synced) = playbackTimeAt(c)
      /\ synced.playing => /\ c.playing /\ synced.timer = c.timer
                           /\ synced.time < duration(c.flight)
      /\ ~synced.playing => \/ /\ synced.time = duration(c.flight) /\ ~synced.timer
                               /\ synced.index = sampleCount(c.flight)
                            \/ synced = c /\ ~c.playing
  BY <1>1, SynchronizeKeeps
<1>6. synced.speed = c.speed
  BY <1>1, SynchronizeKeeps
<1>3. d = IF ~c.playing \/ ~synced.playing THEN synced ELSE Emit(halted, "paused")
  BY DEF pause
<1> HIDE DEF synced
<1>4. CASE ~c.playing \/ ~synced.playing
  <2>1. d = synced /\ ~d.playing
    BY <1>2, <1>3, <1>4
  <2>2. Sound(d) /\ Served(d)
    BY <1>1, <1>2, <2>1 DEF Served
  <2>3. Rests(d)
    BY <1>2, <2>1 DEF CInv, Rests
  <2>4. Paused(c, d)
    BY <1>2, <1>6, <2>1 DEF Paused, Unmoved
  <2> QED
    BY <2>2, <2>3, <2>4 DEF CInv
<1>5. CASE ~(~c.playing \/ ~synced.playing)
  <2>1. /\ halted \in Controllers /\ ~halted.playing /\ ~halted.timer
        /\ halted.index = synced.index /\ SameTime(synced, halted)
    BY <1>2 DEF Sound, Controllers, SameTime
  <2>2. d = Emit(halted, "paused")
    BY <1>3, <1>5
  <2> HIDE DEF halted
  <2>3. /\ d \in Controllers /\ ~d.playing /\ ~d.timer /\ d.index = synced.index
        /\ d.flight = synced.flight /\ d.time = synced.time /\ d.speed = synced.speed
    BY <2>1, <2>2, EmitKeeps DEF SameTime, SameState
  <2>4. Sound(d) /\ Served(d)
    BY <1>2, <2>3 DEF Sound, Served
  <2>7. synced.time \in Nat /\ duration(c.flight) \in Nat
    BY <1>1, <1>2, TimelineBounds DEF Sound, Controllers, Places
  <2>5. Rests(d)
    BY <1>2, <1>5, <2>3, <2>7 DEF Rests
  <2>6. Paused(c, d)
    BY <1>2, <1>6, <2>3 DEF Paused, Unmoved, playbackTimeAt
  <2> QED
    BY <2>4, <2>5, <2>6 DEF CInv
<1> QED
  BY <1>4, <1>5

\* A replay starts where it is, or at 0 when it rested at the end.
LEMMA PlayKeeps ==
    ASSUME NEW c, CInv(c), ~c.playing, NEW d, d = play(c)
    PROVE  CInv(d) /\ Played(c, d)
<1> DEFINE count == sampleCount(c.flight)
           fresh == updatePosition([c EXCEPT !.time = 0], 0, FALSE)
           placed == IF c.index >= count THEN fresh ELSE c
           going == anchorPlayback([placed EXCEPT !.playing = TRUE])
           begun == Emit(going, "started")
           synced == synchronizePlayback(begun)
<1>0. /\ c \in Controllers /\ c.flight \in Places /\ duration(c.flight) \in Nat
      /\ count \in Nat /\ c.index \in Nat /\ c.time \in Nat /\ c.time <= duration(c.flight)
  BY TimelineBounds DEF CInv, Sound, Controllers, Places
<1>1. CASE count <= 0
  <2>1. d = Emit(c, "error")
    BY <1>1 DEF play
  <2>2. /\ d \in Controllers /\ d.index = c.index /\ SameTime(c, d) /\ SameState(c, d)
    BY <1>0, <2>1, EmitKeeps
  <2>3. CInv(d)
    BY <2>2 DEF CInv, Sound, Served, Rests, SameTime, SameState
  <2>4. duration(c.flight) = 0 /\ c.time = 0
    BY <1>0, <1>1, TimelineBounds
  <2>5. playbackTimeAt(c) = 0 /\ playbackTimeAt(d) = 0 /\ ~d.playing
    BY <2>2, <2>4 DEF SameTime, SameState, playbackTimeAt
  <2> QED
    BY <2>2, <2>3, <2>4, <2>5 DEF Played, AtEnd, SameTime
<1>3. CASE count > 0
  <2>1. d = [synced EXCEPT !.timer = synced.playing]
    BY <1>0, <1>3 DEF play
  <2>2. c.index >= count => c.time = duration(c.flight)
    <3>1. c.index <= positionForPlaybackTime(c.flight, c.time)
      BY DEF CInv, Sound
    <3>2. /\ positionForPlaybackTime(c.flight, c.time) \in 0..count
          /\ c.time < duration(c.flight)
                => positionForPlaybackTime(c.flight, c.time) < count
      BY <1>0, PositionMonotone
    <3> QED
      BY <1>0, <3>1, <3>2
  <2>3. /\ placed \in Controllers /\ placed.flight = c.flight /\ placed.speed = c.speed
        /\ placed.index <= positionForPlaybackTime(c.flight, placed.time)
        /\ placed.time = IF c.index >= count THEN 0 ELSE c.time
    <3>1. CASE ~(c.index >= count)
      BY <1>0, <3>1 DEF CInv, Sound
    <3>2. CASE c.index >= count
      <4> DEFINE e == [c EXCEPT !.time = 0]
      <4>1. e \in Controllers /\ e.flight = c.flight /\ e.time = 0 /\ e.speed = c.speed
        BY <1>0 DEF Controllers
      <4> HIDE DEF e
      <4>2. /\ updatePosition(e, 0, FALSE) \in Controllers
            /\ updatePosition(e, 0, FALSE).index = 0
            /\ SameTime(e, updatePosition(e, 0, FALSE))
        <5>1. 0 \in 0..sampleCount(e.flight)
          BY <1>0, <4>1
        <5> QED
          BY <4>1, <5>1, UpdateKeeps
      <4>3. placed = updatePosition(e, 0, FALSE)
        BY <3>2 DEF e
      <4>5. /\ placed \in Controllers /\ placed.index = 0 /\ placed.flight = c.flight
            /\ placed.speed = c.speed /\ placed.time = 0
        BY <4>1, <4>2, <4>3 DEF SameTime
      <4> HIDE DEF placed
      <4>4. positionForPlaybackTime(c.flight, 0) \in 0..count
        BY <1>0, PositionMonotone
      <4> QED
        BY <1>0, <3>2, <4>4, <4>5
    <3> QED
      BY <3>1, <3>2
  <2> HIDE DEF placed
  <2>4. /\ going \in Controllers /\ going.playing /\ going.index = placed.index
        /\ going.flight = c.flight /\ going.speed = c.speed /\ going.time = placed.time
        /\ going.anchor = placed.time /\ going.elapsed = 0
    BY <2>3 DEF anchorPlayback, Controllers
  <2> HIDE DEF going
  <2>5. /\ begun \in Controllers /\ begun.playing /\ begun.index = placed.index
        /\ begun.flight = c.flight /\ begun.speed = c.speed /\ begun.time = placed.time
        /\ begun.anchor = placed.time /\ begun.elapsed = 0
    BY <2>4, EmitKeeps DEF SameTime, SameState
  <2> HIDE DEF begun
  <2>6. begun.elapsed * begun.speed = 0 /\ placed.time \in Nat /\ placed.time <= duration(c.flight)
    BY <1>0, <2>3, <2>5 DEF Controllers
  <2>7. Sound(begun) /\ playbackTimeAt(begun) = placed.time
    BY <1>0, <2>3, <2>5, <2>6 DEF Sound, playbackTimeAt, Lesser
  <2>8. /\ Sound(synced) /\ synced.flight = c.flight /\ synced.speed = c.speed
        /\ playbackTimeAt(synced) = placed.time /\ synced.time = placed.time
        /\ synced.playing => synced.time < duration(c.flight)
        /\ ~synced.playing => /\ synced.time = duration(c.flight)
                              /\ synced.index = sampleCount(c.flight)
    <3>1. Sound(begun) /\ begun.playing /\ begun.flight = c.flight /\ begun.speed = c.speed
          /\ playbackTimeAt(begun) = placed.time
      BY <2>5, <2>7
    <3> QED
      BY <3>1, SynchronizeKeeps
  <2> HIDE DEF synced
  <2>9. /\ d \in Controllers /\ d.timer = d.playing /\ d.playing = synced.playing
        /\ d.index = synced.index /\ SameTime(synced, d)
    BY <2>1, <2>8 DEF Sound, Controllers, SameTime
  <2>10. /\ d.flight = c.flight /\ d.speed = c.speed /\ d.time = placed.time
         /\ playbackTimeAt(d) = placed.time
    BY <2>8, <2>9 DEF SameTime, playbackTimeAt
  <2>13. Sound(d) /\ Served(d)
    BY <2>8, <2>9 DEF Sound, Served, SameTime
  <2>14. Rests(d)
    BY <2>8, <2>9, <2>10 DEF Rests
  <2>11. playbackTimeAt(c) = c.time
    BY DEF playbackTimeAt
  <2>15. d.playing <=> ~AtEnd(d)
    BY <1>0, <2>6, <2>8, <2>9, <2>10 DEF AtEnd
  <2>16. CASE c.index >= count
    <3>1. AtEnd(c) /\ playbackTimeAt(d) = 0
      BY <2>2, <2>3, <2>10, <2>11, <2>16 DEF AtEnd
    <3> QED
      BY <2>10, <2>13, <2>14, <2>15, <3>1 DEF CInv, Played
  <2>17. CASE ~(c.index >= count)
    <3>1. playbackTimeAt(d) = playbackTimeAt(c)
      BY <2>3, <2>10, <2>11, <2>17
    <3>2. AtEnd(c) => c.time = 0 \/ Shared(c.flight)
      BY <1>0, <2>11, <2>17 DEF AtEnd, CInv, Rests
    <3> QED
      BY <2>10, <2>11, <2>13, <2>14, <2>15, <3>1, <3>2 DEF CInv, Played
  <2> QED
    BY <2>16, <2>17
<1> QED
  BY <1>0, <1>1, <1>3

\* While real time passes only the place reached moves, by the speed.
LEMMA PassedKeeps ==
    ASSUME NEW c, CInv(c), TimeMatters(c), NEW d, d = Passed(c)
    PROVE  /\ CInv(d) /\ d.flight = c.flight /\ d.speed = c.speed /\ d.playing /\ c.playing
           /\ playbackTimeAt(d) = IF playbackTimeAt(c) + c.speed < duration(c.flight)
                                   THEN playbackTimeAt(c) + c.speed ELSE duration(c.flight)
<1>0. <<>> \in Seq(Signals)
  OBVIOUS
<1>1. /\ c.playing /\ playbackTimeAt(c) < duration(c.flight)
      /\ duration(c.flight) \in Nat /\ c.elapsed \in Nat /\ c.speed \in Nat /\ c.anchor \in Nat
      /\ c.time \in Nat
  BY TimelineBounds DEF TimeMatters, CInv, Sound, Controllers, Places
<1>2. /\ d \in Controllers /\ d.index = c.index /\ d.flight = c.flight /\ d.speed = c.speed
      /\ d.time = c.time /\ d.anchor = c.anchor /\ d.elapsed = c.elapsed + 1 /\ SameState(c, d)
  <2>1. c \in Controllers
    BY DEF CInv, Sound
  <2>2. d \in Controllers
    <3>1. [c EXCEPT !.elapsed = c.elapsed + 1] \in Controllers
      BY <1>1, <2>1 DEF Controllers
    <3> QED
      BY <1>0, <3>1 DEF Controllers, Passed
  <2> QED
    BY <2>1, <2>2 DEF Controllers, Passed, SameState
<1>3. /\ c.elapsed * c.speed \in Nat
      /\ d.elapsed * d.speed = c.elapsed * c.speed + c.speed
  BY <1>1, <1>2
<1>4. playbackTimeAt(c) = c.anchor + c.elapsed * c.speed
  BY <1>1, <1>3 DEF playbackTimeAt, Lesser
<1>5. playbackTimeAt(d) = Lesser(playbackTimeAt(c) + c.speed, duration(c.flight))
  BY <1>1, <1>2, <1>3, <1>4 DEF playbackTimeAt, SameState
<1>6. CInv(d)
  BY <1>1, <1>2, <1>3 DEF CInv, Sound, Served, Rests, SameState
<1> QED
  BY <1>1, <1>2, <1>3, <1>4, <1>5, <1>6 DEF Lesser, SameState

\* A tick of the timer is a synchronisation: it leaves it sound and where it was.
LEMMA TickKeeps ==
    ASSUME NEW c, CInv(c), NEW d, d = synchronizePlayback(c)
    PROVE  CInv(d) /\ Ticked(c, d)
<1>1. Sound(c) /\ Served(c) /\ Rests(c)
  BY DEF CInv
<1>2. /\ Sound(d) /\ d.flight = c.flight /\ d.speed = c.speed
      /\ d.time = playbackTimeAt(c) /\ playbackTimeAt(d) = playbackTimeAt(c)
      /\ d.playing => c.playing /\ d.timer = c.timer /\ d.time < duration(c.flight)
      /\ ~d.playing => \/ /\ d.time = duration(c.flight) /\ ~d.timer
                          /\ d.index = sampleCount(c.flight)
                       \/ d = c /\ ~c.playing
  BY <1>1, SynchronizeKeeps
<1>3. d.time \in Nat /\ duration(c.flight) \in Nat
  BY <1>1, <1>2, TimelineBounds DEF Sound, Controllers, Places
<1>4. Served(d)
  BY <1>1, <1>2 DEF Served
<1>5. Rests(d)
  BY <1>1, <1>2 DEF Rests
<1>6. d.playing <=> c.playing /\ ~AtEnd(c)
  BY <1>2, <1>3 DEF AtEnd
<1> QED
  BY <1>2, <1>4, <1>5, <1>6 DEF CInv, Ticked, Unmoved

-----------------------------------------------------------------------------
(* The composition. *)

\* The controller's answer to what happened, where a seek is within the flight.
Answered(c, d, why) ==
    \/ why.what = "clock" /\ TimeMatters(c) /\ d = Passed(c)
    \/ why.what = "tick" /\ Ticked(c, d)
    \/ why.what = "pause" /\ Paused(c, d)
    \/ why.what = "speed" /\ Paced(c, d, why.to)
    \/ why.what = "play" /\ ~c.playing /\ Played(c, d)
    \/ why.what = "stop" /\ Placed(c, d, c.flight, 0)
    \/ /\ why.what = "seek"
       /\ sampleCount(c.flight) > 0 /\ why.to \in 0..sampleCount(c.flight) =>
            Placed(c, d, c.flight, playbackTimeForPosition(c.flight, why.to))
    \/ why.what = "load" /\ d.flight \in Places
                         /\ Placed(c, d, d.flight, duration(d.flight))
    \/ why.what = "other" /\ d = c

\* What has been said does not matter to an answer.
LEMMA QuietAnswers ==
    ASSUME NEW c, CInv(c), NEW d, NEW time
    PROVE  /\ Ticked(Quiet(c), d) => Ticked(c, d)
           /\ Paused(Quiet(c), d) => Paused(c, d)
           /\ \A speed : Paced(Quiet(c), d, speed) => Paced(c, d, speed)
           /\ Played(Quiet(c), d) => Played(c, d)
           /\ \A f : Placed(Quiet(c), d, f, time) => Placed(c, d, f, time)
           /\ Quiet(c).flight = c.flight /\ Quiet(c).playing = c.playing
<1>1. /\ SameTime(c, Quiet(c)) /\ SameState(c, Quiet(c))
      /\ playbackTimeAt(Quiet(c)) = playbackTimeAt(c)
  BY QuietKeeps
<1>2. /\ Quiet(c).flight = c.flight /\ Quiet(c).speed = c.speed
      /\ Quiet(c).playing = c.playing
  BY <1>1 DEF SameTime, SameState
<1> HIDE DEF Quiet
<1>3. AtEnd(Quiet(c)) <=> AtEnd(c)
  BY <1>1, <1>2 DEF AtEnd
<1> QED
  BY <1>1, <1>2, <1>3 DEF Ticked, Paused, Paced, Played, Placed, Unmoved

\* The record says no more of the place after it is quiet.
LEMMA PlacedQuiet ==
    ASSUME NEW b, NEW c, CInv(c), NEW f, NEW time, Placed(b, c, f, time)
    PROVE  CInv(Quiet(c)) /\ Placed(b, Quiet(c), f, time)
BY QuietKeeps DEF Placed, SameTime, SameState

\* The controller answers the user's requests.
LEMMA ControlsAnswer ==
    ASSUME CInv(replay), UseControls
    PROVE  CInv(replay') /\ Answered(replay, replay', cause')
<1> DEFINE q == Quiet(replay)
           d == replay'
           k == cause'
<1>0. CInv(q) /\ q.flight = replay.flight /\ q.playing = replay.playing
  BY QuietKeeps, QuietAnswers
<1>1. \/ replay.playing /\ k = [what |-> "pause", to |-> 0] /\ d = pause(q)
      \/ ~replay.playing /\ k = [what |-> "play", to |-> 0] /\ d = play(q)
      \/ k = [what |-> "stop", to |-> 0] /\ d = stop(q)
      \/ \E asked \in AskedSpeeds :
            k = [what |-> "speed", to |-> normalizedSpeed(asked)] /\ d = setSpeed(q, asked)
      \/ \E trail \in 0..sampleCount(view.flight) :
            k = [what |-> "seek", to |-> trail] /\ d = setPosition(q, trail)
  BY DEF UseControls, Caused, CausedTo
<1>2. ASSUME NEW speed, Paced(q, d, speed) PROVE Paced(replay, d, speed)
  BY <1>2, QuietAnswers
<1>3. ASSUME NEW f, NEW time, Placed(q, d, f, time) PROVE Placed(replay, d, f, time)
  BY <1>3, QuietAnswers
<1>4. (Paused(q, d) => Paused(replay, d)) /\ (Played(q, d) => Played(replay, d))
  BY QuietAnswers
<1> HIDE DEF q, d, k
<1>5. CASE replay.playing /\ k = [what |-> "pause", to |-> 0] /\ d = pause(q)
  <2>1. CInv(d) /\ Paused(q, d)
    BY <1>0, <1>5, PauseKeeps
  <2> QED BY <1>4, <1>5, <2>1 DEF Answered, d, k
<1>6. CASE ~replay.playing /\ k = [what |-> "play", to |-> 0] /\ d = play(q)
  <2>1. CInv(d) /\ Played(q, d)
    BY <1>0, <1>6, PlayKeeps
  <2> QED BY <1>4, <1>6, <2>1 DEF Answered, d, k
<1>7. CASE k = [what |-> "stop", to |-> 0] /\ d = stop(q)
  <2>1. CInv(d) /\ Placed(q, d, q.flight, 0)
    BY <1>0, <1>7, StopKeeps
  <2> QED BY <1>0, <1>3, <1>7, <2>1 DEF Answered, d, k
<1>8. CASE \E asked \in AskedSpeeds :
              k = [what |-> "speed", to |-> normalizedSpeed(asked)] /\ d = setSpeed(q, asked)
  <2>1. PICK asked \in Int :
            k = [what |-> "speed", to |-> normalizedSpeed(asked)] /\ d = setSpeed(q, asked)
    BY <1>8, SpeedAssumption
  <2>2. CInv(d) /\ Paced(q, d, normalizedSpeed(asked))
    BY <1>0, <2>1, SetSpeedKeeps
  <2> QED BY <1>2, <2>1, <2>2 DEF Answered, d, k
<1>9. CASE \E trail \in 0..sampleCount(view.flight) :
              k = [what |-> "seek", to |-> trail] /\ d = setPosition(q, trail)
  <2>1. PICK trail \in Int : k = [what |-> "seek", to |-> trail] /\ d = setPosition(q, trail)
    BY <1>9
  <2>2. /\ CInv(d)
        /\ sampleCount(q.flight) > 0 /\ trail \in 0..sampleCount(q.flight) =>
              Placed(q, d, q.flight, playbackTimeForPosition(q.flight, trail))
    BY <1>0, <2>1, SetPositionKeeps
  <2> QED BY <1>0, <1>3, <2>1, <2>2 DEF Answered, d, k
<1> QED
  BY <1>1, <1>5, <1>6, <1>7, <1>8, <1>9

\* A step of the composition moves the controller as its cause demands.
LEMMA StepKeeps ==
    ASSUME CInv(replay), [ViewNext]_viewVars
    PROVE  /\ CInv(replay')
           /\ Answered(replay, replay', cause') \/ UNCHANGED <<replay, cause>>
<1> DEFINE q == Quiet(replay)
<1>0. CInv(q) /\ q.flight = replay.flight
  BY QuietKeeps, QuietAnswers
<1>1. \A f \in Flights : f \in Places
  BY DEF Places
<1> NoFlight \in Places
  BY DEF Places
<1>2. ASSUME NEW f, NEW time, Placed(q, replay', f, time) PROVE Placed(replay, replay', f, time)
  BY <1>2, QuietAnswers
<1>9. Ticked(q, replay') => Ticked(replay, replay')
  BY QuietAnswers
<1> HIDE DEF q
<1>3. ASSUME NEW f \in Flights, FlightLoaded(f)
      PROVE  CInv(replay') /\ Answered(replay, replay', cause')
  <2> DEFINE begun == setSession(q, f)
             said == Quiet(begun)
             ended == setPosition(said, sampleCount(f))
  <2>1. replay' = Quiet(ended) /\ cause'.what = "load"
    BY <1>3 DEF FlightLoaded, Caused, q
  <2>2. CInv(begun) /\ Placed(q, begun, f, 0)
    BY <1>0, <1>1, SetSessionKeeps
  <2> HIDE DEF begun
  <2>3. CInv(said) /\ Placed(q, said, f, 0)
    BY <2>2, PlacedQuiet
  <2>4. said.flight = f /\ sampleCount(f) > 0 /\ sampleCount(f) \in Int
        /\ sampleCount(f) \in 0..sampleCount(f)
    BY <2>3, <1>1, TimelineBounds, FlightAssumption DEF Placed
  <2>7. playbackTimeForPosition(f, sampleCount(f)) = duration(f)
    BY <2>4, FlightAssumption DEF playbackTimeForPosition
  <2> HIDE DEF said
  <2>5. CInv(ended) /\ Placed(said, ended, f, duration(f))
    BY <2>3, <2>4, <2>7, SetPositionKeeps
  <2>8. Placed(q, ended, f, duration(f))
    BY <2>3, <2>5 DEF Placed
  <2> HIDE DEF ended
  <2>6. CInv(Quiet(ended)) /\ Placed(q, Quiet(ended), f, duration(f))
    BY <2>5, <2>8, PlacedQuiet
  <2>9. CInv(replay') /\ Placed(replay, replay', f, duration(f))
    BY <1>2, <2>1, <2>6
  <2> QED
    BY <1>1, <2>1, <2>9 DEF Answered, Placed
<1>4. ASSUME NEW feeding, EndReplay(feeding)
      PROVE  CInv(replay') /\ Answered(replay, replay', cause')
  <2> DEFINE stopped == stop(q)
             said == Quiet(stopped)
             closed == setSession(said, NoFlight)
  <2>1. replay' = Quiet(closed) /\ cause'.what = "load"
    BY <1>4 DEF EndReplay, Caused, q
  <2>2. CInv(stopped) /\ Placed(q, stopped, q.flight, 0)
    BY <1>0, StopKeeps
  <2> HIDE DEF stopped
  <2>3. CInv(said) /\ Placed(q, said, q.flight, 0)
    BY <2>2, PlacedQuiet
  <2> HIDE DEF said
  <2>4. CInv(closed) /\ Placed(said, closed, NoFlight, 0)
    BY <2>3, SetSessionKeeps
  <2>5. Placed(q, closed, NoFlight, 0)
    BY <2>3, <2>4 DEF Placed
  <2> HIDE DEF closed
  <2>6. CInv(Quiet(closed)) /\ Placed(q, Quiet(closed), NoFlight, 0)
    BY <2>4, <2>5, PlacedQuiet
  <2>7. CInv(replay') /\ Placed(replay, replay', NoFlight, 0)
    BY <1>2, <2>1, <2>6
  <2> QED
    BY <2>1, <2>7 DEF Answered, Placed, duration
<1>6. ASSUME ReplayTick
      PROVE  CInv(replay') /\ Answered(replay, replay', cause')
  <2>1. replay' = synchronizePlayback(q) /\ cause'.what = "tick"
    BY <1>6 DEF ReplayTick, onTimerTick, Caused, q
  <2> QED
    BY <1>0, <1>9, <2>1, TickKeeps DEF Answered
<1>7. ASSUME TimePasses
      PROVE  CInv(replay') /\ Answered(replay, replay', cause')
  BY <1>7, PassedKeeps DEF TimePasses, ClockAdvances, Caused, Answered
<1>8. ASSUME Untold
      PROVE  CInv(replay') /\ Answered(replay, replay', cause')
  BY <1>8 DEF Untold, Caused, Answered
<1>10. CASE UNCHANGED viewVars
  BY <1>10 DEF viewVars
<1> QED
  BY <1>3, <1>4, <1>6, <1>7, <1>8, <1>10, ControlsAnswer
     DEF ViewNext, onClearFlightData, prepareLiveSession, LiveBatch, OpenDashboard,
         LeaveDashboard, ChooseView, Restyle, RenderTick, applyPendingReplayTelemetryStrip,
         PostedFlush

\* The controller is sound when the program starts.
LEMMA InitSound == ViewInit => CInv(replay)
<1> SUFFICES ASSUME ViewInit PROVE CInv(replay)
  OBVIOUS
<1>1. replay = Fresh
  BY DEF ViewInit, Init
<1>2. <<>> \in Seq(Signals)
  OBVIOUS
<1>3. Fresh \in Controllers
  BY <1>2, SpeedAssumption DEF Fresh, Controllers
<1> QED
  BY <1>1, <1>3, TimelineBounds
     DEF Fresh, CInv, Sound, Served, Rests, Places, duration, positionForPlaybackTime

\* What is sound has its type and a trail behind its head.
LEMMA SoundTrail == CInv(replay) => TypeOK /\ TrailBehindHead
  BY PlaybackTimeRange DEF CInv, Sound, Served, Controllers, TypeOK, TrailBehindHead

\* The trail never runs ahead of the time reached, and the timer runs exactly
\* while it plays (FlightReplayController::synchronizePlayback and its callers).
THEOREM TrailStaysBehindHead == ViewSpec => []TrailBehindHead
<1>1. ViewInit => CInv(replay)
  BY InitSound
<1>2. CInv(replay) /\ [ViewNext]_viewVars => CInv(replay)'
  BY StepKeeps
<1>3. CInv(replay) => TrailBehindHead
  BY SoundTrail
<1> QED
  BY <1>1, <1>2, <1>3, PTL DEF ViewSpec

-----------------------------------------------------------------------------
(* The signals of a method are delivered one after the other. *)

\* What holds of 0, and with a number of the next, holds of all numbers.
LEMMA EveryNumber ==
    ASSUME NEW T, 0 \in T, \A n \in Nat : n \in T => n + 1 \in T
    PROVE  Nat \subseteq T
<1> SUFFICES ASSUME Nat \ T # {} PROVE FALSE
    OBVIOUS
<1> DEFINE R == OpToRel(<, Nat)
<1>1. IsWellFoundedOn(R, Nat)
  BY NatLessThanWellFounded
<1>2. \A x, y \in Nat : y < x => <<y, x>> \in R
  BY DEF OpToRel
<1> HIDE DEF R
<1>3. PICK x \in Nat \ T : \A y \in Nat \ T : ~(<<y, x>> \in R)
  BY <1>1, WFMin
<1>4. x - 1 \in Nat /\ x - 1 < x /\ x = (x - 1) + 1
  BY <1>3
<1>5. x - 1 \in T
  BY <1>2, <1>3, <1>4
<1> QED BY <1>3, <1>4, <1>5

\* A set of places in a sequence has a last one.
LEMMA LastPlace ==
    ASSUME NEW n \in Nat, NEW a \in SUBSET (1..n), a # {}
    PROVE  Max(a) \in a /\ \A y \in a : y <= Max(a)
<1> DEFINE T == {k \in Nat : \A y \in a : y <= n - k}
<1>1. \E x \in a : \A y \in a : x >= y
  <2> SUFFICES ASSUME \A x \in a : \E y \in a : ~(x >= y) PROVE FALSE
      OBVIOUS
  <2>1. 0 \in T
    OBVIOUS
  <2>2. ASSUME NEW k \in Nat, k \in T PROVE k + 1 \in T
    <3>1. \A y \in a : y # n - k
      BY <2>2
    <3>2. \A y \in a : y <= n - (k + 1)
      BY <2>2, <3>1
    <3> QED BY <3>2
  <2>3. n \in T
    <3> HIDE DEF T
    <3> QED BY <2>1, <2>2, EveryNumber
  <2>4. PICK y \in a : TRUE
    OBVIOUS
  <2>5. y \in 1..n /\ y <= n - n
    BY <2>3, <2>4
  <2> QED BY <2>5
<1> QED BY <1>1 DEF Max

IsFold(h, v, s, D) ==
    h = [a \in D |-> IF a = {} THEN v ELSE Deliver(h[a \ {Max(a)}], s[Max(a)])]

\* Delivering a sequence of signals is well defined.
LEMMA FoldExists ==
    ASSUME NEW v, NEW s, NEW n \in Nat
    PROVE  \E h : IsFold(h, v, s, SUBSET (1..n))
<1> DEFINE Small(k) == {a \in SUBSET (1..n) : Cardinality(a) <= k}
           T == {k \in Nat : \E h : IsFold(h, v, s, Small(k))}
<1>0. \A a \in SUBSET (1..n) : /\ IsFiniteSet(a) /\ Cardinality(a) \in Nat
                              /\ Cardinality(a) <= n
                              /\ (Cardinality(a) = 0 <=> a = {})
  <2>1. IsFiniteSet(1..n) /\ Cardinality(1..n) = n
    BY FS_Interval
  <2> TAKE a \in SUBSET (1..n)
  <2>2. IsFiniteSet(a) /\ Cardinality(a) <= n
    BY <2>1, FS_Subset
  <2> QED BY <2>2, FS_CardinalityType, FS_EmptySet
<1>1. \A a \in SUBSET (1..n) : a # {} =>
          /\ a \ {Max(a)} \in SUBSET (1..n)
          /\ Cardinality(a \ {Max(a)}) = Cardinality(a) - 1
  <2> TAKE a \in SUBSET (1..n)
  <2> HAVE a # {}
  <2>1. Max(a) \in a
    BY LastPlace
  <2> QED BY <1>0, <2>1, FS_RemoveElement
<1>2. 0 \in T
  <2> DEFINE h == [a \in Small(0) |-> v]
  <2>1. \A a \in Small(0) : a = {}
    BY <1>0
  <2>2. h = [a \in Small(0) |-> IF a = {} THEN v ELSE Deliver(h[a \ {Max(a)}], s[Max(a)])]
    BY <2>1
  <2> QED BY <2>2 DEF IsFold
<1>3. ASSUME NEW k \in Nat, k \in T PROVE k + 1 \in T
  <2>1. PICK h : IsFold(h, v, s, Small(k))
    BY <1>3
  <2> DEFINE next(f, a) == IF a = {} THEN v ELSE Deliver(f[a \ {Max(a)}], s[Max(a)])
             g == [a \in Small(k + 1) |-> IF a \in Small(k) THEN h[a] ELSE next(h, a)]
  <2>2. \A a \in Small(k + 1) : a # {} => a \ {Max(a)} \in Small(k)
    BY <1>0, <1>1
  <2>3. \A a \in Small(k) : a \in Small(k + 1) /\ h[a] = next(h, a)
    <3>1. \A a \in Small(k) : h[a] = next(h, a)
      BY <2>1 DEF IsFold
    <3>2. \A a \in Small(k) : a \in Small(k + 1)
      <4> TAKE a \in Small(k)
      <4>1. a \in SUBSET (1..n) /\ Cardinality(a) \in Nat /\ Cardinality(a) <= k
        BY <1>0
      <4> QED BY <4>1
    <3> QED BY <3>1, <3>2
  <2> HIDE DEF Small
  <2>4. \A a \in Small(k + 1) : g[a] = next(h, a)
    BY <2>3
  <2>5. \A a \in Small(k + 1) : a # {} => g[a \ {Max(a)}] = h[a \ {Max(a)}]
    BY <2>2, <2>3
  <2>6. \A a \in Small(k + 1) : g[a] = next(g, a)
    BY <2>4, <2>5
  <2>7. g = [a \in Small(k + 1) |-> next(g, a)]
    BY <2>6
  <2> HIDE DEF g
  <2>8. IsFold(g, v, s, Small(k + 1))
    BY <2>7 DEF IsFold
  <2> QED BY <2>8
<1>4. n \in T
  <2> HIDE DEF T
  <2> QED BY <1>2, <1>3, EveryNumber
<1>5. Small(n) = SUBSET (1..n)
  BY <1>0
<1> QED BY <1>4, <1>5

FoldOf(h, v, s, n) == IsFold(h, v, s, SUBSET (1..n))

Alike(s, t, n) == \A i \in 1..n : s[i] = t[i]

\* What has been delivered does not depend on what is to come.
LEMMA FoldsAgree ==
    ASSUME NEW v, NEW s, NEW t, NEW n \in Nat, NEW m \in Nat, NEW g, NEW h,
           n <= m, Alike(s, t, n),
           FoldOf(g, v, s, n), FoldOf(h, v, t, m)
    PROVE  g[1..n] = h[1..n]
<1> DEFINE T == {j \in Nat : j <= n => g[1..j] = h[1..j]}
<1>0. \A j \in Nat : j > 0 => Max(1..j) = j /\ (1..j) \ {Max(1..j)} = 1..(j - 1)
  <2> SUFFICES ASSUME NEW j \in Nat, j > 0 PROVE Max(1..j) = j /\ (1..j) \ {j} = 1..(j - 1)
      OBVIOUS
  <2>1. 1..j \in SUBSET (1..j) /\ j \in 1..j
    OBVIOUS
  <2>2. Max(1..j) \in 1..j /\ \A y \in 1..j : y <= Max(1..j)
    BY <2>1, LastPlace
  <2>3. Max(1..j) = j
    BY <2>1, <2>2
  <2> QED BY <2>3
<1>1. 0 \in T
  <2>1. 1..0 = {} /\ {} \in SUBSET (1..n) /\ {} \in SUBSET (1..m)
    OBVIOUS
  <2> QED BY <2>1 DEF FoldOf, IsFold
<1>2. ASSUME NEW j \in Nat, j \in T PROVE j + 1 \in T
  <2> SUFFICES ASSUME j + 1 <= n PROVE g[1..(j + 1)] = h[1..(j + 1)]
      OBVIOUS
  <2> DEFINE a == 1..(j + 1)
  <2>1. a \in SUBSET (1..n) /\ a \in SUBSET (1..m) /\ a # {} /\ j + 1 \in 1..n
    <3>1. j + 1 \in 1..n /\ j + 1 \in a /\ \A i \in a : i \in 1..n /\ i \in 1..m
      OBVIOUS
    <3> QED BY <3>1
  <2>2. Max(a) = j + 1 /\ a \ {Max(a)} = 1..j
    BY <1>0
  <2> HIDE DEF a
  <2>3. g[a] = Deliver(g[1..j], s[j + 1]) /\ h[a] = Deliver(h[1..j], t[j + 1])
    BY <2>1, <2>2 DEF FoldOf, IsFold
  <2>4. g[1..j] = h[1..j]
    BY <1>2
  <2>5. s[j + 1] = t[j + 1]
    BY <2>1 DEF Alike
  <2> QED BY <2>3, <2>4, <2>5 DEF a
<1>3. n \in T
  <2> HIDE DEF T
  <2> QED BY <1>1, <1>2, EveryNumber
<1> QED BY <1>3

\* The definition of Told, as a function of the sets of places.
LEMMA ToldIsFold ==
    ASSUME NEW v, NEW c, c.out \in Seq(Signals)
    PROVE  \E h : IsFold(h, v, c.out, SUBSET (1..Len(c.out))) /\ Told(v, c) = h[1..Len(c.out)]
<1> DEFINE s == c.out
           fold == CHOOSE h : h = [a \in SUBSET DOMAIN s |->
                                      IF a = {} THEN v ELSE Deliver(h[a \ {Max(a)}], s[Max(a)])]
<1>1. DOMAIN s = 1..Len(s) /\ Len(s) \in Nat
  OBVIOUS
<1>2. Told(v, c) = fold[DOMAIN s]
  BY Zenon DEF Told, FoldLeft, MapThenFoldSet
<1>3. fold = CHOOSE h : IsFold(h, v, s, SUBSET DOMAIN s)
  BY DEF IsFold
<1>4. \E h : IsFold(h, v, s, SUBSET DOMAIN s)
  BY <1>1, FoldExists
<1> HIDE DEF s, fold
<1>5. IsFold(fold, v, s, SUBSET DOMAIN s)
  BY <1>3, <1>4
<1> QED BY <1>1, <1>2, <1>5 DEF s

\* Nothing said is nothing done.
LEMMA TellNothing ==
    ASSUME NEW v, NEW c, c.out = <<>>
    PROVE  Told(v, c) = v
<1>1. c.out \in Seq(Signals) /\ Len(c.out) = 0 /\ 1..0 = {}
  OBVIOUS
<1>2. PICK h : IsFold(h, v, c.out, SUBSET (1..Len(c.out))) /\ Told(v, c) = h[1..Len(c.out)]
  BY <1>1, ToldIsFold
<1>3. h = [a \in SUBSET (1..Len(c.out)) |->
              IF a = {} THEN v ELSE Deliver(h[a \ {Max(a)}], c.out[Max(a)])]
  BY <1>2 DEF IsFold
<1>4. {} \in SUBSET (1..Len(c.out))
  OBVIOUS
<1>5. h[{}] = v
  BY <1>3, <1>4, Zenon
<1> QED BY <1>1, <1>2, <1>5

\* One signal more is one slot more.
LEMMA TellOneMore ==
    ASSUME NEW v, NEW c, c.out \in Seq(Signals), NEW e \in Signals,
           NEW d, d.out = Append(c.out, e)
    PROVE  Told(v, d) = Deliver(Told(v, c), e)
<1> DEFINE n == Len(c.out)
<1> DEFINE s == c.out
           t == d.out
<1>1. /\ t \in Seq(Signals) /\ n \in Nat /\ Len(t) = n + 1
      /\ t[n + 1] = e /\ \A i \in 1..n : s[i] = t[i]
  OBVIOUS
<1>2. PICK g : IsFold(g, v, s, SUBSET (1..n)) /\ Told(v, c) = g[1..n]
  BY ToldIsFold
<1>3. PICK h : IsFold(h, v, t, SUBSET (1..(n + 1))) /\ Told(v, d) = h[1..(n + 1)]
  BY <1>1, ToldIsFold
<1> HIDE DEF n, s, t
<1>4. g[1..n] = h[1..n]
  <2> DEFINE m == n + 1
  <2>1. n \in Nat /\ m \in Nat /\ n <= m
    BY <1>1
  <2>2. Alike(s, t, n)
    BY <1>1 DEF Alike
  <2>3. FoldOf(g, v, s, n) /\ FoldOf(h, v, t, m)
    BY <1>2, <1>3 DEF FoldOf
  <2> HIDE DEF m
  <2> QED BY <2>1, <2>2, <2>3, FoldsAgree
<1> DEFINE a == 1..(n + 1)
<1>5. a \in SUBSET (1..(n + 1)) /\ a # {} /\ Max(a) = n + 1 /\ a \ {Max(a)} = 1..n
  <2>1. n + 1 \in Nat /\ n + 1 \in a /\ a \in SUBSET (1..(n + 1))
    BY <1>1
  <2>2. a # {}
    BY <2>1
  <2> HIDE DEF a
  <2>3. Max(a) \in a /\ \A y \in a : y <= Max(a)
    BY <2>1, <2>2, LastPlace
  <2> USE DEF a
  <2>4. Max(a) = n + 1
    BY <1>1, <2>1, <2>3
  <2> QED BY <1>1, <2>1, <2>4
<1> HIDE DEF a
<1>6. h[a] = Deliver(h[1..n], t[n + 1])
  BY <1>3, <1>5 DEF IsFold
<1> QED BY <1>1, <1>2, <1>3, <1>4, <1>6 DEF a

\* Who says the same tells the same.
LEMMA TellSame ==
    ASSUME NEW v, NEW c, NEW d, d.out = c.out
    PROVE  Told(v, d) = Told(v, c)
BY Zenon DEF Told

-----------------------------------------------------------------------------
(* The record of the widgets, and what of it a slot leaves alone. *)

ViewFields ==
    {"replayMode", "loaded", "feeding", "visible", "stack", "flight", "live", "trail", "built",
     "bucket", "look", "replayDirty", "liveDirty", "renderTimer", "drawn", "posted", "slider",
     "activity", "pill", "shown", "pending", "stripTimer"}

IsView(v) == DOMAIN v = ViewFields

\* What the scheduler of the chart leaves alone.
SameMode(v, w) ==
    /\ w.replayMode = v.replayMode /\ w.loaded = v.loaded /\ w.feeding = v.feeding
    /\ w.visible = v.visible /\ w.posted = v.posted
SamePlace(v, w) ==
    /\ w.flight = v.flight /\ w.trail = v.trail /\ w.live = v.live /\ w.look = v.look
    /\ w.slider = v.slider
SameBar(v, w) == w.activity = v.activity /\ w.pill = v.pill
SameStrip(v, w) ==
    w.shown = v.shown /\ w.pending = v.pending /\ w.stripTimer = v.stripTimer

SameView(v, w) ==
    SameMode(v, w) /\ SamePlace(v, w) /\ SameBar(v, w) /\ SameStrip(v, w) /\ w.stack = v.stack

SameChart(v, w) ==
    /\ w.built = v.built /\ w.bucket = v.bucket /\ w.drawn = v.drawn
    /\ w.replayDirty = v.replayDirty /\ w.liveDirty = v.liveDirty

-----------------------------------------------------------------------------
(* The chart. *)

ChartOf(f, trail, look) ==
    IF trail = 0 THEN Blank ELSE [flight |-> f, trail |-> trail, look |-> look]

\* A view of a replay.
Session(v) ==
    /\ IsView(v) /\ v.replayMode /\ ~v.feeding /\ v.posted \in Nat
    /\ v.flight \in Flights /\ v.loaded = v.flight
    /\ v.trail \in 0..sampleCount(v.flight)

\* A chart that is not marked shows the samples it was built of, and those of
\* the trail fall into the same bucket.
Charted(v) ==
    ~v.replayDirty =>
        /\ v.drawn = ChartOf(v.flight, v.built, v.look)
        /\ v.bucket = replayBucket(v.flight, v.built)
        /\ v.bucket = replayBucket(v.flight, v.trail)

\* One that is marked, and in view, is going to be redrawn.
Awaited(v) == graphViewIsActive(v) /\ v.replayDirty => v.renderTimer

\* The chart shows the trail, or is marked.
Settled(v) == v.replayDirty \/ v.built = v.trail

\* The same of live samples.
Lively(v) == v.liveDirty \/ v.drawn = ChartOf(NoFlight, v.live, v.look)
LiveAwaited(v) == graphViewIsActive(v) /\ v.liveDirty => v.renderTimer

\* The scheduler only starts or stops its timer.
LEMMA ScheduleKeeps ==
    ASSUME NEW v, IsView(v), NEW w, w = scheduleRenderPass(v)
    PROVE  /\ IsView(w) /\ SameView(v, w) /\ SameChart(v, w)
           /\ w.renderTimer <=> graphViewIsActive(v) /\ Dirty(v)
<1> DEFINE b == graphViewIsActive(v) /\ Dirty(v)
<1>1. w = [v EXCEPT !.renderTimer = b]
  BY DEF scheduleRenderPass
<1> HIDE DEF b
<1>2. IsView(w) /\ SameView(v, w) /\ SameChart(v, w) /\ w.renderTimer = b
  BY <1>1 DEF IsView, ViewFields, SameView, SameMode, SamePlace, SameBar, SameStrip, SameChart
<1> QED BY <1>2 DEF b

Redrawn(v, built, bucket, drawn) ==
    [v EXCEPT !.built = built, !.bucket = bucket, !.drawn = drawn]

\* A chart that is redrawn is nothing but drawn.
LEMMA DrawKeeps ==
    ASSUME NEW v, IsView(v), NEW built, NEW bucket, NEW drawn,
           NEW w, w = Redrawn(v, built, bucket, drawn)
    PROVE  /\ IsView(w) /\ SameView(v, w)
           /\ w.replayDirty = v.replayDirty /\ w.liveDirty = v.liveDirty
           /\ w.built = built /\ w.bucket = bucket /\ w.drawn = drawn
<1>1. IsView(w)
  BY DEF IsView, Redrawn
<1>2. SameView(v, w)
  BY DEF IsView, ViewFields, Redrawn, SameView, SameMode, SamePlace, SameBar, SameStrip
<1>3. /\ w.replayDirty = v.replayDirty /\ w.liveDirty = v.liveDirty
      /\ w.built = built /\ w.bucket = bucket /\ w.drawn = drawn
  BY DEF IsView, ViewFields, Redrawn
<1> QED BY <1>1, <1>2, <1>3

\* A redraw of a replay shows its trail.
LEMMA ReplayRendered ==
    ASSUME NEW v, IsView(v), v.replayMode, NEW w, w = Rendered(v)
    PROVE  /\ IsView(w) /\ SameView(v, w) /\ ~w.replayDirty /\ w.liveDirty = v.liveDirty
           /\ Session(v) => w.built = w.trail /\ Charted(w)
<1> DEFINE e == [v EXCEPT !.replayDirty = FALSE]
           end == Lesser(e.trail, sampleCount(e.flight))
           bucket == replayBucket(e.flight, end)
           drawn == [flight |-> e.flight, trail |-> end, look |-> e.look]
<1>1. /\ IsView(e) /\ SameView(v, e) /\ ~e.replayDirty /\ e.liveDirty = v.liveDirty
  BY DEF IsView, ViewFields, SameView, SameMode, SamePlace, SameBar, SameStrip
<1>2. w = IF end <= 0 THEN [e EXCEPT !.built = 0, !.bucket = 0, !.drawn = Blank]
          ELSE [e EXCEPT !.built = end, !.bucket = bucket, !.drawn = drawn]
  BY DEF Rendered, rebuildReplayCharts
<1>3. Session(v) => /\ e.flight \in Flights /\ e.trail \in Nat /\ end = e.trail
                    /\ sampleCount(e.flight) \in Nat
  <2> SUFFICES ASSUME Session(v)
               PROVE  /\ e.flight \in Flights /\ e.trail \in Nat /\ end = e.trail
                      /\ sampleCount(e.flight) \in Nat
      OBVIOUS
  <2>1. /\ e.flight \in Flights /\ e.trail \in 0..sampleCount(e.flight)
    BY <1>1 DEF Session, SameView, SamePlace
  <2>2. sampleCount(e.flight) \in Nat
    BY <2>1, TimelineBounds DEF Places
  <2> QED BY <2>1, <2>2 DEF Lesser
<1>4. drawn = [flight |-> e.flight, trail |-> end, look |-> e.look]
  OBVIOUS
<1>5. e.flight \in Flights /\ end = 0 => replayBucket(e.flight, end) = 0
  BY TimelineBounds, ViewAssumption DEF replayBucket, Clamped, Greater, Lesser, Places
<1>6. bucket = replayBucket(e.flight, end)
  OBVIOUS
<1> HIDE DEF e, end, bucket, drawn
<1>7. /\ IsView(w) /\ SameView(e, w) /\ w.replayDirty = e.replayDirty
      /\ w.liveDirty = e.liveDirty
      /\ IF end <= 0 THEN w.built = 0 /\ w.bucket = 0 /\ w.drawn = Blank
         ELSE w.built = end /\ w.bucket = bucket /\ w.drawn = drawn
  <2>1. CASE end <= 0
    <3>1. w = Redrawn(e, 0, 0, Blank)
      BY <1>2, <2>1 DEF Redrawn
    <3> QED BY <1>1, <2>1, <3>1, DrawKeeps
  <2>2. CASE ~(end <= 0)
    <3>1. w = Redrawn(e, end, bucket, drawn)
      BY <1>2, <2>2 DEF Redrawn
    <3> QED BY <1>1, <2>2, <3>1, DrawKeeps
  <2> QED BY <2>1, <2>2
<1>8. IsView(w) /\ SameView(v, w) /\ ~w.replayDirty /\ w.liveDirty = v.liveDirty
  BY <1>1, <1>7 DEF SameView, SameMode, SamePlace, SameBar, SameStrip
<1>9. ASSUME Session(v) PROVE w.built = w.trail /\ Charted(w)
  <2>1. w.built = end /\ w.trail = end /\ w.flight = e.flight /\ w.look = e.look
        /\ end \in Nat /\ e.flight \in Flights
    BY <1>3, <1>7, <1>9 DEF SameView, SamePlace
  <2>2. CASE end = 0
    BY <1>5, <1>7, <2>1, <2>2 DEF Charted, ChartOf
  <2>3. CASE end # 0
    BY <1>4, <1>6, <1>7, <2>1, <2>3 DEF Charted, ChartOf
  <2> QED BY <2>1, <2>2, <2>3
<1> QED BY <1>8, <1>9

\* A redraw of live samples shows them all.
LEMMA LiveRendered ==
    ASSUME NEW v, IsView(v), ~v.replayMode, NEW w, w = Rendered(v)
    PROVE  /\ IsView(w) /\ SameView(v, w) /\ ~w.liveDirty /\ Lively(w)
<1> DEFINE e == [v EXCEPT !.liveDirty = FALSE]
           drawn == ChartOf(NoFlight, e.live, e.look)
<1>1. IsView(e) /\ SameView(v, e) /\ ~e.liveDirty
  BY DEF IsView, ViewFields, SameView, SameMode, SamePlace, SameBar, SameStrip
<1>2. w = [e EXCEPT !.drawn = drawn]
  BY DEF Rendered, rebuildLiveSeriesFromHistory, ChartOf
<1>3. drawn = ChartOf(NoFlight, e.live, e.look)
  OBVIOUS
<1> HIDE DEF e, drawn
<1>4. IsView(w) /\ SameView(e, w) /\ w.liveDirty = e.liveDirty /\ w.drawn = drawn
  BY <1>1, <1>2 DEF IsView, ViewFields, SameView, SameMode, SamePlace, SameBar, SameStrip
<1> QED BY <1>1, <1>3, <1>4
           DEF Lively, SameView, SameMode, SamePlace, SameBar, SameStrip

\* A pass of the scheduler: what is marked and in view is redrawn or still awaited.
LEMMA ProcessKeeps ==
    ASSUME NEW v, IsView(v), NEW due \in BOOLEAN, NEW w, w = processScheduledUpdates(v, due)
    PROVE  /\ IsView(w) /\ SameView(v, w)
           /\ Session(v) /\ Charted(v) => Session(w) /\ Charted(w) /\ Awaited(w)
           /\ Session(v) /\ Charted(v) /\ Settled(v) => Settled(w)
           /\ ~v.replayMode /\ Lively(v) => Lively(w) /\ LiveAwaited(w)
           /\ ~v.replayMode /\ ~v.liveDirty => SameChart(v, w)
<1> DEFINE drawn == Rendered(v)
<1>1. CASE ~v.visible
  <2>1. w = [v EXCEPT !.renderTimer = FALSE]
    BY <1>1 DEF processScheduledUpdates
  <2>2. IsView(w) /\ SameView(v, w) /\ SameChart(v, w)
    BY <2>1 DEF IsView, ViewFields, SameView, SameMode, SamePlace, SameBar, SameStrip, SameChart
  <2>3. ~graphViewIsActive(w)
    BY <1>1, <2>2 DEF graphViewIsActive, SameView, SameMode
  <2> QED
    BY <2>2, <2>3
       DEF SameView, SameMode, SamePlace, SameChart, Session, Charted, Awaited, Settled,
           Lively, LiveAwaited
<1>2. CASE v.visible /\ v.stack = "graph" /\ Dirty(v) /\ due
  <2>1. w = scheduleRenderPass(drawn)
    BY <1>2 DEF processScheduledUpdates
  <2>2. CASE v.replayMode
    <3>1. /\ IsView(drawn) /\ SameView(v, drawn) /\ ~drawn.replayDirty
          /\ Session(v) => drawn.built = drawn.trail /\ Charted(drawn)
      BY <2>2, ReplayRendered
    <3> HIDE DEF drawn
    <3>2. IsView(w) /\ SameView(drawn, w) /\ SameChart(drawn, w)
      BY <2>1, <3>1, ScheduleKeeps
    <3>3. SameView(v, w)
      BY <3>1, <3>2 DEF SameView, SameMode, SamePlace, SameBar, SameStrip
    <3>4. ~w.replayDirty /\ (Session(v) => w.built = w.trail /\ Charted(w))
      BY <3>1, <3>2 DEF SameView, SamePlace, SameChart, Charted
    <3>5. Session(v) => Session(w)
      BY <3>2, <3>3 DEF Session, SameView, SameMode, SamePlace
    <3> QED
      BY <2>2, <3>2, <3>3, <3>4, <3>5 DEF Awaited, Settled
  <2>3. CASE ~v.replayMode
    <3>1. IsView(drawn) /\ SameView(v, drawn) /\ ~drawn.liveDirty /\ Lively(drawn)
      BY <2>3, LiveRendered
    <3> HIDE DEF drawn
    <3>2. IsView(w) /\ SameView(drawn, w) /\ SameChart(drawn, w)
      BY <2>1, <3>1, ScheduleKeeps
    <3>3. SameView(v, w)
      BY <3>1, <3>2 DEF SameView, SameMode, SamePlace, SameBar, SameStrip
    <3>4. ~w.liveDirty /\ Lively(w)
      BY <3>1, <3>2 DEF SameView, SamePlace, SameChart, Lively
    <3> QED
      BY <1>2, <2>3, <3>2, <3>3, <3>4 DEF LiveAwaited, Session, Dirty
  <2> QED BY <2>2, <2>3
<1>3. CASE v.visible /\ ~(v.stack = "graph" /\ Dirty(v) /\ due)
  <2>1. w = scheduleRenderPass(v)
    BY <1>3 DEF processScheduledUpdates
  <2>2. /\ IsView(w) /\ SameView(v, w) /\ SameChart(v, w)
        /\ w.renderTimer <=> graphViewIsActive(v) /\ Dirty(v)
    BY <2>1, ScheduleKeeps
  <2>3. /\ graphViewIsActive(w) = graphViewIsActive(v)
        /\ Session(v) => (w.replayDirty <=> Dirty(v))
        /\ ~v.replayMode => (w.liveDirty <=> Dirty(v))
    BY <2>2 DEF graphViewIsActive, SameView, SameMode, SameChart, Dirty, Session
  <2>4. Session(v) /\ Charted(v) => Session(w) /\ Charted(w) /\ Awaited(w)
    BY <2>2, <2>3 DEF SameView, SameMode, SamePlace, SameChart, Session, Charted, Awaited
  <2>5. Settled(v) => Settled(w)
    BY <2>2 DEF SameView, SamePlace, SameChart, Settled
  <2>6. ~v.replayMode /\ Lively(v) => Lively(w) /\ LiveAwaited(w)
    BY <2>2, <2>3 DEF SameView, SamePlace, SameChart, Lively, LiveAwaited
  <2> QED BY <2>2, <2>4, <2>5, <2>6 DEF SameChart, Settled
<1> QED BY <1>1, <1>2, <1>3

SampleAt(f, index) == IF index = 0 THEN NoSample ELSE <<f, index>>

\* The strip shows the last sample of the trail, or will when its timer fires.
StripRight(v, playing) ==
    v.visible => \/ v.shown = SampleAt(v.flight, v.trail)
                 \/ playing /\ v.stripTimer /\ v.pending = v.trail

\* What the timer of the strip will show.
Pended(v) == v.stripTimer => v.pending = v.trail /\ v.trail > 0

PillRight(v, playing) == v.pill = "playing" <=> playing

\* The chart shows the trail, or a flush is queued that will see to it.
Caught(v) == Settled(v) \/ v.posted > 0

Shown(v) == Session(v) /\ Charted(v) /\ Awaited(v)

SameHost(v, w) ==
    /\ w.replayMode = v.replayMode /\ w.loaded = v.loaded /\ w.feeding = v.feeding
    /\ w.visible = v.visible

\* The session and the trail are those of the host, the place and the flight.
LEMMA SessionMoves ==
    ASSUME NEW v, NEW w, Session(v), IsView(w), SameMode(v, w), w.flight = v.flight,
           w.trail \in 0..sampleCount(v.flight)
    PROVE  Session(w)
BY DEF Session, SameMode

\* A sample on the strip brings the graph up where there was nothing to show.
LEMMA SampleKeeps ==
    ASSUME NEW v, IsView(v), NEW sample, NEW w, w = setDisplayedSample(v, sample)
    PROVE  /\ IsView(w) /\ SameMode(v, w) /\ SamePlace(v, w) /\ SameBar(v, w)
           /\ w.shown = sample /\ w.pending = v.pending /\ w.stripTimer = v.stripTimer
           /\ Shown(v) => Shown(w) /\ (Settled(v) => Settled(w))
           /\ ~v.replayMode /\ Lively(v) => Lively(w) /\ (LiveAwaited(v) => LiveAwaited(w))
<1> DEFINE told == [v EXCEPT !.shown = sample]
           risen == [told EXCEPT !.stack = "graph"]
<1>1. /\ IsView(told) /\ SameMode(v, told) /\ SamePlace(v, told) /\ SameBar(v, told)
      /\ SameChart(v, told) /\ told.stack = v.stack /\ told.renderTimer = v.renderTimer
      /\ told.shown = sample /\ told.pending = v.pending /\ told.stripTimer = v.stripTimer
  BY DEF IsView, ViewFields, SameMode, SamePlace, SameBar, SameChart
<1> HIDE DEF told
<1>2. /\ IsView(risen) /\ SameMode(told, risen) /\ SamePlace(told, risen) /\ SameBar(told, risen)
      /\ SameChart(told, risen) /\ risen.shown = told.shown
      /\ risen.pending = told.pending /\ risen.stripTimer = told.stripTimer
  BY <1>1 DEF IsView, ViewFields, SameMode, SamePlace, SameBar, SameChart
<1>3. CASE v.stack = "empty"
  <2>1. w = processScheduledUpdates(risen, TRUE)
    BY <1>3 DEF setDisplayedSample, told
  <2> HIDE DEF risen
  <2>2. /\ IsView(w) /\ SameView(risen, w)
        /\ Session(risen) /\ Charted(risen) =>
              Session(w) /\ Charted(w) /\ Awaited(w)
        /\ Session(risen) /\ Charted(risen) /\ Settled(risen) => Settled(w)
        /\ ~risen.replayMode /\ Lively(risen) => Lively(w) /\ LiveAwaited(w)
    BY <1>2, <2>1, ProcessKeeps
  <2>3. Shown(v) => Session(risen) /\ Charted(risen) /\ (Settled(v) => Settled(risen))
    BY <1>1, <1>2
       DEF Shown, Session, Charted, Settled, SameMode, SamePlace, SameChart
  <2>4. (Lively(v) => Lively(risen)) /\ risen.replayMode = v.replayMode
    BY <1>1, <1>2 DEF Lively, SameMode, SamePlace, SameChart
  <2>5. SameMode(v, w) /\ SamePlace(v, w) /\ SameBar(v, w)
    BY <1>1, <1>2, <2>2 DEF SameView, SameMode, SamePlace, SameBar
  <2>6. w.shown = sample /\ w.pending = v.pending /\ w.stripTimer = v.stripTimer
    BY <1>1, <1>2, <2>2 DEF SameView, SameStrip
  <2> QED BY <2>2, <2>3, <2>4, <2>5, <2>6 DEF Shown
<1>4. CASE v.stack # "empty"
  <2>1. w = told
    BY <1>4 DEF setDisplayedSample, told
  <2>2. Shown(v) => Shown(w) /\ (Settled(v) => Settled(w))
    BY <1>1, <2>1
       DEF Shown, Session, Charted, Awaited, Settled, SameMode, SamePlace, SameChart,
           graphViewIsActive
  <2>3. Lively(v) => Lively(w) /\ (LiveAwaited(v) => LiveAwaited(w))
    BY <1>1, <2>1
       DEF Lively, LiveAwaited, SameMode, SamePlace, SameChart, graphViewIsActive
  <2> QED BY <1>1, <2>1, <2>2, <2>3
<1> QED BY <1>3, <1>4

\* The same of a sample of the flight that is loaded, if it has that one.
LEMMA ReplaySampleKeeps ==
    ASSUME NEW v, IsView(v), NEW trail, NEW w, w = applyReplayTelemetrySample(v, trail)
    PROVE  /\ IsView(w) /\ SameMode(v, w) /\ SamePlace(v, w) /\ SameBar(v, w)
           /\ w.pending = v.pending /\ w.stripTimer = v.stripTimer
           /\ w.shown = IF trail \in 1..sampleCount(v.loaded) THEN <<v.loaded, trail>> ELSE v.shown
           /\ Shown(v) => Shown(w) /\ (Settled(v) => Settled(w))
           /\ ~v.replayMode /\ Lively(v) => Lively(w) /\ (LiveAwaited(v) => LiveAwaited(w))
<1>1. CASE trail \in 1..sampleCount(v.loaded)
  <2> DEFINE sample == <<v.loaded, trail>>
  <2>1. w = setDisplayedSample(v, sample)
    BY <1>1 DEF applyReplayTelemetrySample
  <2>2. sample = <<v.loaded, trail>>
    OBVIOUS
  <2> HIDE DEF sample
  <2> QED BY <1>1, <2>1, <2>2, SampleKeeps
<1>2. CASE ~(trail \in 1..sampleCount(v.loaded))
  BY <1>2 DEF applyReplayTelemetrySample, SameMode, SamePlace, SameBar
<1> QED BY <1>1, <1>2

\* A chart that is marked is only marked.
LEMMA MarkKeeps ==
    ASSUME NEW v, IsView(v), NEW w, w = [v EXCEPT !.replayDirty = TRUE]
    PROVE  /\ IsView(w) /\ SameView(v, w) /\ w.replayDirty /\ w.built = v.built
           /\ w.liveDirty = v.liveDirty /\ w.drawn = v.drawn
           /\ w.renderTimer = v.renderTimer
           /\ Session(v) => Session(w) /\ Charted(w) /\ Settled(w)
<1>1. /\ IsView(w) /\ SameView(v, w) /\ w.replayDirty /\ w.built = v.built
      /\ w.liveDirty = v.liveDirty /\ w.drawn = v.drawn
      /\ w.renderTimer = v.renderTimer
  BY DEF IsView, ViewFields, SameView, SameMode, SamePlace, SameBar, SameStrip
<1> QED BY <1>1 DEF Session, Charted, Settled, SameView, SameMode, SamePlace

\* A flush draws what a halted replay has not drawn yet.
LEMMA FlushKeeps ==
    ASSUME NEW v, IsView(v), NEW playing \in BOOLEAN,
           NEW w, w = flushReplayChartRebuild(v, playing)
    PROVE  /\ IsView(w) /\ SameView(v, w)
           /\ Shown(v) => Shown(w) /\ (Settled(v) \/ ~playing => Settled(w))
           /\ ~v.replayMode => w = v
<1> DEFINE skip == playing \/ ~v.replayMode \/ (~v.replayDirty /\ v.built = v.trail)
           marked == [v EXCEPT !.replayDirty = TRUE]
<1>1. CASE skip
  <2>1. w = v
    BY <1>1 DEF flushReplayChartRebuild
  <2>2. SameView(v, v)
    BY DEF SameView, SameMode, SamePlace, SameBar, SameStrip
  <2> QED BY <1>1, <2>1, <2>2 DEF Shown, Session, Settled
<1>2. CASE ~skip
  <2>1. w = processScheduledUpdates(marked, TRUE) /\ v.replayMode
    BY <1>2 DEF flushReplayChartRebuild
  <2>2. /\ IsView(marked) /\ SameView(v, marked) /\ marked.replayDirty
        /\ Session(v) => Session(marked) /\ Charted(marked) /\ Settled(marked)
    BY MarkKeeps
  <2> HIDE DEF marked
  <2>3. /\ IsView(w) /\ SameView(marked, w)
        /\ Session(marked) /\ Charted(marked) =>
              Session(w) /\ Charted(w) /\ Awaited(w)
        /\ Session(marked) /\ Charted(marked) /\ Settled(marked) => Settled(w)
    BY <2>1, <2>2, ProcessKeeps
  <2>4. SameView(v, w)
    BY <2>2, <2>3 DEF SameView, SameMode, SamePlace, SameBar, SameStrip
  <2> QED BY <2>1, <2>2, <2>3, <2>4 DEF Shown
<1> QED BY <1>1, <1>2

\* What every slot leaves alone, and a number it leaves a number.
Hosted(v, w) == IsView(w) /\ SameHost(v, w) /\ w.posted \in Nat

\* A new trail of the page, whose chart is marked unless it shows the same samples.
LEMMA PlaceKeeps ==
    ASSUME NEW v, IsView(v), NEW trail, NEW playing \in BOOLEAN,
           NEW w, w = applyReplayControllerPosition(v, trail, playing)
    PROVE  /\ IsView(w) /\ SameMode(v, w) /\ SameBar(v, w) /\ SameStrip(v, w)
           /\ w.flight = v.flight /\ w.slider = v.slider
           /\ Session(v) /\ Charted(v) /\ trail \in 0..sampleCount(v.flight) =>
                 w.trail = trail /\ Shown(w) /\ (playing \/ Settled(w))
<1> DEFINE moved == [v EXCEPT !.trail = trail]
           bucket == replayBucket(v.flight, trail)
           known == v.flight # NoFlight
           dirty == moved.replayDirty \/ ~graphViewIsActive(v)
           noted == [moved EXCEPT !.replayDirty = dirty]
           found == IF known THEN bucket ELSE moved.bucket
           next == [moved EXCEPT !.bucket = found]
           marked == [next EXCEPT !.replayDirty = TRUE]
           redirtied == [moved EXCEPT !.replayDirty = TRUE]
           same == known /\ bucket = v.bucket
<1>1. /\ IsView(moved) /\ SameMode(v, moved) /\ SameBar(v, moved) /\ SameStrip(v, moved)
      /\ moved.flight = v.flight /\ moved.slider = v.slider /\ moved.look = v.look
      /\ moved.stack = v.stack /\ moved.trail = trail /\ SameChart(v, moved)
  BY DEF IsView, ViewFields, SameMode, SameBar, SameStrip, SameChart
<1>2. \/ playing /\ same /\ w = scheduleRenderPass(noted)
      \/ playing /\ ~same /\ w = scheduleRenderPass(marked)
      \/ ~playing /\ ~v.replayMode /\ w = moved
      \/ ~playing /\ v.replayMode /\ trail = v.built /\ w = scheduleRenderPass(moved)
      \/ ~playing /\ v.replayMode /\ trail # v.built /\ w = scheduleRenderPass(redirtied)
  BY DEF applyReplayControllerPosition, scheduleReplayChartRebuild
<1>11. dirty = (moved.replayDirty \/ ~graphViewIsActive(v))
  OBVIOUS
<1>12. found = IF known THEN bucket ELSE moved.bucket
  OBVIOUS
<1> DEFINE Like(x) == /\ IsView(x) /\ SameMode(v, x) /\ SameBar(v, x) /\ SameStrip(v, x)
                      /\ x.flight = v.flight /\ x.slider = v.slider /\ x.look = v.look
                      /\ x.stack = v.stack /\ x.trail = trail
                      /\ x.built = v.built /\ x.drawn = v.drawn
<1> HIDE DEF moved, dirty, found, bucket
<1>3. Like(moved) /\ moved.bucket = v.bucket /\ moved.replayDirty = v.replayDirty
  BY <1>1 DEF SameChart
<1>4. Like(noted) /\ noted.bucket = v.bucket /\ noted.replayDirty = dirty
  BY <1>3 DEF IsView, ViewFields, SameMode, SameBar, SameStrip
<1>5. Like(next)
  BY <1>3 DEF IsView, ViewFields, SameMode, SameBar, SameStrip
<1> HIDE DEF next, noted
<1>6. Like(marked) /\ marked.replayDirty
  BY <1>5 DEF IsView, ViewFields, SameMode, SameBar, SameStrip
<1>7. Like(redirtied) /\ redirtied.replayDirty
  BY <1>3 DEF IsView, ViewFields, SameMode, SameBar, SameStrip
<1> HIDE DEF marked, redirtied
<1> DEFINE Apt(x) == /\ Session(x) /\ Charted(x) /\ (playing \/ Settled(x))
<1>8. ASSUME NEW x, Like(x), w = scheduleRenderPass(x),
             Session(v) /\ Charted(v) /\ trail \in 0..sampleCount(v.flight) => Apt(x)
      PROVE  /\ Like(w)
             /\ Session(v) /\ Charted(v) /\ trail \in 0..sampleCount(v.flight) =>
                   Shown(w) /\ (playing \/ Settled(w))
  <2>1. /\ IsView(w) /\ SameView(x, w) /\ SameChart(x, w)
        /\ w.renderTimer <=> graphViewIsActive(x) /\ Dirty(x)
    BY <1>8, ScheduleKeeps
  <2>2. Like(w)
    BY <1>8, <2>1 DEF SameView, SameMode, SamePlace, SameBar, SameStrip, SameChart
  <2>3. Apt(x) => Session(w) /\ Charted(w) /\ (playing \/ Settled(w))
    BY <2>1 DEF Session, Charted, Settled, SameView, SameMode, SamePlace, SameChart
  <2>4. Apt(x) => Awaited(w)
    BY <2>1 DEF Session, Awaited, Dirty, graphViewIsActive, SameView, SameMode, SameChart
  <2> QED BY <1>8, <2>2, <2>3, <2>4 DEF Shown
<1>9. ASSUME NEW x, Like(x), Session(v), trail \in 0..sampleCount(v.flight) PROVE Session(x)
  BY <1>9 DEF Session, SameMode
<1>10. CASE playing /\ same /\ w = scheduleRenderPass(noted)
  <2>1. Session(v) /\ Charted(v) /\ trail \in 0..sampleCount(v.flight) => Charted(noted)
    BY <1>4, <1>10, <1>11, <1>3 DEF Charted, bucket
  <2>2. Session(v) /\ Charted(v) /\ trail \in 0..sampleCount(v.flight) => Apt(noted)
    BY <1>4, <1>9, <1>10, <2>1
  <2> QED BY <1>4, <1>8, <1>10, <2>2
<1>13. CASE playing /\ ~same /\ w = scheduleRenderPass(marked)
  <2>1. Session(v) /\ Charted(v) /\ trail \in 0..sampleCount(v.flight) => Apt(marked)
    BY <1>6, <1>9, <1>13 DEF Charted
  <2> QED BY <1>6, <1>8, <1>13, <2>1
<1>14. CASE ~playing /\ ~v.replayMode /\ w = moved
  BY <1>3, <1>14 DEF Session
<1>15. CASE ~playing /\ v.replayMode /\ trail = v.built /\ w = scheduleRenderPass(moved)
  <2>1. Session(v) /\ Charted(v) /\ trail \in 0..sampleCount(v.flight) => Apt(moved)
    BY <1>3, <1>9, <1>15 DEF Charted, Settled
  <2> QED BY <1>3, <1>8, <1>15, <2>1
<1>16. CASE ~playing /\ v.replayMode /\ trail # v.built /\ w = scheduleRenderPass(redirtied)
  <2>1. Session(v) /\ Charted(v) /\ trail \in 0..sampleCount(v.flight) => Apt(redirtied)
    BY <1>7, <1>9, <1>16 DEF Charted, Settled
  <2> QED BY <1>7, <1>8, <1>16, <2>1
<1> QED
  BY <1>2, <1>10, <1>13, <1>14, <1>15, <1>16

\* The strip of a new trail: shown at once, or when the timer fires.
LEMMA StripKeeps ==
    ASSUME NEW v, IsView(v), NEW trail \in Int, NEW playing \in BOOLEAN,
           NEW w, w = onReplayPositionChanged(v, trail, playing)
    PROVE  /\ IsView(w) /\ SameMode(v, w) /\ SamePlace(v, w) /\ SameBar(v, w)
           /\ Shown(v) /\ trail = v.trail =>
                 Shown(w) /\ (Settled(v) => Settled(w)) /\ StripRight(w, playing) /\ Pended(w)
<1> DEFINE run == v.stripTimer /\ trail > 0
           noted == [v EXCEPT !.pending = trail, !.stripTimer = run]
           timed == [noted EXCEPT !.stripTimer = TRUE]
<1>1. (run <=> v.stripTimer /\ trail > 0) /\ (trail <= 0 => ~run)
  OBVIOUS
<1>2. w = IF ~v.visible THEN noted
          ELSE IF trail <= 0 THEN setDisplayedSample(noted, NoSample)
          ELSE IF trail > sampleCount(v.loaded) THEN noted
          ELSE IF playing THEN timed
          ELSE applyReplayTelemetrySample(noted, trail)
  BY DEF onReplayPositionChanged
<1> HIDE DEF run
<1> DEFINE Like(x) == /\ IsView(x) /\ SameMode(v, x) /\ SamePlace(v, x) /\ SameBar(v, x)
                      /\ x.pending = trail
           Fit(x) == Shown(v) => Shown(x) /\ (Settled(v) => Settled(x))
<1>3. /\ Like(noted) /\ noted.stripTimer = run /\ noted.shown = v.shown /\ SameChart(v, noted)
      /\ noted.stack = v.stack /\ noted.renderTimer = v.renderTimer
  BY DEF IsView, ViewFields, SameMode, SamePlace, SameBar, SameChart
<1> HIDE DEF noted
<1>4. /\ Like(timed) /\ timed.stripTimer /\ timed.shown = v.shown /\ SameChart(v, timed)
      /\ timed.stack = v.stack /\ timed.renderTimer = v.renderTimer
  BY <1>3 DEF IsView, ViewFields, SameMode, SamePlace, SameBar, SameChart
<1> HIDE DEF timed
<1>5. ASSUME NEW x, Like(x), SameChart(v, x), x.stack = v.stack, x.renderTimer = v.renderTimer
      PROVE  Fit(x)
  BY <1>5 DEF Shown, Session, Charted, Awaited, Settled, graphViewIsActive,
              SameMode, SamePlace, SameChart
<1>6. Fit(noted) /\ Fit(timed)
  BY <1>3, <1>4, <1>5
<1>7. Shown(v) => v.loaded = v.flight /\ v.trail \in 0..sampleCount(v.flight)
                  /\ sampleCount(v.flight) \in Nat
  BY TimelineBounds DEF Shown, Session, Places
<1>8. CASE ~v.visible
  BY <1>1, <1>2, <1>3, <1>6, <1>8 DEF StripRight, Pended, SameMode, SamePlace
<1>9. CASE v.visible /\ trail <= 0
  <2>1. w = setDisplayedSample(noted, NoSample)
    BY <1>2, <1>9
  <2>2. /\ IsView(w) /\ SameMode(noted, w) /\ SamePlace(noted, w) /\ SameBar(noted, w)
        /\ w.shown = NoSample /\ w.pending = noted.pending /\ w.stripTimer = noted.stripTimer
        /\ Shown(noted) => Shown(w) /\ (Settled(noted) => Settled(w))
    BY <1>3, <2>1, SampleKeeps
  <2>3. Like(w) /\ Fit(w)
    BY <1>3, <1>6, <2>2 DEF SameMode, SamePlace, SameBar
  <2>4. ~w.stripTimer
    <3>1. ~run
      BY <1>1, <1>9
    <3> QED BY <1>3, <2>2, <3>1
  <2>5. Shown(v) /\ trail = v.trail => w.trail = 0
    BY <1>7, <1>9, <2>3 DEF SamePlace
  <2>6. Shown(v) /\ trail = v.trail => StripRight(w, playing) /\ Pended(w)
    BY <2>2, <2>4, <2>5 DEF StripRight, SampleAt, Pended
  <2> QED BY <2>3, <2>6
<1>10. CASE v.visible /\ trail > 0 /\ trail > sampleCount(v.loaded)
  BY <1>2, <1>3, <1>7, <1>10
<1>11. CASE v.visible /\ trail > 0 /\ ~(trail > sampleCount(v.loaded)) /\ playing
  <2>1. w = timed
    BY <1>2, <1>11
  <2> QED BY <1>4, <1>6, <1>11, <2>1 DEF StripRight, Pended, SamePlace
<1>12. CASE v.visible /\ trail > 0 /\ ~(trail > sampleCount(v.loaded)) /\ ~playing
  <2>1. w = applyReplayTelemetrySample(noted, trail)
    BY <1>2, <1>12
  <2>2. /\ IsView(w) /\ SameMode(noted, w) /\ SamePlace(noted, w) /\ SameBar(noted, w)
        /\ w.pending = noted.pending /\ w.stripTimer = noted.stripTimer
        /\ w.shown = IF trail \in 1..sampleCount(noted.loaded)
                     THEN <<noted.loaded, trail>> ELSE noted.shown
        /\ Shown(noted) => Shown(w) /\ (Settled(noted) => Settled(w))
    BY <1>3, <2>1, ReplaySampleKeeps
  <2>3. Like(w) /\ Fit(w)
    BY <1>3, <1>6, <2>2 DEF SameMode, SamePlace, SameBar
  <2>4. ASSUME Shown(v), trail = v.trail PROVE w.shown = <<v.flight, trail>>
    BY <1>3, <1>7, <1>12, <2>2, <2>4 DEF SameMode
  <2>5. Shown(v) /\ trail = v.trail => StripRight(w, playing) /\ Pended(w)
    BY <1>1, <1>3, <1>12, <2>2, <2>3, <2>4 DEF StripRight, SampleAt, Pended, SamePlace
  <2> QED BY <2>3, <2>5
<1> QED BY <1>8, <1>9, <1>10, <1>11, <1>12

\* A flush of the strip leaves it right and its timer stopped.
LEMMA StripFlushKeeps ==
    ASSUME NEW v, IsView(v), NEW index \in Int,
           NEW w, w = flushReplayTelemetryStrip(v, index)
    PROVE  /\ IsView(w) /\ SameMode(v, w) /\ SamePlace(v, w) /\ SameBar(v, w)
           /\ Shown(v) /\ index = v.trail =>
                 Shown(w) /\ (Settled(v) => Settled(w)) /\ StripRight(w, FALSE) /\ Pended(w)
<1> DEFINE rested == [v EXCEPT !.stripTimer = FALSE]
           Like(x) == /\ IsView(x) /\ SameMode(v, x) /\ SamePlace(v, x) /\ SameBar(v, x)
                      /\ ~x.stripTimer
           Fit(x) == Shown(v) => Shown(x) /\ (Settled(v) => Settled(x))
<1>1. w = IF ~v.visible THEN rested
          ELSE IF index <= 0 THEN setDisplayedSample(rested, NoSample)
          ELSE applyReplayTelemetrySample(rested, index)
  BY DEF flushReplayTelemetryStrip
<1>2. /\ Like(rested) /\ SameChart(v, rested) /\ rested.stack = v.stack
      /\ rested.renderTimer = v.renderTimer
  BY DEF IsView, ViewFields, SameMode, SamePlace, SameBar, SameChart
<1> HIDE DEF rested
<1>3. Fit(rested)
  BY <1>2 DEF Shown, Session, Charted, Awaited, Settled, graphViewIsActive,
              SameMode, SamePlace, SameChart
<1>4. Shown(v) => /\ v.loaded = v.flight /\ v.trail \in 0..sampleCount(v.flight)
                  /\ sampleCount(v.flight) \in Nat
  BY TimelineBounds DEF Shown, Session, Places
<1>5. CASE ~v.visible
  BY <1>1, <1>2, <1>3, <1>5 DEF StripRight, Pended, SameMode
<1>6. CASE v.visible /\ index <= 0
  <2>1. w = setDisplayedSample(rested, NoSample)
    BY <1>1, <1>6
  <2>2. /\ IsView(w) /\ SameMode(rested, w) /\ SamePlace(rested, w) /\ SameBar(rested, w)
        /\ w.shown = NoSample /\ w.stripTimer = rested.stripTimer
        /\ Shown(rested) => Shown(w) /\ (Settled(rested) => Settled(w))
    BY <1>2, <2>1, SampleKeeps
  <2>3. Like(w) /\ Fit(w)
    BY <1>2, <1>3, <2>2 DEF SameMode, SamePlace, SameBar
  <2>4. Shown(v) /\ index = v.trail => w.trail = 0
    BY <1>4, <1>6, <2>3 DEF SamePlace
  <2>5. Shown(v) /\ index = v.trail => StripRight(w, FALSE) /\ Pended(w)
    BY <2>2, <2>3, <2>4 DEF StripRight, SampleAt, Pended
  <2> QED BY <2>3, <2>5
<1>7. CASE v.visible /\ ~(index <= 0)
  <2>1. w = applyReplayTelemetrySample(rested, index)
    BY <1>1, <1>7
  <2>2. /\ IsView(w) /\ SameMode(rested, w) /\ SamePlace(rested, w) /\ SameBar(rested, w)
        /\ w.stripTimer = rested.stripTimer
        /\ w.shown = IF index \in 1..sampleCount(rested.loaded)
                     THEN <<rested.loaded, index>> ELSE rested.shown
        /\ Shown(rested) => Shown(w) /\ (Settled(rested) => Settled(w))
    BY <1>2, <2>1, ReplaySampleKeeps
  <2>3. Like(w) /\ Fit(w)
    BY <1>2, <1>3, <2>2 DEF SameMode, SamePlace, SameBar
  <2>4. ASSUME Shown(v), index = v.trail PROVE w.shown = <<v.flight, index>>
    BY <1>2, <1>4, <1>7, <2>2, <2>4 DEF SameMode
  <2>5. Shown(v) /\ index = v.trail => StripRight(w, FALSE) /\ Pended(w)
    BY <1>7, <2>3, <2>4 DEF StripRight, SampleAt, Pended, SamePlace
  <2> QED BY <2>3, <2>5
<1> QED BY <1>5, <1>6, <1>7

\* The pill of the bar follows what the signal says of the controller.
LEMMA BarKeeps ==
    ASSUME NEW v, IsView(v), NEW s \in Signals, NEW w, w = BarActivity(v, s)
    PROVE  /\ IsView(w) /\ SameMode(v, w) /\ SamePlace(v, w) /\ SameStrip(v, w)
           /\ (Session(v) => PillRight(w, s.playing))
           /\ Shown(v) => Shown(w) /\ (Settled(v) => Settled(w))
<1> DEFINE active == [v EXCEPT !.activity = s.what]
           pill == IF ~active.replayMode \/ sampleCount(active.flight) = 0 THEN "hidden"
                   ELSE IF s.playing THEN "playing"
                   ELSE IF active.activity = "paused" THEN "paused" ELSE "stopped"
<1>1. w = [active EXCEPT !.pill = pill]
  BY DEF BarActivity, syncTransportChrome
<1>2. /\ IsView(active) /\ SameMode(v, active) /\ SamePlace(v, active) /\ SameStrip(v, active)
      /\ SameChart(v, active) /\ active.stack = v.stack /\ active.renderTimer = v.renderTimer
  BY DEF IsView, ViewFields, SameMode, SamePlace, SameStrip, SameChart
<1> HIDE DEF active
<1>3. Session(v) => (pill = "playing" <=> s.playing)
  BY <1>2, TimelineBounds, FlightAssumption DEF Session, Places, SameMode, SamePlace
<1> HIDE DEF pill
<1>4. /\ IsView(w) /\ SameMode(active, w) /\ SamePlace(active, w) /\ SameStrip(active, w)
      /\ SameChart(active, w) /\ w.stack = active.stack /\ w.renderTimer = active.renderTimer
      /\ w.pill = pill
  BY <1>1, <1>2 DEF IsView, ViewFields, SameMode, SamePlace, SameStrip, SameChart
<1>5. /\ SameMode(v, w) /\ SamePlace(v, w) /\ SameStrip(v, w) /\ SameChart(v, w)
      /\ w.stack = v.stack /\ w.renderTimer = v.renderTimer
  BY <1>2, <1>4 DEF SameMode, SamePlace, SameStrip, SameChart
<1>6. Shown(v) => Shown(w) /\ (Settled(v) => Settled(w))
  BY <1>4, <1>5 DEF Shown, Session, Charted, Awaited, Settled, graphViewIsActive,
                    SameMode, SamePlace, SameChart
<1> QED BY <1>3, <1>4, <1>5, <1>6 DEF PillRight

\* A place that is signalled is where slider, trail and strip are.
LEMMA DeliverPosition ==
    ASSUME NEW v, IsView(v), v.posted \in Nat, NEW s \in Signals, s.what = "position",
           NEW w, w = Deliver(v, s)
    PROVE  /\ Hosted(v, w) /\ SameBar(v, w) /\ w.posted = v.posted /\ w.flight = v.flight
           /\ Session(v) /\ Charted(v) /\ s.index \in 0..sampleCount(v.flight) =>
                 /\ Shown(w) /\ w.trail = s.index /\ w.slider = s.index
                 /\ StripRight(w, s.playing) /\ Pended(w) /\ (s.playing \/ Settled(w))
<1> DEFINE slider == Clamped(s.index, 0, sampleCount(v.flight))
           slid == [v EXCEPT !.slider = slider]
           placed == applyReplayControllerPosition(slid, s.index, s.playing)
<1>0. s.index \in Nat /\ s.index \in Int /\ s.playing \in BOOLEAN
  BY DEF Signals
<1>1. w = onReplayPositionChanged(placed, s.index, s.playing)
  BY DEF Deliver, BarPosition
<1>2. Session(v) /\ s.index \in 0..sampleCount(v.flight) => slider = s.index
  BY TimelineBounds DEF Session, Places, Clamped, Greater, Lesser
<1> HIDE DEF slider
<1>3. /\ IsView(slid) /\ SameMode(v, slid) /\ SameBar(v, slid) /\ slid.flight = v.flight
      /\ slid.slider = slider /\ slid.trail = v.trail /\ slid.look = v.look
      /\ SameChart(v, slid)
  BY DEF IsView, ViewFields, SameMode, SameBar, SameChart
<1> HIDE DEF slid
<1>4. /\ IsView(placed) /\ SameMode(slid, placed) /\ SameBar(slid, placed)
      /\ placed.flight = slid.flight /\ placed.slider = slid.slider
      /\ Session(slid) /\ Charted(slid) /\ s.index \in 0..sampleCount(slid.flight) =>
            placed.trail = s.index /\ Shown(placed) /\ (s.playing \/ Settled(placed))
  BY <1>0, <1>3, PlaceKeeps
<1> HIDE DEF placed
<1>5. /\ IsView(w) /\ SameMode(placed, w) /\ SamePlace(placed, w) /\ SameBar(placed, w)
      /\ Shown(placed) /\ s.index = placed.trail =>
            /\ Shown(w) /\ (Settled(placed) => Settled(w))
            /\ StripRight(w, s.playing) /\ Pended(w)
  BY <1>0, <1>1, <1>4, StripKeeps
<1>6. SameMode(v, w) /\ SameBar(v, w) /\ w.flight = v.flight /\ w.slider = slider
  BY <1>3, <1>4, <1>5 DEF SameMode, SamePlace, SameBar
<1>7. Session(v) /\ Charted(v) => Session(slid) /\ Charted(slid)
  BY <1>3 DEF Session, Charted, SameMode, SameChart
<1> QED
  BY <1>2, <1>3, <1>4, <1>5, <1>6, <1>7 DEF Hosted, SameHost, SameMode, SamePlace

\* A pause queues a flush of the chart and flushes the strip.
LEMMA DeliverPaused ==
    ASSUME NEW v, IsView(v), v.posted \in Nat, NEW s \in Signals, s.what = "paused",
           NEW w, w = Deliver(v, s)
    PROVE  /\ Hosted(v, w) /\ SamePlace(v, w) /\ w.posted > 0
           /\ Shown(v) /\ s.index = v.trail =>
                 /\ Shown(w) /\ PillRight(w, s.playing) /\ StripRight(w, FALSE) /\ Pended(w)
<1> DEFINE bar == BarActivity(v, s)
           posted == Lesser(bar.posted + 1, MaxPosted)
           queued == [bar EXCEPT !.posted = posted]
<1>0. s.index \in Int
  BY DEF Signals
<1>1. w = flushReplayTelemetryStrip(queued, s.index)
  BY DEF Deliver
<1>2. /\ IsView(bar) /\ SameMode(v, bar) /\ SamePlace(v, bar) /\ SameStrip(v, bar)
      /\ (Session(v) => PillRight(bar, s.playing)) /\ (Shown(v) => Shown(bar))
  BY BarKeeps
<1>3. posted \in Nat /\ posted > 0
  BY <1>2, ViewAssumption DEF SameMode, Lesser
<1> HIDE DEF bar, posted
<1>4. /\ IsView(queued) /\ SameHost(bar, queued) /\ queued.posted = posted
      /\ SamePlace(bar, queued) /\ SameBar(bar, queued) /\ SameChart(bar, queued)
      /\ queued.stack = bar.stack /\ queued.renderTimer = bar.renderTimer
  BY <1>2 DEF IsView, ViewFields, SameHost, SamePlace, SameBar, SameChart
<1> HIDE DEF queued
<1>5. Shown(bar) => Shown(queued)
  BY <1>3, <1>4 DEF Shown, Session, Charted, Awaited, graphViewIsActive,
              SameHost, SamePlace, SameChart
<1>6. /\ IsView(w) /\ SameMode(queued, w) /\ SamePlace(queued, w) /\ SameBar(queued, w)
      /\ Shown(queued) /\ s.index = queued.trail =>
            Shown(w) /\ StripRight(w, FALSE) /\ Pended(w)
  BY <1>0, <1>1, <1>4, StripFlushKeeps
<1>7. SameHost(v, w) /\ SamePlace(v, w) /\ w.posted = posted
  BY <1>2, <1>4, <1>6 DEF SameMode, SameHost, SamePlace
<1>8. Shown(v) => PillRight(w, s.playing)
  BY <1>2, <1>4, <1>6 DEF Shown, PillRight, SameBar
<1>9. Shown(v) /\ s.index = v.trail => Shown(queued) /\ s.index = queued.trail
  BY <1>2, <1>4, <1>5 DEF SamePlace
<1> QED
  BY <1>3, <1>6, <1>7, <1>8, <1>9 DEF Hosted

\* A stop or the end draws the chart and flushes the strip.
LEMMA DeliverEnd ==
    ASSUME NEW v, IsView(v), v.posted \in Nat, NEW s \in Signals,
           s.what \in {"stopped", "finished"}, NEW w, w = Deliver(v, s)
    PROVE  /\ Hosted(v, w) /\ SamePlace(v, w) /\ w.posted = v.posted
           /\ Shown(v) /\ s.index = v.trail =>
                 /\ Shown(w) /\ PillRight(w, s.playing) /\ StripRight(w, FALSE) /\ Pended(w)
                 /\ s.playing \/ Settled(w)
<1> DEFINE bar == BarActivity(v, s)
           flushed == flushReplayChartRebuild(bar, s.playing)
<1>0. s.index \in Int /\ s.playing \in BOOLEAN
  BY DEF Signals
<1>1. w = flushReplayTelemetryStrip(flushed, s.index)
  BY DEF Deliver
<1>2. /\ IsView(bar) /\ SameMode(v, bar) /\ SamePlace(v, bar) /\ SameStrip(v, bar)
      /\ (Session(v) => PillRight(bar, s.playing)) /\ (Shown(v) => Shown(bar))
  BY BarKeeps
<1> HIDE DEF bar
<1>3. /\ IsView(flushed) /\ SameView(bar, flushed)
      /\ Shown(bar) => Shown(flushed) /\ (Settled(bar) \/ ~s.playing => Settled(flushed))
  BY <1>0, <1>2, FlushKeeps
<1> HIDE DEF flushed
<1>4. /\ IsView(w) /\ SameMode(flushed, w) /\ SamePlace(flushed, w) /\ SameBar(flushed, w)
      /\ Shown(flushed) /\ s.index = flushed.trail =>
            Shown(w) /\ (Settled(flushed) => Settled(w)) /\ StripRight(w, FALSE) /\ Pended(w)
  BY <1>0, <1>1, <1>3, StripFlushKeeps
<1>5. SameMode(v, w) /\ SamePlace(v, w)
  BY <1>2, <1>3, <1>4 DEF SameView, SameMode, SamePlace
<1>6. Shown(v) => PillRight(w, s.playing)
  BY <1>2, <1>3, <1>4 DEF Shown, PillRight, SameView, SameBar
<1>7. Shown(v) /\ s.index = v.trail => Shown(flushed) /\ s.index = flushed.trail
  BY <1>2, <1>3 DEF SameView, SamePlace
<1> QED
  BY <1>2, <1>3, <1>4, <1>5, <1>6, <1>7 DEF Hosted, SameHost, SameMode

\* A start, or a refusal, is for the bar alone.
LEMMA DeliverStart ==
    ASSUME NEW v, IsView(v), v.posted \in Nat, NEW s \in Signals,
           s.what \in {"started", "error"}, NEW w, w = Deliver(v, s)
    PROVE  /\ Hosted(v, w) /\ SamePlace(v, w) /\ SameStrip(v, w) /\ w.posted = v.posted
           /\ (Session(v) => PillRight(w, s.playing))
           /\ Shown(v) => Shown(w) /\ (Settled(v) => Settled(w))
<1>1. w = BarActivity(v, s)
  BY DEF Deliver
<1> QED BY <1>1, BarKeeps DEF Hosted, SameHost, SameMode

\* No signal takes the page out of its session or the window out of its mode.
LEMMA DeliverHosted ==
    ASSUME NEW v, IsView(v), v.posted \in Nat, NEW s \in Signals, NEW w, w = Deliver(v, s)
    PROVE  Hosted(v, w)
<1>1. s.what \in {"position", "started", "paused", "stopped", "finished", "error"}
  BY DEF Signals
<1>2. CASE s.what = "position"
  BY <1>2, DeliverPosition
<1>3. CASE s.what = "paused"
  BY <1>3, DeliverPaused
<1>4. CASE s.what \in {"stopped", "finished"}
  BY <1>4, DeliverEnd
<1>5. CASE s.what \in {"started", "error"}
  BY <1>5, DeliverStart
<1> QED BY <1>1, <1>2, <1>3, <1>4, <1>5

\* The page and the strip show the flight and the trail of the controller.
Fits(c, v) == Shown(v) /\ Pended(v) /\ v.flight = c.flight /\ v.trail = c.index

\* So do the slider and the pill, and what is not shown yet is on its way.
Agree(c, v) ==
    /\ Fits(c, v) /\ v.slider = c.index /\ PillRight(v, c.playing)
    /\ StripRight(v, c.playing) /\ (c.playing \/ Caught(v))

\* Whatever is said, the page stays in its session and the window in its mode.
LEMMA ToldHosted ==
    ASSUME NEW v, IsView(v), v.posted \in Nat, NEW c, c.out \in Seq(Signals)
    PROVE  Hosted(v, Told(v, c))
<1> DEFINE Says(s) == [out |-> s]
           T == {n \in Nat : \A s \in Seq(Signals) : Len(s) = n => Hosted(v, Told(v, Says(s)))}
<1>1. 0 \in T
  <2> SUFFICES ASSUME NEW s \in Seq(Signals), Len(s) = 0 PROVE Hosted(v, Told(v, Says(s)))
      OBVIOUS
  <2>1. Says(s).out = <<>>
    OBVIOUS
  <2>2. Told(v, Says(s)) = v
    BY <2>1, TellNothing
  <2> QED BY <2>2 DEF Hosted, SameHost
<1>2. ASSUME NEW n \in Nat, n \in T PROVE n + 1 \in T
  <2> SUFFICES ASSUME NEW s \in Seq(Signals), Len(s) = n + 1 PROVE Hosted(v, Told(v, Says(s)))
      OBVIOUS
  <2> DEFINE front == SubSeq(s, 1, n)
             e == s[n + 1]
             was == Says(front)
             is == Says(s)
  <2>1. front \in Seq(Signals) /\ Len(front) = n /\ e \in Signals /\ s = Append(front, e)
    OBVIOUS
  <2>2. was.out = front /\ is.out = s
    OBVIOUS
  <2>3. Hosted(v, Told(v, was))
    BY <1>2, <2>1
  <2> HIDE DEF front, e, was, is
  <2>4. Told(v, is) = Deliver(Told(v, was), e)
    <3>1. was.out \in Seq(Signals) /\ is.out = Append(was.out, e) /\ e \in Signals
      BY <2>1, <2>2
    <3> QED BY <3>1, TellOneMore
  <2>5. Hosted(Told(v, was), Told(v, is))
    <3> DEFINE u == Told(v, was)
    <3>1. IsView(u) /\ u.posted \in Nat
      BY <2>3 DEF Hosted
    <3> HIDE DEF u
    <3> QED BY <2>1, <2>4, <3>1, DeliverHosted DEF u
  <2>6. Hosted(v, Told(v, is))
    BY <2>3, <2>5 DEF Hosted, SameHost
  <2> QED BY <2>6 DEF is
<1>3. Len(c.out) \in T
  <2> HIDE DEF T
  <2> QED BY <1>1, <1>2, EveryNumber
<1> DEFINE said == Says(c.out)
<1>4. Hosted(v, Told(v, said)) /\ said.out = c.out
  BY <1>3
<1> HIDE DEF said
<1>5. Told(v, said) = Told(v, c)
  BY <1>4, TellSame
<1> QED BY <1>4, <1>5

\* What a slot can read of the controller when it signals.
LEMMA SignalIs ==
    ASSUME NEW c \in Controllers,
           NEW what \in {"position", "started", "paused", "stopped", "finished", "error"}
    PROVE  /\ Signal(what, c) \in Signals /\ Signal(what, c).what = what
           /\ Signal(what, c).index = c.index /\ Signal(what, c).playing = c.playing
BY DEF Signal, Signals, Controllers

\* What a method says last is delivered last.
LEMMA EmitTold ==
    ASSUME NEW v, NEW c \in Controllers,
           NEW what \in {"position", "started", "paused", "stopped", "finished", "error"}
    PROVE  Told(v, Emit(c, what)) = Deliver(Told(v, c), Signal(what, c))
<1> DEFINE s == Signal(what, c)
           d == Emit(c, what)
<1>1. c.out \in Seq(Signals) /\ s \in Signals
  BY SignalIs DEF Controllers
<1>2. d.out = Append(c.out, s)
  BY DEF Emit, Controllers
<1> HIDE DEF s, d
<1>3. Told(v, d) = Deliver(Told(v, c), s)
  BY <1>1, <1>2, TellOneMore
<1> QED BY <1>3 DEF s, d

\* Who is in the same place, and has said the same, is followed as well.
LEMMA AgreeSame ==
    ASSUME NEW v, NEW c, NEW d, Agree(c, Told(v, c)), d.out = c.out, d.flight = c.flight,
           d.index = c.index, d.playing = c.playing
    PROVE  Agree(d, Told(v, d))
<1>1. Told(v, d) = Told(v, c)
  BY TellSame
<1> QED BY <1>1 DEF Agree, Fits

\* A trail that does not move says nothing; one that does is followed at once.
Tracked(c, d, trail, u, w) ==
    /\ d \in Controllers /\ SameTime(c, d) /\ SameState(c, d)
    /\ d.index = Clamped(trail, 0, sampleCount(c.flight))
    /\ d.index = c.index => d = c
    /\ d.index # c.index =>
          /\ Fits(d, w) /\ w.slider = d.index /\ StripRight(w, c.playing)
          /\ c.playing \/ Settled(w)
          /\ SameBar(u, w) /\ w.posted = u.posted

\* updatePosition goes to the place asked for, as far as the flight has it.
LEMMA UpdateTold ==
    ASSUME NEW v, NEW c \in Controllers, NEW trail \in Int,
           Session(Told(v, c)), Charted(Told(v, c)), Told(v, c).flight = c.flight,
           NEW d, d = updatePosition(c, trail, FALSE)
    PROVE  Tracked(c, d, trail, Told(v, c), Told(v, d))
<1> DEFINE position == Clamped(trail, 0, sampleCount(c.flight))
           e == [c EXCEPT !.index = position]
<1>0. c.flight \in Places /\ sampleCount(c.flight) \in Nat
  BY TimelineBounds DEF Controllers, Places
<1>1. position \in 0..sampleCount(c.flight)
  BY <1>0 DEF Clamped, Greater, Lesser
<1>2. d = IF position = c.index THEN c ELSE Emit(e, "position")
  BY DEF updatePosition
<1>3. position = Clamped(trail, 0, sampleCount(c.flight))
  OBVIOUS
<1> HIDE DEF position
<1>4. /\ e \in Controllers /\ e.index = position /\ SameTime(c, e) /\ SameState(c, e)
      /\ e.out = c.out
  BY <1>0, <1>1 DEF Controllers, SameTime, SameState
<1> HIDE DEF e
<1>5. CASE position = c.index
  BY <1>2, <1>3, <1>5 DEF Tracked, SameTime, SameState
<1>6. CASE position # c.index
  <2> DEFINE u == Told(v, e)
             w == Told(v, d)
  <2>1. d = Emit(e, "position")
    BY <1>2, <1>6
  <2> DEFINE s == Signal("position", e)
  <2>2. /\ d \in Controllers /\ d.index = e.index /\ SameTime(e, d) /\ SameState(e, d)
        /\ s \in Signals /\ s.what = "position" /\ s.index = e.index /\ s.playing = e.playing
        /\ w = Deliver(u, s)
    <3>1. d \in Controllers /\ d.index = e.index /\ SameTime(e, d) /\ SameState(e, d)
      BY <1>4, <2>1, EmitKeeps
    <3>2. s \in Signals /\ s.what = "position" /\ s.index = e.index /\ s.playing = e.playing
      BY <1>4, SignalIs
    <3>3. w = Deliver(u, s)
      BY <1>4, <2>1, EmitTold
    <3> QED BY <3>1, <3>2, <3>3
  <2>3. u = Told(v, c)
    BY <1>4, TellSame
  <2>4. IsView(u) /\ u.posted \in Nat /\ Session(u) /\ Charted(u) /\ u.flight = c.flight
    BY <2>3 DEF Session
  <2>5. d.index = position /\ SameTime(c, d) /\ SameState(c, d)
    BY <1>4, <2>2 DEF SameTime, SameState
  <2> HIDE DEF u, w, s
  <2>6. /\ SameBar(u, w) /\ w.posted = u.posted /\ w.flight = u.flight
        /\ Shown(w) /\ w.trail = s.index /\ w.slider = s.index
        /\ StripRight(w, s.playing) /\ Pended(w) /\ (s.playing \/ Settled(w))
    <3>1. s.index \in 0..sampleCount(u.flight)
      BY <1>1, <1>4, <2>2, <2>4
    <3> QED BY <2>2, <2>4, <3>1, DeliverPosition
  <2>7. s.playing = c.playing /\ s.index = d.index
    BY <1>4, <2>2 DEF SameState
  <2>8. Fits(d, w)
    BY <2>4, <2>5, <2>6, <2>7 DEF Fits, SameTime
  <2> QED
    BY <1>3, <1>6, <2>2, <2>3, <2>5, <2>6, <2>7, <2>8 DEF w, Tracked
<1> QED BY <1>5, <1>6

\* Of a flight that is followed, and has samples.
LEMMA AgreeFlight ==
    ASSUME NEW c, NEW v, Fits(c, v)
    PROVE  /\ IsView(v) /\ v.posted \in Nat /\ Session(v) /\ Charted(v) /\ Shown(v)
           /\ v.flight = c.flight /\ c.flight \in Flights /\ sampleCount(c.flight) \in Nat
           /\ sampleCount(c.flight) > 0 /\ v.trail = c.index
           /\ c.index \in 0..sampleCount(c.flight)
BY TimelineBounds, FlightAssumption DEF Fits, Shown, Session, Places

\* The end of a flight is drawn and shown.
LEMMA EndTold ==
    ASSUME NEW v, NEW c \in Controllers, ~c.playing, Fits(c, Told(v, c)),
           Told(v, c).slider = c.index, NEW what \in {"stopped", "finished"},
           NEW d, d = Emit(c, what)
    PROVE  Agree(d, Told(v, d))
<1> DEFINE u == Told(v, c)
           w == Told(v, d)
           s == Signal(what, c)
<1>1. /\ d.index = c.index /\ SameTime(c, d) /\ SameState(c, d)
      /\ s \in Signals /\ s.what = what /\ s.index = c.index /\ s.playing = c.playing
      /\ w = Deliver(u, s)
  <2>1. d.index = c.index /\ SameTime(c, d) /\ SameState(c, d)
    BY EmitKeeps
  <2>2. s \in Signals /\ s.what = what /\ s.index = c.index /\ s.playing = c.playing
    BY SignalIs
  <2>3. w = Deliver(u, s)
    BY EmitTold
  <2> QED BY <2>1, <2>2, <2>3
<1>2. IsView(u) /\ u.posted \in Nat /\ Shown(u) /\ s.index = u.trail
  BY <1>1, AgreeFlight
<1>3. Fits(c, u) /\ u.slider = c.index
  OBVIOUS
<1> HIDE DEF u, w, s
<1>4. /\ SamePlace(u, w) /\ Shown(w) /\ PillRight(w, s.playing) /\ StripRight(w, FALSE)
      /\ Pended(w) /\ (s.playing \/ Settled(w))
  BY <1>1, <1>2, DeliverEnd
<1>5. Agree(d, w)
  BY <1>1, <1>3, <1>4 DEF Agree, Fits, StripRight, Caught, SamePlace, SameTime, SameState
<1> QED BY <1>5 DEF w

\* A synchronisation, and the end it may find, is followed.
LEMMA SyncTold ==
    ASSUME NEW v, NEW c \in Controllers, Agree(c, Told(v, c)),
           NEW d, d = synchronizePlayback(c)
    PROVE  d \in Controllers /\ Agree(d, Told(v, d))
<1>1. CASE ~c.playing
  BY <1>1 DEF synchronizePlayback
<1>2. CASE c.playing
  <2> DEFINE time == Greater(c.time, playbackTimeAt(c))
             e == [c EXCEPT !.time = time]
             trail == Greater(c.index, positionForPlaybackTime(c.flight, time))
             moved == updatePosition(e, trail, FALSE)
  <2>1. d = IF moved.time >= duration(moved.flight) THEN Finish(moved) ELSE moved
    <3>1. d = IF moved.time >= duration(c.flight) THEN Finish(moved) ELSE moved
      BY <1>2 DEF synchronizePlayback, Follow
    <3>2. moved.flight = c.flight
      BY DEF Controllers, updatePosition, Emit
    <3> QED BY <3>1, <3>2
  <2>2. time \in Nat /\ trail \in Int
    <3>1. /\ c.flight \in Places /\ duration(c.flight) \in Nat /\ c.elapsed * c.speed \in Nat
          /\ c.anchor \in Nat /\ c.time \in Nat /\ c.index \in Nat
      BY TimelineBounds DEF Controllers, Places
    <3>2. time \in Nat
      BY <3>1 DEF playbackTimeAt, Greater, Lesser
    <3>3. positionForPlaybackTime(c.flight, time) \in Int
      <4> HIDE DEF time
      <4>1. sampleCount(c.flight) \in Nat
        BY <3>1, TimelineBounds
      <4> QED BY <3>1, <3>2, <4>1, PositionMonotone
    <3> QED BY <3>1, <3>2, <3>3 DEF Greater
  <2> HIDE DEF time, trail
  <2>3. /\ e \in Controllers /\ e.out = c.out /\ e.flight = c.flight /\ e.index = c.index
        /\ e.playing = c.playing
    BY <2>2 DEF Controllers
  <2> HIDE DEF e
  <2>4. Agree(e, Told(v, e))
    BY <2>3, AgreeSame
  <2>5. moved \in Controllers /\ moved.playing /\ Agree(moved, Told(v, moved))
    <3>1. /\ Session(Told(v, e)) /\ Charted(Told(v, e)) /\ Told(v, e).flight = e.flight
      BY <2>4, AgreeFlight DEF Agree
    <3>2. Tracked(e, moved, trail, Told(v, e), Told(v, moved))
      BY <2>2, <2>3, <3>1, UpdateTold
    <3> HIDE DEF moved
    <3> QED
      BY <1>2, <2>3, <2>4, <3>2 DEF Tracked, Agree, PillRight, SameBar, SameState
  <2> HIDE DEF moved
  <2>6. CASE ~(moved.time >= duration(moved.flight))
    BY <2>1, <2>5, <2>6
  <2>7. CASE moved.time >= duration(moved.flight)
    <3> DEFINE end == updatePosition(moved, sampleCount(moved.flight), FALSE)
               rest == [end EXCEPT !.playing = FALSE, !.timer = FALSE,
                                   !.anchor = end.time, !.elapsed = 0]
    <3>1. d = Emit(rest, "finished")
      BY <2>1, <2>7 DEF Finish
    <3>2. end \in Controllers /\ Fits(end, Told(v, end)) /\ Told(v, end).slider = end.index
      <4>1. /\ Session(Told(v, moved)) /\ Charted(Told(v, moved))
            /\ Told(v, moved).flight = moved.flight
            /\ sampleCount(moved.flight) \in Int
        BY <2>5, AgreeFlight DEF Agree
      <4>2. Tracked(moved, end, sampleCount(moved.flight), Told(v, moved), Told(v, end))
        BY <2>5, <4>1, UpdateTold
      <4> HIDE DEF end
      <4> QED BY <2>5, <4>2 DEF Tracked, Agree
    <3> HIDE DEF end
    <3>3. /\ rest \in Controllers /\ ~rest.playing /\ rest.index = end.index
          /\ rest.flight = end.flight /\ rest.out = end.out
      BY <3>2 DEF Controllers
    <3> HIDE DEF rest
    <3>4. Fits(rest, Told(v, rest)) /\ Told(v, rest).slider = rest.index
      <4>1. Told(v, rest) = Told(v, end)
        BY <3>3, TellSame
      <4> QED BY <3>2, <3>3, <4>1 DEF Fits
    <3>5. Agree(d, Told(v, d)) /\ d \in Controllers
      BY <3>1, <3>3, <3>4, EndTold, EmitKeeps
    <3> QED BY <3>5
  <2> QED BY <2>6, <2>7
<1> QED BY <1>1, <1>2

\* A pause is followed: its flush is queued, and the strip is flushed at once.
LEMMA HaltTold ==
    ASSUME NEW v, NEW c \in Controllers, Agree(c, Told(v, c)), c.playing,
           NEW e \in Controllers, ~e.playing, e.index = c.index, e.flight = c.flight,
           e.out = c.out, NEW d, d = Emit(e, "paused")
    PROVE  d \in Controllers /\ Agree(d, Told(v, d))
<1> DEFINE u == Told(v, e)
           w == Told(v, d)
           s == Signal("paused", e)
<1>1. /\ d \in Controllers /\ d.index = e.index /\ SameTime(e, d) /\ SameState(e, d)
      /\ s \in Signals /\ s.what = "paused" /\ s.index = e.index /\ s.playing = e.playing
      /\ w = Deliver(u, s)
  <2>1. d \in Controllers /\ d.index = e.index /\ SameTime(e, d) /\ SameState(e, d)
    BY EmitKeeps
  <2>2. s \in Signals /\ s.what = "paused" /\ s.index = e.index /\ s.playing = e.playing
    BY SignalIs
  <2>3. w = Deliver(u, s)
    BY EmitTold
  <2> QED BY <2>1, <2>2, <2>3
<1>2. u = Told(v, c)
  BY TellSame
<1>3. /\ IsView(u) /\ u.posted \in Nat /\ Shown(u) /\ s.index = u.trail
      /\ u.flight = c.flight /\ u.trail = c.index /\ u.slider = c.index
  BY <1>1, <1>2, AgreeFlight DEF Agree
<1> HIDE DEF u, w, s
<1>4. /\ SamePlace(u, w) /\ w.posted > 0 /\ Shown(w) /\ PillRight(w, s.playing)
      /\ StripRight(w, FALSE) /\ Pended(w)
  BY <1>1, <1>3, DeliverPaused
<1>5. Agree(d, w)
  BY <1>1, <1>3, <1>4 DEF Agree, Fits, StripRight, Caught, SamePlace, SameTime, SameState
<1> QED BY <1>1, <1>5 DEF w

\* pause() is followed.
LEMMA PauseTold ==
    ASSUME NEW v, NEW c \in Controllers, Agree(c, Told(v, c)), NEW d, d = pause(c)
    PROVE  Agree(d, Told(v, d))
<1> DEFINE synced == synchronizePlayback(c)
           halted == [synced EXCEPT !.playing = FALSE, !.timer = FALSE]
<1>1. synced \in Controllers /\ Agree(synced, Told(v, synced))
  BY SyncTold
<1>2. d = IF ~c.playing \/ ~synced.playing THEN synced ELSE Emit(halted, "paused")
  BY DEF pause
<1> HIDE DEF synced
<1>3. /\ halted \in Controllers /\ ~halted.playing /\ halted.index = synced.index
      /\ halted.flight = synced.flight /\ halted.out = synced.out
  BY <1>1 DEF Controllers
<1> HIDE DEF halted
<1>4. CASE ~c.playing \/ ~synced.playing
  BY <1>1, <1>2, <1>4
<1>5. CASE ~(~c.playing \/ ~synced.playing)
  <2>1. synced.playing /\ d = Emit(halted, "paused")
    BY <1>2, <1>5
  <2> QED BY <1>1, <1>3, <2>1, HaltTold
<1> QED BY <1>4, <1>5

\* setSpeed() is followed.
LEMMA SetSpeedTold ==
    ASSUME NEW v, NEW c \in Controllers, Agree(c, Told(v, c)), NEW asked \in Int,
           NEW d, d = setSpeed(c, asked)
    PROVE  Agree(d, Told(v, d))
<1> DEFINE speed == normalizedSpeed(asked)
           synced == synchronizePlayback(c)
           changed == [synced EXCEPT !.speed = speed]
<1>1. synced \in Controllers /\ Agree(synced, Told(v, synced))
  BY SyncTold
<1>2. \/ d = c \/ d = anchorPlayback(changed) \/ d = changed
  BY DEF setSpeed
<1> HIDE DEF synced, speed
<1>3. /\ changed.flight = synced.flight /\ changed.index = synced.index
      /\ changed.playing = synced.playing /\ changed.out = synced.out
      /\ DOMAIN changed = DOMAIN synced
  BY <1>1 DEF Controllers
<1> HIDE DEF changed
<1>4. d = c \/ /\ d.flight = synced.flight /\ d.index = synced.index
               /\ d.playing = synced.playing /\ d.out = synced.out
  BY <1>1, <1>2, <1>3 DEF anchorPlayback, Controllers
<1> QED BY <1>1, <1>4, AgreeSame

\* stop() is followed: what it does not signal it has not done.
LEMMA StopTold ==
    ASSUME NEW v, NEW c \in Controllers, Agree(c, Told(v, c)), NEW d, d = stop(c)
    PROVE  Agree(d, Told(v, d))
<1> DEFINE halted == haltPlayback(c, FALSE)
           rested == Place(halted, 0)
           placed == updatePosition(rested, 0, FALSE)
<1>1. d = IF c.playing \/ c.index # 0 THEN Emit(placed, "stopped") ELSE placed
  BY DEF stop
<1>2. /\ rested \in Controllers /\ ~rested.playing /\ rested.index = c.index
      /\ rested.flight = c.flight /\ rested.out = c.out
  BY DEF Place, haltPlayback, Controllers
<1> HIDE DEF rested
<1>3. Told(v, rested) = Told(v, c)
  BY <1>2, TellSame
<1>4. /\ Session(Told(v, rested)) /\ Charted(Told(v, rested)) /\ Fits(rested, Told(v, rested))
      /\ Told(v, rested).flight = rested.flight /\ Told(v, rested).slider = rested.index
  BY <1>2, <1>3, AgreeFlight DEF Agree, Fits
<1>5. Tracked(rested, placed, 0, Told(v, rested), Told(v, placed))
  <2>1. 0 \in Int
    OBVIOUS
  <2> QED BY <1>2, <1>4, <2>1, UpdateTold
<1>6. placed.index = 0
  <2>1. sampleCount(rested.flight) \in Nat
    BY <1>4, AgreeFlight
  <2>2. Clamped(0, 0, sampleCount(rested.flight)) = 0
    BY <2>1 DEF Clamped, Greater, Lesser
  <2> QED BY <1>5, <2>2 DEF Tracked
<1> HIDE DEF placed
<1>7. /\ placed \in Controllers /\ ~placed.playing /\ placed.flight = c.flight
      /\ Fits(placed, Told(v, placed)) /\ Told(v, placed).slider = placed.index
  BY <1>2, <1>4, <1>5 DEF Tracked, SameTime, SameState
<1>8. CASE c.playing \/ c.index # 0
  <2>1. d = Emit(placed, "stopped")
    BY <1>1, <1>8
  <2> QED BY <1>7, <2>1, EndTold
<1>9. CASE ~(c.playing \/ c.index # 0)
  <2>1. d = rested
    BY <1>1, <1>2, <1>5, <1>6, <1>9 DEF Tracked
  <2>2. d.out = c.out /\ d.flight = c.flight /\ d.index = c.index /\ d.playing = c.playing
    BY <1>2, <1>9, <2>1 DEF Controllers
  <2> QED BY <2>2, AgreeSame
<1> QED BY <1>8, <1>9

\* setPosition() is followed, wherever the slider stood that asked for it.
LEMMA SetPositionTold ==
    ASSUME NEW v, NEW c \in Controllers, NEW trail \in 0..sampleCount(c.flight),
           Fits(c, Told(v, c)), PillRight(Told(v, c), c.playing),
           StripRight(Told(v, c), c.playing), c.playing \/ Caught(Told(v, c)),
           Told(v, c).slider = c.index \/ trail # c.index,
           NEW d, d = setPosition(c, trail)
    PROVE  Agree(d, Told(v, d))
<1> DEFINE position == Clamped(trail, 0, sampleCount(c.flight))
           halted == haltPlayback(c, TRUE)
           time == playbackTimeForPosition(c.flight, position)
           placed == Place(halted, time)
<1>0. /\ c.flight \in Flights /\ c.flight \in Places /\ sampleCount(c.flight) \in Nat
      /\ sampleCount(c.flight) > 0
  BY AgreeFlight DEF Places
<1>1. position = trail
  BY <1>0 DEF Clamped, Greater, Lesser
<1>2. d = updatePosition(placed, trail, FALSE)
  <2>1. d = IF sampleCount(c.flight) <= 0 THEN c ELSE updatePosition(placed, position, FALSE)
    BY DEF setPosition
  <2>2. ~(sampleCount(c.flight) <= 0)
    BY <1>0
  <2> HIDE DEF position, placed
  <2> QED BY <1>1, <2>1, <2>2
<1>3. time \in Nat
  <2>1. time \in 0..duration(c.flight) /\ duration(c.flight) \in Nat
    BY <1>0, <1>1, SeekTime, TimelineBounds
  <2> QED BY <2>1
<1> HIDE DEF position, time
<1>4. /\ halted \in Controllers /\ ~halted.playing /\ halted.index = c.index
      /\ halted.flight = c.flight
  BY HaltKeeps DEF SameTime
<1> DEFINE u == Told(v, halted)
<1>5. /\ Fits(halted, u) /\ PillRight(u, FALSE) /\ StripRight(u, FALSE) /\ Caught(u)
      /\ u.slider = c.index \/ trail # c.index
  <2>1. CASE ~c.playing
    <3>1. halted.out = c.out
      BY <2>1 DEF haltPlayback, Controllers
    <3>2. u = Told(v, c)
      BY <3>1, TellSame
    <3> QED BY <1>4, <2>1, <3>2 DEF Fits, PillRight, StripRight
  <2>2. CASE c.playing
    <3> DEFINE e == [c EXCEPT !.playing = FALSE, !.timer = FALSE]
               t == Told(v, e)
               s == Signal("paused", e)
    <3>1. halted = Emit(e, "paused")
      BY <2>2 DEF haltPlayback
    <3>2. /\ e \in Controllers /\ ~e.playing /\ e.index = c.index /\ e.flight = c.flight
          /\ e.out = c.out
      BY DEF Controllers
    <3> HIDE DEF halted, e
    <3>3. t = Told(v, c)
      BY <3>2, TellSame
    <3>4. s \in Signals /\ s.what = "paused" /\ s.index = e.index /\ s.playing = e.playing
      BY <3>2, SignalIs
    <3>5. u = Deliver(t, s)
      BY <3>1, <3>2, EmitTold
    <3>6. /\ IsView(t) /\ t.posted \in Nat /\ Shown(t) /\ s.index = t.trail
          /\ t.flight = c.flight /\ t.trail = c.index
          /\ t.slider = c.index \/ trail # c.index
      BY <3>2, <3>3, <3>4, AgreeFlight
    <3> HIDE DEF u, t, s
    <3>7. /\ SamePlace(t, u) /\ u.posted > 0 /\ Shown(u) /\ PillRight(u, s.playing)
          /\ StripRight(u, FALSE) /\ Pended(u)
      BY <3>4, <3>5, <3>6, DeliverPaused
    <3> QED
      BY <1>4, <3>2, <3>4, <3>6, <3>7 DEF Fits, Caught, PillRight, SamePlace
  <2> QED BY <2>1, <2>2
<1> HIDE DEF u, halted
<1>6. /\ placed \in Controllers /\ ~placed.playing /\ placed.index = c.index
      /\ placed.flight = c.flight /\ placed.out = halted.out
  BY <1>3, <1>4 DEF Place, Controllers
<1> HIDE DEF placed
<1>7. Told(v, placed) = u
  BY <1>6, TellSame DEF u
<1>8. Session(u) /\ Charted(u) /\ u.flight = c.flight
  BY <1>4, <1>5, AgreeFlight
<1>9. Tracked(placed, d, trail, u, Told(v, d))
  <2>1. /\ Session(Told(v, placed)) /\ Charted(Told(v, placed))
        /\ Told(v, placed).flight = placed.flight /\ trail \in Int
    BY <1>6, <1>7, <1>8
  <2>2. Tracked(placed, d, trail, Told(v, placed), Told(v, d))
    BY <1>2, <1>6, <2>1, UpdateTold
  <2> QED BY <1>7, <2>2
<1>10. d.index = trail
  BY <1>1, <1>6, <1>9 DEF position, Tracked
<1>11. CASE trail = c.index
  <2>1. d = placed
    BY <1>6, <1>9, <1>10, <1>11 DEF Tracked
  <2>2. Told(v, d) = u /\ d.index = c.index /\ d.flight = c.flight /\ ~d.playing
    BY <1>6, <1>7, <2>1
  <2> QED
    BY <1>4, <1>5, <1>11, <2>2 DEF Agree, Fits, PillRight, StripRight
<1>12. CASE trail # c.index
  BY <1>5, <1>6, <1>9, <1>10, <1>12
     DEF Tracked, Agree, Caught, PillRight, SameBar, StripRight, SameState
<1> QED BY <1>11, <1>12

\* play() is followed, from the start again when it rested at the end.
LEMMA PlayTold ==
    ASSUME NEW v, NEW c \in Controllers, Agree(c, Told(v, c)), NEW d, d = play(c)
    PROVE  Agree(d, Told(v, d))
<1> DEFINE count == sampleCount(c.flight)
           zero == [c EXCEPT !.time = 0]
           placed == IF c.index >= count THEN updatePosition(zero, 0, FALSE) ELSE c
           going == anchorPlayback([placed EXCEPT !.playing = TRUE])
           begun == Emit(going, "started")
           synced == synchronizePlayback(begun)
<1>0. count \in Nat /\ count > 0 /\ c.index \in 0..count
  BY AgreeFlight DEF Agree
<1>1. CASE c.playing
  BY <1>0, <1>1 DEF play
<1>2. CASE ~c.playing
  <2>1. d = [synced EXCEPT !.timer = synced.playing]
    BY <1>0, <1>2 DEF play
  <2>2. placed \in Controllers /\ Agree(placed, Told(v, placed)) /\ ~placed.playing
    <3>1. CASE ~(c.index >= count)
      BY <1>2, <3>1
    <3>2. CASE c.index >= count
      <4>1. /\ zero \in Controllers /\ zero.playing = c.playing /\ zero.flight = c.flight
            /\ zero.index = c.index /\ zero.out = c.out
        BY DEF Controllers
      <4> HIDE DEF zero
      <4> DEFINE next == updatePosition(zero, 0, FALSE)
      <4>2. Agree(zero, Told(v, zero))
        BY <4>1, AgreeSame
      <4>3. /\ Session(Told(v, zero)) /\ Charted(Told(v, zero))
            /\ Told(v, zero).flight = zero.flight
        BY <4>2, AgreeFlight DEF Agree
      <4>4. Tracked(zero, next, 0, Told(v, zero), Told(v, next))
        <5>1. 0 \in Int
          OBVIOUS
        <5> QED BY <4>1, <4>3, <5>1, UpdateTold
      <4> HIDE DEF next
      <4>5. next \in Controllers /\ Agree(next, Told(v, next)) /\ ~next.playing
        BY <1>2, <4>1, <4>2, <4>4
           DEF Tracked, Agree, Caught, PillRight, SameBar, StripRight, SameState
      <4>6. placed = next
        BY <3>2 DEF next
      <4> HIDE DEF placed
      <4> QED BY <4>5, <4>6
    <3> QED BY <3>1, <3>2
  <2> HIDE DEF placed
  <2>3. /\ going \in Controllers /\ going.playing /\ going.index = placed.index
        /\ going.flight = placed.flight /\ going.out = placed.out
    BY <2>2 DEF anchorPlayback, Controllers
  <2> HIDE DEF going
  <2> DEFINE u == Told(v, going)
             w == Told(v, begun)
             s == Signal("started", going)
  <2>4. u = Told(v, placed)
    BY <2>3, TellSame
  <2>5. /\ begun \in Controllers /\ begun.index = going.index
        /\ SameTime(going, begun) /\ SameState(going, begun)
    BY <2>3, EmitKeeps
  <2>6. s \in Signals /\ s.what = "started" /\ s.index = going.index /\ s.playing = going.playing
    BY <2>3, SignalIs
  <2>7. w = Deliver(u, s)
    BY <2>3, EmitTold
  <2>8. IsView(u) /\ u.posted \in Nat /\ Session(u) /\ Agree(placed, u)
    BY <2>2, <2>4, AgreeFlight DEF Agree
  <2> HIDE DEF u, w, s, begun
  <2>9. /\ SamePlace(u, w) /\ SameStrip(u, w) /\ PillRight(w, s.playing) /\ Hosted(u, w)
        /\ Shown(u) => Shown(w)
    BY <2>6, <2>7, <2>8, DeliverStart
  <2>10. Agree(begun, w)
    BY <2>2, <2>3, <2>5, <2>6, <2>8, <2>9
       DEF Agree, Fits, Pended, PillRight, StripRight, SamePlace, SameStrip, Hosted, SameHost,
           SameTime, SameState
  <2>11. synced \in Controllers /\ Agree(synced, Told(v, synced))
    BY <2>5, <2>10, SyncTold DEF w
  <2> HIDE DEF synced
  <2>12. /\ d.flight = synced.flight /\ d.index = synced.index /\ d.playing = synced.playing
         /\ d.out = synced.out
    BY <2>1, <2>11 DEF Controllers
  <2> QED BY <2>11, <2>12, AgreeSame
<1> QED BY <1>1, <1>2

\* Live: what came is on the chart, or marked and awaited; there is nothing to control.
Live(c, v) == Lively(v) /\ LiveAwaited(v) /\ v.pill = "hidden" /\ ~c.playing

\* What holds of controller and widgets between two steps.
ViewInv ==
    /\ CInv(replay) /\ IsView(view) /\ view.posted \in Nat
    /\ view.replayMode => Agree(replay, view)
    /\ ~view.replayMode => Live(replay, view)

\* What only redraws the chart keeps the agreement.
LEMMA AgreeKept ==
    ASSUME NEW c, NEW v, NEW w, Agree(c, v), SameView(v, w), Shown(w), Settled(v) => Settled(w)
    PROVE  Agree(c, w)
BY DEF Agree, Fits, Pended, PillRight, StripRight, Caught,
       SameView, SameMode, SamePlace, SameBar, SameStrip

\* The agreement is about the controller's flight and place, and whether it plays.
LEMMA AgreeQuiet ==
    ASSUME NEW c, NEW v, Agree(c, v), NEW d, d.flight = c.flight, d.index = c.index,
           d.playing = c.playing
    PROVE  Agree(d, v)
BY DEF Agree, Fits

\* A controller that has said nothing yet in a step.
LEMMA QuietSays ==
    ASSUME NEW c, CInv(c), NEW d, d = Quiet(c)
    PROVE  /\ CInv(d) /\ d \in Controllers /\ d.out = <<>> /\ d.flight = c.flight
           /\ d.index = c.index /\ d.playing = c.playing
<1>1. CInv(d) /\ d.index = c.index /\ SameTime(c, d) /\ SameState(c, d)
  BY QuietKeeps
<1>2. d.out = <<>>
  BY DEF Quiet, CInv, Sound, Controllers
<1> QED BY <1>1, <1>2 DEF CInv, Sound, SameTime, SameState

-----------------------------------------------------------------------------
(* A new session. *)

\* The bar and the page begin a session at its end, with nothing drawn of it.
LEMMA PageKeeps ==
    ASSUME NEW v, IsView(v), NEW f \in Places, NEW playing \in BOOLEAN,
           NEW w, w = PageSession(v, f, playing)
    PROVE  /\ IsView(w) /\ SameMode(v, w) /\ w.live = v.live /\ w.look = v.look
           /\ w.drawn = v.drawn /\ w.flight = f /\ w.trail = sampleCount(f)
           /\ w.replayDirty /\ ~w.liveDirty
           /\ ~v.replayMode => w.pill = "hidden"
           /\ v.replayMode /\ f \in Flights => PillRight(w, playing)
<1> DEFINE n == sampleCount(f)
           activity == IF n > 0 THEN "ready" ELSE "idle"
           bar == [v EXCEPT !.flight = f, !.slider = n, !.activity = activity]
           pill == IF ~bar.replayMode \/ sampleCount(bar.flight) = 0 THEN "hidden"
                   ELSE IF playing THEN "playing"
                   ELSE IF bar.activity = "paused" THEN "paused" ELSE "stopped"
           chromed == [bar EXCEPT !.pill = pill]
           stack == IF n > 0 /\ chromed.stack = "empty" THEN "graph"
                    ELSE IF n = 0 /\ v.live = 0 THEN "empty" ELSE chromed.stack
<1>1. w = [chromed EXCEPT !.renderTimer = FALSE, !.liveDirty = FALSE, !.replayDirty = TRUE,
                          !.stack = stack, !.trail = n, !.built = Unbuilt, !.bucket = Unbuilt]
  BY DEF PageSession, BarSession, syncTransportChrome
<1> HIDE DEF activity
<1>2. /\ IsView(bar) /\ SameMode(v, bar) /\ bar.live = v.live /\ bar.look = v.look
      /\ bar.drawn = v.drawn /\ bar.flight = f
  BY DEF IsView, ViewFields, SameMode
<1>3. n \in Nat /\ (f \in Flights => n > 0)
  BY TimelineBounds, FlightAssumption DEF Places
<1> HIDE DEF bar, n
<1>4. /\ ~v.replayMode => pill = "hidden"
      /\ v.replayMode /\ f \in Flights => (pill = "playing" <=> playing)
  BY <1>2, <1>3 DEF SameMode, n
<1> HIDE DEF pill
<1>5. /\ IsView(chromed) /\ SameMode(bar, chromed) /\ chromed.live = bar.live
      /\ chromed.look = bar.look /\ chromed.drawn = bar.drawn /\ chromed.flight = bar.flight
      /\ chromed.pill = pill
  BY <1>2 DEF IsView, ViewFields, SameMode
<1> HIDE DEF chromed, stack
<1>6. /\ IsView(w) /\ SameMode(chromed, w) /\ w.live = chromed.live
      /\ w.look = chromed.look /\ w.drawn = chromed.drawn /\ w.flight = chromed.flight
      /\ w.pill = chromed.pill /\ w.trail = n /\ w.replayDirty /\ ~w.liveDirty
  BY <1>1, <1>5 DEF IsView, ViewFields, SameMode
<1> QED
  BY <1>2, <1>4, <1>5, <1>6 DEF SameMode, PillRight, n

\* A page without a flight; in live use, one whose chart of the live samples stays.
LEMMA NoPageKeeps ==
    ASSUME NEW v, IsView(v), NEW playing \in BOOLEAN, NEW w, w = NoPageSession(v, playing)
    PROVE  /\ IsView(w) /\ SameMode(v, w)
           /\ ~v.replayMode /\ v.drawn = ChartOf(NoFlight, v.live, v.look) =>
                 /\ Lively(w) /\ LiveAwaited(w) /\ w.pill = "hidden"
                 /\ w.drawn = ChartOf(NoFlight, w.live, w.look)
<1> DEFINE paged == PageSession(v, NoFlight, playing)
<1>1. w = processScheduledUpdates(paged, TRUE)
  BY DEF NoPageSession
<1>2. /\ IsView(paged) /\ SameMode(v, paged) /\ paged.live = v.live /\ paged.look = v.look
      /\ paged.drawn = v.drawn /\ ~paged.liveDirty
      /\ ~v.replayMode => paged.pill = "hidden"
  BY PageKeeps DEF Places
<1> HIDE DEF paged
<1>3. /\ IsView(w) /\ SameView(paged, w)
      /\ ~paged.replayMode /\ Lively(paged) => Lively(w) /\ LiveAwaited(w)
      /\ ~paged.replayMode /\ ~paged.liveDirty => SameChart(paged, w)
  BY <1>1, <1>2, ProcessKeeps
<1>4. SameMode(v, w)
  BY <1>2, <1>3 DEF SameView, SameMode
<1>5. ASSUME ~v.replayMode, v.drawn = ChartOf(NoFlight, v.live, v.look)
      PROVE  /\ Lively(w) /\ LiveAwaited(w) /\ w.pill = "hidden"
             /\ w.drawn = ChartOf(NoFlight, w.live, w.look)
  <2>1. ~paged.replayMode /\ Lively(paged)
    BY <1>2, <1>5 DEF SameMode, Lively
  <2> QED
    BY <1>2, <1>3, <1>5, <2>1 DEF SameView, SamePlace, SameBar, SameChart
<1> QED BY <1>3, <1>4, <1>5

\* A reset forgets the live samples, and with them what is drawn of them.
LEMMA ResetKeeps ==
    ASSUME NEW v, IsView(v), NEW playing \in BOOLEAN, NEW w, w = resetSession(v, playing)
    PROVE  /\ IsView(w) /\ SameMode(v, w)
           /\ ~v.replayMode => w.drawn = ChartOf(NoFlight, w.live, w.look)
<1> DEFINE blank == [v EXCEPT !.live = 0, !.drawn = Blank, !.shown = NoSample]
<1>1. w = NoPageSession(blank, playing)
  BY DEF resetSession
<1>2. IsView(blank) /\ SameMode(v, blank) /\ blank.live = 0 /\ blank.drawn = Blank
  BY DEF IsView, ViewFields, SameMode
<1> HIDE DEF blank
<1>3. /\ IsView(w) /\ SameMode(blank, w)
      /\ ~blank.replayMode /\ blank.drawn = ChartOf(NoFlight, blank.live, blank.look) =>
            w.drawn = ChartOf(NoFlight, w.live, w.look)
  BY <1>1, <1>2, NoPageKeeps
<1> QED BY <1>2, <1>3 DEF SameMode, ChartOf

Moded(v, w, on) ==
    /\ IsView(w) /\ w.replayMode = on /\ w.loaded = v.loaded /\ w.feeding = v.feeding
    /\ w.posted = v.posted

\* The mode of the window is its own, and nothing else goes with it but the pill.
LEMMA ModeKeeps ==
    ASSUME NEW v, IsView(v), NEW on \in BOOLEAN, NEW playing \in BOOLEAN,
           NEW w, w = setReplayMode(v, on, playing)
    PROVE  Moded(v, w, on)
<1> DEFINE moded == [v EXCEPT !.replayMode = on]
           pill == IF ~moded.replayMode \/ sampleCount(moded.flight) = 0 THEN "hidden"
                   ELSE IF playing THEN "playing"
                   ELSE IF moded.activity = "paused" THEN "paused" ELSE "stopped"
<1>1. w = IF v.replayMode = on THEN v ELSE [moded EXCEPT !.pill = pill]
  BY DEF setReplayMode, syncTransportChrome
<1> HIDE DEF pill
<1>2. /\ IsView(moded) /\ moded.replayMode = on /\ moded.loaded = v.loaded
      /\ moded.feeding = v.feeding /\ moded.posted = v.posted
  BY DEF IsView, ViewFields
<1> HIDE DEF moded
<1> QED BY <1>1, <1>2 DEF Moded, IsView, ViewFields

\* A controller that is given a session is at its start.
LEMMA SessionPlaced ==
    ASSUME NEW c, CInv(c), NEW f \in Places, NEW d, d = setSession(c, f)
    PROVE  CInv(d) /\ d \in Controllers /\ ~d.playing /\ d.flight = f /\ d.index = 0
<1> DEFINE halted == haltPlayback(c, TRUE)
           given == [halted EXCEPT !.flight = f]
           placed == Place(given, 0)
<1>1. CInv(d) /\ d \in Controllers /\ ~d.playing
  BY SetSessionKeeps DEF Placed, CInv, Sound
<1>2. d = updatePosition(placed, 0, TRUE)
  BY DEF setSession
<1>3. halted \in Controllers
  BY HaltKeeps DEF CInv, Sound
<1> HIDE DEF halted
<1>4. given \in Controllers /\ given.flight = f
  BY <1>3 DEF Controllers, Places
<1> HIDE DEF given
<1>5. placed \in Controllers /\ placed.flight = f
  BY <1>4 DEF Place, Controllers
<1> HIDE DEF placed
<1>6. 0 \in 0..sampleCount(placed.flight)
  BY <1>5, TimelineBounds
<1>7. d.index = 0 /\ SameTime(placed, d)
  BY <1>2, <1>5, <1>6, UpdateKeeps
<1> QED BY <1>1, <1>5, <1>7 DEF SameTime

\* A resting controller that is sent elsewhere takes page, bar and strip with it.
LEMMA SentTold ==
    ASSUME NEW v, NEW c \in Controllers, ~c.playing, c.out = <<>>,
           Session(v), Charted(v), v.flight = c.flight, PillRight(v, FALSE),
           NEW trail \in 0..sampleCount(c.flight), trail # c.index,
           NEW d, d = setPosition(c, trail)
    PROVE  Agree(d, Told(v, d))
<1> DEFINE position == Clamped(trail, 0, sampleCount(c.flight))
           halted == haltPlayback(c, TRUE)
           time == playbackTimeForPosition(c.flight, position)
           placed == Place(halted, time)
<1>0. /\ c.flight \in Flights /\ c.flight \in Places /\ sampleCount(c.flight) \in Nat
      /\ sampleCount(c.flight) > 0
  BY TimelineBounds, FlightAssumption DEF Places, Session
<1>1. position = trail
  BY <1>0 DEF Clamped, Greater, Lesser
<1>2. d = updatePosition(placed, trail, FALSE)
  <2>1. d = IF sampleCount(c.flight) <= 0 THEN c ELSE updatePosition(placed, position, FALSE)
    BY DEF setPosition
  <2>2. ~(sampleCount(c.flight) <= 0)
    BY <1>0
  <2> HIDE DEF position, placed
  <2> QED BY <1>1, <2>1, <2>2
<1>3. time \in Nat
  <2>1. time \in 0..duration(c.flight) /\ duration(c.flight) \in Nat
    BY <1>0, <1>1, SeekTime, TimelineBounds
  <2> QED BY <2>1
<1> HIDE DEF position, time
<1>4. /\ halted \in Controllers /\ ~halted.playing /\ halted.index = c.index
      /\ halted.flight = c.flight /\ halted.out = c.out
  BY DEF haltPlayback, Controllers
<1> HIDE DEF halted
<1>5. /\ placed \in Controllers /\ ~placed.playing /\ placed.index = c.index
      /\ placed.flight = c.flight /\ placed.out = <<>>
  BY <1>3, <1>4 DEF Place, Controllers
<1> HIDE DEF placed
<1>6. Told(v, placed) = v
  BY <1>5, TellNothing
<1>7. Tracked(placed, d, trail, v, Told(v, d))
  <2>1. /\ Session(Told(v, placed)) /\ Charted(Told(v, placed))
        /\ Told(v, placed).flight = placed.flight /\ trail \in Int
    BY <1>5, <1>6
  <2>2. Tracked(placed, d, trail, Told(v, placed), Told(v, d))
    BY <1>2, <1>5, <2>1, UpdateTold
  <2> QED BY <1>6, <2>2
<1>8. d.index = trail
  BY <1>1, <1>5, <1>7 DEF position, Tracked
<1> QED
  BY <1>5, <1>7, <1>8 DEF Tracked, Agree, Caught, PillRight, SameBar, StripRight, SameState

-----------------------------------------------------------------------------
(* The steps. *)

\* A flight that is loaded is shown to its end.
LEMMA LoadAgrees ==
    ASSUME ViewInv, NEW f \in Flights, FlightLoaded(f)
    PROVE  IsView(view') /\ view'.posted \in Nat /\ view'.replayMode /\ Agree(replay', view')
<1> DEFINE given == [view EXCEPT !.loaded = f, !.feeding = FALSE]
           reset == resetSession(given, replay.playing)
           emptied == setReplayMode(reset, TRUE, replay.playing)
           quiet == Quiet(replay)
           begun == setSession(quiet, f)
           heard == Told(emptied, begun)
           paged == PageSession(heard, f, begun.playing)
           said == Quiet(begun)
           n == sampleCount(f)
           ended == setPosition(said, n)
           told == Told(paged, ended)
<1>0. /\ replay' = Quiet(ended) /\ view' = processScheduledUpdates(told, TRUE)
  BY DEF FlightLoaded
<1>1. /\ IsView(view) /\ view.posted \in Nat /\ CInv(replay) /\ replay.playing \in BOOLEAN
      /\ f \in Places /\ n \in Nat /\ n > 0
  BY TimelineBounds, FlightAssumption DEF ViewInv, CInv, Sound, Controllers, Places
<1>2. CInv(quiet)
  BY <1>1, QuietKeeps
<1>3. CInv(begun) /\ begun \in Controllers /\ ~begun.playing /\ begun.flight = f /\ begun.index = 0
  BY <1>1, <1>2, SessionPlaced
<1>4. begun.out \in Seq(Signals) /\ begun.playing \in BOOLEAN
  BY <1>3 DEF Controllers
<1>5. /\ IsView(given) /\ given.loaded = f /\ ~given.feeding /\ given.posted \in Nat
  BY <1>1 DEF IsView, ViewFields
<1> HIDE DEF given, quiet, begun, n
<1>6. IsView(reset) /\ SameMode(given, reset)
  BY <1>1, <1>5, ResetKeeps
<1> HIDE DEF reset
<1>7. /\ IsView(emptied) /\ emptied.replayMode /\ emptied.loaded = f /\ ~emptied.feeding
      /\ emptied.posted \in Nat
  <2>1. Moded(reset, emptied, TRUE)
    BY <1>1, <1>6, ModeKeeps, Zenon
  <2> HIDE DEF emptied
  <2> QED BY <1>5, <1>6, <2>1 DEF Moded, SameMode
<1> HIDE DEF emptied
<1>8. IsView(heard) /\ SameHost(emptied, heard) /\ heard.posted \in Nat
  BY <1>4, <1>7, ToldHosted DEF Hosted
<1> HIDE DEF heard
<1>9. /\ IsView(paged) /\ SameMode(heard, paged) /\ paged.flight = f /\ paged.trail = n
      /\ paged.replayDirty /\ PillRight(paged, begun.playing)
  <2>1. heard.replayMode
    BY <1>7, <1>8 DEF SameHost
  <2> QED BY <1>1, <1>4, <1>8, <2>1, PageKeeps DEF n
<1> HIDE DEF paged
<1>10. Session(paged) /\ Charted(paged) /\ PillRight(paged, FALSE)
  BY <1>1, <1>3, <1>7, <1>8, <1>9
     DEF Session, Charted, SameMode, SameHost, n, PillRight
<1>11. /\ CInv(said) /\ said \in Controllers /\ ~said.playing /\ said.out = <<>>
       /\ said.flight = f /\ said.index = 0
  BY <1>3, QuietSays
<1> HIDE DEF said
<1>12. Agree(ended, told)
  <2>1. n \in 0..sampleCount(said.flight) /\ n # said.index
    BY <1>1, <1>11 DEF n
  <2>2. paged.flight = said.flight
    BY <1>9, <1>11
  <2>3. ended = setPosition(said, n)
    OBVIOUS
  <2> HIDE DEF ended
  <2> QED BY <1>10, <1>11, <2>1, <2>2, <2>3, SentTold
<1>13. ended \in Controllers
  <2>1. n \in Int
    BY <1>1
  <2>2. CInv(ended)
    BY <1>11, <2>1, SetPositionKeeps
  <2> QED BY <2>2 DEF CInv, Sound
<1> HIDE DEF ended, told
<1>14. /\ replay'.flight = ended.flight /\ replay'.index = ended.index
       /\ replay'.playing = ended.playing
  BY <1>0, <1>13 DEF Quiet, Controllers
<1>15. /\ IsView(told) /\ told.posted \in Nat /\ told.replayMode /\ Session(told) /\ Charted(told)
  <2>1. Session(told) /\ Charted(told)
    BY <1>12 DEF Agree, Fits, Shown
  <2> QED BY <2>1 DEF Session
<1> DEFINE w == view'
<1>16. /\ IsView(w) /\ SameView(told, w) /\ Shown(w) /\ (Settled(told) => Settled(w))
  <2>1. w = processScheduledUpdates(told, TRUE)
    BY <1>0
  <2> HIDE DEF w
  <2> QED BY <1>15, <2>1, ProcessKeeps DEF Shown
<1> HIDE DEF w
<1>17. Agree(ended, w)
  BY <1>12, <1>16, AgreeKept
<1> DEFINE d == replay'
<1>18. d.flight = ended.flight /\ d.index = ended.index /\ d.playing = ended.playing
  BY <1>14
<1> HIDE DEF d
<1>19. Agree(d, w)
  BY <1>17, <1>18, AgreeQuiet
<1>20. w.posted \in Nat /\ w.replayMode
  BY <1>15, <1>16 DEF SameView, SameMode
<1> QED BY <1>16, <1>19, <1>20 DEF w, d

\* When a replay is put away nothing is left of it on the page.
LEMMA EndLives ==
    ASSUME ViewInv, NEW feeding \in BOOLEAN, EndReplay(feeding)
    PROVE  IsView(view') /\ view'.posted \in Nat /\ ~view'.replayMode /\ Live(replay', view')
<1> DEFINE quiet == Quiet(replay)
           stopped == stop(quiet)
           said == Quiet(stopped)
           closed == setSession(said, NoFlight)
           heard == Told(view, stopped)
           unloaded == [heard EXCEPT !.loaded = NoFlight]
           told == Told(unloaded, closed)
           moded == setReplayMode(told, FALSE, closed.playing)
           reset == resetSession(moded, closed.playing)
           fed == [reset EXCEPT !.feeding = feeding]
<1>0. replay' = Quiet(closed) /\ view' = NoPageSession(fed, closed.playing)
  BY DEF EndReplay
<1>1. IsView(view) /\ view.posted \in Nat /\ CInv(replay) /\ NoFlight \in Places
  BY DEF ViewInv, Places
<1>2. CInv(quiet)
  BY <1>1, QuietKeeps
<1> HIDE DEF quiet
<1>3. CInv(stopped)
  BY <1>2, StopKeeps
<1> HIDE DEF stopped
<1>4. CInv(said)
  BY <1>3, QuietKeeps
<1> HIDE DEF said
<1>5. closed \in Controllers /\ ~closed.playing
  BY <1>1, <1>4, SessionPlaced
<1>6. closed.playing \in BOOLEAN /\ closed.out \in Seq(Signals) /\ stopped.out \in Seq(Signals)
  BY <1>3, <1>5 DEF CInv, Sound, Controllers
<1> HIDE DEF closed
<1>7. IsView(heard) /\ heard.posted \in Nat
  BY <1>1, <1>6, ToldHosted DEF Hosted
<1> HIDE DEF heard
<1>8. IsView(unloaded) /\ unloaded.posted \in Nat
  BY <1>7 DEF IsView, ViewFields
<1> HIDE DEF unloaded
<1>9. IsView(told) /\ told.posted \in Nat
  BY <1>6, <1>8, ToldHosted DEF Hosted
<1> HIDE DEF told
<1>10. IsView(moded) /\ moded.replayMode = FALSE /\ moded.posted = told.posted
  <2>1. Moded(told, moded, FALSE)
    BY <1>6, <1>9, ModeKeeps, Zenon
  <2> HIDE DEF moded
  <2> QED BY <2>1 DEF Moded
<1> HIDE DEF moded
<1>11. /\ IsView(reset) /\ SameMode(moded, reset)
       /\ ~moded.replayMode => reset.drawn = ChartOf(NoFlight, reset.live, reset.look)
  BY <1>6, <1>10, ResetKeeps
<1> HIDE DEF reset
<1>12. /\ IsView(fed) /\ fed.replayMode = reset.replayMode /\ fed.posted = reset.posted
       /\ fed.drawn = reset.drawn /\ fed.live = reset.live /\ fed.look = reset.look
  BY <1>11 DEF IsView, ViewFields
<1> HIDE DEF fed
<1>13. /\ ~fed.replayMode /\ fed.posted \in Nat /\ fed.drawn = ChartOf(NoFlight, fed.live, fed.look)
  BY <1>9, <1>10, <1>11, <1>12 DEF SameMode
<1> DEFINE w == view'
<1>14. w = NoPageSession(fed, closed.playing)
  BY <1>0
<1> HIDE DEF w
<1>15. /\ IsView(w) /\ SameMode(fed, w) /\ Lively(w) /\ LiveAwaited(w) /\ w.pill = "hidden"
  BY <1>6, <1>12, <1>13, <1>14, NoPageKeeps
<1>16. ~replay'.playing
  BY <1>0, <1>5 DEF Quiet, Controllers
<1> QED
  BY <1>13, <1>15, <1>16 DEF w, Live, SameMode

\* A batch of live samples is drawn, or awaited.
LEMMA BatchLives ==
    ASSUME ViewInv, LiveBatch
    PROVE  IsView(view') /\ view'.posted \in Nat /\ ~view'.replayMode /\ Live(replay', view')
<1> DEFINE live == Lesser(view.live + 1, MaxLive)
           fresh == [view EXCEPT !.live = live, !.liveDirty = TRUE]
           passed == scheduleRenderPass(fresh)
<1>1. /\ view' = setDisplayedSample(passed, LiveSample) /\ replay' = replay /\ view.feeding
      /\ IsView(view) /\ view.posted \in Nat
  BY DEF ViewInv, LiveBatch, Untold
<1>2. ~view.replayMode /\ Live(replay, view)
  BY <1>1 DEF ViewInv, Agree, Fits, Shown, Session
<1>3. /\ IsView(fresh) /\ SameMode(view, fresh) /\ SameBar(view, fresh) /\ fresh.liveDirty
      /\ fresh.stack = view.stack
  BY <1>1 DEF IsView, ViewFields, SameMode, SameBar
<1> HIDE DEF fresh
<1>4. /\ IsView(passed) /\ SameView(fresh, passed) /\ SameChart(fresh, passed)
      /\ passed.renderTimer <=> graphViewIsActive(fresh) /\ Dirty(fresh)
  BY <1>3, ScheduleKeeps
<1> HIDE DEF passed
<1>5. /\ ~passed.replayMode /\ Lively(passed) /\ LiveAwaited(passed)
  BY <1>2, <1>3, <1>4
     DEF Lively, LiveAwaited, Dirty, graphViewIsActive, SameView, SameMode, SameChart
<1> DEFINE w == view'
<1>6. w = setDisplayedSample(passed, LiveSample)
  BY <1>1
<1> HIDE DEF w
<1>7. /\ IsView(w) /\ SameMode(passed, w) /\ SameBar(passed, w)
      /\ ~passed.replayMode /\ Lively(passed) =>
            Lively(w) /\ (LiveAwaited(passed) => LiveAwaited(w))
  BY <1>4, <1>6, SampleKeeps
<1> QED
  BY <1>1, <1>2, <1>3, <1>4, <1>5, <1>7 DEF w, Live, SameView, SameMode, SameBar

\* A request of the user is followed; there is none without a replay.
LEMMA ControlsAgree ==
    ASSUME ViewInv, UseControls
    PROVE  IsView(view') /\ view'.posted \in Nat /\ view'.replayMode /\ Agree(replay', view')
<1> DEFINE q == Quiet(replay)
           d == replay'
           w == view'
<1>0. /\ IsView(view) /\ view.posted \in Nat /\ CInv(replay) /\ Agree(replay, view)
      /\ view.replayMode
  BY DEF ViewInv, UseControls, ControlsUsable, Live
<1>1. /\ q \in Controllers /\ q.out = <<>> /\ q.flight = replay.flight
      /\ q.index = replay.index /\ q.playing = replay.playing
  BY <1>0, QuietSays
<1>2. \/ d = pause(q) /\ w = Told(view, d)
      \/ d = play(q) /\ w = Told(view, d)
      \/ d = stop(q) /\ w = Told(view, d)
      \/ \E asked \in AskedSpeeds : d = setSpeed(q, asked) /\ w = Told(view, d)
      \/ \E trail \in 0..sampleCount(view.flight) :
            /\ trail # view.slider
            /\ d = setPosition(q, trail)
            /\ w = Told([view EXCEPT !.slider = trail], d)
  BY DEF UseControls
<1> HIDE DEF q, d, w
<1>3. Told(view, q) = view
  BY <1>1, TellNothing
<1>4. Agree(q, Told(view, q))
  BY <1>0, <1>1, <1>3, AgreeQuiet
<1>5. Agree(d, w)
  <2>1. CASE d = pause(q) /\ w = Told(view, d)
    BY <1>1, <1>4, <2>1, PauseTold
  <2>2. CASE d = play(q) /\ w = Told(view, d)
    BY <1>1, <1>4, <2>2, PlayTold
  <2>3. CASE d = stop(q) /\ w = Told(view, d)
    BY <1>1, <1>4, <2>3, StopTold
  <2>4. CASE \E asked \in AskedSpeeds : d = setSpeed(q, asked) /\ w = Told(view, d)
    <3>1. PICK asked \in Int : d = setSpeed(q, asked) /\ w = Told(view, d)
      BY <2>4, SpeedAssumption
    <3> QED BY <1>1, <1>4, <3>1, SetSpeedTold
  <2>5. CASE \E trail \in 0..sampleCount(view.flight) :
                /\ trail # view.slider
                /\ d = setPosition(q, trail)
                /\ w = Told([view EXCEPT !.slider = trail], d)
    <3>1. PICK trail \in 0..sampleCount(view.flight) :
              /\ trail # view.slider
              /\ d = setPosition(q, trail)
              /\ w = Told([view EXCEPT !.slider = trail], d)
      BY <2>5
    <3> DEFINE v == [view EXCEPT !.slider = trail]
    <3>2. /\ IsView(v) /\ SameMode(view, v) /\ SameBar(view, v) /\ SameStrip(view, v)
          /\ SameChart(view, v) /\ v.flight = view.flight /\ v.trail = view.trail
          /\ v.look = view.look /\ v.stack = view.stack /\ v.renderTimer = view.renderTimer
      BY <1>0 DEF IsView, ViewFields, SameMode, SameBar, SameStrip, SameChart
    <3>6. d = setPosition(q, trail) /\ w = Told(v, d)
      BY <3>1
    <3> HIDE DEF v
    <3>3. /\ Fits(q, v) /\ PillRight(v, q.playing) /\ StripRight(v, q.playing)
          /\ q.playing \/ Caught(v)
      BY <1>0, <1>1, <3>2
         DEF Agree, Fits, Shown, Session, Charted, Awaited, Pended, PillRight, StripRight,
             Caught, Settled, graphViewIsActive, SameMode, SameBar, SameStrip, SameChart
    <3>4. Told(v, q) = v
      BY <1>1, TellNothing
    <3>5. trail \in 0..sampleCount(q.flight) /\ trail # q.index
      BY <1>0, <1>1, <3>1 DEF Agree, Fits
    <3> QED BY <1>1, <3>3, <3>4, <3>5, <3>6, SetPositionTold
  <2> QED BY <1>2, <2>1, <2>2, <2>3, <2>4, <2>5
<1>6. IsView(w) /\ w.posted \in Nat /\ w.replayMode
  BY <1>5 DEF Agree, Fits, Shown, Session
<1> QED BY <1>5, <1>6 DEF w, d

\* A tick of the replay timer is followed; there is none without a replay.
LEMMA TickAgrees ==
    ASSUME ViewInv, ReplayTick
    PROVE  IsView(view') /\ view'.posted \in Nat /\ view'.replayMode /\ Agree(replay', view')
<1> DEFINE q == Quiet(replay)
           d == replay'
           w == view'
<1>0. /\ IsView(view) /\ CInv(replay) /\ Agree(replay, view)
  BY DEF ViewInv, ReplayTick, onTimerTick, Live, CInv, Served
<1>1. /\ q \in Controllers /\ q.out = <<>> /\ q.flight = replay.flight
      /\ q.index = replay.index /\ q.playing = replay.playing
  BY <1>0, QuietSays
<1>2. d = synchronizePlayback(q) /\ w = Told(view, d)
  BY DEF ReplayTick, onTimerTick
<1> HIDE DEF q, d, w
<1>3. Told(view, q) = view
  BY <1>1, TellNothing
<1>4. Agree(q, Told(view, q))
  BY <1>0, <1>1, <1>3, AgreeQuiet
<1>5. Agree(d, w)
  BY <1>1, <1>2, <1>4, SyncTold
<1>6. IsView(w) /\ w.posted \in Nat /\ w.replayMode
  BY <1>5 DEF Agree, Fits, Shown, Session
<1> QED BY <1>5, <1>6 DEF w, d

\* What a step of the page or the window is to show.
Kept(c, w) ==
    /\ IsView(w) /\ w.posted \in Nat
    /\ w.replayMode => Agree(c, w)
    /\ ~w.replayMode => Live(c, w)

\* A step that changes what is looked at, and redraws what is marked.
LEMMA LookKeeps ==
    ASSUME ViewInv, NEW x, IsView(x), SameHost(view, x), x.posted \in Nat,
           x.flight = view.flight, x.trail = view.trail, x.slider = view.slider,
           SameBar(view, x), SameStrip(view, x),
           view.replayMode => Charted(x) /\ (Settled(view) => Settled(x)) /\ (Caught(view) => Caught(x)),
           ~view.replayMode => Lively(x),
           NEW due \in BOOLEAN, NEW w, w = processScheduledUpdates(x, due)
    PROVE  Kept(replay, w)
<1>1. /\ IsView(w) /\ SameView(x, w)
      /\ Session(x) /\ Charted(x) => Session(w) /\ Charted(w) /\ Awaited(w)
      /\ Session(x) /\ Charted(x) /\ Settled(x) => Settled(w)
      /\ ~x.replayMode /\ Lively(x) => Lively(w) /\ LiveAwaited(w)
  BY ProcessKeeps
<1>2. CASE view.replayMode
  <2>1. Agree(replay, view)
    BY <1>2 DEF ViewInv
  <2>2. Session(x) /\ Charted(x)
    BY <1>2, <2>1 DEF Agree, Fits, Shown, Session, SameHost
  <2>3. Agree(replay, w)
    BY <1>1, <1>2, <2>1, <2>2
       DEF Agree, Fits, Shown, Pended, PillRight, StripRight, Caught,
           SameView, SameHost, SameMode, SamePlace, SameBar, SameStrip
  <2> QED BY <1>1, <1>2, <2>3 DEF Kept, SameView, SameMode, SameHost
<1>3. CASE ~view.replayMode
  <2>1. Live(replay, view)
    BY <1>3 DEF ViewInv
  <2> QED
    BY <1>1, <1>3, <2>1 DEF Kept, Live, SameView, SameHost, SameMode, SameBar
<1> QED BY <1>2, <1>3

\* The dashboard that is opened shows the place of the replay.
LEMMA OpenKeeps ==
    ASSUME ViewInv, OpenDashboard
    PROVE  Kept(replay, view')
<1> DEFINE raised == [view EXCEPT !.visible = TRUE]
           opened == IF view.visible THEN view ELSE processScheduledUpdates(raised, TRUE)
           w == view'
<1>0. IsView(view) /\ view.posted \in Nat
  BY DEF ViewInv
<1>1. w = IF ~view.replayMode THEN opened
          ELSE IF replay.index <= 0 THEN setDisplayedSample(opened, NoSample)
          ELSE applyReplayTelemetrySample(opened, replay.index)
  BY DEF OpenDashboard
<1>2. /\ IsView(raised) /\ raised.replayMode = view.replayMode /\ raised.loaded = view.loaded
      /\ raised.feeding = view.feeding /\ raised.posted = view.posted
      /\ SamePlace(view, raised) /\ SameBar(view, raised) /\ SameStrip(view, raised)
      /\ SameChart(view, raised)
  BY <1>0 DEF IsView, ViewFields, SamePlace, SameBar, SameStrip, SameChart
<1> HIDE DEF raised
<1>3. /\ IsView(opened) /\ opened.replayMode = view.replayMode /\ opened.loaded = view.loaded
      /\ opened.feeding = view.feeding /\ opened.posted = view.posted
      /\ SamePlace(view, opened) /\ SameBar(view, opened) /\ SameStrip(view, opened)
      /\ view.replayMode => Shown(opened) /\ (Settled(view) => Settled(opened))
      /\ ~view.replayMode => Lively(opened) /\ LiveAwaited(opened)
  <2>1. CASE view.visible
    BY <1>0, <2>1 DEF ViewInv, Agree, Fits, Live, SamePlace, SameBar, SameStrip
  <2>2. CASE ~view.visible
    <3> DEFINE y == processScheduledUpdates(raised, TRUE)
    <3>1. /\ IsView(y) /\ SameView(raised, y)
          /\ Session(raised) /\ Charted(raised) => Session(y) /\ Charted(y) /\ Awaited(y)
          /\ Session(raised) /\ Charted(raised) /\ Settled(raised) => Settled(y)
          /\ ~raised.replayMode /\ Lively(raised) => Lively(y) /\ LiveAwaited(y)
      BY <1>2, ProcessKeeps
    <3>2. opened = y
      BY <2>2
    <3> HIDE DEF y, opened
    <3>3. view.replayMode => Session(raised) /\ Charted(raised) /\ (Settled(view) => Settled(raised))
      BY <1>2 DEF ViewInv, Agree, Fits, Shown, Session, Charted, Settled, SamePlace, SameChart
    <3>4. ~view.replayMode => Lively(raised)
      BY <1>2 DEF ViewInv, Live, Lively, SamePlace, SameChart
    <3> QED
      BY <1>2, <3>1, <3>2, <3>3, <3>4
         DEF Shown, SameView, SameMode, SamePlace, SameBar, SameStrip
  <2> QED BY <2>1, <2>2
<1> HIDE DEF opened, w
<1>4. CASE ~view.replayMode
  <2>1. w = opened
    BY <1>1, <1>4
  <2> QED
    BY <1>0, <1>3, <1>4, <2>1 DEF ViewInv, Kept, Live, SameBar, w
<1>5. CASE view.replayMode
  <2>0. Agree(replay, view)
    BY <1>5 DEF ViewInv
  <2>1. /\ Fits(replay, view) /\ replay.index \in 0..sampleCount(replay.flight)
        /\ sampleCount(replay.flight) \in Nat /\ view.loaded = replay.flight
    BY <2>0, AgreeFlight DEF Agree, Session
  <2>2. /\ IsView(w) /\ SameMode(opened, w) /\ SamePlace(opened, w) /\ SameBar(opened, w)
        /\ w.pending = opened.pending /\ w.stripTimer = opened.stripTimer
        /\ w.shown = SampleAt(replay.flight, replay.index)
        /\ Shown(opened) => Shown(w) /\ (Settled(opened) => Settled(w))
    <3>1. CASE replay.index <= 0
      <4>1. w = setDisplayedSample(opened, NoSample) /\ replay.index = 0
        BY <1>1, <1>5, <2>1, <3>1
      <4> QED BY <1>3, <4>1, SampleKeeps DEF SampleAt
    <3>2. CASE ~(replay.index <= 0)
      <4>1. /\ w = applyReplayTelemetrySample(opened, replay.index)
            /\ replay.index \in 1..sampleCount(opened.loaded) /\ replay.index # 0
            /\ opened.loaded = replay.flight
        BY <1>1, <1>3, <1>5, <2>1, <3>2
      <4>2. /\ IsView(w) /\ SameMode(opened, w) /\ SamePlace(opened, w) /\ SameBar(opened, w)
            /\ w.pending = opened.pending /\ w.stripTimer = opened.stripTimer
            /\ w.shown = IF replay.index \in 1..sampleCount(opened.loaded)
                         THEN <<opened.loaded, replay.index>> ELSE opened.shown
            /\ Shown(opened) => Shown(w) /\ (Settled(opened) => Settled(w))
        BY <1>3, <4>1, ReplaySampleKeeps
      <4> QED BY <4>1, <4>2 DEF SampleAt
    <3> QED BY <3>1, <3>2
  <2>3. Agree(replay, w)
    BY <1>3, <1>5, <2>0, <2>2
       DEF Agree, Fits, Pended, PillRight, StripRight, Caught,
           SameMode, SamePlace, SameBar, SameStrip
  <2> QED
    BY <1>0, <1>3, <1>5, <2>2, <2>3 DEF Kept, SameMode, w
<1> QED BY <1>4, <1>5

\* Out of sight nothing is promised but that the page stays true to the replay.
LEMMA LeaveKeeps ==
    ASSUME ViewInv, LeaveDashboard
    PROVE  Kept(replay, view')
<1> DEFINE w == view'
<1>0. IsView(view) /\ view.posted \in Nat
  BY DEF ViewInv
<1>1. w = [view EXCEPT !.visible = FALSE, !.stripTimer = FALSE]
  BY DEF LeaveDashboard
<1> HIDE DEF w
<1>2. /\ IsView(w) /\ w.replayMode = view.replayMode /\ w.loaded = view.loaded
      /\ w.feeding = view.feeding /\ w.posted = view.posted
      /\ SamePlace(view, w) /\ SameBar(view, w) /\ SameChart(view, w)
      /\ ~w.visible /\ ~w.stripTimer
  BY <1>0, <1>1 DEF IsView, ViewFields, SamePlace, SameBar, SameChart
<1>3. view.replayMode => Agree(replay, w)
  BY <1>2 DEF ViewInv, Agree, Fits, Shown, Session, Charted, Awaited, Pended, PillRight,
              StripRight, Caught, Settled, graphViewIsActive, SamePlace, SameBar, SameChart
<1>4. ~view.replayMode => Live(replay, w)
  BY <1>2 DEF ViewInv, Live, Lively, LiveAwaited, graphViewIsActive,
              SamePlace, SameBar, SameChart
<1> QED BY <1>0, <1>2, <1>3, <1>4 DEF Kept, w

\* A view that is chosen is drawn if it is marked.
LEMMA ChooseKeeps ==
    ASSUME ViewInv, ChooseView
    PROVE  Kept(replay, view')
<1> DEFINE w == view'
<1>0. IsView(view) /\ view.posted \in Nat
  BY DEF ViewInv
<1>1. PICK stack : w = processScheduledUpdates([view EXCEPT !.stack = stack], TRUE)
  BY DEF ChooseView
<1> DEFINE x == [view EXCEPT !.stack = stack]
<1>2. /\ IsView(x) /\ SameHost(view, x) /\ x.posted \in Nat /\ SamePlace(view, x)
      /\ SameBar(view, x) /\ SameStrip(view, x) /\ SameChart(view, x) /\ x.posted = view.posted
  BY <1>0 DEF IsView, ViewFields, SameHost, SamePlace, SameBar, SameStrip, SameChart
<1>6. w = processScheduledUpdates(x, TRUE)
  BY <1>1
<1> HIDE DEF w, x
<1>3. view.replayMode =>
          Charted(x) /\ (Settled(view) => Settled(x)) /\ (Caught(view) => Caught(x))
  BY <1>2 DEF ViewInv, Agree, Fits, Shown, Charted, Settled, Caught, SamePlace, SameChart
<1>4. ~view.replayMode => Lively(x)
  BY <1>2 DEF ViewInv, Live, Lively, SamePlace, SameChart
<1>5. Kept(replay, w)
  BY <1>2, <1>3, <1>4, <1>6, LookKeeps DEF SamePlace
<1> QED BY <1>5 DEF w

\* The scheduler's own pass.
LEMMA RenderKeeps ==
    ASSUME ViewInv, NEW due \in BOOLEAN, RenderTick(due)
    PROVE  Kept(replay, view')
<1> DEFINE w == view'
<1>1. w = processScheduledUpdates(view, due)
  BY DEF RenderTick
<1>2. /\ IsView(view) /\ view.posted \in Nat /\ SameHost(view, view) /\ SameBar(view, view)
      /\ SameStrip(view, view)
  BY DEF ViewInv, SameHost, SameBar, SameStrip
<1>3. /\ view.replayMode => Charted(view) /\ (Settled(view) => Settled(view))
                                          /\ (Caught(view) => Caught(view))
      /\ ~view.replayMode => Lively(view)
  BY DEF ViewInv, Agree, Fits, Shown, Live
<1> HIDE DEF w
<1>4. Kept(replay, w)
  BY <1>1, <1>2, <1>3, LookKeeps
<1> QED BY <1>4 DEF w

\* Another look marks the chart, and it is drawn at once or awaited.
LEMMA RestyleKeeps ==
    ASSUME ViewInv, Restyle
    PROVE  Kept(replay, view')
<1> DEFINE w == view'
           look == 1 - view.look
           other == [view EXCEPT !.look = look]
           marked == IF view.replayMode THEN [other EXCEPT !.replayDirty = TRUE]
                     ELSE [other EXCEPT !.liveDirty = TRUE]
<1>0. IsView(view) /\ view.posted \in Nat
  BY DEF ViewInv
<1>1. w = processScheduledUpdates(marked, TRUE) \/ w = scheduleRenderPass(marked)
  BY DEF Restyle
<1> HIDE DEF w, look
<1>2. /\ IsView(other) /\ SameHost(view, other) /\ other.posted = view.posted
      /\ other.flight = view.flight /\ other.trail = view.trail /\ other.slider = view.slider
      /\ SameBar(view, other) /\ SameStrip(view, other)
  BY <1>0 DEF IsView, ViewFields, SameHost, SameBar, SameStrip
<1> HIDE DEF other
<1>3. /\ IsView(marked) /\ SameHost(view, marked) /\ marked.posted = view.posted
      /\ marked.flight = view.flight /\ marked.trail = view.trail
      /\ marked.slider = view.slider /\ SameBar(view, marked) /\ SameStrip(view, marked)
      /\ view.replayMode => marked.replayDirty
      /\ ~view.replayMode => marked.liveDirty
  <2>1. CASE view.replayMode
    BY <1>2, <2>1 DEF IsView, ViewFields, SameHost, SameBar, SameStrip
  <2>2. CASE ~view.replayMode
    BY <1>2, <2>2 DEF IsView, ViewFields, SameHost, SameBar, SameStrip
  <2> QED BY <2>1, <2>2
<1> HIDE DEF marked
<1>4. CASE w = processScheduledUpdates(marked, TRUE)
  <2>1. view.replayMode =>
            Charted(marked) /\ (Settled(view) => Settled(marked)) /\ (Caught(view) => Caught(marked))
    BY <1>3 DEF Charted, Settled, Caught
  <2>2. ~view.replayMode => Lively(marked)
    BY <1>3 DEF Lively
  <2>3. Kept(replay, w)
    BY <1>0, <1>3, <1>4, <2>1, <2>2, LookKeeps
  <2> QED BY <2>3 DEF w
<1>5. CASE w = scheduleRenderPass(marked)
  <2>1. /\ IsView(w) /\ SameView(marked, w) /\ SameChart(marked, w)
        /\ w.renderTimer <=> graphViewIsActive(marked) /\ Dirty(marked)
    BY <1>3, <1>5, ScheduleKeeps
  <2>2. view.replayMode => Agree(replay, w)
    BY <1>3, <2>1
       DEF ViewInv, Agree, Fits, Shown, Session, Charted, Awaited, Pended, PillRight, StripRight,
           Caught, Settled, Dirty, graphViewIsActive,
           SameView, SameHost, SameMode, SamePlace, SameBar, SameStrip, SameChart
  <2>3. ~view.replayMode => Live(replay, w)
    BY <1>3, <2>1
       DEF ViewInv, Live, Lively, LiveAwaited, Dirty, graphViewIsActive,
           SameView, SameHost, SameMode, SameBar, SameChart
  <2> QED
    BY <1>0, <1>3, <2>1, <2>2, <2>3 DEF Kept, SameView, SameHost, SameMode, w
<1> QED BY <1>1, <1>4, <1>5

\* The timer of the strip shows where the trail ends.
LEMMA PendingKeeps ==
    ASSUME ViewInv, applyPendingReplayTelemetryStrip
    PROVE  Kept(replay, view')
<1> DEFINE w == view'
           rested == [view EXCEPT !.stripTimer = FALSE]
<1>0. IsView(view) /\ view.posted \in Nat /\ view.stripTimer
  BY DEF ViewInv, applyPendingReplayTelemetryStrip
<1>1. w = IF view.visible THEN applyReplayTelemetrySample(rested, view.pending) ELSE rested
  BY DEF applyPendingReplayTelemetryStrip
<1> HIDE DEF w
<1>2. /\ IsView(rested) /\ SameMode(view, rested) /\ SamePlace(view, rested)
      /\ SameBar(view, rested) /\ SameChart(view, rested) /\ ~rested.stripTimer
      /\ rested.stack = view.stack /\ rested.renderTimer = view.renderTimer
      /\ rested.shown = view.shown
  BY <1>0 DEF IsView, ViewFields, SameMode, SamePlace, SameBar, SameChart
<1> HIDE DEF rested
<1>3. view.replayMode => Shown(rested) /\ (Settled(view) => Settled(rested))
  BY <1>2 DEF ViewInv, Agree, Fits, Shown, Session, Charted, Awaited, Settled,
              graphViewIsActive, SameMode, SamePlace, SameChart
<1>4. ~view.replayMode => Lively(rested) /\ LiveAwaited(rested)
  BY <1>2 DEF ViewInv, Live, Lively, LiveAwaited, graphViewIsActive,
              SameMode, SamePlace, SameChart
<1>5. /\ IsView(w) /\ SameMode(rested, w) /\ SamePlace(rested, w) /\ SameBar(rested, w)
      /\ w.stripTimer = rested.stripTimer
      /\ Shown(rested) => Shown(w) /\ (Settled(rested) => Settled(w))
      /\ ~rested.replayMode /\ Lively(rested) =>
            Lively(w) /\ (LiveAwaited(rested) => LiveAwaited(w))
      /\ view.visible => w.shown = IF view.pending \in 1..sampleCount(rested.loaded)
                                   THEN <<rested.loaded, view.pending>> ELSE rested.shown
  <2>1. CASE view.visible
    <3>1. w = applyReplayTelemetrySample(rested, view.pending)
      BY <1>1, <2>1
    <3> QED BY <1>2, <2>1, <3>1, ReplaySampleKeeps
  <2>2. CASE ~view.visible
    BY <1>1, <1>2, <2>2 DEF SameMode, SamePlace, SameBar
  <2> QED BY <2>1, <2>2
<1>6. CASE view.replayMode
  <2>0. Agree(replay, view)
    BY <1>6 DEF ViewInv
  <2>1. /\ view.pending = view.trail /\ view.trail > 0 /\ view.loaded = view.flight
        /\ view.trail \in 0..sampleCount(view.flight) /\ sampleCount(view.flight) \in Nat
    <3>1. /\ view.pending = view.trail /\ view.trail > 0 /\ view.loaded = view.flight
          /\ view.flight = replay.flight
      BY <1>0, <2>0 DEF Agree, Fits, Shown, Session, Pended
    <3> QED BY <2>0, <3>1, AgreeFlight DEF Agree
  <2>2. view.pending \in 1..sampleCount(rested.loaded) /\ rested.loaded = view.flight
        /\ view.trail # 0
    BY <1>2, <2>1 DEF SameMode
  <2>3. w.visible => w.shown = SampleAt(w.flight, w.trail)
    BY <1>2, <1>5, <2>1, <2>2 DEF SampleAt, SameMode, SamePlace
  <2>4. Agree(replay, w)
    BY <1>2, <1>3, <1>5, <1>6, <2>0, <2>3
       DEF Agree, Fits, Pended, PillRight, StripRight, Caught, SameMode, SamePlace, SameBar
  <2> QED
    BY <1>0, <1>2, <1>5, <1>6, <2>4 DEF Kept, SameMode, w
<1>7. CASE ~view.replayMode
  BY <1>0, <1>2, <1>4, <1>5, <1>7 DEF ViewInv, Kept, Live, SameMode, SameBar, w
<1> QED BY <1>6, <1>7

\* A flush that comes late draws what rests, and leaves what plays.
LEMMA FlushedKeeps ==
    ASSUME ViewInv, PostedFlush
    PROVE  Kept(replay, view')
<1> DEFINE w == view'
           left == view.posted - 1
           x == [view EXCEPT !.posted = left]
<1>0. /\ IsView(view) /\ view.posted \in Nat /\ view.posted > 0 /\ replay.playing \in BOOLEAN
  BY DEF ViewInv, PostedFlush, CInv, Sound, Controllers
<1>1. w = flushReplayChartRebuild(x, replay.playing)
  BY DEF PostedFlush
<1>2. left \in Nat
  BY <1>0
<1> HIDE DEF w, left
<1>3. /\ IsView(x) /\ SameHost(view, x) /\ x.posted = left /\ SamePlace(view, x)
      /\ SameBar(view, x) /\ SameStrip(view, x) /\ SameChart(view, x)
      /\ x.stack = view.stack /\ x.renderTimer = view.renderTimer
  BY <1>0 DEF IsView, ViewFields, SameHost, SamePlace, SameBar, SameStrip, SameChart
<1> HIDE DEF x
<1>4. /\ IsView(w) /\ SameView(x, w)
      /\ Shown(x) => Shown(w) /\ (Settled(x) \/ ~replay.playing => Settled(w))
      /\ ~x.replayMode => w = x
  BY <1>0, <1>1, <1>3, FlushKeeps
<1>5. CASE view.replayMode
  <2>0. Agree(replay, view)
    BY <1>5 DEF ViewInv
  <2>1. Shown(x)
    BY <1>2, <1>3, <2>0
       DEF Agree, Fits, Shown, Session, Charted, Awaited, graphViewIsActive,
           SameHost, SamePlace, SameChart
  <2>2. Agree(replay, w)
    BY <1>3, <1>4, <2>0, <2>1
       DEF Agree, Fits, Pended, PillRight, StripRight, Caught,
           SameView, SameHost, SameMode, SamePlace, SameBar, SameStrip
  <2> QED
    BY <1>2, <1>3, <1>4, <1>5, <2>2 DEF Kept, SameView, SameMode, SameHost, w
<1>6. CASE ~view.replayMode
  BY <1>2, <1>3, <1>4, <1>6
     DEF ViewInv, Kept, Live, Lively, LiveAwaited, graphViewIsActive,
         SameHost, SamePlace, SameBar, SameChart, w
<1> QED BY <1>5, <1>6

\* Time alone changes nothing that is shown; it passes for a replay only.
LEMMA TimeKeeps ==
    ASSUME ViewInv, TimePasses
    PROVE  Kept(replay', view')
<1> DEFINE d == replay'
<1>1. d = Passed(replay) /\ TimeMatters(replay) /\ view' = view /\ CInv(replay)
  BY DEF ViewInv, TimePasses, ClockAdvances
<1>2. d.flight = replay.flight /\ d.index = replay.index /\ d.playing = replay.playing
  BY <1>1 DEF Passed, CInv, Sound, Controllers
<1> HIDE DEF d
<1>3. view.replayMode => Agree(d, view)
  BY <1>2, AgreeQuiet DEF ViewInv
<1>4. view.replayMode
  BY <1>1 DEF ViewInv, Live, TimeMatters
<1> QED BY <1>1, <1>3, <1>4 DEF ViewInv, Kept, d

-----------------------------------------------------------------------------
(* The invariant. *)

\* Nothing is shown, and nothing plays, when the program starts.
LEMMA InitInv == ViewInit => ViewInv
<1> SUFFICES ASSUME ViewInit PROVE ViewInv
  OBVIOUS
<1>1. CInv(replay) /\ ~replay.playing
  BY InitSound DEF ViewInit, Init, Fresh
<1>2. /\ IsView(view) /\ view.posted = 0 /\ ~view.replayMode /\ view.pill = "hidden"
      /\ view.drawn = Blank /\ view.live = 0 /\ ~view.liveDirty
  BY DEF ViewInit, IsView, ViewFields
<1> QED BY <1>1, <1>2 DEF ViewInv, Live, Lively, LiveAwaited, ChartOf

\* Every step of the event loop and of the user keeps it.
LEMMA StepInv == ViewInv /\ [ViewNext]_viewVars => ViewInv'
<1> SUFFICES ASSUME ViewInv, [ViewNext]_viewVars PROVE ViewInv'
  OBVIOUS
<1>1. CInv(replay')
  BY StepKeeps DEF ViewInv
<1>2. ASSUME Kept(replay', view') PROVE ViewInv'
  BY <1>1, <1>2 DEF Kept, ViewInv
<1>3. ASSUME NEW f \in Flights, FlightLoaded(f) PROVE Kept(replay', view')
  BY <1>3, LoadAgrees DEF Kept
<1>4. ASSUME onClearFlightData \/ prepareLiveSession PROVE Kept(replay', view')
  BY <1>4, EndLives DEF Kept, onClearFlightData, prepareLiveSession
<1>5. CASE LiveBatch
  BY <1>5, <1>2, BatchLives DEF Kept
<1>6. CASE UseControls
  BY <1>6, <1>2, ControlsAgree DEF Kept
<1>7. CASE ReplayTick
  BY <1>7, <1>2, TickAgrees DEF Kept
<1>8. CASE TimePasses
  BY <1>8, <1>2, TimeKeeps
<1>9. ASSUME Kept(replay, view'), replay' = replay PROVE ViewInv'
  BY <1>9, <1>2
<1>10. CASE OpenDashboard
  BY <1>10, <1>9, OpenKeeps DEF OpenDashboard, Untold
<1>11. CASE LeaveDashboard
  BY <1>11, <1>9, LeaveKeeps DEF LeaveDashboard, Untold
<1>12. CASE ChooseView
  BY <1>12, <1>9, ChooseKeeps DEF ChooseView, Untold
<1>13. CASE Restyle
  BY <1>13, <1>9, RestyleKeeps DEF Restyle, Untold
<1>14. ASSUME NEW due \in BOOLEAN, RenderTick(due) PROVE ViewInv'
  BY <1>14, <1>9, RenderKeeps DEF RenderTick, Untold
<1>15. CASE applyPendingReplayTelemetryStrip
  BY <1>15, <1>9, PendingKeeps DEF applyPendingReplayTelemetryStrip, Untold
<1>16. CASE PostedFlush
  BY <1>16, <1>9, FlushedKeeps DEF PostedFlush, Untold
<1>17. CASE UNCHANGED viewVars
  BY <1>17 DEF viewVars, ViewInv
<1> QED
  BY <1>2, <1>3, <1>4, <1>5, <1>6, <1>7, <1>8, <1>10, <1>11, <1>12, <1>13, <1>14, <1>15,
     <1>16, <1>17 DEF ViewNext

\* Slider, trail, pill and strip tell the truth about the controller in every
\* state between two steps (the slots of MainWindow, DashboardPage and ReplayBar).
THEOREM ControlsTell == ViewSpec => []ControlsTellTheTruth
<1>1. ViewInv => ControlsTellTheTruth
  BY DEF ViewInv, Agree, Fits, Shown, Session, PillRight, StripRight, SampleAt,
         ControlsTellTheTruth
<1> QED
  BY <1>1, InitInv, StepInv, PTL DEF ViewSpec

\* Playhead's marks are the flight's timeline.
LEMMA MarksAre ==
    ASSUME NEW f \in Places
    PROVE  /\ Len(timeline(f)) = sampleCount(f) /\ timeline(f) \in Seq(Nat)
           /\ \A p \in 0..sampleCount(f) :
                (IF p = 0 THEN 0 ELSE timeline(f)[p]) = playbackTimeForPosition(f, p)
           /\ playbackTimeForPosition(f, sampleCount(f)) = duration(f)
<1>1. CASE f = NoFlight
  BY <1>1 DEF timeline, sampleCount, playbackTimeForPosition, duration
<1>2. CASE f # NoFlight
  <2>1. /\ timeline(f) = Timeline[f] /\ Timeline[f] \in Seq(Nat)
        /\ sampleCount(f) = Len(Timeline[f]) /\ sampleCount(f) > 0
        /\ duration(f) = Timeline[f][sampleCount(f)]
    BY <1>2, TimelineBounds DEF timeline, sampleCount
  <2>2. sampleCount(f) \in Nat
    BY TimelineBounds
  <2> QED
    BY <1>2, <2>1, <2>2 DEF playbackTimeForPosition
<1> QED
  BY <1>1, <1>2

\* The user can only ask for places of the flight that is loaded.
LEMMA SeeksAreInside ==
    ASSUME ViewInv, [ViewNext]_viewVars, cause'.what = "seek", ~UNCHANGED <<replay, cause>>
    PROVE  sampleCount(replay.flight) > 0 /\ cause'.to \in 0..sampleCount(replay.flight)
<1>1. UseControls
  <2>1. ASSUME NEW f \in Flights, FlightLoaded(f) PROVE cause'.what = "load"
    BY <2>1 DEF FlightLoaded, Caused
  <2>2. ASSUME onClearFlightData \/ prepareLiveSession PROVE cause'.what = "load"
    BY <2>2 DEF onClearFlightData, prepareLiveSession, EndReplay, Caused
  <2>3. ASSUME ReplayTick PROVE cause'.what = "tick"
    BY <2>3 DEF ReplayTick, Caused
  <2>4. ASSUME TimePasses PROVE cause'.what = "clock"
    BY <2>4 DEF TimePasses, Caused
  <2>5. ASSUME Untold PROVE cause'.what = "other"
    BY <2>5 DEF Untold, Caused
  <2>6. ~UNCHANGED viewVars
    BY DEF viewVars
  <2> QED
    BY <2>1, <2>2, <2>3, <2>4, <2>5, <2>6
       DEF ViewNext, LiveBatch, OpenDashboard, LeaveDashboard, ChooseView, Restyle,
           RenderTick, applyPendingReplayTelemetryStrip, PostedFlush
<1>2. PICK trail \in 0..sampleCount(view.flight) :
          trail # view.slider /\ cause' = [what |-> "seek", to |-> trail]
  <2>1. \/ cause'.what \in {"pause", "play", "stop", "speed"}
        \/ \E trail \in 0..sampleCount(view.flight) :
              trail # view.slider /\ cause' = [what |-> "seek", to |-> trail]
    <3>1. \/ \E what \in {"pause", "play", "stop"} : Caused(what)
          \/ \E asked \in AskedSpeeds : CausedTo("speed", normalizedSpeed(asked))
          \/ \E trail \in 0..sampleCount(view.flight) :
                trail # view.slider /\ CausedTo("seek", trail)
      BY <1>1, Zenon DEF UseControls
    <3> QED
      BY <3>1 DEF Caused, CausedTo
  <2> QED
    BY <2>1
<1>3. view.replayMode /\ Agree(replay, view)
  BY <1>1 DEF ViewInv, UseControls, ControlsUsable, Live
<1>4. view.flight = replay.flight /\ view.slider = replay.index
  BY <1>3 DEF Agree, Fits
<1>5. /\ sampleCount(replay.flight) \in Nat /\ replay.index \in Nat
      /\ replay.index <= sampleCount(replay.flight)
  <2>1. Sound(replay) /\ replay.flight \in Places
    BY DEF ViewInv, CInv, Sound, Controllers, Places
  <2>2. /\ replay.index \in Nat /\ replay.time \in Nat
        /\ replay.index <= positionForPlaybackTime(replay.flight, replay.time)
    BY <2>1 DEF Sound, Controllers
  <2>3. /\ sampleCount(replay.flight) \in Nat
        /\ positionForPlaybackTime(replay.flight, replay.time) \in 0..sampleCount(replay.flight)
    BY <2>1, <2>2, TimelineBounds, PositionMonotone
  <2> QED
    BY <2>2, <2>3
<1> QED
  BY <1>2, <1>4, <1>5

\* The controller's answers are Playhead's steps.
LEMMA AnswersAreSteps ==
    ASSUME CInv(replay), CInv(replay'), Answered(replay, replay', cause'),
           cause'.what = "seek" =>
              sampleCount(replay.flight) > 0 /\ cause'.to \in 0..sampleCount(replay.flight)
    PROVE  Abstract!Next
<1> DEFINE c == replay
           d == replay'
           k == cause'
<1>1. /\ c \in Controllers /\ d \in Controllers
      /\ c.flight \in Places /\ d.flight \in Places
      /\ c.playing \in BOOLEAN /\ d.playing \in BOOLEAN
      /\ duration(c.flight) \in Nat /\ duration(d.flight) \in Nat
      /\ playbackTimeAt(c) \in 0..duration(c.flight)
      /\ playbackTimeAt(d) \in 0..duration(d.flight)
  <2>1. ASSUME NEW e, CInv(e)
        PROVE  /\ e \in Controllers /\ e.flight \in Places /\ e.playing \in BOOLEAN
               /\ duration(e.flight) \in Nat /\ playbackTimeAt(e) \in 0..duration(e.flight)
    <3>1. /\ e \in Controllers /\ e.playing \in BOOLEAN /\ e.time \in Nat
          /\ e.flight \in Places /\ duration(e.flight) \in Nat
          /\ playbackTimeAt(e) \in e.time..duration(e.flight)
      BY <2>1, PlaybackTimeRange DEF CInv, Sound, Controllers
    <3> QED
      BY <3>1
  <2> QED
    BY <2>1
<1>2. /\ playbackTimeAt(replay)' = playbackTimeAt(d)
      /\ timeline(replay.flight)' = timeline(d.flight)
      /\ (replay.speed)' = d.speed /\ (replay.playing)' = d.playing
  BY DEF playbackTimeAt, duration, timeline
<1>3. /\ Abstract!End = duration(c.flight)
      /\ Abstract!LastInstantShared <=> Shared(c.flight)
      /\ \A p \in 0..sampleCount(c.flight) :
            Abstract!MarkAt(p) = playbackTimeForPosition(c.flight, p)
      /\ Len(timeline(c.flight)) = sampleCount(c.flight)
  <2>1. /\ sampleCount(c.flight) \in Nat /\ Len(timeline(c.flight)) = sampleCount(c.flight)
        /\ \A p \in 0..sampleCount(c.flight) :
              (IF p = 0 THEN 0 ELSE timeline(c.flight)[p]) = playbackTimeForPosition(c.flight, p)
        /\ playbackTimeForPosition(c.flight, sampleCount(c.flight)) = duration(c.flight)
    BY <1>1, MarksAre, TimelineBounds
  <2>2. \A p \in 0..sampleCount(c.flight) :
            Abstract!MarkAt(p) = playbackTimeForPosition(c.flight, p)
    BY <2>1 DEF Abstract!MarkAt
  <2>3. Abstract!End = duration(c.flight)
    BY <2>1, <2>2 DEF Abstract!End
  <2>4. sampleCount(c.flight) > 1 => timeline(c.flight) = Timeline[c.flight]
    BY <1>1, TimelineBounds DEF timeline
  <2>5. Abstract!LastInstantShared <=> Shared(c.flight)
    BY <2>1, <2>3, <2>4 DEF Abstract!LastInstantShared, Shared
  <2> QED
    BY <2>1, <2>2, <2>3, <2>5
<1>4. /\ (Abstract!End)' = duration(d.flight)
      /\ timeline(d.flight) \in Seq(Nat)
  <2>1. /\ sampleCount(d.flight) \in Nat /\ Len(timeline(d.flight)) = sampleCount(d.flight)
        /\ (IF sampleCount(d.flight) = 0 THEN 0 ELSE timeline(d.flight)[sampleCount(d.flight)])
              = duration(d.flight)
        /\ timeline(d.flight) \in Seq(Nat)
    BY <1>1, MarksAre, TimelineBounds
  <2> QED
    BY <1>2, <2>1 DEF Abstract!End, Abstract!MarkAt
<1> DEFINE same == d.flight = c.flight
<1>5. d.flight = c.flight => timeline(d.flight) = timeline(c.flight)
  OBVIOUS
<1>6. CASE k.what = "clock" /\ TimeMatters(c) /\ d = Passed(c)
  <2>1. /\ d.flight = c.flight /\ d.speed = c.speed /\ d.playing /\ c.playing
        /\ playbackTimeAt(d) = IF playbackTimeAt(c) + c.speed < duration(c.flight)
                                THEN playbackTimeAt(c) + c.speed ELSE duration(c.flight)
    BY <1>6, PassedKeeps
  <2>2. d.playing = c.playing /\ playbackTimeAt(c) < duration(c.flight)
    BY <1>1, <1>6, <2>1 DEF TimeMatters
  <2>3. Abstract!Clock
    BY <1>2, <1>3, <1>6, <2>1, <2>2 DEF Abstract!Clock
  <2> QED BY <2>3 DEF Abstract!Next
<1>7. CASE k.what = "tick" /\ Ticked(c, d)
  <2>1. d.playing = (c.playing /\ playbackTimeAt(c) < duration(c.flight))
    BY <1>1, <1>7 DEF Ticked, AtEnd
  <2>2. Abstract!Tick
    BY <1>2, <1>3, <1>7, <2>1 DEF Abstract!Tick, Ticked, Unmoved
  <2> QED BY <2>2 DEF Abstract!Next
<1>8. CASE k.what = "pause" /\ Paused(c, d)
  <2>1. Abstract!Pause
    BY <1>2, <1>8 DEF Abstract!Pause, Paused, Unmoved
  <2> QED BY <2>1 DEF Abstract!Next
<1>9. CASE k.what = "speed" /\ Paced(c, d, k.to)
  <2>1. d.playing = (c.playing /\ (playbackTimeAt(c) < duration(c.flight) \/ d.speed = c.speed))
    BY <1>1, <1>9 DEF Paced, AtEnd
  <2>2. Abstract!ChangeRate
    BY <1>2, <1>3, <1>9, <2>1 DEF Abstract!ChangeRate, Paced, Unmoved
  <2> QED BY <2>2 DEF Abstract!Next
<1>10. CASE k.what = "play" /\ ~c.playing /\ Played(c, d)
  <2>1. d.playing = (playbackTimeAt(d) < duration(c.flight))
    BY <1>1, <1>10 DEF Played, AtEnd
  <2>2. \/ playbackTimeAt(c) = duration(c.flight) /\ playbackTimeAt(d) = 0
        \/ /\ playbackTimeAt(c) < duration(c.flight) \/ Shared(c.flight)
           /\ playbackTimeAt(d) = playbackTimeAt(c)
    BY <1>1, <1>10 DEF Played, AtEnd
  <2>3. Abstract!Play
    BY <1>2, <1>3, <1>10, <2>1, <2>2 DEF Abstract!Play, Played
  <2> QED BY <2>3 DEF Abstract!Next
<1>11. CASE k.what = "stop" /\ Placed(c, d, c.flight, 0)
  <2>1. Abstract!Stop
    BY <1>2, <1>11 DEF Abstract!Stop, Placed
  <2> QED BY <2>1 DEF Abstract!Next
<1>12. CASE /\ k.what = "seek" /\ k.to \in 0..sampleCount(c.flight)
            /\ Placed(c, d, c.flight, playbackTimeForPosition(c.flight, k.to))
  <2>1. /\ k.to \in 0..Len(timeline(c.flight))
        /\ playbackTimeAt(d) = Abstract!MarkAt(k.to)
    BY <1>3, <1>12 DEF Placed
  <2>2. Abstract!Seek
    BY <1>2, <1>12, <2>1 DEF Abstract!Seek, Abstract!MarkAt, Placed
  <2> QED BY <2>2 DEF Abstract!Next
<1>13. CASE k.what = "load" /\ Placed(c, d, d.flight, duration(d.flight))
  <2>1. Abstract!Load
    BY <1>2, <1>4, <1>13 DEF Abstract!Load, Placed
  <2> QED BY <2>1 DEF Abstract!Next
<1>14. CASE k.what = "other" /\ d = c
  <2>1. Abstract!Other
    BY <1>2, <1>14 DEF Abstract!Other
  <2> QED BY <2>1 DEF Abstract!Next
<1> QED
  BY <1>6, <1>7, <1>8, <1>9, <1>10, <1>11, <1>12, <1>13, <1>14 DEF Answered

\* The controller implements Playhead: each step leaves the replay where its cause
\* demands - the clock, the timer, a pause, a speed, a start, a stop, a seek or a
\* load - and nothing else moves it (the public methods of FlightReplayController).
THEOREM ControllerIsPlayhead == ViewSpec => KeepsTime
<1>1. ViewInit => Abstract!Init
  BY SpeedAssumption
     DEF ViewInit, Init, Fresh, Abstract!Init, playbackTimeAt, timeline
<1>2. ViewInv /\ ViewInv' /\ [ViewNext]_viewVars => [Abstract!Next]_(Abstract!vars)
  <2> SUFFICES ASSUME ViewInv, ViewInv', [ViewNext]_viewVars
               PROVE  [Abstract!Next]_(Abstract!vars)
    OBVIOUS
  <2>1. CInv(replay) /\ CInv(replay')
    BY StepKeeps DEF ViewInv
  <2>2. CASE UNCHANGED <<replay, cause>>
    BY <2>2 DEF Abstract!vars, playbackTimeAt, timeline, duration
  <2>3. CASE ~UNCHANGED <<replay, cause>>
    <3>1. Answered(replay, replay', cause')
      BY <2>1, <2>3, StepKeeps
    <3>2. cause'.what = "seek" =>
              sampleCount(replay.flight) > 0 /\ cause'.to \in 0..sampleCount(replay.flight)
      BY <2>3, SeeksAreInside
    <3> QED
      BY <2>1, <3>1, <3>2, AnswersAreSteps
  <2> QED
    BY <2>2, <2>3
<1> QED
  BY <1>1, <1>2, InitInv, StepInv, PTL DEF ViewSpec, KeepsTime, Abstract!Spec

\* A graph in view is right up to the grouping of a playing replay, or a redraw
\* is on its way (DashboardPage's render scheduler and its flushes).
THEOREM ChartsAreFresh == ViewSpec => []NothingStaysStale
<1>1. ViewInv => NothingStaysStale
  <2> SUFFICES ASSUME ViewInv, graphViewIsActive(view), ~view.renderTimer
               PROVE  NothingStaysStale
    BY DEF NothingStaysStale
  <2>1. CASE ~view.replayMode
    BY <2>1 DEF ViewInv, Live, Lively, LiveAwaited, ChartOf, NothingStaysStale, Shows, Due
  <2>2. CASE view.replayMode
    <3>0. /\ Agree(replay, view) /\ view.posted \in Nat
      BY <2>2 DEF ViewInv
    <3>1. /\ ~view.replayDirty /\ view.flight = replay.flight /\ view.trail = replay.index
          /\ view.drawn = ChartOf(view.flight, view.built, view.look)
          /\ replayBucket(view.flight, view.built) = replayBucket(view.flight, view.trail)
      BY <3>0 DEF Agree, Fits, Shown, Awaited, Charted
    <3>2. CASE replay.playing
      <4> DEFINE due == [flight |-> replay.flight, trail |-> view.drawn.trail,
                         look |-> view.look]
      <4>1. due = [Due EXCEPT !.trail = view.drawn.trail]
        BY <2>2 DEF Due
      <4>2. view.drawn.trail = view.built
        BY <3>1 DEF ChartOf, Blank
      <4>3. Shows(view.drawn, due)
        BY <3>1, <4>2 DEF Shows, ChartOf
      <4> HIDE DEF due
      <4> QED
        BY <3>1, <3>2, <4>1, <4>2, <4>3 DEF NothingStaysStale
    <3>3. CASE ~replay.playing
      <4>1. view.built = view.trail \/ view.posted > 0
        BY <3>0, <3>1, <3>3 DEF Agree, Caught, Settled
      <4> QED
        BY <2>2, <3>1, <3>3, <4>1 DEF NothingStaysStale, Shows, Due, ChartOf
    <3> QED BY <3>2, <3>3
  <2> QED BY <2>1, <2>2
<1> QED
  BY <1>1, InitInv, StepInv, PTL DEF ViewSpec

-----------------------------------------------------------------------------
(* Counting places of a sequence. *)

Rank(places, i) == Cardinality({j \in places : j <= i})

\* Places have different ranks, in their order.
LEMMA RanksDiffer ==
    ASSUME NEW n \in Nat, NEW places \in SUBSET (1 .. n)
    PROVE  /\ Cardinality(places) \in 0 .. n
           /\ IsFiniteSet(places)
           /\ \A i \in places : Rank(places, i) \in 1 .. Cardinality(places)
           /\ \A i, k \in places : i < k => Rank(places, i) < Rank(places, k)
<1>0. \A i \in places : i \in 1 .. n
  OBVIOUS
<1>1. IsFiniteSet(1 .. n) /\ Cardinality(1 .. n) = n
  BY FS_Interval
<1>2. IsFiniteSet(places) /\ Cardinality(places) <= n
  BY <1>1, FS_Subset
<1>3. Cardinality(places) \in Nat
  BY <1>2, FS_CardinalityType
<1> DEFINE upTo(i) == {j \in places : j <= i}
<1>4. \A i : upTo(i) \in SUBSET places
  OBVIOUS
<1> HIDE DEF upTo
<1>5. \A i : IsFiniteSet(upTo(i)) /\ Cardinality(upTo(i)) \in Nat
  BY <1>2, <1>4, FS_Subset, FS_CardinalityType
<1>6. \A i : Cardinality(upTo(i)) <= Cardinality(places)
  BY <1>2, <1>4, FS_Subset
<1>7. ASSUME NEW i \in places PROVE Cardinality(upTo(i)) # 0
  <2>1. i \in upTo(i)
    BY DEF upTo
  <2> QED BY <2>1, <1>5, FS_EmptySet
<1>8. ASSUME NEW i \in places, NEW k \in places, i < k
      PROVE  Cardinality(upTo(i)) < Cardinality(upTo(k))
  <2>0. i \in Int /\ k \in Int /\ \A j \in places : j \in Int
    BY <1>0
  <2>1. upTo(i) \in SUBSET upTo(k) /\ k \in upTo(k) /\ k \notin upTo(i)
    <3>1. \A j \in upTo(i) : j \in upTo(k)
      BY <2>0, <1>8 DEF upTo
    <3>2. k \in upTo(k) /\ k \notin upTo(i)
      BY <2>0, <1>8 DEF upTo
    <3> QED BY <3>1, <3>2
  <2>2. /\ Cardinality(upTo(i)) <= Cardinality(upTo(k))
        /\ Cardinality(upTo(k)) = Cardinality(upTo(i)) => upTo(k) = upTo(i)
    BY <2>1, <1>5, FS_Subset
  <2> QED BY <2>1, <2>2, <1>5
<1>9. \A i : Rank(places, i) = Cardinality(upTo(i))
  BY DEF Rank, upTo
<1>10. \A i \in places : Rank(places, i) \in 1 .. Cardinality(places)
  BY <1>3, <1>5, <1>6, <1>7, <1>9
<1> QED BY <1>2, <1>3, <1>8, <1>9, <1>10

\* Each number up to how many there are is the rank of a place.
LEMMA NthPlace ==
    ASSUME NEW n \in Nat, NEW places \in SUBSET (1 .. n)
    PROVE  /\ \A k \in 1 .. Cardinality(places) :
                 Nth(places, k) \in places /\ Rank(places, Nth(places, k)) = k
           /\ \A k, l \in 1 .. Cardinality(places) : k < l => Nth(places, k) < Nth(places, l)
           /\ \A i \in places : Nth(places, Rank(places, i)) = i
<1> DEFINE c == Cardinality(places)
           f == [i \in places |-> Rank(places, i)]
<1>0. \A i \in places : i \in 1 .. n
  OBVIOUS
<1>1. /\ c \in Nat /\ IsFiniteSet(places)
      /\ \A i \in places : Rank(places, i) \in 1 .. c
      /\ \A i, k \in places : i < k => Rank(places, i) < Rank(places, k)
  BY RanksDiffer
<1>2. IsFiniteSet(1 .. c) /\ Cardinality(1 .. c) = c
  BY <1>1, FS_Interval
<1> HIDE DEF c
<1>3. \A i, k \in places : Rank(places, i) = Rank(places, k) => i = k
  BY <1>1
<1>4. f \in Injection(places, 1 .. c)
  <2>1. f \in [places -> 1 .. c]
    BY <1>1
  <2>2. \A a, b \in places : f[a] = f[b] => a = b
    BY <1>3
  <2> QED BY <2>1, <2>2 DEF Injection, IsInjective
<1>5. Cardinality(places) = Cardinality(1 .. c)
  BY <1>2 DEF c
<1>6. f \in Surjection(places, 1 .. c)
  BY <1>2, <1>4, <1>5, FS_Injection
<1>7. \A k \in 1 .. c : \E i \in places : Rank(places, i) = k
  BY <1>6 DEF Surjection
<1>8. \A k \in 1 .. c : Nth(places, k) \in places /\ Rank(places, Nth(places, k)) = k
  BY <1>7 DEF Nth, Rank
<1>9. \A k, l \in 1 .. c : k < l => Nth(places, k) < Nth(places, l)
  <2> SUFFICES ASSUME NEW k \in 1 .. c, NEW l \in 1 .. c, k < l
               PROVE  Nth(places, k) < Nth(places, l)
      OBVIOUS
  <2>1. /\ Nth(places, k) \in places /\ Nth(places, l) \in places
        /\ Rank(places, Nth(places, k)) < Rank(places, Nth(places, l))
    BY <1>8
  <2> DEFINE x == Nth(places, k)
             y == Nth(places, l)
  <2>2. x \in 1 .. n /\ y \in 1 .. n
    BY <1>0, <2>1
  <2>3. Rank(places, x) = k /\ Rank(places, y) = l /\ x \in places /\ y \in places
    BY <1>8
  <2> HIDE DEF x, y
  <2>4. ~(y < x) /\ y # x
    BY <1>1, <2>3
  <2>5. x < y
    BY <2>2, <2>4
  <2> QED BY <2>5 DEF x, y
<1>10. \A i \in places : Nth(places, Rank(places, i)) = i
  BY <1>1, <1>3, <1>8
<1> QED BY <1>8, <1>9, <1>10 DEF c

\* Of a set that holds each place before one it holds: it is a beginning.
LEMMA Beginning ==
    ASSUME NEW n \in Nat, NEW places \in SUBSET (1 .. n),
           \A k \in places, j \in 1 .. n : j < k => j \in places
    PROVE  /\ Cardinality(places) \in 0 .. n
           /\ places = 1 .. Cardinality(places)
<1>0. \A i \in places : i \in 1 .. n
  OBVIOUS
<1>1. CASE places = {}
  BY <1>1, FS_EmptySet
<1>2. CASE places # {}
  <2>1. Max(places) \in places /\ \A y \in places : y <= Max(places)
    BY <1>2, LastPlace
  <2> DEFINE b == Max(places)
  <2>2. b \in 1 .. n /\ b \in places /\ \A y \in places : y <= b
    BY <1>0, <2>1
  <2> HIDE DEF b
  <2>3. places = 1 .. b
    <3>1. \A i \in places : i \in 1 .. b
      BY <1>0, <2>2
    <3>2. ASSUME NEW i \in 1 .. b PROVE i \in places
      <4>1. i \in 1 .. n /\ (i = b \/ i < b)
        BY <2>2
      <4> QED BY <4>1, <2>2
    <3> QED BY <3>1, <3>2
  <2>4. Cardinality(1 .. b) = b
    BY <2>2, FS_Interval
  <2> QED BY <2>2, <2>3, <2>4
<1> QED BY <1>1, <1>2

\* A sequence at the places after the first b of them.
LEMMA AtTheEnd ==
    ASSUME NEW n \in Nat, NEW b \in 0 .. n
    PROVE  /\ Cardinality((b + 1) .. n) = n - b
           /\ \A k \in 1 .. n - b : Nth((b + 1) .. n, k) = b + k
<1> DEFINE places == (b + 1) .. n
<1>1. Cardinality(places) = n - b
  <2>1. b + 1 \in Int /\ n \in Int
    OBVIOUS
  <2>2. Cardinality(places) = IF b + 1 > n THEN 0 ELSE n - (b + 1) + 1
    BY <2>1, FS_Interval
  <2> HIDE DEF places
  <2> QED BY <2>2
<1>2. places \in SUBSET (1 .. n)
  OBVIOUS
<1>3. ASSUME NEW k \in 1 .. n - b PROVE Nth(places, k) = b + k
  <2>1. b + k \in places /\ {j \in places : j <= b + k} = (b + 1) .. (b + k)
    OBVIOUS
  <2>2. Cardinality((b + 1) .. (b + k)) = k
    BY FS_Interval
  <2>3. Rank(places, b + k) = k
    BY <2>1, <2>2 DEF Rank
  <2> HIDE DEF places
  <2> QED BY <1>2, <2>1, <2>3, NthPlace
<1> QED BY <1>1, <1>3
-----------------------------------------------------------------------------
(* Where the samples of a flight are placed. *)

Indices == [num : Int, den : Nat \ {0}]
Fixes == [index : Indices, timestamp : Int, place : Coordinates, segment : Nat]
Trajectories == [fixes : Seq(Fixes), lastTimestamp : Int, currentSegment : Nat, interrupted : BOOLEAN]

\* The fixes are in order, as the rows see them.
Ordered(fixes, row) ==
    \A k, l \in DOMAIN fixes : k < l =>
        /\ Precedes(fixes[l].index, row) => Precedes(fixes[k].index, row)
        /\ Precedes(fixes[l].index, row) \/ LiesAt(fixes[l].index, row)
              => Precedes(fixes[k].index, row) \/ LiesAt(fixes[k].index, row)

Reached(at, row) == Precedes(at, row) \/ LiesAt(at, row)

\* Multiples of a positive number are in the order of what they are multiples of.
LEMMA Multiples ==
    ASSUME NEW d \in Nat \ {0}, NEW i \in Int, NEW j \in Int
    PROVE  /\ i * d \in Int /\ j * d \in Int
           /\ i < j <=> i * d < j * d
           /\ i = j <=> i * d = j * d
<1>1. i * d \in Int /\ j * d \in Int /\ (j - i) * d = j * d - i * d
  OBVIOUS
<1>2. i < j => (j - i) * d > 0
  OBVIOUS
<1>3. j < i => (j - i) * d < 0
  OBVIOUS
<1> QED BY <1>1, <1>2, <1>3

\* What lies before a row, or at it, lies before the rows after it.
LEMMA LaterRows ==
    ASSUME NEW at \in Indices, NEW i \in Int, NEW j \in Int, i <= j
    PROVE  /\ Precedes(at, i) => Precedes(at, j)
           /\ Reached(at, i) /\ i < j => Precedes(at, j)
           /\ Reached(at, i) => Reached(at, j)
<1>1. at.num \in Int /\ at.den \in Nat \ {0}
  BY DEF Indices
<1>2. /\ i * at.den \in Int /\ j * at.den \in Int
      /\ i < j <=> i * at.den < j * at.den
      /\ i = j <=> i * at.den = j * at.den
  BY <1>1, Multiples
<1> QED BY <1>1, <1>2 DEF Precedes, LiesAt, Reached

\* The fixes before a row, and those up to it, are the first ones.
LEMMA FixesInOrder ==
    ASSUME NEW traj, traj.fixes \in Seq(Fixes), NEW row \in Int, Ordered(traj.fixes, row)
    PROVE  /\ FixesBefore(traj, row) \in 0 .. Len(traj.fixes)
           /\ \A k \in DOMAIN traj.fixes :
                 Precedes(traj.fixes[k].index, row) <=> k <= FixesBefore(traj, row)
           /\ FixesUpTo(traj, row) \in 0 .. Len(traj.fixes)
           /\ \A k \in DOMAIN traj.fixes :
                 Reached(traj.fixes[k].index, row) <=> k <= FixesUpTo(traj, row)
<1> DEFINE n == Len(traj.fixes)
           before == {k \in DOMAIN traj.fixes : Precedes(traj.fixes[k].index, row)}
           upTo == {k \in DOMAIN traj.fixes : \/ Precedes(traj.fixes[k].index, row)
                                              \/ LiesAt(traj.fixes[k].index, row)}
<1>1. n \in Nat /\ DOMAIN traj.fixes = 1 .. n
  OBVIOUS
<1> HIDE DEF n
<1>2. /\ before \in SUBSET (1 .. n)
      /\ \A k \in before, j \in 1 .. n : j < k => j \in before
  BY <1>1 DEF Ordered
<1>3. /\ upTo \in SUBSET (1 .. n)
      /\ \A k \in upTo, j \in 1 .. n : j < k => j \in upTo
  BY <1>1 DEF Ordered
<1>4. FixesBefore(traj, row) = Cardinality(before) /\ FixesUpTo(traj, row) = Cardinality(upTo)
  BY DEF FixesBefore, FixesUpTo
<1>5. \A k \in 1 .. n : /\ k \in before <=> Precedes(traj.fixes[k].index, row)
                        /\ k \in upTo <=> Reached(traj.fixes[k].index, row)
  BY <1>1 DEF Reached
<1> HIDE DEF before, upTo
<1>6. Cardinality(before) \in 0 .. n /\ before = 1 .. Cardinality(before)
  BY <1>1, <1>2, Beginning
<1>7. Cardinality(upTo) \in 0 .. n /\ upTo = 1 .. Cardinality(upTo)
  BY <1>1, <1>3, Beginning
<1>8. \A k \in 1 .. n : Precedes(traj.fixes[k].index, row) <=> k <= Cardinality(before)
  BY <1>5, <1>6
<1>9. \A k \in 1 .. n : Reached(traj.fixes[k].index, row) <=> k <= Cardinality(upTo)
  BY <1>5, <1>7
<1> QED BY <1>1, <1>4, <1>6, <1>7, <1>8, <1>9 DEF n

\* A fix beyond a row is not among those before it.
LEMMA FixBeyond ==
    ASSUME NEW traj, traj.fixes \in Seq(Fixes), NEW more, NEW fix \in Fixes, NEW row \in Int,
           more.fixes = Append(traj.fixes, fix), ~Reached(fix.index, row)
    PROVE  /\ FixesBefore(more, row) = FixesBefore(traj, row)
           /\ FixesUpTo(more, row) = FixesUpTo(traj, row)
<1>1. /\ DOMAIN more.fixes = DOMAIN traj.fixes \cup {Len(traj.fixes) + 1}
      /\ more.fixes[Len(traj.fixes) + 1] = fix
      /\ \A k \in DOMAIN traj.fixes : more.fixes[k] = traj.fixes[k]
  OBVIOUS
<1>2. {k \in DOMAIN more.fixes : Precedes(more.fixes[k].index, row)} =
      {k \in DOMAIN traj.fixes : Precedes(traj.fixes[k].index, row)}
  BY <1>1 DEF Reached
<1>3. {k \in DOMAIN more.fixes : \/ Precedes(more.fixes[k].index, row)
                                 \/ LiesAt(more.fixes[k].index, row)} =
      {k \in DOMAIN traj.fixes : \/ Precedes(traj.fixes[k].index, row)
                                 \/ LiesAt(traj.fixes[k].index, row)}
  BY <1>1 DEF Reached
<1> QED BY <1>2, <1>3 DEF FixesBefore, FixesUpTo

\* A sample that calls for no redrawing moves no row drawn before it.
LEMMA AppendStays ==
    ASSUME NEW traj \in Trajectories, NEW sample \in Samples, NEW index \in Nat,
           ~redraws(traj, sample, index),
           traj.fixes # <<>> => traj.fixes[Len(traj.fixes)].segment = traj.currentSegment,
           NEW row \in Nat, row < index, Ordered(traj.fixes, row)
    PROVE  /\ segmentAt(append(traj, sample, index), row) = segmentAt(traj, row)
           /\ \A s : coordinateAt(append(traj, sample, index), row, s) = coordinateAt(traj, row, s)
<1> DEFINE more == append(traj, sample, index)
           n == Len(traj.fixes)
           b == FixesBefore(traj, row)
           u == FixesUpTo(traj, row)
<1>1. CASE more.fixes = traj.fixes
  BY <1>1 DEF segmentAt, coordinateAt, FixesBefore, FixesUpTo
<1>2. CASE more.fixes # traj.fixes
  <2> DEFINE segment == traj.currentSegment +
                        (IF traj.fixes # <<>> /\ Interrupts(traj, sample) THEN 1 ELSE 0)
             fix == [index |-> [num |-> index, den |-> 1], timestamp |-> sample.timestamp,
                     place |-> sample.place, segment |-> segment]
  <2>0. traj.fixes \in Seq(Fixes) /\ traj.currentSegment \in Nat /\ n \in Nat /\ row \in Int
    BY DEF Trajectories
  <2>1. valid(sample) /\ ~Held(traj, sample) /\ more.fixes = Append(traj.fixes, fix)
    BY <1>2 DEF append, Trajectories
  <2>2. fix \in Fixes
    BY <2>0 DEF Fixes, Indices, Samples
  <2>3. ~Reached(fix.index, row)
    BY DEF Reached, Precedes, LiesAt
  <2>4. fix.segment = segment /\ fix.timestamp = sample.timestamp
    OBVIOUS
  <2> HIDE DEF more, n, fix
  <2>9. FixesBefore(more, row) = b /\ FixesUpTo(more, row) = u
    <3> HIDE DEF b, u
    <3>1. FixesBefore(more, row) = FixesBefore(traj, row) /\ FixesUpTo(more, row) = FixesUpTo(traj, row)
      BY <2>0, <2>1, <2>2, <2>3, FixBeyond
    <3> QED BY <3>1 DEF b, u
  <2>5. /\ b \in 0 .. n /\ u \in 0 .. n
        /\ \A k \in 1 .. n : Precedes(traj.fixes[k].index, row) <=> k <= b
    BY <2>0, FixesInOrder DEF n
  <2> HIDE DEF b, u
  <2>6. /\ Len(more.fixes) = n + 1 /\ more.fixes[n + 1] = fix
        /\ \A k \in 1 .. n : more.fixes[k] = traj.fixes[k]
    BY <2>0, <2>1 DEF n
  <2>7. segmentAt(more, row) = segmentAt(traj, row)
    BY <2>9, <2>5, <2>6 DEF segmentAt, u
  <2>8. ASSUME NEW s PROVE coordinateAt(more, row, s) = coordinateAt(traj, row, s)
    <3>1. CASE b < n
      <4>1. b # n /\ b # n + 1 /\ b + 1 \in 1 .. n /\ (b # 0 => b \in 1 .. n)
        BY <3>1, <2>0, <2>5
      <4>2. more.fixes[b + 1] = traj.fixes[b + 1] /\ (b # 0 => more.fixes[b] = traj.fixes[b])
        BY <4>1, <2>6
      <4> QED BY <4>1, <4>2, <2>9, <2>6 DEF coordinateAt, b, n
    <3>2. CASE b = n
      <4>1. coordinateAt(traj, row, s) = s.place
        BY <3>2 DEF coordinateAt, b, n
      <4>2. ~LiesAt(more.fixes[b + 1].index, row)
        BY <3>2, <2>3, <2>6 DEF Reached
      <4>3. CASE b = 0
        BY <4>1, <4>2, <4>3, <2>9, <3>2, <2>6 DEF coordinateAt
      <4>4. CASE b # 0
        <5> DEFINE from == traj.fixes[n]
        <5>1. n \in 1 .. n /\ more.fixes[b] = from /\ more.fixes[b + 1] = fix /\ traj.fixes # <<>>
          BY <4>4, <3>2, <2>5, <2>6, <2>0 DEF n
        <5>2. from \in Fixes /\ from.segment = traj.currentSegment /\ Last(traj.fixes) = from
          BY <5>1, <2>0 DEF Last, n
        <5>3. Precedes(from.index, row)
          BY <5>1, <2>5, <3>2
        <5>4. Precedes(from.index, index - 1)
          BY <5>2, <5>3, LaterRows DEF Fixes
        <5>5. Interrupts(traj, sample) \/ ~(sample.timestamp - from.timestamp <= kMaxGapMs)
          BY <2>1, <5>1, <5>2, <5>4 DEF redraws
        <5>6. fix.segment # from.segment \/ fix.timestamp - from.timestamp > kMaxGapMs
          <6>1. CASE Interrupts(traj, sample)
            BY <6>1, <5>1, <5>2, <2>0, <2>4
          <6>2. CASE ~Interrupts(traj, sample)
            BY <6>2, <5>5, <5>2, <2>4, TrajectoryAssumption DEF Fixes, Samples
          <6> QED BY <6>1, <6>2
        <5> HIDE DEF from
        <5>7. coordinateAt(more, row, s) = s.place
          BY <5>1, <5>6, <4>2, <4>4, <2>9, <2>6, <3>2 DEF coordinateAt
        <5> QED BY <5>7, <4>1
      <4> QED BY <4>3, <4>4
    <3> QED BY <3>1, <3>2, <2>0, <2>5
  <2> QED BY <2>7, <2>8 DEF more
<1> QED BY <1>1, <1>2

\* A row between fixes, or at one, is placed where it was whatever fix comes behind it.
LEMMA AlignedStay ==
    ASSUME NEW traj \in Trajectories, NEW sample \in Samples, NEW index \in Nat,
           NEW row \in Nat, row < index, Ordered(traj.fixes, row),
           NEW s, coordinateAt(traj, row, s) # s.place
    PROVE  coordinateAt(append(traj, sample, index), row, s) = coordinateAt(traj, row, s)
<1> DEFINE more == append(traj, sample, index)
           n == Len(traj.fixes)
           b == FixesBefore(traj, row)
<1>1. CASE more.fixes = traj.fixes
  BY <1>1 DEF coordinateAt, FixesBefore
<1>2. CASE more.fixes # traj.fixes
  <2>0. traj.fixes \in Seq(Fixes) /\ traj.currentSegment \in Nat /\ n \in Nat /\ row \in Int
    BY DEF Trajectories
  <2>1. PICK fix \in Fixes : more.fixes = Append(traj.fixes, fix) /\ ~Reached(fix.index, row)
    <3> DEFINE segment == traj.currentSegment +
                          (IF traj.fixes # <<>> /\ Interrupts(traj, sample) THEN 1 ELSE 0)
               fix == [index |-> [num |-> index, den |-> 1], timestamp |-> sample.timestamp,
                       place |-> sample.place, segment |-> segment]
    <3>1. more.fixes = Append(traj.fixes, fix)
      BY <1>2 DEF append, Trajectories
    <3>2. fix \in Fixes
      BY <2>0 DEF Fixes, Indices, Samples
    <3>3. ~Reached(fix.index, row)
      BY DEF Reached, Precedes, LiesAt
    <3> QED BY <3>1, <3>2, <3>3
  <2> HIDE DEF more
  <2>2. FixesBefore(more, row) = b
    <3> HIDE DEF b
    <3>1. FixesBefore(more, row) = FixesBefore(traj, row)
      BY <2>0, <2>1, FixBeyond
    <3> QED BY <3>1 DEF b
  <2>3. b \in 0 .. n /\ b # n
    BY <2>0, FixesInOrder DEF coordinateAt
  <2> HIDE DEF b
  <2>4. Len(more.fixes) = n + 1 /\ \A k \in 1 .. n : more.fixes[k] = traj.fixes[k]
    BY <2>0, <2>1
  <2> HIDE DEF n
  <2>5. b # n + 1 /\ b + 1 \in 1 .. n /\ (b # 0 => b \in 1 .. n)
    BY <2>0, <2>3
  <2>6. more.fixes[b + 1] = traj.fixes[b + 1] /\ (b # 0 => more.fixes[b] = traj.fixes[b])
    BY <2>5, <2>4
  <2>7. coordinateAt(more, row, s) = coordinateAt(traj, row, s)
    BY <2>2, <2>3, <2>4, <2>5, <2>6 DEF coordinateAt, b, n
  <2> QED BY <2>7 DEF more
<1> QED BY <1>1, <1>2

\* Fixes taken out of a sequence in their order are in order.
LEMMA ChosenFixes ==
    ASSUME NEW fixes \in Seq(Fixes), NEW places \in SUBSET (1 .. Len(fixes))
    PROVE  LET chosen == AtPlaces(fixes, places)
           IN  /\ chosen \in Seq(Fixes) /\ Len(chosen) = Cardinality(places)
               /\ \A k \in 1 .. Len(chosen) : /\ Nth(places, k) \in 1 .. Len(fixes)
                                              /\ chosen[k] = fixes[Nth(places, k)]
               /\ \A row \in Int : Ordered(fixes, row) => Ordered(chosen, row)
<1> DEFINE chosen == AtPlaces(fixes, places)
           c == Cardinality(places)
           n == Len(fixes)
<1>1. n \in Nat /\ DOMAIN fixes = 1 .. n /\ \A k \in 1 .. n : fixes[k] \in Fixes
  OBVIOUS
<1>2. c \in 0 .. n
  BY <1>1, RanksDiffer
<1>3. /\ \A k \in 1 .. c : Nth(places, k) \in places
      /\ \A k, l \in 1 .. c : k < l => Nth(places, k) < Nth(places, l)
  BY <1>1, NthPlace
<1> HIDE DEF n
<1>4. \A k \in 1 .. c : Nth(places, k) \in 1 .. n
  BY <1>3 DEF n
<1>5. chosen = [k \in 1 .. c |-> fixes[Nth(places, k)]]
  BY DEF AtPlaces
<1> HIDE DEF chosen, c
<1>6. chosen \in Seq(Fixes) /\ Len(chosen) = c /\ DOMAIN chosen = 1 .. c
  BY <1>1, <1>2, <1>4, <1>5
<1>7. \A k \in 1 .. c : chosen[k] = fixes[Nth(places, k)]
  BY <1>5
<1>8. ASSUME NEW row \in Int, Ordered(fixes, row) PROVE Ordered(chosen, row)
  <2> SUFFICES ASSUME NEW k \in 1 .. c, NEW l \in 1 .. c, k < l
               PROVE  /\ Precedes(chosen[l].index, row) => Precedes(chosen[k].index, row)
                      /\ Precedes(chosen[l].index, row) \/ LiesAt(chosen[l].index, row)
                            => Precedes(chosen[k].index, row) \/ LiesAt(chosen[k].index, row)
      BY <1>6 DEF Ordered
  <2>1. /\ Nth(places, k) \in DOMAIN fixes /\ Nth(places, l) \in DOMAIN fixes
        /\ Nth(places, k) < Nth(places, l)
    BY <1>1, <1>3, <1>4
  <2> QED BY <1>7, <1>8, <2>1 DEF Ordered
<1> QED BY <1>4, <1>6, <1>7, <1>8 DEF chosen, c, n

\* retainSamples moves none of the retained rows.
LEMMA RetainStays ==
    ASSUME NEW traj \in Trajectories, NEW indices, NEW row \in Nat,
           \E k \in DOMAIN indices : indices[k] = row, Ordered(traj.fixes, row)
    PROVE  \A s : coordinateAt(retainSamples(traj, indices), row, s) = coordinateAt(traj, row, s)
<1> DEFINE few == retainSamples(traj, indices)
           n == Len(traj.fixes)
           b == FixesBefore(traj, row)
           d == FixesBefore(few, row)
           Beside(i) == {FixesBefore(traj, i), FixesBefore(traj, i) + 1}
           kept == (UNION {Beside(indices[k]) : k \in DOMAIN indices}) \cup {Len(traj.fixes)}
           places == kept \cap DOMAIN traj.fixes
           c == Cardinality(places)
<1>1. traj.fixes \in Seq(Fixes) /\ n \in Nat /\ DOMAIN traj.fixes = 1 .. n /\ row \in Int
  BY DEF Trajectories
<1>2. few.fixes = AtPlaces(traj.fixes, places)
  BY DEF retainSamples, Trajectories
<1>3. (b \in 1 .. n => b \in places) /\ (b + 1 \in 1 .. n => b + 1 \in places)
  BY <1>1
<1>4. places \in SUBSET (1 .. n)
  BY <1>1
<1> HIDE DEF places, few, n
<1>5. /\ few.fixes \in Seq(Fixes) /\ Len(few.fixes) = c
      /\ \A k \in 1 .. c : few.fixes[k] = traj.fixes[Nth(places, k)]
      /\ Ordered(few.fixes, row)
  BY <1>1, <1>2, <1>4, ChosenFixes DEF n
<1>6. /\ c \in 0 .. n
      /\ \A i \in places : Rank(places, i) \in 1 .. c
  BY <1>1, <1>4, RanksDiffer
<1>7. /\ \A k \in 1 .. c : Nth(places, k) \in places
      /\ \A k, l \in 1 .. c : k < l => Nth(places, k) < Nth(places, l)
      /\ \A i \in places : Nth(places, Rank(places, i)) = i
  BY <1>1, <1>4, NthPlace
<1> HIDE DEF c
<1>8. b \in 0 .. n /\ \A k \in 1 .. n : Precedes(traj.fixes[k].index, row) <=> k <= b
  <2> HIDE DEF b
  <2> QED BY <1>1, FixesInOrder DEF b, n
<1>9. d \in 0 .. c /\ \A k \in 1 .. c : Precedes(few.fixes[k].index, row) <=> k <= d
  <2>1. DOMAIN few.fixes = 1 .. c
    BY <1>5
  <2> HIDE DEF d
  <2> QED BY <1>1, <1>5, <2>1, FixesInOrder DEF d
<1> HIDE DEF b, d
<1>10. \A k \in 1 .. c : Nth(places, k) \in 1 .. n /\ (Nth(places, k) <= b <=> k <= d)
  BY <1>4, <1>5, <1>7, <1>8, <1>9
<1> SUFFICES ASSUME NEW s PROVE coordinateAt(few, row, s) = coordinateAt(traj, row, s)
    BY DEF few
<1>11. CASE b = n
  <2>1. d = c
    <3>1. c = 0 \/ c \in 1 .. c
      BY <1>6, <1>1
    <3>2. c \in 1 .. c => c <= d
      BY <1>10, <1>11
    <3> QED BY <3>1, <3>2, <1>9, <1>6, <1>1
  <2>2. coordinateAt(few, row, s) = s.place
    BY <2>1, <1>5 DEF coordinateAt, d
  <2>3. coordinateAt(traj, row, s) = s.place
    BY <1>11 DEF coordinateAt, b, n
  <2> QED BY <2>2, <2>3
<1>12. CASE b < n
  <2>1. b + 1 \in 1 .. n /\ b # n
    BY <1>1, <1>8, <1>12
  <2>2. PICK q \in 1 .. c : Nth(places, q) = b + 1
    BY <2>1, <1>3, <1>6, <1>7
  <2>3. ~(q <= d) /\ q \in Nat /\ d \in Nat /\ c \in Nat /\ b \in Nat
    BY <2>2, <1>10, <1>1, <1>6, <1>8, <1>9
  <2>4. \A k \in 1 .. c : k < q => k <= d
    <3> SUFFICES ASSUME NEW k \in 1 .. c, k < q PROVE k <= d
        OBVIOUS
    <3>1. Nth(places, k) < b + 1 /\ Nth(places, k) \in 1 .. n
      BY <2>2, <1>7, <1>10
    <3>2. Nth(places, k) <= b
      BY <3>1, <2>3
    <3> QED BY <3>2, <1>10
  <2>5. d = q - 1
    <3>1. CASE q = 1
      BY <3>1, <2>3
    <3>2. CASE q # 1
      <4>1. q - 1 \in 1 .. c /\ q - 1 < q
        BY <3>2, <2>2, <2>3
      <4>2. q - 1 <= d
        BY <4>1, <2>4
      <4> QED BY <4>2, <2>3
    <3> QED BY <3>1, <3>2
  <2>6. d # c /\ d + 1 = q
    BY <2>3, <2>5, <2>2
  <2>7. few.fixes[d + 1] = traj.fixes[b + 1]
    BY <2>2, <2>6, <1>5
  <2>8. b = 0 => d = 0
    <3> SUFFICES ASSUME b = 0, d # 0 PROVE FALSE
        OBVIOUS
    <3>1. 1 \in 1 .. c /\ 1 <= d
      BY <1>9, <2>3
    <3>2. Nth(places, 1) <= 0 /\ Nth(places, 1) \in 1 .. n
      BY <3>1, <1>10
    <3> QED BY <3>2
  <2>9. b # 0 => d # 0 /\ few.fixes[d] = traj.fixes[b]
    <3> SUFFICES ASSUME b # 0 PROVE d # 0 /\ few.fixes[d] = traj.fixes[b]
        OBVIOUS
    <3>1. b \in 1 .. n
      BY <1>8, <2>3
    <3>2. PICK r \in 1 .. c : Nth(places, r) = b
      BY <3>1, <1>3, <1>6, <1>7
    <3>3. r <= d /\ d \in 1 .. c
      BY <3>2, <1>10, <1>9, <2>3
    <3>4. Nth(places, d) <= b /\ Nth(places, d) \in 1 .. n
      BY <3>3, <1>10, <2>3
    <3>5. ~(r < d)
      BY <3>2, <3>3, <3>4, <1>7, <2>3
    <3>6. r = d
      BY <3>2, <3>3, <3>5
    <3> QED BY <3>2, <3>3, <3>6, <1>5
  <2>10. coordinateAt(few, row, s) = coordinateAt(traj, row, s)
    BY <2>1, <2>6, <2>7, <2>8, <2>9, <1>5 DEF coordinateAt, b, d, n
  <2> QED BY <2>10
<1> QED BY <1>11, <1>12, <1>1, <1>8

\* rebaseIndices keeps each fix on its side of each row.
LEMMA SideKept ==
    ASSUME NEW at \in Indices, NEW n \in Nat \ {0}, NEW indices \in [1 .. n -> Nat],
           \A j, k \in 1 .. n : j < k => indices[j] < indices[k],
           NEW k \in 1 .. n
    PROVE  /\ Rebased(at, indices) \in Indices
           /\ Precedes(Rebased(at, indices), k - 1) <=> Precedes(at, indices[k])
           /\ LiesAt(Rebased(at, indices), k - 1) <=> LiesAt(at, indices[k])
<1> DEFINE reached == {j \in DOMAIN indices : ~Precedes(at, indices[j])}
           u == Cardinality(reached)
           h == IF u < 1 THEN 1 ELSE IF u > Len(indices) - 1 THEN Len(indices) - 1 ELSE u
           low == h - 1
           past(row) == at.num - row * at.den
           gap == indices[h + 1] - indices[low + 1]
<1>1. Len(indices) = n /\ DOMAIN indices = 1 .. n
  <2>1. indices \in Seq(Nat) /\ DOMAIN indices = 1 .. n
    OBVIOUS
  <2> QED BY <2>1
<1>2. at.num \in Int /\ at.den \in Nat \ {0} /\ \A j \in 1 .. n : indices[j] \in Int
  BY DEF Indices
<1>3. CASE n = 1
  <2>1. Rebased(at, indices) = [at EXCEPT !.num = at.num - indices[1] * at.den]
    BY <1>1, <1>3 DEF Rebased
  <2>2. k = 1 /\ indices[1] * at.den \in Int
    BY <1>2, <1>3
  <2>3. /\ Rebased(at, indices).num = at.num - indices[1] * at.den
        /\ Rebased(at, indices).den = at.den
        /\ Rebased(at, indices) \in Indices
    BY <2>1, <2>2, <1>2 DEF Indices
  <2>4. (k - 1) * at.den = 0
    BY <2>2, <1>2
  <2> QED BY <2>2, <2>3, <2>4, <1>2 DEF Precedes, LiesAt
<1>4. CASE n > 1
  <2>1. /\ u \in 0 .. n
        /\ \A j \in 1 .. n : ~Precedes(at, indices[j]) <=> j <= u
    <3>1. /\ reached \in SUBSET (1 .. n)
          /\ \A i \in reached, j \in 1 .. n : j < i => j \in reached
      <4> SUFFICES ASSUME NEW i \in 1 .. n, NEW j \in 1 .. n, ~Precedes(at, indices[i]), j < i
                   PROVE  ~Precedes(at, indices[j])
          BY <1>1
      <4>1. indices[j] <= indices[i]
        BY <1>2
      <4> QED BY <4>1, <1>2, LaterRows
    <3>2. \A j \in 1 .. n : j \in reached <=> ~Precedes(at, indices[j])
      BY <1>1
    <3> HIDE DEF reached
    <3>3. Cardinality(reached) \in 0 .. n /\ reached = 1 .. Cardinality(reached)
      BY <3>1, Beginning
    <3> QED BY <3>2, <3>3
  <2> HIDE DEF u
  <2>2. /\ h \in 1 .. n - 1 /\ low = h - 1 /\ low + 1 = h
        /\ (u <= h \/ h = n - 1) /\ (h <= u \/ h = 1)
    BY <1>1, <1>4, <2>1
  <2> DEFINE lo == indices[h]
             hi == indices[h + 1]
             den == at.den
             reb == [num |-> low * (den * gap) + past(lo), den |-> den * gap]
  <2>3. Rebased(at, indices) = reb
    BY <1>1, <1>4, <2>2 DEF Rebased, u
  <2>4. lo \in Int /\ hi \in Int /\ lo < hi /\ gap = hi - lo
    BY <1>2, <2>2
  <2> HIDE DEF h
  <2>5. h \in Int /\ low \in Int /\ den \in Nat \ {0} /\ gap \in Nat \ {0} /\ at.num \in Int
    BY <1>2, <2>2, <2>4
  <2> HIDE DEF lo, hi, gap, low
  <2> DEFINE step == den * gap
             left == past(lo)
  <2>6. step \in Nat \ {0} /\ left \in Int /\ lo * den \in Int /\ hi * den \in Int
    <3> HIDE DEF den
    <3>1. lo * den \in Int /\ hi * den \in Int /\ den * gap \in Int /\ den * gap > 0
      BY <2>4, <2>5
    <3> QED BY <3>1, <2>5 DEF den
  <2>7. hi * den = lo * den + step
    BY <2>4, <2>5
  <2>8. left = at.num - lo * den
    OBVIOUS
  <2>9. reb.num = low * step + left /\ reb.den = step /\ reb \in Indices
    BY <2>5, <2>6 DEF Indices
  <2> HIDE DEF reb, step, left
  <2>10. (k - 1) * step = low * step + (k - h) * step /\ low * step \in Int /\ (k - h) * step \in Int
    BY <2>2, <2>5, <2>6
  <2>11. /\ Precedes(reb, k - 1) <=> left < (k - h) * step
         /\ LiesAt(reb, k - 1) <=> left = (k - h) * step
    BY <2>6, <2>9, <2>10 DEF Precedes, LiesAt
  <2>12. /\ Precedes(at, lo) <=> left < 0
         /\ LiesAt(at, lo) <=> left = 0
         /\ Precedes(at, hi) <=> left < step
         /\ LiesAt(at, hi) <=> left = step
    BY <2>5, <2>6, <2>7, <2>8 DEF Precedes, LiesAt, den
  <2>13. CASE k = h
    <3>1. (k - h) * step = 0 /\ indices[k] = lo
      BY <2>13, <2>5, <2>6 DEF lo
    <3> QED BY <3>1, <2>3, <2>9, <2>11, <2>12
  <2>14. CASE k = h + 1
    <3>1. (k - h) * step = step /\ indices[k] = hi
      BY <2>14, <2>5, <2>6 DEF hi
    <3> QED BY <3>1, <2>3, <2>9, <2>11, <2>12
  <2>15. CASE k > h + 1
    <3>1. u < h + 1 /\ h + 1 \in 1 .. n
      BY <2>15, <2>1, <2>2
    <3>2. Precedes(at, hi)
      BY <3>1, <2>1 DEF hi
    <3>3. hi <= indices[k] /\ hi < indices[k]
      BY <2>15, <3>1, <1>2 DEF hi
    <3>4. Precedes(at, indices[k]) /\ ~LiesAt(at, indices[k])
      <4>1. Precedes(at, indices[k])
        BY <3>2, <3>3, <2>4, <1>2, LaterRows
      <4>2. at.num < indices[k] * at.den /\ indices[k] * at.den \in Int
        BY <4>1, <1>2 DEF Precedes
      <4> QED BY <4>1, <4>2, <1>2 DEF LiesAt
    <3>5. (k - h) * step >= step
      BY <2>15, <2>5, <2>6
    <3> QED BY <3>2, <3>4, <3>5, <2>3, <2>6, <2>9, <2>10, <2>11, <2>12
  <2>16. CASE k < h
    <3>1. h <= u /\ h \in 1 .. n
      BY <2>16, <2>1, <2>2
    <3>2. ~Precedes(at, lo)
      BY <3>1, <2>1 DEF lo
    <3>3. indices[k] < lo
      BY <2>16, <3>1, <1>2 DEF lo
    <3>4. ~Reached(at, indices[k])
      BY <3>2, <3>3, <2>4, <1>2, LaterRows
    <3>5. (k - h) * step < 0
      BY <2>16, <2>5, <2>6
    <3> QED BY <3>2, <3>4, <3>5, <2>3, <2>6, <2>9, <2>10, <2>11, <2>12 DEF Reached
  <2>17. k \in Int /\ (k = h \/ k = h + 1 \/ k > h + 1 \/ k < h)
    BY <2>5
  <2> QED BY <2>13, <2>14, <2>15, <2>16, <2>17
<1> QED BY <1>3, <1>4

\* rebaseIndices moves none of the rows it counts anew.
LEMMA RebaseStays ==
    ASSUME NEW traj \in Trajectories, NEW n \in Nat \ {0}, NEW indices \in [1 .. n -> Nat],
           \A j, k \in 1 .. n : j < k => indices[j] < indices[k]
    PROVE  LET again == rebaseIndices(traj, indices)
           IN  /\ again \in Trajectories /\ again.currentSegment = traj.currentSegment
               /\ Len(again.fixes) = Len(traj.fixes)
               /\ \A i \in DOMAIN traj.fixes :
                     /\ again.fixes[i].segment = traj.fixes[i].segment
                     /\ \A k \in 1 .. n : Reached(again.fixes[i].index, k - 1) <=>
                                          Reached(traj.fixes[i].index, indices[k])
               /\ \A k \in 1 .. n :
                     /\ Ordered(traj.fixes, indices[k]) => Ordered(again.fixes, k - 1)
                     /\ \A s : coordinateAt(again, k - 1, s) = coordinateAt(traj, indices[k], s)
<1> DEFINE again == rebaseIndices(traj, indices)
           m == Len(traj.fixes)
<1>1. /\ traj.fixes \in Seq(Fixes) /\ m \in Nat /\ DOMAIN traj.fixes = 1 .. m
      /\ \A i \in 1 .. m : traj.fixes[i] \in Fixes
  BY DEF Trajectories
<1>2. indices # <<>>
  <2>1. 1 \in DOMAIN indices /\ 1 \notin DOMAIN <<>>
    OBVIOUS
  <2> QED BY <2>1
<1>3. again = [traj EXCEPT !.fixes = [i \in 1 .. m |-> [traj.fixes[i] EXCEPT
                                         !.index = Rebased(traj.fixes[i].index, indices)]]]
  BY <1>1, <1>2 DEF rebaseIndices
<1> HIDE DEF m
<1>4. /\ again.fixes = [i \in 1 .. m |-> [traj.fixes[i] EXCEPT
                            !.index = Rebased(traj.fixes[i].index, indices)]]
      /\ again.lastTimestamp = traj.lastTimestamp
      /\ again.currentSegment = traj.currentSegment
      /\ again.interrupted = traj.interrupted
  BY <1>3 DEF Trajectories
<1>5. again = [fixes |-> again.fixes, lastTimestamp |-> traj.lastTimestamp,
               currentSegment |-> traj.currentSegment, interrupted |-> traj.interrupted]
  BY <1>3, <1>4 DEF Trajectories
<1> HIDE DEF again
<1>6. ASSUME NEW i \in 1 .. m
      PROVE  /\ traj.fixes[i].index \in Indices
             /\ again.fixes[i] = [index |-> Rebased(traj.fixes[i].index, indices),
                                  timestamp |-> traj.fixes[i].timestamp,
                                  place |-> traj.fixes[i].place,
                                  segment |-> traj.fixes[i].segment]
             /\ again.fixes[i].index = Rebased(traj.fixes[i].index, indices)
             /\ again.fixes[i].timestamp = traj.fixes[i].timestamp
             /\ again.fixes[i].place = traj.fixes[i].place
             /\ again.fixes[i].segment = traj.fixes[i].segment
  <2> DEFINE old == traj.fixes[i]
             new == again.fixes[i]
  <2>1. old \in Fixes /\ new = [old EXCEPT !.index = Rebased(old.index, indices)]
    BY <1>1, <1>4
  <2> HIDE DEF old, new
  <2>2. /\ old.index \in Indices
        /\ new = [index |-> Rebased(old.index, indices), timestamp |-> old.timestamp,
                  place |-> old.place, segment |-> old.segment]
    BY <2>1 DEF Fixes
  <2>3. /\ new.index = Rebased(old.index, indices) /\ new.timestamp = old.timestamp
        /\ new.place = old.place /\ new.segment = old.segment
    BY <2>2
  <2> QED BY <2>2, <2>3 DEF old, new
<1>7. ASSUME NEW i \in 1 .. m, NEW k \in 1 .. n
      PROVE  /\ again.fixes[i].index \in Indices
             /\ Precedes(again.fixes[i].index, k - 1) <=> Precedes(traj.fixes[i].index, indices[k])
             /\ LiesAt(again.fixes[i].index, k - 1) <=> LiesAt(traj.fixes[i].index, indices[k])
  <2> DEFINE at == traj.fixes[i].index
  <2>1. at \in Indices /\ again.fixes[i].index = Rebased(at, indices)
    BY <1>6
  <2> HIDE DEF at
  <2>2. /\ Rebased(at, indices) \in Indices
        /\ Precedes(Rebased(at, indices), k - 1) <=> Precedes(at, indices[k])
        /\ LiesAt(Rebased(at, indices), k - 1) <=> LiesAt(at, indices[k])
    BY <2>1, SideKept
  <2> QED BY <2>1, <2>2 DEF at
<1>8. \A i \in 1 .. m : again.fixes[i] \in Fixes
  <2> SUFFICES ASSUME NEW i \in 1 .. m PROVE again.fixes[i] \in Fixes
      OBVIOUS
  <2> DEFINE old == traj.fixes[i]
             new == again.fixes[i]
             at == Rebased(old.index, indices)
  <2>1. at \in Indices
    <3>1. 1 \in 1 .. n
      OBVIOUS
    <3>2. again.fixes[i].index \in Indices
      BY <3>1, <1>7
    <3> QED BY <3>2, <1>6
  <2>2. /\ old \in Fixes
        /\ new = [index |-> at, timestamp |-> old.timestamp, place |-> old.place,
                  segment |-> old.segment]
    BY <1>1, <1>6
  <2> HIDE DEF old, new, at
  <2>3. new \in Fixes
    BY <2>1, <2>2 DEF Fixes
  <2> QED BY <2>3 DEF new
<1>9. again.fixes \in Seq(Fixes) /\ Len(again.fixes) = m /\ DOMAIN again.fixes = 1 .. m
  BY <1>4, <1>8, <1>1
<1>10. again \in Trajectories
  BY <1>5, <1>9 DEF Trajectories
<1>11. ASSUME NEW k \in 1 .. n, Ordered(traj.fixes, indices[k]) PROVE Ordered(again.fixes, k - 1)
  <2> SUFFICES ASSUME NEW i \in 1 .. m, NEW j \in 1 .. m, i < j
               PROVE  /\ Precedes(again.fixes[j].index, k - 1) => Precedes(again.fixes[i].index, k - 1)
                      /\ Precedes(again.fixes[j].index, k - 1) \/ LiesAt(again.fixes[j].index, k - 1)
                            => \/ Precedes(again.fixes[i].index, k - 1)
                               \/ LiesAt(again.fixes[i].index, k - 1)
      BY <1>9 DEF Ordered
  <2> QED BY <1>1, <1>7, <1>11 DEF Ordered
<1>12. ASSUME NEW k \in 1 .. n, NEW s
       PROVE  coordinateAt(again, k - 1, s) = coordinateAt(traj, indices[k], s)
  <2> DEFINE b == FixesBefore(traj, indices[k])
             row == indices[k]
  <2>1. FixesBefore(again, k - 1) = b
    <3>1. {i \in DOMAIN again.fixes : Precedes(again.fixes[i].index, k - 1)} =
          {i \in DOMAIN traj.fixes : Precedes(traj.fixes[i].index, indices[k])}
      BY <1>1, <1>7, <1>9
    <3> QED BY <3>1 DEF FixesBefore
  <2>2. b \in 0 .. m
    <3>1. {i \in DOMAIN traj.fixes : Precedes(traj.fixes[i].index, indices[k])} \in SUBSET (1 .. m)
      BY <1>1
    <3> HIDE DEF m
    <3> QED BY <3>1, <1>1, RanksDiffer DEF FixesBefore
  <2>3. Len(again.fixes) = m /\ Len(traj.fixes) = m
    BY <1>9 DEF m
  <2> HIDE DEF b, row
  <2>4. CASE b = m
    <3>1. coordinateAt(again, k - 1, s) = s.place
      BY <2>4, <2>1, <2>3 DEF coordinateAt
    <3>2. coordinateAt(traj, row, s) = s.place
      BY <2>4, <2>3 DEF coordinateAt, b, row
    <3> QED BY <3>1, <3>2 DEF row
  <2>5. CASE b # m
    <3>1. b + 1 \in 1 .. m /\ (b # 0 => b \in 1 .. m)
      BY <2>2, <2>5, <1>1
    <3>0. \A i \in 1 .. m :
             /\ LiesAt(again.fixes[i].index, k - 1) <=> LiesAt(traj.fixes[i].index, row)
             /\ again.fixes[i].place = traj.fixes[i].place
             /\ again.fixes[i].timestamp = traj.fixes[i].timestamp
             /\ again.fixes[i].segment = traj.fixes[i].segment
      <4> SUFFICES ASSUME NEW i \in 1 .. m
                   PROVE  /\ LiesAt(again.fixes[i].index, k - 1) <=> LiesAt(traj.fixes[i].index, row)
                          /\ again.fixes[i].place = traj.fixes[i].place
                          /\ again.fixes[i].timestamp = traj.fixes[i].timestamp
                          /\ again.fixes[i].segment = traj.fixes[i].segment
          OBVIOUS
      <4>1. LiesAt(again.fixes[i].index, k - 1) <=> LiesAt(traj.fixes[i].index, row)
        BY <1>7 DEF row
      <4>2. /\ again.fixes[i].place = traj.fixes[i].place
            /\ again.fixes[i].timestamp = traj.fixes[i].timestamp
            /\ again.fixes[i].segment = traj.fixes[i].segment
        BY <1>6
      <4> QED BY <4>1, <4>2
    <3>2. /\ LiesAt(again.fixes[b + 1].index, k - 1) <=> LiesAt(traj.fixes[b + 1].index, row)
          /\ again.fixes[b + 1].place = traj.fixes[b + 1].place
          /\ again.fixes[b + 1].timestamp = traj.fixes[b + 1].timestamp
          /\ again.fixes[b + 1].segment = traj.fixes[b + 1].segment
      BY <3>1, <3>0
    <3>3. b # 0 => /\ again.fixes[b].place = traj.fixes[b].place
                   /\ again.fixes[b].timestamp = traj.fixes[b].timestamp
                   /\ again.fixes[b].segment = traj.fixes[b].segment
      BY <3>1, <3>0
    <3>4. FixesBefore(traj, row) = b
      BY DEF b, row
    <3>5. coordinateAt(again, k - 1, s) = coordinateAt(traj, row, s)
      BY <2>1, <2>3, <2>5, <3>2, <3>3, <3>4 DEF coordinateAt
    <3> QED BY <3>5 DEF row
  <2> QED BY <2>4, <2>5
<1>13. \A i \in 1 .. m : /\ again.fixes[i].segment = traj.fixes[i].segment
                        /\ \A k \in 1 .. n : Reached(again.fixes[i].index, k - 1) <=>
                                             Reached(traj.fixes[i].index, indices[k])
  <2> SUFFICES ASSUME NEW i \in 1 .. m
               PROVE  /\ again.fixes[i].segment = traj.fixes[i].segment
                      /\ \A k \in 1 .. n : Reached(again.fixes[i].index, k - 1) <=>
                                            Reached(traj.fixes[i].index, indices[k])
      OBVIOUS
  <2>1. again.fixes[i].segment = traj.fixes[i].segment
    BY <1>6
  <2>2. \A k \in 1 .. n : Reached(again.fixes[i].index, k - 1) <=>
                          Reached(traj.fixes[i].index, indices[k])
    BY <1>7 DEF Reached
  <2> QED BY <2>1, <2>2
<1> QED BY <1>1, <1>4, <1>9, <1>10, <1>11, <1>12, <1>13 DEF again, m

\* retainSamples keeps fixes of the trajectory in their order, and its last one.
LEMMA RetainedFixes ==
    ASSUME NEW traj \in Trajectories, NEW indices
    PROVE  LET few == retainSamples(traj, indices)
           IN  /\ few \in Trajectories /\ few.currentSegment = traj.currentSegment
               /\ \A k \in DOMAIN few.fixes : \E i \in DOMAIN traj.fixes : few.fixes[k] = traj.fixes[i]
               /\ \A row \in Int : Ordered(traj.fixes, row) => Ordered(few.fixes, row)
               /\ few.fixes # <<>> => few.fixes[Len(few.fixes)] = traj.fixes[Len(traj.fixes)]
<1> DEFINE few == retainSamples(traj, indices)
           n == Len(traj.fixes)
           Beside(i) == {FixesBefore(traj, i), FixesBefore(traj, i) + 1}
           kept == (UNION {Beside(indices[k]) : k \in DOMAIN indices}) \cup {Len(traj.fixes)}
           places == kept \cap DOMAIN traj.fixes
           c == Cardinality(places)
<1>1. traj.fixes \in Seq(Fixes) /\ n \in Nat /\ DOMAIN traj.fixes = 1 .. n
  BY DEF Trajectories
<1>2. few = [traj EXCEPT !.fixes = AtPlaces(traj.fixes, places)]
  BY DEF retainSamples
<1>3. places \in SUBSET (1 .. n) /\ (n # 0 => n \in places)
  BY <1>1
<1> HIDE DEF places, n
<1>4. /\ few.fixes = AtPlaces(traj.fixes, places)
      /\ few.currentSegment = traj.currentSegment
      /\ few = [fixes |-> few.fixes, lastTimestamp |-> traj.lastTimestamp,
                currentSegment |-> traj.currentSegment, interrupted |-> traj.interrupted]
  BY <1>2 DEF Trajectories
<1> HIDE DEF few
<1>5. /\ few.fixes \in Seq(Fixes) /\ Len(few.fixes) = c
      /\ \A k \in 1 .. c : Nth(places, k) \in 1 .. n /\ few.fixes[k] = traj.fixes[Nth(places, k)]
      /\ \A row \in Int : Ordered(traj.fixes, row) => Ordered(few.fixes, row)
  BY <1>1, <1>3, <1>4, ChosenFixes DEF n
<1>6. few \in Trajectories
  BY <1>4, <1>5 DEF Trajectories
<1>7. c \in 0 .. n /\ \A i \in places : Rank(places, i) \in 1 .. c
  BY <1>1, <1>3, RanksDiffer
<1>8. /\ \A k \in 1 .. c : Nth(places, k) \in places
      /\ \A k, l \in 1 .. c : k < l => Nth(places, k) < Nth(places, l)
      /\ \A i \in places : Nth(places, Rank(places, i)) = i
  BY <1>1, <1>3, NthPlace
<1> HIDE DEF c
<1>9. DOMAIN few.fixes = 1 .. c
  BY <1>5
<1>10. ASSUME few.fixes # <<>> PROVE few.fixes[c] = traj.fixes[n]
  <2>1. c \in 1 .. c
    BY <1>5, <1>7, <1>1, <1>10
  <2>2. n \in places
    BY <2>1, <1>3, <1>7, <1>1
  <2>3. PICK r \in 1 .. c : Nth(places, r) = n
    BY <2>2, <1>7, <1>8
  <2>4. ~(r < c)
    <3> SUFFICES ASSUME r < c PROVE FALSE
        OBVIOUS
    <3>1. n < Nth(places, c) /\ Nth(places, c) \in 1 .. n
      BY <2>1, <2>3, <1>5, <1>8
    <3> QED BY <3>1, <1>1
  <2>5. r = c
    BY <2>1, <2>3, <2>4
  <2> QED BY <2>1, <2>3, <2>5, <1>5
<1> QED BY <1>1, <1>4, <1>5, <1>6, <1>9, <1>10 DEF few, n
-----------------------------------------------------------------------------
(* Thinning: the rows that cappedSourceIndices leaves. *)

\* A whole quotient, by what it leaves.
LEMMA Quotient ==
    ASSUME NEW x \in Nat, NEW d \in Nat \ {0}
    PROVE  /\ x \div d \in Nat
           /\ (x \div d) * d <= x /\ x < (x \div d) * d + d
<1>1. x = d * (x \div d) + (x % d) /\ 0 <= x % d /\ x % d < d /\ x \div d \in Int
  OBVIOUS
<1>2. x \div d \in Nat
  OBVIOUS
<1>3. d * (x \div d) = (x \div d) * d /\ (x \div d) * d \in Int
  BY <1>1
<1> QED BY <1>1, <1>2, <1>3

\* Quotients of numbers that differ by a divisor or more differ in their order.
LEMMA QuotientsDiffer ==
    ASSUME NEW x \in Nat, NEW y \in Nat, NEW d \in Nat \ {0}, x + d <= y
    PROVE  x \div d < y \div d
<1> DEFINE p == x \div d
           q == y \div d
<1>1. p \in Nat /\ q \in Nat /\ p * d <= x /\ y < q * d + d
  BY Quotient
<1> HIDE DEF p, q
<1>2. p * d \in Int /\ q * d \in Int
  BY <1>1
<1>3. p * d < q * d
  BY <1>1, <1>2
<1>4. p < q
  BY <1>1, <1>3, Multiples
<1> QED BY <1>4 DEF p, q

\* Of two numbers, the least.
LEMMA Least ==
    ASSUME NEW a \in Int, NEW b \in Int
    PROVE  Min({a, b}) = IF a <= b THEN a ELSE b
<1> DEFINE c == IF a <= b THEN a ELSE b
<1>1. c \in {a, b} /\ \A y \in {a, b} : c <= y
  OBVIOUS
<1>2. \A x \in {a, b} : (\A y \in {a, b} : x <= y) => x = c
  OBVIOUS
<1> HIDE DEF c
<1>3. Min({a, b}) = c
  BY <1>1, <1>2 DEF Min
<1> QED BY <1>3 DEF c

\* cappedSourceIndices: within the budget all rows, else rows in their order with the last one.
LEMMA CappedPlaces ==
    ASSUME NEW n \in Nat, NEW budget \in Nat \ {0}
    PROVE  LET at == cappedSourceIndices(n, budget)
               c == IF n <= budget THEN n ELSE budget
           IN  /\ at \in [1 .. c -> 1 .. n]
               /\ \A j, k \in 1 .. c : j < k => at[j] < at[k]
               /\ n <= budget => \A k \in 1 .. n : at[k] = k
               /\ budget < n /\ 2 <= budget => at[budget] = n
<1> DEFINE at == cappedSourceIndices(n, budget)
           c == IF n <= budget THEN n ELSE budget
<1>1. CASE n <= budget \/ budget = 1
  <2>1. Min({n, budget}) = c /\ c \in 0 .. n
    BY Least
  <2>2. at = [k \in 1 .. c |-> k]
    BY <1>1, <2>1 DEF cappedSourceIndices
  <2>3. \A k \in 1 .. c : at[k] = k /\ k \in 1 .. n
    BY <2>1, <2>2
  <2>4. at \in [1 .. c -> 1 .. n]
    BY <2>2, <2>3
  <2>5. \A j, k \in 1 .. c : j < k => at[j] < at[k]
    BY <2>3
  <2> QED BY <1>1, <2>3, <2>4, <2>5
<1>2. CASE ~(n <= budget \/ budget = 1)
  <2> DEFINE d == budget - 1
             m == n - 1
  <2>1. /\ d \in Nat \ {0} /\ m \in Nat /\ d < m /\ c = budget /\ budget = d + 1 /\ n = m + 1
        /\ at = [k \in 1 .. budget |-> ((k - 1) * m) \div d + 1]
    BY <1>2 DEF cappedSourceIndices
  <2> HIDE DEF d, m, at, c
  <2>2. ASSUME NEW j \in 0 .. d, NEW k \in 0 .. d, j < k
        PROVE  (j * m) \div d < (k * m) \div d
    <3> DEFINE x == j * m
               y == k * m
    <3>1. x \in Nat /\ y \in Nat
      BY <2>1
    <3>2. (k - j) * m = y - x /\ (k - j) * m >= m
      <4>1. (k - j) * m = y - x
        BY <2>1
      <4>2. k - j = 1 \/ 1 < k - j
        BY <2>2, <2>1
      <4>3. 1 * m = m
        BY <2>1
      <4>4. (k - j) * m >= 1 * m
        <5> DEFINE g == k - j - 1
        <5>1. g \in Nat /\ k - j = g + 1
          BY <2>2, <2>1
        <5>2. (g + 1) * m = g * m + m /\ g * m \in Nat
          BY <5>1, <2>1
        <5> QED BY <5>1, <5>2, <4>3, <2>1
      <4> QED BY <4>1, <4>3, <4>4
    <3>3. x + d <= y
      BY <3>1, <3>2, <2>1
    <3> HIDE DEF x, y
    <3>4. x \div d < y \div d
      BY <3>1, <3>3, <2>1, QuotientsDiffer
    <3> QED BY <3>4 DEF x, y
  <2>3. (d * m) \div d = m
    <3> DEFINE x == d * m
               q == x \div d
    <3>1. x \in Nat /\ x = m * d /\ m \in Int
      BY <2>1
    <3>2. q \in Nat /\ q * d <= x /\ x < q * d + d
      <4> HIDE DEF x
      <4> QED BY <3>1, <2>1, Quotient
    <3> HIDE DEF x, q
    <3>3. /\ q * d \in Int /\ m * d \in Int /\ q < m + 1
      <4>1. q * d \in Int /\ m * d \in Int
        BY <3>1, <3>2, <2>1
      <4>2. q * d < (m + 1) * d
        <5>1. (m + 1) * d = m * d + d
          BY <3>1, <2>1
        <5> QED BY <5>1, <4>1, <3>1, <3>2, <2>1
      <4>3. q < m + 1
        BY <4>2, <3>2, <3>1, <2>1, Multiples
      <4> QED BY <4>1, <4>3
    <3>4. m < q + 1
      <4>1. (q + 1) * d = q * d + d
        BY <3>2, <2>1
      <4>2. m * d < (q + 1) * d
        BY <4>1, <3>1, <3>2, <3>3, <2>1
      <4> QED BY <4>2, <3>2, <3>1, <2>1, Multiples
    <3>5. q = m
      BY <3>1, <3>2, <3>3, <3>4
    <3> QED BY <3>5 DEF q, x
  <2>4. ASSUME NEW k \in 1 .. budget PROVE at[k] \in 1 .. n /\ k - 1 \in 0 .. d
    <3> DEFINE q(i) == (i * m) \div d
    <3>1. k - 1 \in 0 .. d /\ d \in 0 .. d /\ at[k] = q(k - 1) + 1
      BY <2>1
    <3>2. q(k - 1) \in Nat
      <4>1. (k - 1) * m \in Nat
        BY <3>1, <2>1
      <4> QED BY <4>1, <2>1, Quotient
    <3>3. q(k - 1) <= m
      <4>1. CASE k - 1 = d
        BY <4>1, <2>3, <2>1
      <4>2. CASE k - 1 < d
        <5>1. q(k - 1) < q(d)
          BY <4>2, <3>1, <2>2
        <5>2. q(d) = m
          BY <2>3
        <5> HIDE DEF q
        <5> QED BY <5>1, <5>2, <3>2, <2>1
      <4> QED BY <4>1, <4>2, <3>1, <2>1
    <3> HIDE DEF q
    <3> QED BY <3>1, <3>2, <3>3, <2>1
  <2>5. ASSUME NEW j \in 1 .. budget, NEW k \in 1 .. budget, j < k PROVE at[j] < at[k]
    <3> DEFINE q(i) == (i * m) \div d
    <3>1. /\ j - 1 \in 0 .. d /\ k - 1 \in 0 .. d /\ j - 1 < k - 1
          /\ at[j] = q(j - 1) + 1 /\ at[k] = q(k - 1) + 1
      BY <2>1, <2>4, <2>5
    <3>2. q(j - 1) < q(k - 1)
      BY <3>1, <2>2
    <3>3. at[j] \in Int /\ at[k] \in Int /\ q(j - 1) \in Int /\ q(k - 1) \in Int
      <4>1. (j - 1) * m \in Nat /\ (k - 1) * m \in Nat
        BY <3>1, <2>1
      <4> QED BY <4>1, <2>1, <2>4, Quotient
    <3> HIDE DEF q
    <3> QED BY <3>1, <3>2, <3>3
  <2>6. at \in [1 .. c -> 1 .. n]
    BY <2>1, <2>4
  <2>7. at[budget] = n
    <3>1. budget \in 1 .. budget /\ budget - 1 = d
      BY <2>1
    <3>2. at[budget] = (d * m) \div d + 1
      BY <3>1, <2>1
    <3> QED BY <3>2, <2>3, <2>1
  <2>8. ~(n <= budget)
    BY <1>2
  <2> QED BY <2>1, <2>5, <2>6, <2>7, <2>8 DEF at
<1> QED BY <1>1, <1>2

\* capped: rows of the sequence in their order, all of them within the budget.
LEMMA CappedRows ==
    ASSUME NEW S, NEW seq \in Seq(S), NEW budget \in Nat \ {0}
    PROVE  LET few == capped(seq, budget)
               n == Len(seq)
               c == IF n <= budget THEN n ELSE budget
           IN  /\ few \in Seq(S) /\ Len(few) = c
               /\ n <= budget => few = seq
               /\ \E at \in [1 .. Len(few) -> 1 .. n] :
                     /\ \A k \in 1 .. Len(few) : few[k] = seq[at[k]]
                     /\ \A j, k \in 1 .. Len(few) : j < k => at[j] < at[k]
                     /\ n # 0 /\ 2 <= budget => at[Len(few)] = n
<1> DEFINE few == capped(seq, budget)
           n == Len(seq)
           c == IF n <= budget THEN n ELSE budget
           at == cappedSourceIndices(n, budget)
<1>1. n \in Nat /\ c \in 0 .. n /\ seq \in [1 .. n -> S] /\ (n <= budget => c = n)
      /\ (~(n <= budget) => c = budget /\ budget < n)
  OBVIOUS
<1>2. few = [k \in DOMAIN at |-> seq[at[k]]]
  BY DEF capped
<1> HIDE DEF n, few
<1>3. /\ at \in [1 .. c -> 1 .. n]
      /\ \A j, k \in 1 .. c : j < k => at[j] < at[k]
      /\ n <= budget => \A k \in 1 .. n : at[k] = k
      /\ budget < n /\ 2 <= budget => at[budget] = n
  BY <1>1, CappedPlaces
<1> HIDE DEF at, c
<1>4. few = [k \in 1 .. c |-> seq[at[k]]] /\ \A k \in 1 .. c : seq[at[k]] \in S
  BY <1>1, <1>2, <1>3
<1>5. few \in Seq(S) /\ Len(few) = c
  BY <1>1, <1>4
<1>6. n <= budget => few = seq
  <2> SUFFICES ASSUME n <= budget PROVE few = seq
      OBVIOUS
  <2>1. \A k \in 1 .. n : at[k] = k
    BY <1>3
  <2>2. few = [k \in 1 .. n |-> seq[k]]
    BY <1>1, <1>4, <2>1
  <2> QED BY <2>2, <1>1
<1>7. n # 0 /\ 2 <= budget => at[c] = n
  <2>1. CASE n <= budget
    <3>1. c = n /\ \A k \in 1 .. n : at[k] = k
      BY <2>1, <1>1, <1>3
    <3>2. n # 0 => n \in 1 .. n
      BY <1>1
    <3> QED BY <3>1, <3>2
  <2>2. CASE ~(n <= budget)
    BY <2>2, <1>1, <1>3
  <2> QED BY <2>1, <2>2
<1>8. \A k \in 1 .. c : few[k] = seq[at[k]]
  BY <1>4
<1>9. \E f \in [1 .. Len(few) -> 1 .. n] :
         /\ \A k \in 1 .. Len(few) : few[k] = seq[f[k]]
         /\ \A j, k \in 1 .. Len(few) : j < k => f[j] < f[k]
         /\ n # 0 /\ 2 <= budget => f[Len(few)] = n
  BY <1>3, <1>5, <1>7, <1>8
<1>10. Len(few) = IF n <= budget THEN n ELSE budget
  BY <1>5 DEF c
<1> QED BY <1>5, <1>6, <1>9, <1>10 DEF few, n
-----------------------------------------------------------------------------
(* What holds of the widget and its page. *)

Rows == [sample : Samples, sampleIndex : Nat]

Sessions == DOMAIN Recordings \cup {NoSession}
Tracks == Trajectories \cup {RecordedTrack(f) : f \in DOMAIN Recordings}

Widgets ==
    [session : Sessions, preview : BOOLEAN, trajectory : Tracks,
     samples : Seq(Rows), total : Nat, received : Nat, lastPublished : Int, published3D : Nat,
     liveUpdatePending : BOOLEAN, snapshotPending : BOOLEAN, sessionPending : BOOLEAN,
     trail : Nat, trailPending : BOOLEAN, clearPending : BOOLEAN, mapReady : BOOLEAN,
     attempt : BOOLEAN, error : BOOLEAN, visible : BOOLEAN, updateTimer : BOOLEAN,
     watchdog : BOOLEAN]

IsPage(p) ==
    /\ p = [path |-> p.path, path3d |-> p.path3d, total |-> p.total, trail |-> p.trail,
            exact |-> p.exact]
    /\ p.total \in Nat

\* A map that is ready is loaded once and for all; before that the page is empty, and
\* all of a recorded flight waits.
Loaded(m, p) ==
    /\ m.mapReady => ~m.attempt /\ ~m.watchdog /\ ~m.error
    /\ m.attempt => ~m.error
    /\ ~m.mapReady => /\ p = Nothing /\ m.lastPublished = -1 /\ m.published3D = 0
                      /\ m.session # NoSession => m.sessionPending
    /\ m.sessionPending => m.trailPending
    /\ m.sessionPending => m.session # NoSession
    /\ m.clearPending => m.session = NoSession

\* A recorded flight has no live samples; what does not wait is drawn.
Replayed(m, p) ==
    /\ m.samples = <<>> /\ m.trail <= Len(Recordings[m.session])
    /\ ~m.sessionPending => /\ p.path = SessionPayload(m).path
                            /\ p.path3d = SessionPayload(m).path3d
                            /\ p.total = Len(Recordings[m.session])
    /\ ~m.trailPending => p.trail = m.trail /\ p.exact = TrailPoint(m)

\* The live history: usable samples in the order in which they came, and a trajectory
\* with its fixes among them.
History(rows, traj, total, received) ==
    /\ traj \in Trajectories
    /\ \A k \in DOMAIN rows :
          /\ isUsableMapPoint(rows[k].sample)
          /\ rows[k].sampleIndex < total /\ rows[k].sample.timestamp <= received
          /\ Ordered(traj.fixes, rows[k].sampleIndex)
    /\ \A j, k \in DOMAIN rows : j < k =>
          /\ rows[j].sampleIndex < rows[k].sampleIndex
          /\ rows[j].sample.timestamp < rows[k].sample.timestamp
    /\ \A k \in DOMAIN traj.fixes :
          /\ rows # <<>>
          /\ Reached(traj.fixes[k].index, rows[Len(rows)].sampleIndex)
    /\ traj.fixes # <<>> => traj.fixes[Len(traj.fixes)].segment = traj.currentSegment

Dot(row, traj) == Point(row.sample, row.sampleIndex, traj)

\* The page draws the first n rows, and some of them on the globe.
Draws(p, rows, n, traj, globe) ==
    /\ p.path = [k \in 1 .. n |-> Dot(rows[k], traj)]
    /\ p.path3d \in Seq({Dot(rows[k], traj) : k \in 1 .. n})
    /\ Len(p.path3d) = globe /\ globe <= kMap3DPointBudget
    /\ \A j, k \in DOMAIN p.path3d : j < k => p.path3d[j].idx < p.path3d[k].idx
    /\ n > 0 => p.path3d # <<>>

\* The page once a clear that waits has come.
Behind(m, p) == IF m.clearPending THEN Nothing ELSE p

Lived(m, p) ==
    LET q == Behind(m, p)
    IN  /\ History(m.samples, m.trajectory, m.total, m.received)
        /\ Len(m.samples) <= kMap2DPointBudget
        /\ m.lastPublished < m.total
        /\ q.trail = q.total
        /\ ~m.liveUpdatePending =>
              /\ q.total >= m.total
              /\ m.samples = <<>> \/ (~m.snapshotPending /\ m.lastPublished = m.total - 1)
        /\ m.samples = <<>> => q.path = <<>> /\ q.path3d = <<>> /\ m.published3D = 0
        /\ ~m.snapshotPending =>
              \E n \in 0 .. Len(m.samples) :
                  /\ \A k \in DOMAIN m.samples : m.samples[k].sampleIndex <= m.lastPublished <=> k <= n
                  /\ Draws(q, m.samples, n, m.trajectory, m.published3D)

PInv(m, p) ==
    /\ m \in Widgets /\ IsPage(p)
    /\ Loaded(m, p)
    /\ m.session # NoSession => Replayed(m, p)
    /\ m.session = NoSession => Lived(m, p)

MapInv == PInv(map, page)

\* A sequence, by its length and its elements.
LEMMA SequenceOf ==
    ASSUME NEW S, NEW n \in Nat, NEW f, f = [k \in 1 .. n |-> f[k]], \A k \in 1 .. n : f[k] \in S
    PROVE  f \in Seq(S) /\ Len(f) = n /\ DOMAIN f = 1 .. n
<1>1. f \in [1 .. n -> S]
  OBVIOUS
<1> QED BY <1>1

\* A sequence without an element.
LEMMA NoElement ==
    ASSUME NEW S, NEW seq \in Seq(S), Len(seq) = 0 \/ DOMAIN seq = {} \/ (\A k \in DOMAIN seq : FALSE)
    PROVE  seq = <<>>
<1>1. DOMAIN seq = 1 .. Len(seq) /\ Len(seq) \in Nat
  OBVIOUS
<1>2. Len(seq) = 0
  <2>1. Len(seq) # 0 => 1 \in DOMAIN seq
    BY <1>1
  <2> QED BY <2>1
<1> QED BY <1>2

\* The types of a widget's members.
LEMMA Members ==
    ASSUME NEW m \in Widgets
    PROVE  /\ m.session \in Sessions /\ m.preview \in BOOLEAN
           /\ m.samples \in Seq(Rows) /\ m.total \in Nat /\ m.received \in Nat
           /\ m.lastPublished \in Int /\ m.published3D \in Nat /\ m.trail \in Nat
           /\ Len(m.samples) \in Nat /\ DOMAIN m.samples = 1 .. Len(m.samples)
           /\ \A k \in 1 .. Len(m.samples) : /\ m.samples[k] \in Rows
                                             /\ m.samples[k].sample \in Samples
                                             /\ m.samples[k].sample.timestamp \in Int
                                             /\ m.samples[k].sampleIndex \in Nat
<1>1. /\ m.session \in Sessions /\ m.preview \in BOOLEAN
      /\ m.samples \in Seq(Rows) /\ m.total \in Nat /\ m.received \in Nat
      /\ m.lastPublished \in Int /\ m.published3D \in Nat /\ m.trail \in Nat
  BY DEF Widgets
<1> DEFINE rows == m.samples
<1>2. rows \in Seq(Rows)
  BY <1>1
<1> HIDE DEF rows
<1>3. /\ Len(rows) \in Nat /\ DOMAIN rows = 1 .. Len(rows)
      /\ \A k \in 1 .. Len(rows) : rows[k] \in Rows
  BY <1>2
<1>4. \A row \in Rows : row.sample \in Samples /\ row.sample.timestamp \in Int /\ row.sampleIndex \in Nat
  BY DEF Rows, Samples
<1> QED BY <1>1, <1>3, <1>4 DEF rows

\* The rows after the first b of them.
LEMMA RowsAfter ==
    ASSUME NEW rows \in Seq(Rows), NEW b \in 0 .. Len(rows), NEW places,
           places = {k \in DOMAIN rows : b < k}
    PROVE  /\ AtPlaces(rows, places) = [k \in 1 .. Len(rows) - b |-> rows[b + k]]
           /\ AtPlaces(rows, places) \in Seq(Rows)
           /\ Len(AtPlaces(rows, places)) = Len(rows) - b
<1> DEFINE n == Len(rows)
           rest == AtPlaces(rows, places)
<1>1. n \in Nat /\ DOMAIN rows = 1 .. n /\ b \in 0 .. n /\ \A k \in 1 .. n : rows[k] \in Rows
  OBVIOUS
<1>2. places = (b + 1) .. n
  BY <1>1
<1>3. Cardinality(places) = n - b /\ \A k \in 1 .. n - b : Nth(places, k) = b + k
  BY <1>1, <1>2, AtTheEnd
<1>4. rest = [k \in 1 .. n - b |-> rows[Nth(places, k)]]
  BY <1>3 DEF AtPlaces
<1> HIDE DEF n, rest
<1>5. rest = [k \in 1 .. n - b |-> rows[b + k]]
  BY <1>3, <1>4
<1>6. \A k \in 1 .. n - b : rows[b + k] \in Rows
  BY <1>1
<1>7. rest \in Seq(Rows) /\ Len(rest) = n - b
  BY <1>1, <1>5, <1>6
<1> QED BY <1>5, <1>7 DEF n, rest

\* Rows that can all be drawn are drawn, each in its place.
LEMMA PointsAre ==
    ASSUME NEW rows \in Seq(Rows), NEW traj,
           \A k \in 1 .. Len(rows) : isUsableMapPoint(rows[k].sample)
    PROVE  /\ Points(rows, traj) = [k \in 1 .. Len(rows) |-> Dot(rows[k], traj)]
           /\ Points(rows, traj) \in Seq({Dot(rows[k], traj) : k \in 1 .. Len(rows)})
           /\ Len(Points(rows, traj)) = Len(rows)
<1> DEFINE n == Len(rows)
           places == {k \in DOMAIN rows : isUsableMapPoint(rows[k].sample)}
           usable == AtPlaces(rows, places)
           drawn == Points(rows, traj)
           D == {Dot(rows[k], traj) : k \in 1 .. n}
<1>1. n \in Nat /\ DOMAIN rows = 1 .. n /\ 0 \in 0 .. n
  OBVIOUS
<1>2. places = {k \in DOMAIN rows : 0 < k}
  BY <1>1
<1> HIDE DEF places
<1>3. usable = [k \in 1 .. n - 0 |-> rows[0 + k]]
  BY <1>1, <1>2, RowsAfter
<1>4. usable = [k \in 1 .. n |-> rows[k]]
  BY <1>1, <1>3
<1>5. drawn = [k \in DOMAIN usable |-> Point(usable[k].sample, usable[k].sampleIndex, traj)]
  BY DEF Points, places
<1> HIDE DEF usable, drawn, n
<1>6. drawn = [k \in 1 .. n |-> Dot(rows[k], traj)]
  BY <1>4, <1>5 DEF Dot
<1>7. \A k \in 1 .. n : Dot(rows[k], traj) \in D
  OBVIOUS
<1> HIDE DEF D
<1>8. drawn \in Seq(D) /\ Len(drawn) = n
  BY <1>1, <1>6, <1>7
<1> QED BY <1>6, <1>8 DEF drawn, n, D

\* No more points than rows are drawn.
LEMMA PointsFew ==
    ASSUME NEW rows \in Seq(Rows), NEW traj
    PROVE  \E D : /\ Points(rows, traj) \in Seq(D)
                  /\ Len(Points(rows, traj)) <= Len(rows)
<1> DEFINE n == Len(rows)
           places == {k \in DOMAIN rows : isUsableMapPoint(rows[k].sample)}
           usable == AtPlaces(rows, places)
           drawn == Points(rows, traj)
           c == Cardinality(places)
           At(k) == Point(usable[k].sample, usable[k].sampleIndex, traj)
           D == {At(k) : k \in 1 .. c}
<1>1. n \in Nat /\ DOMAIN rows = 1 .. n /\ places \in SUBSET (1 .. n)
  OBVIOUS
<1>2. drawn = [k \in DOMAIN usable |-> At(k)]
  BY DEF Points
<1>3. DOMAIN usable = 1 .. c
  BY DEF AtPlaces
<1>4. \A k \in 1 .. c : At(k) \in D
  OBVIOUS
<1> HIDE DEF places, n, usable, drawn, At, D
<1>5. c \in 0 .. n
  BY <1>1, RanksDiffer
<1> HIDE DEF c
<1>6. drawn = [k \in 1 .. c |-> At(k)]
  BY <1>2, <1>3
<1>7. drawn \in Seq(D) /\ Len(drawn) = c
  BY <1>4, <1>5, <1>6
<1>8. Len(drawn) <= n
  BY <1>7, <1>5, <1>1
<1> QED BY <1>7, <1>8 DEF drawn, n

\* A map of a recorded flight shows no more points than it may.
LEMMA PayloadFits ==
    ASSUME NEW m, m.session \in DOMAIN Recordings, NEW budget \in Nat \ {0}
    PROVE  capped(Points(PathRows(m, budget), Trajectory(m)), budget) =
           Points(PathRows(m, budget), Trajectory(m))
<1> DEFINE flight == Recordings[m.session]
           all == Entries(flight)
           n == Len(flight)
           places == {k \in DOMAIN all : /\ InRange(all[k].sample.place)
                                         /\ all[k].sample.place # [lat |-> 0, lon |-> 0]}
           placed == AtPlaces(all, places)
           rows == PathRows(m, budget)
<1>1. flight \in Seq(Samples) /\ n \in Nat /\ DOMAIN flight = 1 .. n
      /\ \A k \in 1 .. n : flight[k] \in Samples
  BY MapAssumption
<1>2. rows = IF m.preview THEN capped(placed, budget) ELSE capped(all, budget)
  BY DEF PathRows
<1> HIDE DEF flight, n
<1>3. all = [k \in 1 .. n |-> [sample |-> flight[k], sampleIndex |-> k - 1]]
  BY <1>1 DEF Entries
<1>4. \A k \in 1 .. n : [sample |-> flight[k], sampleIndex |-> k - 1] \in Rows
  BY <1>1 DEF Rows
<1> HIDE DEF all
<1>5. all \in Seq(Rows) /\ Len(all) = n /\ DOMAIN all = 1 .. n /\ \A k \in 1 .. n : all[k] \in Rows
  <2>1. all = [k \in 1 .. n |-> all[k]] /\ \A k \in 1 .. n : all[k] \in Rows
    BY <1>3, <1>4
  <2> QED BY <2>1, <1>1, SequenceOf
<1> HIDE DEF all
<1>6. places \in SUBSET (1 .. n)
  BY <1>5
<1> HIDE DEF places
<1>7. Cardinality(places) \in 0 .. n /\ \A k \in 1 .. Cardinality(places) : Nth(places, k) \in 1 .. n
  <2>1. \A i \in places : i \in 1 .. n
    BY <1>6
  <2> QED BY <1>1, <1>6, <2>1, RanksDiffer, NthPlace
<1>8. placed \in Seq(Rows)
  <2> DEFINE c == Cardinality(places)
  <2>1. placed = [k \in 1 .. c |-> all[Nth(places, k)]]
    BY DEF AtPlaces
  <2>2. c \in Nat /\ \A k \in 1 .. c : all[Nth(places, k)] \in Rows
    BY <1>1, <1>5, <1>7
  <2> HIDE DEF c, placed
  <2> QED BY <2>1, <2>2
<1> HIDE DEF placed
<1>9. rows \in Seq(Rows) /\ Len(rows) <= budget
  <2>1. \A seq \in Seq(Rows) : capped(seq, budget) \in Seq(Rows) /\ Len(capped(seq, budget)) <= budget
    <3> SUFFICES ASSUME NEW seq \in Seq(Rows)
                 PROVE  capped(seq, budget) \in Seq(Rows) /\ Len(capped(seq, budget)) <= budget
        OBVIOUS
    <3>1. /\ capped(seq, budget) \in Seq(Rows)
          /\ Len(capped(seq, budget)) = IF Len(seq) <= budget THEN Len(seq) ELSE budget
      BY CappedRows
    <3> QED BY <3>1
  <2> QED BY <1>2, <1>5, <1>8, <2>1
<1> HIDE DEF rows
<1>10. PICK D : /\ Points(rows, Trajectory(m)) \in Seq(D)
                /\ Len(Points(rows, Trajectory(m))) <= Len(rows)
  BY <1>9, PointsFew
<1> DEFINE drawn == Points(rows, Trajectory(m))
<1>11. drawn \in Seq(D) /\ Len(drawn) <= budget
  BY <1>9, <1>10
<1> HIDE DEF drawn
<1>12. capped(drawn, budget) = drawn
  BY <1>11, CappedRows
<1> QED BY <1>12 DEF drawn, rows

\* Counting anew keeps the history, and each row where it was.
LEMMA HistoryRebased ==
    ASSUME NEW m \in Widgets, History(m.samples, m.trajectory, m.total, m.received)
    PROVE  LET n == rebaseLiveHistoryIndices(m)
           IN  /\ n.samples \in Seq(Rows) /\ Len(n.samples) = Len(m.samples)
               /\ History(n.samples, n.trajectory, n.total, n.received)
               /\ \A k \in 1 .. Len(m.samples) :
                     /\ n.samples[k].sample = m.samples[k].sample
                     /\ Drawn(n, n.samples[k]) = Drawn(m, m.samples[k])
<1> DEFINE rows == m.samples
           traj == m.trajectory
           c == Len(rows)
           indices == [k \in 1 .. c |-> rows[k].sampleIndex]
           again == rebaseIndices(traj, indices)
           anew == [k \in 1 .. c |-> [rows[k] EXCEPT !.sampleIndex = k - 1]]
           n == rebaseLiveHistoryIndices(m)
<1>1. /\ rows \in Seq(Rows) /\ c \in Nat /\ DOMAIN rows = 1 .. c
      /\ \A k \in 1 .. c : /\ rows[k] \in Rows /\ rows[k].sample \in Samples
                           /\ rows[k].sample.timestamp \in Int /\ rows[k].sampleIndex \in Nat
      /\ traj \in Trajectories /\ m.received \in Nat /\ m.total \in Nat
  BY Members DEF History
<1>2. /\ n.samples = anew /\ n.trajectory = again /\ n.total = c /\ n.received = m.received
  BY <1>1 DEF rebaseLiveHistoryIndices, Widgets
<1>3. \A k \in 1 .. c : /\ anew[k].sample = rows[k].sample /\ anew[k].sampleIndex = k - 1
                        /\ anew[k] \in Rows
  <2> SUFFICES ASSUME NEW k \in 1 .. c
               PROVE  /\ anew[k].sample = rows[k].sample /\ anew[k].sampleIndex = k - 1
                      /\ anew[k] \in Rows
      OBVIOUS
  <2> DEFINE row == rows[k]
             new == anew[k]
  <2>1. row \in Rows /\ new = [row EXCEPT !.sampleIndex = k - 1] /\ k - 1 \in Nat
    BY <1>1
  <2> HIDE DEF row, new
  <2>2. new.sample = row.sample /\ new.sampleIndex = k - 1 /\ new \in Rows
    BY <2>1 DEF Rows
  <2> QED BY <2>2 DEF new, row
<1>4. anew \in Seq(Rows) /\ Len(anew) = c /\ DOMAIN anew = 1 .. c
  <2> HIDE DEF anew, rows, c
  <2>1. anew = [k \in 1 .. c |-> anew[k]]
    BY DEF anew
  <2> QED BY <2>1, <1>1, <1>3, SequenceOf
<1>5. /\ \A k \in 1 .. c :
            /\ isUsableMapPoint(rows[k].sample)
            /\ rows[k].sampleIndex < m.total /\ rows[k].sample.timestamp <= m.received
            /\ Ordered(traj.fixes, rows[k].sampleIndex)
      /\ \A j, k \in 1 .. c : j < k =>
            /\ rows[j].sampleIndex < rows[k].sampleIndex
            /\ rows[j].sample.timestamp < rows[k].sample.timestamp
      /\ \A k \in DOMAIN traj.fixes :
            /\ rows # <<>>
            /\ Reached(traj.fixes[k].index, rows[c].sampleIndex)
      /\ traj.fixes # <<>> => traj.fixes[Len(traj.fixes)].segment = traj.currentSegment
  BY <1>1 DEF History
<1>6. /\ indices \in [1 .. c -> Nat]
      /\ \A k \in 1 .. c : indices[k] = rows[k].sampleIndex
      /\ \A j, k \in 1 .. c : j < k => indices[j] < indices[k]
  BY <1>1, <1>5
<1> HIDE DEF rows, traj, c, indices, again, anew
<1>7. CASE c = 0
  <2>1. rows = <<>> /\ indices = <<>>
    BY <1>1, <1>7 DEF indices
  <2>2. traj.fixes = <<>>
    <3>1. traj.fixes \in Seq(Fixes)
      BY <1>1 DEF Trajectories
    <3>2. DOMAIN traj.fixes = {}
      BY <1>5, <2>1
    <3> QED BY <3>1, <3>2, NoElement
  <2>3. again = [traj EXCEPT !.fixes = <<>>]
    BY <2>1 DEF again, rebaseIndices
  <2>4. again = traj
    BY <2>2, <2>3, <1>1 DEF Trajectories
  <2>5. History(anew, again, c, m.received)
    BY <1>1, <1>4, <1>7, <2>2, <2>4 DEF History
  <2> QED BY <2>5, <1>2, <1>4, <1>7, <1>1 DEF rows, c
<1>8. CASE c # 0
  <2>1. c \in Nat \ {0} /\ c \in 1 .. c
    BY <1>1, <1>8
  <2>2. /\ again \in Trajectories /\ again.currentSegment = traj.currentSegment
        /\ Len(again.fixes) = Len(traj.fixes)
        /\ \A i \in DOMAIN traj.fixes :
              /\ again.fixes[i].segment = traj.fixes[i].segment
              /\ \A k \in 1 .. c : Reached(again.fixes[i].index, k - 1) <=>
                                   Reached(traj.fixes[i].index, indices[k])
        /\ \A k \in 1 .. c :
              /\ Ordered(traj.fixes, indices[k]) => Ordered(again.fixes, k - 1)
              /\ \A s : coordinateAt(again, k - 1, s) = coordinateAt(traj, indices[k], s)
    BY <1>1, <1>6, <2>1, RebaseStays DEF again
  <2>3. /\ DOMAIN again.fixes = DOMAIN traj.fixes
        /\ traj.fixes # <<>> => Len(traj.fixes) \in DOMAIN traj.fixes
        /\ again.fixes # <<>> => traj.fixes # <<>>
    <3>1. traj.fixes \in Seq(Fixes) /\ again.fixes \in Seq(Fixes)
      BY <1>1, <2>2 DEF Trajectories
    <3> QED BY <3>1, <2>2
  <2>4. \A k \in 1 .. c :
           /\ isUsableMapPoint(anew[k].sample)
           /\ anew[k].sampleIndex < c /\ anew[k].sample.timestamp <= m.received
           /\ Ordered(again.fixes, anew[k].sampleIndex)
    <3> SUFFICES ASSUME NEW k \in 1 .. c
                 PROVE  /\ isUsableMapPoint(anew[k].sample)
                        /\ anew[k].sampleIndex < c /\ anew[k].sample.timestamp <= m.received
                        /\ Ordered(again.fixes, anew[k].sampleIndex)
        OBVIOUS
    <3>1. anew[k].sample = rows[k].sample /\ anew[k].sampleIndex = k - 1 /\ k - 1 < c
      BY <1>3, <1>1
    <3>2. Ordered(again.fixes, k - 1)
      BY <1>5, <1>6, <2>2
    <3> QED BY <3>1, <3>2, <1>5
  <2>5. \A j, k \in 1 .. c : j < k =>
           /\ anew[j].sampleIndex < anew[k].sampleIndex
           /\ anew[j].sample.timestamp < anew[k].sample.timestamp
    <3> SUFFICES ASSUME NEW j \in 1 .. c, NEW k \in 1 .. c, j < k
                 PROVE  /\ anew[j].sampleIndex < anew[k].sampleIndex
                        /\ anew[j].sample.timestamp < anew[k].sample.timestamp
        OBVIOUS
    <3>1. /\ anew[j].sample = rows[j].sample /\ anew[j].sampleIndex = j - 1
          /\ anew[k].sample = rows[k].sample /\ anew[k].sampleIndex = k - 1
      BY <1>3
    <3>2. rows[j].sample.timestamp < rows[k].sample.timestamp
      BY <1>5
    <3>3. j - 1 < k - 1
      BY <1>1
    <3> QED BY <3>1, <3>2, <3>3
  <2>6. \A k \in DOMAIN again.fixes :
           /\ anew # <<>>
           /\ Reached(again.fixes[k].index, anew[c].sampleIndex)
    <3>1. anew # <<>> /\ anew[c].sampleIndex = c - 1 /\ indices[c] = rows[c].sampleIndex
      BY <1>3, <1>4, <1>6, <2>1
    <3> QED BY <3>1, <1>5, <2>1, <2>2, <2>3
  <2>7. again.fixes # <<>> => again.fixes[Len(again.fixes)].segment = again.currentSegment
    BY <1>5, <2>2, <2>3
  <2>8. History(anew, again, c, m.received)
    BY <1>4, <2>2, <2>4, <2>5, <2>6, <2>7 DEF History
  <2>9. \A k \in 1 .. c : Drawn(n, anew[k]) = Drawn(m, rows[k])
    <3> SUFFICES ASSUME NEW k \in 1 .. c PROVE Drawn(n, anew[k]) = Drawn(m, rows[k])
        OBVIOUS
    <3>1. /\ anew[k].sample = rows[k].sample /\ anew[k].sampleIndex = k - 1
          /\ indices[k] = rows[k].sampleIndex
      BY <1>3, <1>6
    <3>2. coordinateAt(again, k - 1, rows[k].sample) = coordinateAt(traj, indices[k], rows[k].sample)
      BY <2>2
    <3> QED BY <3>1, <3>2, <1>2 DEF Drawn, traj
  <2> QED BY <1>2, <1>3, <1>4, <2>8, <2>9 DEF rows, c
<1> QED BY <1>7, <1>8

\* A sequence with one element more.
LEMMA OneMore ==
    ASSUME NEW S, NEW seq \in Seq(S), NEW e \in S
    PROVE  LET more == Append(seq, e)
           IN  /\ more \in Seq(S) /\ Len(more) = Len(seq) + 1 /\ DOMAIN more = 1 .. Len(seq) + 1
               /\ more[Len(seq) + 1] = e /\ \A k \in 1 .. Len(seq) : more[k] = seq[k]
OBVIOUS

\* A sample that is taken: no fix comes, or one at its row.
LEMMA Appended ==
    ASSUME NEW traj \in Trajectories, NEW sample \in Samples, NEW index \in Nat
    PROVE  LET next == append(traj, sample, index)
           IN  /\ next \in Trajectories
               /\ \/ next.fixes = traj.fixes /\ next.currentSegment = traj.currentSegment
                  \/ /\ valid(sample)
                     /\ \E fix \in Fixes : /\ next.fixes = Append(traj.fixes, fix)
                                           /\ fix.index = [num |-> index, den |-> 1]
                                           /\ fix.segment = next.currentSegment
<1> DEFINE next == append(traj, sample, index)
           segment == traj.currentSegment +
                      (IF traj.fixes # <<>> /\ Interrupts(traj, sample) THEN 1 ELSE 0)
           fix == [index |-> [num |-> index, den |-> 1], timestamp |-> sample.timestamp,
                   place |-> sample.place, segment |-> segment]
           seen(i) == [traj EXCEPT !.lastTimestamp = sample.timestamp, !.interrupted = i]
<1>1. /\ traj.fixes \in Seq(Fixes) /\ traj.currentSegment \in Nat
      /\ sample.timestamp \in Int /\ sample.place \in Coordinates
  BY DEF Trajectories, Samples
<1>2. segment \in Nat
  BY <1>1
<1> HIDE DEF segment
<1>3. fix \in Fixes /\ fix.index = [num |-> index, den |-> 1] /\ fix.segment = segment
  BY <1>1, <1>2 DEF Fixes, Indices
<1> HIDE DEF fix
<1>4. Append(traj.fixes, fix) \in Seq(Fixes)
  BY <1>1, <1>3
<1>5. CASE ~valid(sample)
  <2>1. next = seen(TRUE)
    BY <1>5 DEF append
  <2> QED BY <2>1, <1>1 DEF Trajectories
<1>6. CASE valid(sample) /\ Held(traj, sample)
  <2>1. next = seen(FALSE)
    BY <1>6 DEF append
  <2> QED BY <2>1, <1>1 DEF Trajectories
<1>7. CASE valid(sample) /\ ~Held(traj, sample)
  <2>1. next = [fixes |-> Append(traj.fixes, fix), lastTimestamp |-> sample.timestamp,
                currentSegment |-> segment, interrupted |-> FALSE]
    BY <1>7 DEF append, Trajectories, fix, segment
  <2>2. next \in Trajectories
    BY <2>1, <1>1, <1>2, <1>4 DEF Trajectories
  <2>3. next.fixes = Append(traj.fixes, fix) /\ next.currentSegment = segment
    BY <2>1
  <2> HIDE DEF next
  <2>4. \E f \in Fixes : /\ next.fixes = Append(traj.fixes, f)
                         /\ f.index = [num |-> index, den |-> 1]
                         /\ f.segment = next.currentSegment
    BY <1>3, <2>3
  <2> QED BY <2>2, <2>4, <1>7 DEF next
<1> QED BY <1>5, <1>6, <1>7

\* The history once a sample was taken: no row moves that lies between two measured
\* places, and none at all unless the sample calls for redrawing.
TakenUp(rows, traj, total, received, sample, more, next) ==
    /\ more \in Seq(Rows) /\ next \in Trajectories
    /\ isUsableMapPoint(sample) =>
          /\ Len(more) = Len(rows) + 1
          /\ more[Len(rows) + 1] = [sample |-> sample, sampleIndex |-> total]
    /\ ~isUsableMapPoint(sample) => Len(more) = Len(rows)
    /\ History(more, next, total + 1, received + 1)
    /\ \A k \in 1 .. Len(rows) :
          LET row == rows[k].sampleIndex
              old == rows[k].sample
          IN  /\ more[k] = rows[k]
              /\ coordinateAt(traj, row, old) # old.place =>
                    coordinateAt(next, row, old) = coordinateAt(traj, row, old)
              /\ ~redraws(traj, sample, total) => Dot(rows[k], next) = Dot(rows[k], traj)

\* append: a history with one sample more is a history, and no row moves unnoticed.
LEMMA HistoryAppended ==
    ASSUME NEW rows \in Seq(Rows), NEW traj, NEW total \in Nat, NEW received \in Nat,
           History(rows, traj, total, received),
           NEW sample \in Samples, sample.timestamp = received + 1,
           NEW more, more = IF isUsableMapPoint(sample)
                               THEN Append(rows, [sample |-> sample, sampleIndex |-> total]) ELSE rows,
           NEW next, next = append(traj, sample, total)
    PROVE  TakenUp(rows, traj, total, received, sample, more, next)
<1> DEFINE n == Len(rows)
           new == [sample |-> sample, sampleIndex |-> total]
           c == Len(more)
<1>0. more = IF isUsableMapPoint(sample) THEN Append(rows, new) ELSE rows
  OBVIOUS
<1>1. /\ n \in Nat /\ DOMAIN rows = 1 .. n
      /\ \A k \in 1 .. n : /\ rows[k] \in Rows /\ rows[k].sample.timestamp \in Int
                           /\ rows[k].sampleIndex \in Nat
  <2>1. n \in Nat /\ DOMAIN rows = 1 .. n /\ \A k \in 1 .. n : rows[k] \in Rows
    OBVIOUS
  <2>2. \A row \in Rows : row.sample.timestamp \in Int /\ row.sampleIndex \in Nat
    BY DEF Rows, Samples
  <2> QED BY <2>1, <2>2
<1>2. /\ traj \in Trajectories
      /\ \A k \in 1 .. n :
            /\ isUsableMapPoint(rows[k].sample)
            /\ rows[k].sampleIndex < total /\ rows[k].sample.timestamp <= received
            /\ Ordered(traj.fixes, rows[k].sampleIndex)
      /\ \A j, k \in 1 .. n : j < k =>
            /\ rows[j].sampleIndex < rows[k].sampleIndex
            /\ rows[j].sample.timestamp < rows[k].sample.timestamp
      /\ \A k \in DOMAIN traj.fixes :
            /\ rows # <<>>
            /\ Reached(traj.fixes[k].index, rows[n].sampleIndex)
      /\ traj.fixes # <<>> => traj.fixes[Len(traj.fixes)].segment = traj.currentSegment
  BY <1>1 DEF History
<1>3. /\ new \in Rows /\ new.sample = sample /\ new.sampleIndex = total
  BY DEF Rows
<1> HIDE DEF new
<1>4. /\ more \in Seq(Rows) /\ DOMAIN more = 1 .. c /\ c \in Nat
      /\ \A k \in 1 .. n : more[k] = rows[k]
      /\ isUsableMapPoint(sample) => c = n + 1 /\ more[n + 1] = new
      /\ ~isUsableMapPoint(sample) => c = n
  <2>1. CASE isUsableMapPoint(sample)
    <3>1. more = Append(rows, new)
      BY <2>1, <1>0
    <3>2. /\ more \in Seq(Rows) /\ c = n + 1 /\ DOMAIN more = 1 .. n + 1
          /\ more[n + 1] = new /\ \A k \in 1 .. n : more[k] = rows[k]
      BY <3>1, <1>3, OneMore
    <3> HIDE DEF c, n
    <3> QED BY <2>1, <3>2, <1>1
  <2>2. CASE ~isUsableMapPoint(sample)
    <3>1. more = rows
      BY <2>2, <1>0
    <3>2. c = n
      BY <3>1
    <3> HIDE DEF c, n
    <3> QED BY <2>2, <3>1, <3>2, <1>1
  <2> QED BY <2>1, <2>2
<1> HIDE DEF c, n
<1>5. /\ next \in Trajectories
      /\ \/ next.fixes = traj.fixes /\ next.currentSegment = traj.currentSegment
         \/ /\ valid(sample)
            /\ \E fix \in Fixes : /\ next.fixes = Append(traj.fixes, fix)
                                  /\ fix.index = [num |-> total, den |-> 1]
                                  /\ fix.segment = next.currentSegment
  BY <1>2, Appended
<1> DEFINE m == Len(traj.fixes)
           l == Len(next.fixes)
<1>6. /\ m \in Nat /\ l \in Nat /\ DOMAIN traj.fixes = 1 .. m /\ DOMAIN next.fixes = 1 .. l
      /\ \A k \in 1 .. m : next.fixes[k] = traj.fixes[k] /\ traj.fixes[k].index \in Indices
      /\ \/ next.fixes = traj.fixes /\ next.currentSegment = traj.currentSegment /\ l = m
         \/ /\ valid(sample) /\ l = m + 1
            /\ next.fixes[l].index = [num |-> total, den |-> 1]
            /\ next.fixes[l].segment = next.currentSegment
  <2>1. traj.fixes \in Seq(Fixes) /\ \A fix \in Fixes : fix.index \in Indices
    BY <1>2 DEF Trajectories, Fixes
  <2>2. m \in Nat /\ DOMAIN traj.fixes = 1 .. m /\ \A k \in 1 .. m : traj.fixes[k] \in Fixes
    BY <2>1
  <2>3. CASE next.fixes = traj.fixes /\ next.currentSegment = traj.currentSegment
    <3>1. l = m
      BY <2>3
    <3> HIDE DEF m, l
    <3> QED BY <2>1, <2>2, <2>3, <3>1
  <2>4. CASE ~(next.fixes = traj.fixes /\ next.currentSegment = traj.currentSegment)
    <3>1. PICK fix \in Fixes : /\ next.fixes = Append(traj.fixes, fix)
                               /\ fix.index = [num |-> total, den |-> 1]
                               /\ fix.segment = next.currentSegment
      BY <2>4, <1>5
    <3>2. valid(sample)
      BY <2>4, <1>5
    <3>3. /\ l = m + 1 /\ DOMAIN next.fixes = 1 .. m + 1 /\ next.fixes[m + 1] = fix
          /\ \A k \in 1 .. m : next.fixes[k] = traj.fixes[k]
      BY <2>1, <3>1, OneMore
    <3> HIDE DEF m, l
    <3> QED BY <2>1, <2>2, <3>1, <3>2, <3>3
  <2> QED BY <2>3, <2>4
<1> HIDE DEF m, l
<1>7. \A row \in Nat : /\ row < total => ~Reached([num |-> total, den |-> 1], row)
                       /\ row = total => /\ LiesAt([num |-> total, den |-> 1], row)
                                         /\ ~Precedes([num |-> total, den |-> 1], row)
  BY DEF Reached, Precedes, LiesAt
<1>8. \A k \in 1 .. m : Precedes(traj.fixes[k].index, total)
  <2> SUFFICES ASSUME NEW k \in 1 .. m PROVE Precedes(traj.fixes[k].index, total)
      OBVIOUS
  <2> DEFINE at == traj.fixes[k].index
             row == rows[n].sampleIndex
  <2>1. at \in Indices /\ rows # <<>> /\ Reached(at, row)
    BY <1>2, <1>6
  <2>2. n \in 1 .. n
    BY <2>1, <1>1 DEF n
  <2>3. row \in Nat /\ row < total
    BY <2>2, <1>1, <1>2
  <2> HIDE DEF at, row
  <2>4. Precedes(at, total)
    BY <2>1, <2>3, LaterRows
  <2> QED BY <2>4 DEF at
<1>9. \A k \in 1 .. n : Ordered(next.fixes, rows[k].sampleIndex)
  <2> SUFFICES ASSUME NEW k \in 1 .. n PROVE Ordered(next.fixes, rows[k].sampleIndex)
      OBVIOUS
  <2> DEFINE row == rows[k].sampleIndex
  <2>1. row \in Nat /\ row < total /\ Ordered(traj.fixes, row)
    BY <1>1, <1>2
  <2> HIDE DEF row
  <2>2. ~Reached([num |-> total, den |-> 1], row)
    BY <2>1, <1>7
  <2>3. Ordered(next.fixes, row)
    <3> SUFFICES ASSUME NEW i \in 1 .. l, NEW j \in 1 .. l, i < j
                 PROVE  /\ Precedes(next.fixes[j].index, row) => Precedes(next.fixes[i].index, row)
                        /\ Precedes(next.fixes[j].index, row) \/ LiesAt(next.fixes[j].index, row)
                              => \/ Precedes(next.fixes[i].index, row)
                                 \/ LiesAt(next.fixes[i].index, row)
        BY <1>6 DEF Ordered
    <3>1. CASE j \in 1 .. m
      <4>1. i \in 1 .. m
        BY <3>1, <1>6
      <4>2. next.fixes[i] = traj.fixes[i] /\ next.fixes[j] = traj.fixes[j]
        BY <3>1, <4>1, <1>6
      <4> QED BY <3>1, <4>1, <4>2, <2>1, <1>6 DEF Ordered
    <3>2. CASE j \notin 1 .. m
      <4>1. j = l /\ l = m + 1
        BY <3>2, <1>6
      <4>2. next.fixes[j].index = [num |-> total, den |-> 1]
        BY <4>1, <1>6
      <4> QED BY <4>2, <2>2 DEF Reached
    <3> QED BY <3>1, <3>2
  <2> QED BY <2>3 DEF row
<1>10. Ordered(next.fixes, total)
  <2> SUFFICES ASSUME NEW i \in 1 .. l, NEW j \in 1 .. l, i < j
               PROVE  Precedes(next.fixes[i].index, total)
      BY <1>6 DEF Ordered
  <2>1. i \in 1 .. m
    BY <1>6
  <2>2. next.fixes[i] = traj.fixes[i]
    BY <2>1, <1>6
  <2> QED BY <2>1, <2>2, <1>8
<1>11. \A k \in 1 .. c :
          /\ isUsableMapPoint(more[k].sample)
          /\ more[k].sampleIndex < total + 1 /\ more[k].sample.timestamp <= received + 1
          /\ Ordered(next.fixes, more[k].sampleIndex)
  <2> SUFFICES ASSUME NEW k \in 1 .. c
               PROVE  /\ isUsableMapPoint(more[k].sample)
                      /\ more[k].sampleIndex < total + 1 /\ more[k].sample.timestamp <= received + 1
                      /\ Ordered(next.fixes, more[k].sampleIndex)
      OBVIOUS
  <2>1. CASE k \in 1 .. n
    <3>1. more[k] = rows[k]
      BY <2>1, <1>4
    <3>2. rows[k].sampleIndex \in Nat /\ rows[k].sample.timestamp \in Int
      BY <2>1, <1>1
    <3>3. rows[k].sampleIndex < total + 1 /\ rows[k].sample.timestamp <= received + 1
      BY <2>1, <3>2, <1>2
    <3> QED BY <2>1, <3>1, <3>3, <1>2, <1>9
  <2>2. CASE k \notin 1 .. n
    <3>1. isUsableMapPoint(sample) /\ k = n + 1
      BY <2>2, <1>1, <1>4
    <3>2. more[k] = new
      BY <3>1, <1>4
    <3>3. more[k].sample = sample /\ more[k].sampleIndex = total
      BY <3>2, <1>3
    <3>4. total < total + 1 /\ sample.timestamp <= received + 1
      OBVIOUS
    <3> QED BY <3>1, <3>3, <3>4, <1>10
  <2> QED BY <2>1, <2>2
<1>12. \A j, k \in 1 .. c : j < k =>
          /\ more[j].sampleIndex < more[k].sampleIndex
          /\ more[j].sample.timestamp < more[k].sample.timestamp
  <2> SUFFICES ASSUME NEW j \in 1 .. c, NEW k \in 1 .. c, j < k
               PROVE  /\ more[j].sampleIndex < more[k].sampleIndex
                      /\ more[j].sample.timestamp < more[k].sample.timestamp
      OBVIOUS
  <2>1. j \in 1 .. n /\ more[j] = rows[j]
    BY <1>1, <1>4
  <2>2. CASE k \in 1 .. n
    <3>1. more[k] = rows[k]
      BY <2>2, <1>4
    <3> QED BY <2>1, <2>2, <3>1, <1>2
  <2>3. CASE k \notin 1 .. n
    <3>1. isUsableMapPoint(sample) /\ k = n + 1
      BY <2>3, <1>1, <1>4
    <3>2. more[k] = new
      BY <3>1, <1>4
    <3>3. /\ rows[j].sampleIndex < total /\ rows[j].sample.timestamp <= received
          /\ rows[j].sample.timestamp \in Int
      BY <2>1, <1>1, <1>2
    <3>4. rows[j].sample.timestamp < received + 1
      BY <3>3
    <3> QED BY <2>1, <3>2, <3>3, <3>4, <1>3
  <2> QED BY <2>2, <2>3
<1>13. \A k \in 1 .. l : more # <<>> /\ Reached(next.fixes[k].index, more[c].sampleIndex)
  <2> SUFFICES ASSUME NEW k \in 1 .. l
               PROVE  more # <<>> /\ Reached(next.fixes[k].index, more[c].sampleIndex)
      OBVIOUS
  <2>1. CASE isUsableMapPoint(sample)
    <3>1. c = n + 1 /\ more[c] = new /\ c \in 1 .. c
      BY <2>1, <1>1, <1>4
    <3>2. more # <<>>
      BY <3>1, <1>4
    <3>3. CASE k \in 1 .. m
      BY <3>1, <3>2, <3>3, <1>3, <1>6, <1>8 DEF Reached
    <3>4. CASE k \notin 1 .. m
      <4>1. next.fixes[k].index = [num |-> total, den |-> 1]
        <5>1. k = l /\ l = m + 1
          BY <3>4, <1>6
        <5> QED BY <5>1, <1>6
      <4> QED BY <3>1, <3>2, <4>1, <1>3, <1>7 DEF Reached
    <3> QED BY <3>3, <3>4
  <2>2. CASE ~isUsableMapPoint(sample)
    <3>1. next.fixes = traj.fixes /\ l = m
      BY <2>2, <1>6 DEF isUsableMapPoint
    <3>2. more = rows /\ c = n
      BY <2>2, <1>0, <1>4
    <3> QED BY <3>1, <3>2, <1>2, <1>6
  <2> QED BY <2>1, <2>2
<1>14. next.fixes # <<>> => next.fixes[l].segment = next.currentSegment
  BY <1>2, <1>6 DEF m, l
<1>15. History(more, next, total + 1, received + 1)
  BY <1>4, <1>5, <1>6, <1>11, <1>12, <1>13, <1>14 DEF History, c, l
<1>16. ASSUME NEW k \in 1 .. n
       PROVE  LET row == rows[k].sampleIndex
                  old == rows[k].sample
              IN  /\ coordinateAt(traj, row, old) # old.place =>
                        coordinateAt(next, row, old) = coordinateAt(traj, row, old)
                  /\ ~redraws(traj, sample, total) => Dot(rows[k], next) = Dot(rows[k], traj)
  <2> DEFINE row == rows[k].sampleIndex
             old == rows[k].sample
  <2>1. row \in Nat /\ row < total /\ Ordered(traj.fixes, row)
    BY <1>1, <1>2
  <2> HIDE DEF row, old
  <2>2. coordinateAt(traj, row, old) # old.place =>
            coordinateAt(next, row, old) = coordinateAt(traj, row, old)
    BY <2>1, <1>2, AlignedStay
  <2>3. ~redraws(traj, sample, total) => /\ segmentAt(next, row) = segmentAt(traj, row)
                                         /\ coordinateAt(next, row, old) = coordinateAt(traj, row, old)
    BY <2>1, <1>2, AppendStays
  <2>4. ~redraws(traj, sample, total) => Dot(rows[k], next) = Dot(rows[k], traj)
    BY <2>3 DEF Dot, Point, row, old
  <2> QED BY <2>2, <2>4 DEF row, old
<1> QED BY <1>4, <1>5, <1>15, <1>16 DEF TakenUp, n, c, new

\* Thinning keeps the history, and each row that is left where it was.
LEMMA HistoryThinned ==
    ASSUME NEW m \in Widgets, History(m.samples, m.trajectory, m.total, m.received)
    PROVE  LET n == compactLiveHistory(m)
           IN  /\ n.samples \in Seq(Rows) /\ Len(n.samples) <= kMap2DPointBudget
               /\ History(n.samples, n.trajectory, m.total, m.received)
               /\ \A k \in 1 .. Len(n.samples) :
                     /\ \E i \in 1 .. Len(m.samples) : n.samples[k] = m.samples[i]
                     /\ Drawn(n, n.samples[k]) = Drawn(m, n.samples[k])
               /\ m.samples # <<>> => n.samples # <<>>
<1> DEFINE rows == m.samples
           traj == m.trajectory
           c == Len(rows)
           few == capped(rows, kMap3DPointBudget)
           d == Len(few)
           indices == [k \in DOMAIN few |-> few[k].sampleIndex]
           less == retainSamples(traj, indices)
           n == compactLiveHistory(m)
           b == kMap3DPointBudget
<1>0. /\ kMap2DPointBudget \in Nat /\ b \in Nat \ {0}
      /\ 2 <= b /\ b <= kMap2DPointBudget
  BY MapAssumption
<1>1. /\ rows \in Seq(Rows) /\ c \in Nat /\ DOMAIN rows = 1 .. c
      /\ \A k \in 1 .. c : rows[k] \in Rows /\ rows[k].sampleIndex \in Nat
      /\ traj \in Trajectories
  BY Members DEF History
<1>2. CASE c <= kMap2DPointBudget
  <2>1. n = m
    BY <1>2 DEF compactLiveHistory
  <2> QED BY <2>1, <1>1, <1>2
<1>3. CASE ~(c <= kMap2DPointBudget)
  <2>1. n.samples = few /\ n.trajectory = less
    <3>1. n = [m EXCEPT !.samples = few, !.snapshotPending = TRUE, !.trajectory = less]
      BY <1>3 DEF compactLiveHistory, kLiveHistoryCompactTarget
    <3> HIDE DEF few, less
    <3> QED BY <3>1 DEF Widgets
  <2>2. /\ traj \in Trajectories
        /\ \A k \in 1 .. c :
              /\ isUsableMapPoint(rows[k].sample)
              /\ rows[k].sampleIndex < m.total /\ rows[k].sample.timestamp <= m.received
              /\ Ordered(traj.fixes, rows[k].sampleIndex)
        /\ \A j, k \in 1 .. c : j < k =>
              /\ rows[j].sampleIndex < rows[k].sampleIndex
              /\ rows[j].sample.timestamp < rows[k].sample.timestamp
        /\ \A k \in DOMAIN traj.fixes :
              /\ rows # <<>>
              /\ Reached(traj.fixes[k].index, rows[c].sampleIndex)
        /\ traj.fixes # <<>> => traj.fixes[Len(traj.fixes)].segment = traj.currentSegment
    BY <1>1 DEF History
  <2> HIDE DEF rows, traj, c, n, b
  <2>3. /\ few \in Seq(Rows) /\ d = b
        /\ \E at \in [1 .. b -> 1 .. c] :
              /\ \A k \in 1 .. b : few[k] = rows[at[k]]
              /\ \A j, k \in 1 .. b : j < k => at[j] < at[k]
              /\ c # 0 /\ 2 <= b => at[b] = c
    <3>1. ~(c <= b)
      BY <1>0, <1>1, <1>3
    <3>2. few = capped(rows, b)
      BY DEF b
    <3> HIDE DEF few, d
    <3>3. few \in Seq(Rows) /\ Len(few) = b
      BY <3>1, <3>2, <1>0, <1>1, CappedRows DEF c
    <3>4. \E at \in [1 .. Len(few) -> 1 .. c] :
              /\ \A k \in 1 .. Len(few) : few[k] = rows[at[k]]
              /\ \A j, k \in 1 .. Len(few) : j < k => at[j] < at[k]
              /\ c # 0 /\ 2 <= b => at[Len(few)] = c
      BY <3>2, <1>0, <1>1, CappedRows DEF c
    <3> QED BY <3>3, <3>4 DEF d
  <2>4. PICK at \in [1 .. b -> 1 .. c] :
              /\ \A k \in 1 .. b : few[k] = rows[at[k]]
              /\ \A j, k \in 1 .. b : j < k => at[j] < at[k]
              /\ at[b] = c
    <3>1. c # 0 /\ 2 <= b
      BY <1>0, <1>1, <1>3
    <3> HIDE DEF few
    <3> QED BY <2>3, <3>1
  <2>5. DOMAIN few = 1 .. b /\ b \in 1 .. b
    BY <2>3, <1>0
  <2> HIDE DEF few, d
  <2>6. /\ less \in Trajectories /\ less.currentSegment = traj.currentSegment
        /\ \A k \in DOMAIN less.fixes : \E i \in DOMAIN traj.fixes : less.fixes[k] = traj.fixes[i]
        /\ \A row \in Int : Ordered(traj.fixes, row) => Ordered(less.fixes, row)
        /\ less.fixes # <<>> => less.fixes[Len(less.fixes)] = traj.fixes[Len(traj.fixes)]
    BY <1>1, RetainedFixes DEF less
  <2>7. \A k \in 1 .. b : at[k] \in 1 .. c /\ few[k] = rows[at[k]]
    BY <2>4
  <2>8. \A k \in 1 .. b :
           /\ isUsableMapPoint(few[k].sample)
           /\ few[k].sampleIndex < m.total /\ few[k].sample.timestamp <= m.received
           /\ Ordered(less.fixes, few[k].sampleIndex)
    <3> SUFFICES ASSUME NEW k \in 1 .. b
                 PROVE  /\ isUsableMapPoint(few[k].sample)
                        /\ few[k].sampleIndex < m.total /\ few[k].sample.timestamp <= m.received
                        /\ Ordered(less.fixes, few[k].sampleIndex)
        OBVIOUS
    <3> DEFINE i == at[k]
    <3>1. i \in 1 .. c /\ few[k] = rows[i]
      BY <2>7
    <3> HIDE DEF i
    <3>2. rows[i].sampleIndex \in Int
      BY <3>1, <1>1
    <3> QED BY <3>1, <3>2, <2>2, <2>6
  <2>9. \A j, k \in 1 .. b : j < k =>
           /\ few[j].sampleIndex < few[k].sampleIndex
           /\ few[j].sample.timestamp < few[k].sample.timestamp
    <3> SUFFICES ASSUME NEW j \in 1 .. b, NEW k \in 1 .. b, j < k
                 PROVE  /\ few[j].sampleIndex < few[k].sampleIndex
                        /\ few[j].sample.timestamp < few[k].sample.timestamp
        OBVIOUS
    <3> QED BY <2>2, <2>4, <2>7
  <2>10. \A k \in DOMAIN less.fixes :
            /\ few # <<>> /\ Reached(less.fixes[k].index, few[b].sampleIndex)
    <3> SUFFICES ASSUME NEW k \in DOMAIN less.fixes
                 PROVE  few # <<>> /\ Reached(less.fixes[k].index, few[b].sampleIndex)
        OBVIOUS
    <3>1. PICK i \in DOMAIN traj.fixes : less.fixes[k] = traj.fixes[i]
      BY <2>6
    <3>2. Reached(traj.fixes[i].index, rows[c].sampleIndex)
      BY <2>2
    <3>3. few[b] = rows[c] /\ few # <<>>
      BY <2>4, <2>5
    <3> QED BY <3>1, <3>2, <3>3
  <2>11. less.fixes # <<>> => less.fixes[Len(less.fixes)].segment = less.currentSegment
    <3> SUFFICES ASSUME less.fixes # <<>>
                 PROVE  less.fixes[Len(less.fixes)].segment = less.currentSegment
        OBVIOUS
    <3>1. less.fixes[Len(less.fixes)] = traj.fixes[Len(traj.fixes)]
      BY <2>6
    <3>2. traj.fixes # <<>>
      <4>1. less.fixes \in Seq(Fixes) /\ traj.fixes \in Seq(Fixes)
        BY <1>1, <2>6 DEF Trajectories
      <4>2. PICK k \in DOMAIN less.fixes : TRUE
        BY <4>1, NoElement
      <4>3. DOMAIN traj.fixes # {}
        BY <4>2, <2>6
      <4> QED BY <4>3
    <3> QED BY <3>1, <3>2, <2>2, <2>6
  <2>12. History(few, less, m.total, m.received)
    BY <2>3, <2>5, <2>6, <2>8, <2>9, <2>10, <2>11 DEF History, d
  <2>13. ASSUME NEW k \in 1 .. b
         PROVE  /\ \E i \in 1 .. c : few[k] = rows[i]
                /\ Drawn(n, few[k]) = Drawn(m, few[k])
    <3> DEFINE row == few[k].sampleIndex
    <3>1. /\ \E i \in 1 .. c : few[k] = rows[i]
          /\ row \in Nat /\ Ordered(traj.fixes, row)
      BY <2>7, <1>1, <2>2
    <3>2. \E j \in DOMAIN indices : indices[j] = row
      BY <2>5 DEF indices
    <3> HIDE DEF row, indices
    <3>3. \A s : coordinateAt(less, row, s) = coordinateAt(traj, row, s)
      BY <1>1, <3>1, <3>2, RetainStays DEF less
    <3> QED BY <3>1, <3>3, <2>1 DEF Drawn, row, traj
  <2>14. few # <<>> /\ d = b /\ b <= kMap2DPointBudget
    BY <2>3, <2>5, <1>0
  <2> QED BY <2>1, <2>3, <2>12, <2>13, <2>14 DEF n, rows, c, d
<1> QED BY <1>2, <1>3

\* What a step leaves as it was, of what is not the live history.
Apart(n, m) ==
    /\ n.session = m.session /\ n.preview = m.preview /\ n.sessionPending = m.sessionPending
    /\ n.trail = m.trail /\ n.trailPending = m.trailPending /\ n.clearPending = m.clearPending
    /\ n.mapReady = m.mapReady /\ n.attempt = m.attempt /\ n.error = m.error
    /\ n.watchdog = m.watchdog

\* The samples of n are samples of m that have not moved, or came since.
Descends(n, m) ==
    \A k \in 1 .. Len(n.samples) :
        \/ n.samples[k].sample.timestamp = m.received + 1
        \/ \E i \in 1 .. Len(m.samples) :
              /\ n.samples[k].sample = m.samples[i].sample
              /\ Drawn(m, m.samples[i]) # m.samples[i].sample.place =>
                    Drawn(n, n.samples[k]) = Drawn(m, m.samples[i])

\* A sample that is received: the first part, which may count the history anew.
LEMMA CountedAnew ==
    ASSUME NEW m \in Widgets, History(m.samples, m.trajectory, m.total, m.received),
           m.lastPublished < m.total
    PROVE  LET n == IF m.total >= kMaxMapSampleCount THEN rebaseLiveHistoryIndices(m) ELSE m
           IN  /\ n \in Widgets /\ Apart(n, m) /\ n.received = m.received
               /\ History(n.samples, n.trajectory, n.total, n.received)
               /\ n.lastPublished < n.total /\ Len(n.samples) = Len(m.samples)
               /\ n.published3D = 0 \/ n.published3D = m.published3D
               /\ n.lastPublished = -1 \/ n.lastPublished = m.lastPublished
               /\ ~n.snapshotPending => n = m
               /\ \A k \in 1 .. Len(m.samples) :
                     /\ n.samples[k].sample = m.samples[k].sample
                     /\ Drawn(n, n.samples[k]) = Drawn(m, m.samples[k])
<1> DEFINE n == rebaseLiveHistoryIndices(m)
           c == Len(m.samples)
<1>0. c \in Nat /\ m.samples \in Seq(Rows)
  BY Members
<1>1. /\ n.samples \in Seq(Rows) /\ Len(n.samples) = Len(m.samples)
      /\ History(n.samples, n.trajectory, n.total, n.received)
      /\ \A k \in 1 .. Len(m.samples) :
            /\ n.samples[k].sample = m.samples[k].sample
            /\ Drawn(n, n.samples[k]) = Drawn(m, m.samples[k])
  BY HistoryRebased
<1>2. \E t, s : n = [m EXCEPT !.trajectory = t, !.samples = s, !.total = c, !.lastPublished = -1,
                             !.published3D = 0, !.snapshotPending = TRUE]
  BY DEF rebaseLiveHistoryIndices
<1>3. PICK t, s : n = [m EXCEPT !.trajectory = t, !.samples = s, !.total = c, !.lastPublished = -1,
                               !.published3D = 0, !.snapshotPending = TRUE]
  BY <1>2
<1> HIDE DEF n, c
<1>4. /\ n.trajectory = t /\ n.samples = s /\ n.total = c /\ n.lastPublished = -1
      /\ n.published3D = 0 /\ n.snapshotPending = TRUE /\ n.received = m.received
      /\ Apart(n, m)
  BY <1>3 DEF Widgets, Apart
<1>5. t \in Tracks /\ s \in Seq(Rows) /\ -1 \in Int /\ 0 \in Nat
  BY <1>1, <1>4 DEF History, Tracks
<1>6. n \in Widgets
  BY <1>0, <1>3, <1>5 DEF Widgets
<1>7. -1 < c
  BY <1>0
<1>8. CASE m.total >= kMaxMapSampleCount
  BY <1>8, <1>1, <1>4, <1>6, <1>7 DEF n
<1>9. CASE ~(m.total >= kMaxMapSampleCount)
  BY <1>9 DEF Apart
<1> QED BY <1>8, <1>9

\* A sample that is received, all of it.
LEMMA SampleReceived ==
    ASSUME NEW m \in Widgets, History(m.samples, m.trajectory, m.total, m.received),
           m.lastPublished < m.total, Len(m.samples) <= kMap2DPointBudget,
           NEW sample \in Samples, sample.timestamp = m.received + 1
    PROVE  LET n == Received(m, sample)
           IN  /\ n \in Widgets /\ Apart(n, m) /\ n.liveUpdatePending
               /\ n.received = m.received + 1
               /\ History(n.samples, n.trajectory, n.total, n.received)
               /\ n.lastPublished < n.total /\ Len(n.samples) <= kMap2DPointBudget
               /\ n.published3D = 0 \/ n.published3D = m.published3D
               /\ n.lastPublished = -1 \/ n.lastPublished = m.lastPublished
               /\ n.samples = <<>> => m.samples = <<>>
               /\ Descends(n, m)
               /\ ~n.snapshotPending =>
                     /\ ~m.snapshotPending /\ n.lastPublished = m.lastPublished
                     /\ n.published3D = m.published3D
                     /\ Len(m.samples) <= Len(n.samples)
                     /\ \A k \in 1 .. Len(m.samples) :
                           /\ n.samples[k] = m.samples[k]
                           /\ Dot(m.samples[k], n.trajectory) = Dot(m.samples[k], m.trajectory)
                     /\ \A k \in 1 .. Len(n.samples) :
                           Len(m.samples) < k => n.lastPublished < n.samples[k].sampleIndex
<1> DEFINE a == IF m.total >= kMaxMapSampleCount THEN rebaseLiveHistoryIndices(m) ELSE m
           new == [sample |-> sample, sampleIndex |-> a.total]
           rows == IF isUsableMapPoint(sample) THEN Append(a.samples, new) ELSE a.samples
           next == append(a.trajectory, sample, a.total)
           snap == a.snapshotPending \/ redraws(a.trajectory, sample, a.total)
           taken == [a EXCEPT !.snapshotPending = snap, !.trajectory = next,
                              !.total = a.total + 1, !.received = a.received + 1,
                              !.samples = rows]
           thin == compactLiveHistory(taken)
           n == Received(m, sample)
<1>1. /\ a \in Widgets /\ Apart(a, m) /\ a.received = m.received
      /\ History(a.samples, a.trajectory, a.total, a.received)
      /\ a.lastPublished < a.total /\ Len(a.samples) = Len(m.samples)
      /\ a.published3D = 0 \/ a.published3D = m.published3D
      /\ a.lastPublished = -1 \/ a.lastPublished = m.lastPublished
      /\ ~a.snapshotPending => a = m
      /\ \A k \in 1 .. Len(m.samples) :
            /\ a.samples[k].sample = m.samples[k].sample
            /\ Drawn(a, a.samples[k]) = Drawn(m, m.samples[k])
  BY CountedAnew
<1>2. n = scheduleMapUpdate([thin EXCEPT !.liveUpdatePending = TRUE])
  BY DEF Received
<1> HIDE DEF a, thin, n
<1> DEFINE c == Len(a.samples)
           d == Len(rows)
<1>3. /\ a.samples \in Seq(Rows) /\ a.total \in Nat /\ a.received \in Nat /\ c \in Nat
      /\ a.lastPublished \in Int
      /\ \A k \in 1 .. c : a.samples[k].sampleIndex \in Nat
  BY <1>1, Members
<1>4. /\ rows \in Seq(Rows) /\ next \in Trajectories
      /\ IF isUsableMapPoint(sample) THEN d = c + 1 /\ rows[c + 1] = new ELSE d = c
      /\ History(rows, next, a.total + 1, a.received + 1)
      /\ \A k \in 1 .. c :
            LET row == a.samples[k].sampleIndex
                old == a.samples[k].sample
            IN  /\ rows[k] = a.samples[k]
                /\ coordinateAt(a.trajectory, row, old) # old.place =>
                      coordinateAt(next, row, old) = coordinateAt(a.trajectory, row, old)
                /\ ~redraws(a.trajectory, sample, a.total) =>
                      Dot(a.samples[k], next) = Dot(a.samples[k], a.trajectory)
  <2> DEFINE as == a.samples
             at == a.trajectory
             n0 == a.total
             r0 == a.received
  <2>1. /\ sample.timestamp = r0 + 1 /\ as \in Seq(Rows) /\ n0 \in Nat /\ r0 \in Nat
        /\ History(as, at, n0, r0)
    BY <1>1, <1>3
  <2>2. /\ rows = IF isUsableMapPoint(sample)
                     THEN Append(as, [sample |-> sample, sampleIndex |-> n0]) ELSE as
        /\ next = append(at, sample, n0) /\ c = Len(as) /\ d = Len(rows)
        /\ new = [sample |-> sample, sampleIndex |-> n0]
    OBVIOUS
  <2> HIDE DEF as, at, n0, r0, rows, next, c, d, new
  <2>3. TakenUp(as, at, n0, r0, sample, rows, next)
    BY <2>1, <2>2, HistoryAppended
  <2> QED BY <2>2, <2>3 DEF TakenUp, as, at, n0, r0
<1>5. new.sample = sample /\ new.sampleIndex = a.total
  OBVIOUS
<1>6. snap \in BOOLEAN
  BY DEF redraws
<1> HIDE DEF rows, next, snap, new
<1>7. /\ taken \in Widgets
      /\ taken.samples = rows /\ taken.trajectory = next /\ taken.total = a.total + 1
      /\ taken.received = a.received + 1 /\ taken.snapshotPending = snap
      /\ taken.lastPublished = a.lastPublished /\ taken.published3D = a.published3D
      /\ Apart(taken, a)
  <2>1. taken \in Widgets
    <3>1. next \in Tracks /\ a.total + 1 \in Nat /\ a.received + 1 \in Nat
      BY <1>3, <1>4 DEF Tracks
    <3> QED BY <3>1, <1>1, <1>4, <1>6 DEF Widgets
  <2>2. /\ taken.samples = rows /\ taken.trajectory = next /\ taken.total = a.total + 1
        /\ taken.received = a.received + 1 /\ taken.snapshotPending = snap
        /\ taken.lastPublished = a.lastPublished /\ taken.published3D = a.published3D
        /\ Apart(taken, a)
    BY <1>1 DEF Widgets, Apart
  <2> HIDE DEF taken
  <2> QED BY <2>1, <2>2
<1> HIDE DEF taken
<1>8. /\ thin.samples \in Seq(Rows) /\ Len(thin.samples) <= kMap2DPointBudget
      /\ History(thin.samples, thin.trajectory, taken.total, taken.received)
      /\ \A k \in 1 .. Len(thin.samples) :
            /\ \E i \in 1 .. d : thin.samples[k] = rows[i]
            /\ Drawn(thin, thin.samples[k]) = Drawn(taken, thin.samples[k])
      /\ rows # <<>> => thin.samples # <<>>
  BY <1>4, <1>7, HistoryThinned DEF thin
<1>9. \/ thin = taken
      \/ \E t, s : thin = [taken EXCEPT !.samples = s, !.snapshotPending = TRUE, !.trajectory = t]
  BY DEF thin, compactLiveHistory
<1>10. /\ thin \in Widgets /\ Apart(thin, taken)
       /\ thin.total = taken.total /\ thin.received = taken.received
       /\ thin.lastPublished = taken.lastPublished /\ thin.published3D = taken.published3D
       /\ ~thin.snapshotPending => thin = taken
  <2>1. CASE thin = taken
    BY <2>1, <1>7 DEF Apart
  <2>2. CASE thin # taken
    <3>1. PICK t, s : thin = [taken EXCEPT !.samples = s, !.snapshotPending = TRUE, !.trajectory = t]
      BY <2>2, <1>9
    <3>2. /\ thin.samples = s /\ thin.trajectory = t /\ thin.snapshotPending = TRUE
          /\ thin.total = taken.total /\ thin.received = taken.received
          /\ thin.lastPublished = taken.lastPublished /\ thin.published3D = taken.published3D
          /\ Apart(thin, taken)
      BY <3>1, <1>7 DEF Widgets, Apart
    <3>3. s \in Seq(Rows) /\ t \in Tracks
      BY <1>8, <3>2 DEF History, Tracks
    <3>4. thin \in Widgets
      BY <3>1, <3>3, <1>7 DEF Widgets
    <3> QED BY <3>2, <3>4
  <2> QED BY <2>1, <2>2
<1>11. /\ n \in Widgets /\ Apart(n, thin) /\ n.liveUpdatePending
       /\ n.samples = thin.samples /\ n.trajectory = thin.trajectory
       /\ n.total = thin.total /\ n.received = thin.received
       /\ n.lastPublished = thin.lastPublished /\ n.published3D = thin.published3D
       /\ n.snapshotPending = thin.snapshotPending
  <2>1. \E u \in BOOLEAN : n = [thin EXCEPT !.liveUpdatePending = TRUE, !.updateTimer = u]
    <3> DEFINE x == [thin EXCEPT !.liveUpdatePending = TRUE]
               u == x.updateTimer \/ Active(x)
    <3>1. n = [thin EXCEPT !.liveUpdatePending = TRUE, !.updateTimer = u] /\ u \in BOOLEAN
      BY <1>2, <1>10 DEF scheduleMapUpdate, Active, Widgets
    <3> QED BY <3>1
  <2>2. PICK u \in BOOLEAN : n = [thin EXCEPT !.liveUpdatePending = TRUE, !.updateTimer = u]
    BY <2>1
  <2>3. n \in Widgets
    BY <2>2, <1>10 DEF Widgets
  <2>4. /\ Apart(n, thin) /\ n.liveUpdatePending
        /\ n.samples = thin.samples /\ n.trajectory = thin.trajectory
        /\ n.total = thin.total /\ n.received = thin.received
        /\ n.lastPublished = thin.lastPublished /\ n.published3D = thin.published3D
        /\ n.snapshotPending = thin.snapshotPending
    BY <2>2, <1>10 DEF Widgets, Apart
  <2> QED BY <2>3, <2>4
<1>12. Apart(n, m)
  BY <1>1, <1>7, <1>10, <1>11 DEF Apart
<1>13. /\ n.received = m.received + 1 /\ n.total = a.total + 1
       /\ n.lastPublished = a.lastPublished /\ n.published3D = a.published3D
  BY <1>1, <1>7, <1>10, <1>11
<1>14. /\ History(n.samples, n.trajectory, n.total, n.received)
       /\ n.lastPublished < n.total /\ Len(n.samples) <= kMap2DPointBudget
       /\ n.published3D = 0 \/ n.published3D = m.published3D
       /\ n.lastPublished = -1 \/ n.lastPublished = m.lastPublished
  BY <1>1, <1>3, <1>8, <1>10, <1>11, <1>13
<1>15. n.samples = <<>> => m.samples = <<>>
  <2> SUFFICES ASSUME n.samples = <<>> PROVE m.samples = <<>>
      OBVIOUS
  <2>1. rows = <<>>
    BY <1>8, <1>11
  <2>2. d = 0
    BY <2>1
  <2> HIDE DEF d, c
  <2>3. c = 0
    BY <2>2, <1>3, <1>4
  <2>4. Len(m.samples) = 0 /\ m.samples \in Seq(Rows)
    BY <2>3, <1>1, Members DEF c
  <2> QED BY <2>4, NoElement
<1>16. Descends(n, m)
  <2> SUFFICES ASSUME NEW k \in 1 .. Len(n.samples),
                      n.samples[k].sample.timestamp # m.received + 1
               PROVE  \E i \in 1 .. Len(m.samples) :
                         /\ n.samples[k].sample = m.samples[i].sample
                         /\ Drawn(m, m.samples[i]) # m.samples[i].sample.place =>
                               Drawn(n, n.samples[k]) = Drawn(m, m.samples[i])
      BY DEF Descends
  <2>1. PICK i \in 1 .. d : n.samples[k] = rows[i]
    BY <1>8, <1>11
  <2>2. Drawn(n, rows[i]) = Drawn(taken, rows[i])
    <3>1. Drawn(thin, thin.samples[k]) = Drawn(taken, thin.samples[k])
      BY <1>8, <1>11
    <3> QED BY <3>1, <2>1, <1>11 DEF Drawn
  <2>3. i \in 1 .. c
    <3> SUFFICES ASSUME i \notin 1 .. c PROVE FALSE
        OBVIOUS
    <3> HIDE DEF c, d
    <3>1. isUsableMapPoint(sample) /\ i = c + 1
      BY <1>3, <1>4
    <3>2. rows[i] = new
      BY <3>1, <1>4
    <3> QED BY <3>2, <2>1, <1>5
  <2>4. rows[i] = a.samples[i] /\ i \in 1 .. Len(m.samples)
    BY <2>3, <1>1, <1>4
  <2>5. /\ a.samples[i].sample = m.samples[i].sample
        /\ Drawn(a, a.samples[i]) = Drawn(m, m.samples[i])
    BY <2>4, <1>1
  <2>6. Drawn(a, a.samples[i]) # a.samples[i].sample.place =>
            Drawn(taken, a.samples[i]) = Drawn(a, a.samples[i])
    BY <2>3, <1>4, <1>7 DEF Drawn
  <2> QED BY <2>1, <2>2, <2>4, <2>5, <2>6
<1>17. ASSUME ~n.snapshotPending
       PROVE  /\ ~m.snapshotPending /\ n.lastPublished = m.lastPublished
              /\ n.published3D = m.published3D
              /\ Len(m.samples) <= Len(n.samples)
              /\ \A k \in 1 .. Len(m.samples) :
                    /\ n.samples[k] = m.samples[k]
                    /\ Dot(m.samples[k], n.trajectory) = Dot(m.samples[k], m.trajectory)
              /\ \A k \in 1 .. Len(n.samples) :
                    Len(m.samples) < k => n.lastPublished < n.samples[k].sampleIndex
  <2>1. thin = taken /\ ~snap
    BY <1>17, <1>7, <1>10, <1>11
  <2>2. a = m /\ ~m.snapshotPending /\ ~redraws(a.trajectory, sample, a.total)
    BY <2>1, <1>1 DEF snap
  <2>3. n.samples = rows /\ n.trajectory = next
    BY <2>1, <1>7, <1>11
  <2>4. \A k \in 1 .. c :
           /\ rows[k] = a.samples[k]
           /\ Dot(a.samples[k], next) = Dot(a.samples[k], a.trajectory)
    BY <2>2, <1>4
  <2> HIDE DEF c, d
  <2>5. c <= d /\ \A k \in 1 .. d : c < k => a.lastPublished < rows[k].sampleIndex
    <3>1. c <= d
      BY <1>3, <1>4
    <3>2. ASSUME NEW k \in 1 .. d, c < k PROVE a.lastPublished < rows[k].sampleIndex
      <4>1. k = c + 1 /\ isUsableMapPoint(sample)
        BY <3>2, <1>3, <1>4
      <4>2. rows[k] = new
        BY <4>1, <1>4
      <4> QED BY <4>2, <1>1, <1>5
    <3> QED BY <3>1, <3>2
  <2> QED BY <2>2, <2>3, <2>4, <2>5, <1>13 DEF c, d
<1> QED BY <1>11, <1>12, <1>13, <1>14, <1>15, <1>16, <1>17 DEF n

\* What a recorded flight shows depends on the flight, and on how it is shown.
LEMMA PayloadOf ==
    ASSUME NEW m, NEW n, n.session = m.session, n.preview = m.preview, n.trajectory = m.trajectory
    PROVE  /\ SessionPayload(n) = SessionPayload(m)
           /\ n.trail = m.trail => TrailPoint(n) = TrailPoint(m)
<1>1. Trajectory(n) = Trajectory(m)
  BY DEF Trajectory
<1>2. \A budget : PathRows(n, budget) = PathRows(m, budget)
  BY DEF PathRows
<1>3. SessionPayload(n) = SessionPayload(m)
  BY <1>1, <1>2 DEF SessionPayload
<1>4. n.trail = m.trail => TrailPoint(n) = TrailPoint(m)
  BY <1>1 DEF TrailPoint
<1> QED BY <1>3, <1>4

\* A page that draws nothing draws a history without samples.
LEMMA NothingDrawn ==
    ASSUME NEW q, q.path = <<>>, q.path3d = <<>>, NEW traj
    PROVE  Draws(q, <<>>, 0, traj, 0)
<1>1. [k \in 1 .. 0 |-> Dot(<<>>[k], traj)] = <<>>
  <2> DEFINE f == [k \in 1 .. 0 |-> Dot(<<>>[k], traj)]
  <2>1. f \in [1 .. 0 -> {}]
    OBVIOUS
  <2> HIDE DEF f
  <2>2. f \in Seq({}) /\ Len(f) = 0
    BY <2>1
  <2>3. f = <<>>
    BY <2>2, NoElement
  <2> QED BY <2>3 DEF f
<1>2. <<>> \in Seq({Dot(<<>>[k], traj) : k \in 1 .. 0}) /\ Len(<<>>) = 0 /\ DOMAIN <<>> = {}
  <2>1. \A S : <<>> \in Seq(S)
    OBVIOUS
  <2> QED BY <2>1
<1>3. 0 <= kMap3DPointBudget
  BY MapAssumption
<1> QED BY <1>1, <1>2, <1>3 DEF Draws

\* The parts of a widget that tell what the page is to draw.
Same(n, m) ==
    /\ n.session = m.session /\ n.preview = m.preview /\ n.trajectory = m.trajectory
    /\ n.samples = m.samples /\ n.total = m.total /\ n.received = m.received
    /\ n.lastPublished = m.lastPublished /\ n.published3D = m.published3D
    /\ n.trail = m.trail /\ n.clearPending = m.clearPending

\* A step that draws nothing, and lets nothing go that waits.
LEMMA Carried ==
    ASSUME NEW m, NEW n \in Widgets, NEW p, PInv(m, p), Same(n, m), Loaded(n, p),
           ~n.sessionPending => ~m.sessionPending, ~n.trailPending => ~m.trailPending,
           ~n.liveUpdatePending =>
              m.total = 0 \/ (~m.liveUpdatePending /\ n.snapshotPending = m.snapshotPending),
           ~n.snapshotPending => ~m.snapshotPending \/ m.samples = <<>>
    PROVE  PInv(n, p)
<1>1. n.session # NoSession => Replayed(n, p)
  <2> SUFFICES ASSUME n.session # NoSession PROVE Replayed(n, p)
      OBVIOUS
  <2>1. Replayed(m, p)
    BY DEF PInv, Same
  <2>2. SessionPayload(n) = SessionPayload(m) /\ TrailPoint(n) = TrailPoint(m)
    BY PayloadOf DEF Same
  <2> QED BY <2>1, <2>2 DEF Replayed, Same
<1>2. n.session = NoSession => Lived(n, p)
  <2> SUFFICES ASSUME n.session = NoSession PROVE Lived(n, p)
      OBVIOUS
  <2> DEFINE q == Behind(m, p)
  <2>1. Lived(m, p) /\ m \in Widgets /\ IsPage(p)
    BY DEF PInv, Same
  <2>2. /\ Behind(n, p) = q /\ n.samples = m.samples /\ n.trajectory = m.trajectory
        /\ n.total = m.total /\ n.received = m.received
        /\ n.lastPublished = m.lastPublished /\ n.published3D = m.published3D
    BY DEF Behind, Same
  <2>3. q.total \in Nat /\ m.total \in Nat
    BY <2>1, Members DEF Behind, IsPage, Nothing
  <2>4. /\ History(m.samples, m.trajectory, m.total, m.received)
        /\ Len(m.samples) <= kMap2DPointBudget
        /\ m.lastPublished < m.total
        /\ q.trail = q.total
        /\ ~m.liveUpdatePending =>
              /\ q.total >= m.total
              /\ m.samples = <<>> \/ (~m.snapshotPending /\ m.lastPublished = m.total - 1)
        /\ m.samples = <<>> => q.path = <<>> /\ q.path3d = <<>> /\ m.published3D = 0
        /\ ~m.snapshotPending =>
              \E k \in 0 .. Len(m.samples) :
                  /\ \A j \in DOMAIN m.samples : m.samples[j].sampleIndex <= m.lastPublished <=> j <= k
                  /\ Draws(q, m.samples, k, m.trajectory, m.published3D)
    BY <2>1 DEF Lived
  <2>5. m.total = 0 => m.samples = <<>>
    <3> SUFFICES ASSUME m.total = 0, m.samples # <<>> PROVE FALSE
        OBVIOUS
    <3>1. m.samples \in Seq(Rows)
      BY <2>1, Members
    <3>2. PICK k \in DOMAIN m.samples : TRUE
      BY <3>1, NoElement
    <3>3. m.samples[k].sampleIndex < 0
      BY <3>2, <2>4 DEF History
    <3>4. m.samples[k].sampleIndex \in Nat
      BY <3>2, <2>1, Members
    <3> QED BY <3>3, <3>4
  <2>6. m.samples = <<>> =>
            \E k \in 0 .. Len(m.samples) :
                /\ \A j \in DOMAIN m.samples : m.samples[j].sampleIndex <= m.lastPublished <=> j <= k
                /\ Draws(q, m.samples, k, m.trajectory, m.published3D)
    <3> SUFFICES ASSUME m.samples = <<>>
                 PROVE  \E k \in 0 .. Len(m.samples) :
                            /\ \A j \in DOMAIN m.samples :
                                  m.samples[j].sampleIndex <= m.lastPublished <=> j <= k
                            /\ Draws(q, m.samples, k, m.trajectory, m.published3D)
        OBVIOUS
    <3>1. Draws(q, m.samples, 0, m.trajectory, m.published3D)
      BY <2>4, NothingDrawn
    <3>2. 0 \in 0 .. Len(m.samples) /\ DOMAIN m.samples = {}
      OBVIOUS
    <3> QED BY <3>1, <3>2
  <2> HIDE DEF q
  <2>7. ~n.liveUpdatePending =>
            /\ q.total >= m.total
            /\ m.samples = <<>> \/ (~n.snapshotPending /\ m.lastPublished = m.total - 1)
    BY <2>3, <2>4, <2>5
  <2> QED BY <2>2, <2>4, <2>6, <2>7 DEF Lived
<1>3. IsPage(p)
  BY DEF PInv
<1> QED BY <1>1, <1>2, <1>3 DEF PInv

\* scheduleMapUpdate starts a timer, and no more.
LEMMA Scheduled ==
    ASSUME NEW m, NEW p, PInv(m, p)
    PROVE  PInv(scheduleMapUpdate(m), p)
<1> DEFINE u == m.updateTimer \/ Active(m)
           n == [m EXCEPT !.updateTimer = u]
<1>1. m \in Widgets /\ Loaded(m, p)
  BY DEF PInv
<1>2. scheduleMapUpdate(m) = n
  BY <1>1 DEF scheduleMapUpdate
<1>3. u \in BOOLEAN
  BY <1>1 DEF Active, Widgets
<1> HIDE DEF u
<1>4. n \in Widgets
  BY <1>1, <1>3 DEF Widgets
<1>5. /\ Same(n, m) /\ n.sessionPending = m.sessionPending /\ n.trailPending = m.trailPending
      /\ n.liveUpdatePending = m.liveUpdatePending /\ n.snapshotPending = m.snapshotPending
      /\ n.mapReady = m.mapReady /\ n.attempt = m.attempt /\ n.watchdog = m.watchdog
      /\ n.error = m.error
  BY <1>1 DEF Widgets, Same
<1> HIDE DEF n
<1>6. Loaded(n, p)
  BY <1>1, <1>5 DEF Loaded, Same
<1> QED BY <1>2, <1>4, <1>5, <1>6, Carried

-----------------------------------------------------------------------------
(* The steps of the widget that draw nothing. *)

\* loadMapPage leaves a widget.
LEMMA LoadingTyped == ASSUME NEW m \in Widgets PROVE Loading(m) \in Widgets
<1> DEFINE n == Loading(m)
           a == m.session # NoSession
           b == m.samples # <<>>
           c == m.total > 0
<1>1. n = [m EXCEPT !.watchdog = FALSE, !.mapReady = FALSE, !.attempt = TRUE,
                    !.sessionPending = a, !.snapshotPending = b, !.liveUpdatePending = c,
                    !.error = FALSE]
  BY DEF Loading
<1>2. a \in BOOLEAN /\ b \in BOOLEAN /\ c \in BOOLEAN
  OBVIOUS
<1> HIDE DEF a, b, c
<1> QED BY <1>1, <1>2 DEF Widgets

\* loadMapPage: the page is empty, and all that it is to draw waits.
LEMMA LoadingKeeps ==
    ASSUME NEW m, NEW p, PInv(m, p), ~m.mapReady
    PROVE  p = Nothing /\ PInv(Loading(m), p)
<1> DEFINE n == Loading(m)
<1>1. m \in Widgets /\ Loaded(m, p) /\ p = Nothing
  BY DEF PInv, Loaded
<1>2. n \in Widgets
  BY <1>1, LoadingTyped
<1>3. /\ Same(n, m) /\ n.sessionPending = (m.session # NoSession) /\ n.trailPending = m.trailPending
      /\ n.liveUpdatePending = (m.total > 0) /\ n.snapshotPending = (m.samples # <<>>)
      /\ n.mapReady = FALSE /\ n.attempt = TRUE /\ n.watchdog = FALSE /\ n.error = FALSE
  BY <1>1 DEF Loading, Widgets, Same
<1> HIDE DEF n
<1>4. Loaded(n, p)
  BY <1>1, <1>3 DEF Loaded, Same
<1>5. m.total \in Nat /\ (m.session # NoSession => m.sessionPending)
  BY <1>1, Members DEF Loaded
<1>6. ~n.sessionPending => ~m.sessionPending
  BY <1>1, <1>3 DEF Loaded
<1>7. ~n.liveUpdatePending => m.total = 0
  <2>1. ~n.liveUpdatePending => ~(m.total > 0)
    BY <1>3
  <2>2. ~(m.total > 0) => m.total = 0
    BY <1>5
  <2> QED BY <2>1, <2>2
<1>8. ~n.snapshotPending => m.samples = <<>>
  BY <1>3
<1> QED BY <1>1, <1>2, <1>3, <1>4, <1>6, <1>7, <1>8, Carried DEF n

\* showMapLoadError, of a page that was not ready.
LEMMA ErrorKeeps ==
    ASSUME NEW m, NEW p, PInv(m, p), ~m.mapReady
    PROVE  PInv(showMapLoadError(m), p)
<1> DEFINE n == showMapLoadError(m)
<1>1. m \in Widgets /\ Loaded(m, p)
  BY DEF PInv
<1>2. n \in Widgets
  BY <1>1 DEF showMapLoadError, Widgets
<1>3. /\ Same(n, m) /\ n.sessionPending = m.sessionPending /\ n.trailPending = m.trailPending
      /\ n.liveUpdatePending = m.liveUpdatePending /\ n.snapshotPending = m.snapshotPending
      /\ n.mapReady = FALSE /\ n.attempt = FALSE /\ n.watchdog = FALSE /\ n.error = TRUE
  BY <1>1 DEF showMapLoadError, Widgets, Same
<1> HIDE DEF n
<1>4. Loaded(n, p)
  BY <1>1, <1>3 DEF Loaded, Same
<1> QED BY <1>2, <1>3, <1>4, Carried DEF n

\* A change of the members that tell how the page is seen and loaded.
LEMMA SeenKeeps ==
    ASSUME NEW m, NEW p, PInv(m, p), NEW v \in BOOLEAN, NEW u \in BOOLEAN, NEW w \in BOOLEAN,
           w /\ ~m.watchdog => ~m.mapReady
    PROVE  PInv([m EXCEPT !.visible = v, !.updateTimer = u, !.watchdog = w], p)
<1> DEFINE n == [m EXCEPT !.visible = v, !.updateTimer = u, !.watchdog = w]
<1>1. m \in Widgets /\ Loaded(m, p)
  BY DEF PInv
<1>2. n \in Widgets
  BY <1>1 DEF Widgets
<1>3. /\ Same(n, m) /\ n.sessionPending = m.sessionPending /\ n.trailPending = m.trailPending
      /\ n.liveUpdatePending = m.liveUpdatePending /\ n.snapshotPending = m.snapshotPending
      /\ n.mapReady = m.mapReady /\ n.attempt = m.attempt /\ n.watchdog = w /\ n.error = m.error
  BY <1>1 DEF Widgets, Same
<1> HIDE DEF n
<1>4. Loaded(n, p)
  BY <1>1, <1>3 DEF Loaded, Same
<1> QED BY <1>2, <1>3, <1>4, Carried DEF n

\* showEvent, its last part.
LEMMA ShownKeeps ==
    ASSUME NEW m, NEW p, PInv(m, p)
    PROVE  PInv(Shown1(m), p)
<1> DEFINE n == [m EXCEPT !.snapshotPending = m.samples # <<>>,
                          !.liveUpdatePending = m.liveUpdatePending \/ m.total > 0]
<1>1. m \in Widgets /\ Loaded(m, p) /\ m.total \in Nat
  BY Members DEF PInv
<1>2. n \in Widgets
  BY <1>1 DEF Widgets
<1>3. /\ Same(n, m) /\ n.sessionPending = m.sessionPending /\ n.trailPending = m.trailPending
      /\ n.liveUpdatePending = (m.liveUpdatePending \/ m.total > 0)
      /\ n.snapshotPending = (m.samples # <<>>)
      /\ n.mapReady = m.mapReady /\ n.attempt = m.attempt /\ n.watchdog = m.watchdog
      /\ n.error = m.error
  BY <1>1 DEF Widgets, Same
<1>4. Shown1(m) = IF m.mapReady THEN scheduleMapUpdate(n) ELSE n
  BY <1>1 DEF Shown1, Widgets
<1> HIDE DEF n
<1>5. Loaded(n, p)
  BY <1>1, <1>3 DEF Loaded, Same
<1>6. ~n.liveUpdatePending => m.total = 0
  <2>1. ~n.liveUpdatePending => ~(m.total > 0)
    BY <1>3
  <2>2. ~(m.total > 0) => m.total = 0
    BY <1>1
  <2> QED BY <2>1, <2>2
<1>7. PInv(n, p)
  BY <1>2, <1>3, <1>5, <1>6, Carried
<1>8. PInv(scheduleMapUpdate(n), p)
  BY <1>7, Scheduled
<1> QED BY <1>4, <1>7, <1>8

\* showEvent.
LEMMA ShowKeeps == ASSUME MapInv, showEvent PROVE PInv(map', page')
<1> DEFINE m == [map EXCEPT !.visible = TRUE]
<1>1. map \in Widgets /\ PInv(map, page)
  BY DEF MapInv, PInv
<1>2. /\ m = [map EXCEPT !.visible = TRUE, !.updateTimer = map.updateTimer, !.watchdog = map.watchdog]
      /\ map.updateTimer \in BOOLEAN /\ map.watchdog \in BOOLEAN
      /\ m.mapReady = map.mapReady /\ m.attempt = map.attempt /\ m.watchdog = map.watchdog
      /\ m \in Widgets
  BY <1>1 DEF Widgets
<1>3. PInv(m, page)
  BY <1>1, <1>2, SeenKeeps
<1>4. CASE ~m.mapReady /\ ~m.attempt
  <2>1. map' = Shown1(Loading(m)) /\ page' = Nothing
    BY <1>4 DEF showEvent
  <2> HIDE DEF m
  <2>2. page = Nothing /\ PInv(Loading(m), page)
    BY <1>3, <1>4, LoadingKeeps
  <2> QED BY <2>1, <2>2, ShownKeeps
<1>5. CASE ~(~m.mapReady /\ ~m.attempt)
  <2> DEFINE w == m.watchdog \/ ~m.mapReady
             n == [m EXCEPT !.watchdog = w]
  <2>1. map' = Shown1(n) /\ page' = page
    BY <1>5, <1>2 DEF showEvent
  <2>2. w \in BOOLEAN /\ n = [m EXCEPT !.visible = m.visible, !.updateTimer = m.updateTimer, !.watchdog = w]
        /\ m.visible \in BOOLEAN /\ m.updateTimer \in BOOLEAN
    <3> HIDE DEF m
    <3> QED BY <1>2 DEF Widgets
  <2>3. w /\ ~m.watchdog => ~m.mapReady
    OBVIOUS
  <2> HIDE DEF m, w, n
  <2>4. PInv(n, page)
    BY <1>3, <2>2, <2>3, SeenKeeps
  <2> QED BY <2>1, <2>4, ShownKeeps
<1> QED BY <1>4, <1>5

\* hideEvent.
LEMMA HideKeeps == ASSUME MapInv, hideEvent PROVE PInv(map', page')
<1>1. map' = [map EXCEPT !.visible = FALSE, !.updateTimer = FALSE, !.watchdog = FALSE] /\ page' = page
  BY DEF hideEvent
<1> QED BY <1>1, SeenKeeps DEF MapInv

\* The Retry button.
LEMMA RetryKeeps == ASSUME MapInv, Retry PROVE PInv(map', page')
<1>1. map' = Loading(map) /\ page' = Nothing /\ map.error
  BY DEF Retry
<1>2. PInv(map, page) /\ ~map.mapReady
  BY <1>1 DEF MapInv, PInv, Loaded
<1> QED BY <1>1, <1>2, LoadingKeeps

\* onMapLoadFinished, of this load or another.
LEMMA LoadFinishedKeeps ==
    ASSUME MapInv, NEW succeeded \in BOOLEAN, onMapLoadFinished(succeeded), page' = page
    PROVE  PInv(map', page')
<1>1. PInv(map, page) /\ map \in Widgets /\ (map.attempt => ~map.mapReady)
  BY DEF MapInv, PInv, Loaded
<1>2. CASE ~map.attempt
  BY <1>1, <1>2 DEF onMapLoadFinished
<1>3. CASE map.attempt /\ ~succeeded
  <2>1. map' = showMapLoadError(map)
    BY <1>3 DEF onMapLoadFinished
  <2> QED BY <1>1, <1>3, <2>1, ErrorKeeps
<1>4. CASE map.attempt /\ succeeded
  <2> DEFINE w == map.watchdog \/ (~map.mapReady /\ map.visible)
  <2>1. map' = [map EXCEPT !.watchdog = w]
    BY <1>4 DEF onMapLoadFinished
  <2>2. /\ [map EXCEPT !.watchdog = w] =
           [map EXCEPT !.visible = map.visible, !.updateTimer = map.updateTimer, !.watchdog = w]
        /\ map.visible \in BOOLEAN /\ map.updateTimer \in BOOLEAN /\ w \in BOOLEAN
    BY <1>1 DEF Widgets
  <2>3. w /\ ~map.watchdog => ~map.mapReady
    OBVIOUS
  <2> HIDE DEF w
  <2> QED BY <1>1, <2>1, <2>2, <2>3, SeenKeeps
<1> QED BY <1>2, <1>3, <1>4

\* onMapReady.
LEMMA ReadyKeeps == ASSUME MapInv, MapReady PROVE PInv(map', page')
<1> DEFINE m == [map EXCEPT !.watchdog = FALSE]
<1>1. map \in Widgets /\ PInv(map, page) /\ page' = page
  BY DEF MapInv, PInv, MapReady
<1>2. /\ m = [map EXCEPT !.visible = map.visible, !.updateTimer = map.updateTimer, !.watchdog = FALSE]
      /\ map.updateTimer \in BOOLEAN /\ map.visible \in BOOLEAN
  BY <1>1 DEF Widgets
<1>3. PInv(m, page)
  BY <1>1, <1>2, SeenKeeps
<1>4. CASE ~map.attempt \/ map.mapReady
  <2>1. map' = m
    BY <1>4 DEF MapReady
  <2> QED BY <2>1, <1>1, <1>3
<1>5. CASE ~(~map.attempt \/ map.mapReady)
  <2> DEFINE n == [m EXCEPT !.attempt = FALSE, !.mapReady = TRUE,
                            !.snapshotPending = m.samples # <<>>,
                            !.liveUpdatePending = m.total > 0]
  <2>1. map' = scheduleMapUpdate(n)
    BY <1>5 DEF MapReady
  <2>2. m \in Widgets /\ Loaded(m, page) /\ m.total \in Nat
    BY <1>3, Members DEF PInv
  <2>3. m.attempt /\ ~m.mapReady /\ ~m.error /\ ~m.watchdog
    <3>1. m.attempt = map.attempt /\ m.mapReady = map.mapReady /\ m.watchdog = FALSE
      BY <1>1 DEF Widgets
    <3> HIDE DEF m
    <3> QED BY <3>1, <1>5, <2>2 DEF Loaded
  <2> HIDE DEF m
  <2>4. n \in Widgets
    <3> DEFINE b == m.samples # <<>>
               c == m.total > 0
    <3>1. n = [m EXCEPT !.attempt = FALSE, !.mapReady = TRUE, !.snapshotPending = b,
                        !.liveUpdatePending = c]
      OBVIOUS
    <3>2. b \in BOOLEAN /\ c \in BOOLEAN
      OBVIOUS
    <3> HIDE DEF b, c
    <3> QED BY <2>2, <3>1, <3>2 DEF Widgets
  <2>5. /\ Same(n, m) /\ n.sessionPending = m.sessionPending /\ n.trailPending = m.trailPending
        /\ n.liveUpdatePending = (m.total > 0) /\ n.snapshotPending = (m.samples # <<>>)
        /\ n.mapReady = TRUE /\ n.attempt = FALSE /\ n.watchdog = m.watchdog /\ n.error = m.error
    BY <2>2 DEF Widgets, Same
  <2> HIDE DEF n
  <2>6. Loaded(n, page)
    BY <2>2, <2>3, <2>5 DEF Loaded, Same
  <2>7. ~n.liveUpdatePending => m.total = 0
    <3>1. ~n.liveUpdatePending => ~(m.total > 0)
      BY <2>5
    <3>2. ~(m.total > 0) => m.total = 0
      BY <2>2
    <3> QED BY <3>1, <3>2
  <2>8. PInv(n, page)
    BY <1>3, <2>4, <2>5, <2>6, <2>7, Carried
  <2> QED BY <1>1, <2>1, <2>8, Scheduled
<1> QED BY <1>4, <1>5

\* The watchdog.
LEMMA TimeoutKeeps == ASSUME MapInv, ReadyTimeout PROVE PInv(map', page')
<1>1. map.watchdog /\ map' = showMapLoadError(map) /\ page' = page
  BY DEF ReadyTimeout
<1>2. PInv(map, page) /\ ~map.mapReady
  BY <1>1 DEF MapInv, PInv, Loaded
<1> QED BY <1>1, <1>2, ErrorKeeps

\* setReplayTrailLength.
LEMMA TrailKeeps == ASSUME MapInv, setReplayTrailLength PROVE PInv(map', page')
<1>1. PInv(map, page) /\ map \in Widgets /\ page' = page /\ map.session # NoSession
  BY DEF MapInv, PInv, setReplayTrailLength
<1>2. PICK length \in 0 .. Len(Recordings[map.session]) :
          map' = scheduleMapUpdate([map EXCEPT !.trail = length, !.trailPending = TRUE])
  BY DEF setReplayTrailLength
<1> DEFINE n == [map EXCEPT !.trail = length, !.trailPending = TRUE]
<1>3. map.session \in DOMAIN Recordings
  BY <1>1, Members DEF Sessions
<1>4. Len(Recordings[map.session]) \in Nat
  BY <1>3, MapAssumption
<1>5. length \in Nat /\ length <= Len(Recordings[map.session])
  BY <1>2, <1>4
<1>6. n \in Widgets
  BY <1>1, <1>5 DEF Widgets
<1>7. /\ n.session = map.session /\ n.preview = map.preview /\ n.trajectory = map.trajectory
      /\ n.samples = map.samples /\ n.sessionPending = map.sessionPending
      /\ n.trail = length /\ n.trailPending = TRUE
      /\ n.clearPending = map.clearPending /\ n.mapReady = map.mapReady
      /\ n.attempt = map.attempt /\ n.watchdog = map.watchdog /\ n.error = map.error
      /\ n.lastPublished = map.lastPublished /\ n.published3D = map.published3D
  BY <1>1 DEF Widgets
<1> HIDE DEF n
<1>8. Loaded(n, page)
  BY <1>1, <1>7 DEF PInv, Loaded
<1>9. Replayed(n, page)
  <2>1. Replayed(map, page) /\ SessionPayload(n) = SessionPayload(map)
    BY <1>1, <1>7, PayloadOf DEF PInv
  <2> QED BY <2>1, <1>5, <1>7 DEF Replayed
<1>10. PInv(n, page)
  BY <1>1, <1>6, <1>7, <1>8, <1>9 DEF PInv
<1> QED BY <1>1, <1>2, <1>10, Scheduled DEF n

-----------------------------------------------------------------------------
(* The steps of the flight: a sample, another flight, none. *)

\* The sample that comes next.
Arriving(m, place) == [timestamp |-> m.received + 1, place |-> place, altitude |-> TRUE]

\* It is a sample, and its clock has gone on.
LEMMA NextSample ==
    ASSUME NEW m \in Widgets, m.received < Len(Sky), NEW place \in Sky[m.received + 1]
    PROVE  Arriving(m, place) \in Samples /\ Arriving(m, place).timestamp = m.received + 1
<1>1. m.received \in Nat /\ Sky \in Seq(SUBSET Coordinates)
  BY Members, MapAssumption
<1>2. m.received + 1 \in 1 .. Len(Sky)
  BY <1>1
<1>3. Sky[m.received + 1] \in SUBSET Coordinates
  BY <1>1, <1>2
<1>4. place \in Coordinates
  BY <1>3
<1> QED BY <1>1, <1>4 DEF Arriving, Samples

\* onLiveSamplesReceived: what was drawn is still where it is to be, or all is drawn again.
LEMMA ReceivedKeeps ==
    ASSUME NEW m, NEW p, PInv(m, p), m.session = NoSession,
           NEW sample \in Samples, sample.timestamp = m.received + 1
    PROVE  PInv(Received(m, sample), p)
<1> DEFINE n == Received(m, sample)
           q == Behind(m, p)
<1>1. m \in Widgets /\ IsPage(p) /\ Loaded(m, p) /\ Lived(m, p)
  BY DEF PInv
<1>2. /\ History(m.samples, m.trajectory, m.total, m.received)
      /\ Len(m.samples) <= kMap2DPointBudget /\ m.lastPublished < m.total
      /\ q.trail = q.total
      /\ m.samples = <<>> => q.path = <<>> /\ q.path3d = <<>> /\ m.published3D = 0
      /\ ~m.snapshotPending =>
            \E k \in 0 .. Len(m.samples) :
                /\ \A j \in DOMAIN m.samples : m.samples[j].sampleIndex <= m.lastPublished <=> j <= k
                /\ Draws(q, m.samples, k, m.trajectory, m.published3D)
  BY <1>1 DEF Lived
<1>3. /\ n \in Widgets /\ Apart(n, m) /\ n.liveUpdatePending
      /\ n.received = m.received + 1
      /\ History(n.samples, n.trajectory, n.total, n.received)
      /\ n.lastPublished < n.total /\ Len(n.samples) <= kMap2DPointBudget
      /\ n.published3D = 0 \/ n.published3D = m.published3D
      /\ n.lastPublished = -1 \/ n.lastPublished = m.lastPublished
      /\ n.samples = <<>> => m.samples = <<>>
      /\ ~n.snapshotPending =>
            /\ ~m.snapshotPending /\ n.lastPublished = m.lastPublished
            /\ n.published3D = m.published3D
            /\ Len(m.samples) <= Len(n.samples)
            /\ \A k \in 1 .. Len(m.samples) :
                  /\ n.samples[k] = m.samples[k]
                  /\ Dot(m.samples[k], n.trajectory) = Dot(m.samples[k], m.trajectory)
            /\ \A k \in 1 .. Len(n.samples) :
                  Len(m.samples) < k => n.lastPublished < n.samples[k].sampleIndex
  BY <1>1, <1>2, SampleReceived
<1> HIDE DEF n
<1>4. Loaded(n, p) /\ n.session = NoSession /\ Behind(n, p) = q
  BY <1>1, <1>3 DEF Loaded, Apart, Behind
<1> HIDE DEF q
<1>5. ASSUME ~n.snapshotPending
      PROVE  \E k \in 0 .. Len(n.samples) :
                /\ \A j \in DOMAIN n.samples : n.samples[j].sampleIndex <= n.lastPublished <=> j <= k
                /\ Draws(q, n.samples, k, n.trajectory, n.published3D)
  <2>1. PICK k \in 0 .. Len(m.samples) :
                /\ \A j \in DOMAIN m.samples : m.samples[j].sampleIndex <= m.lastPublished <=> j <= k
                /\ Draws(q, m.samples, k, m.trajectory, m.published3D)
    BY <1>5, <1>2, <1>3
  <2>2. /\ Len(m.samples) \in Nat /\ DOMAIN m.samples = 1 .. Len(m.samples)
        /\ Len(n.samples) \in Nat /\ DOMAIN n.samples = 1 .. Len(n.samples)
        /\ \A j \in 1 .. Len(n.samples) : n.samples[j].sampleIndex \in Nat
        /\ n.lastPublished \in Int
    BY <1>1, <1>3, Members
  <2>3. /\ n.lastPublished = m.lastPublished /\ n.published3D = m.published3D
        /\ Len(m.samples) <= Len(n.samples)
        /\ \A j \in 1 .. Len(m.samples) :
              /\ n.samples[j] = m.samples[j]
              /\ Dot(m.samples[j], n.trajectory) = Dot(m.samples[j], m.trajectory)
        /\ \A j \in 1 .. Len(n.samples) :
              Len(m.samples) < j => n.lastPublished < n.samples[j].sampleIndex
    BY <1>5, <1>3
  <2>4. k \in 0 .. Len(n.samples)
    BY <2>2, <2>3
  <2>5. ASSUME NEW j \in 1 .. Len(n.samples)
        PROVE  n.samples[j].sampleIndex <= n.lastPublished <=> j <= k
    <3>1. CASE j \in 1 .. Len(m.samples)
      BY <3>1, <2>1, <2>2, <2>3
    <3>2. CASE j \notin 1 .. Len(m.samples)
      <4>1. Len(m.samples) < j /\ ~(j <= k)
        BY <3>2, <2>2
      <4>2. n.lastPublished < n.samples[j].sampleIndex
        BY <4>1, <2>3
      <4> QED BY <4>1, <4>2, <2>2
    <3> QED BY <3>1, <3>2
  <2>6. \A j \in 1 .. k : Dot(n.samples[j], n.trajectory) = Dot(m.samples[j], m.trajectory)
    BY <2>2, <2>3
  <2>7. /\ [j \in 1 .. k |-> Dot(n.samples[j], n.trajectory)] =
           [j \in 1 .. k |-> Dot(m.samples[j], m.trajectory)]
        /\ {Dot(n.samples[j], n.trajectory) : j \in 1 .. k} =
           {Dot(m.samples[j], m.trajectory) : j \in 1 .. k}
    BY <2>6
  <2>8. Draws(q, n.samples, k, n.trajectory, n.published3D)
    BY <2>1, <2>3, <2>7 DEF Draws
  <2> QED BY <2>2, <2>4, <2>5, <2>8
<1>6. n.samples = <<>> => q.path = <<>> /\ q.path3d = <<>> /\ n.published3D = 0
  BY <1>2, <1>3
<1>7. Lived(n, p)
  BY <1>2, <1>3, <1>4, <1>5, <1>6 DEF Lived
<1> QED BY <1>1, <1>3, <1>4, <1>7 DEF PInv, n

\* onSampleUpdated.
LEMMA MapSampleKeeps == ASSUME MapInv, onSampleUpdated PROVE PInv(map', page')
<1>1. PInv(map, page) /\ map \in Widgets /\ page' = page /\ map.received < Len(Sky)
  BY DEF MapInv, PInv, onSampleUpdated
<1>2. PICK place \in Sky[map.received + 1] :
          map' = IF map.session # NoSession THEN map ELSE Received(map, Arriving(map, place))
  BY DEF onSampleUpdated, Arriving
<1>3. Arriving(map, place) \in Samples /\ Arriving(map, place).timestamp = map.received + 1
  BY <1>1, <1>2, NextSample
<1>4. map.session = NoSession => PInv(Received(map, Arriving(map, place)), page)
  BY <1>1, <1>3, ReceivedKeeps
<1> QED BY <1>1, <1>2, <1>4

\* A trajectory without fixes.
LEMMA NotTravelled ==
    /\ Untravelled \in Trajectories
    /\ \A total, received : History(<<>>, Untravelled, total, received)
<1>1. \A S : <<>> \in Seq(S)
  OBVIOUS
<1>2. <<>> \in Seq(Fixes) /\ DOMAIN <<>> = {}
  BY <1>1
<1>3. Untravelled \in Trajectories
  BY <1>2 DEF Untravelled, Trajectories
<1>4. Untravelled.fixes = <<>>
  BY DEF Untravelled
<1> QED BY <1>2, <1>3, <1>4 DEF History

\* setReplaySession.
LEMMA ReplayKeeps == ASSUME MapInv, setReplaySession PROVE PInv(map', page')
<1>1. PInv(map, page) /\ map \in Widgets /\ page' = page
  BY DEF MapInv, PInv, setReplaySession
<1>2. PICK flight \in DOMAIN Recordings, preview \in BOOLEAN :
          map' = scheduleMapUpdate(
                     [NoLive(map) EXCEPT !.session = flight, !.preview = preview,
                         !.trajectory = IF preview THEN @ ELSE RecordedTrack(flight),
                         !.liveUpdatePending = FALSE, !.snapshotPending = TRUE,
                         !.clearPending = FALSE, !.sessionPending = TRUE,
                         !.trail = Len(Recordings[flight]), !.trailPending = TRUE])
  BY DEF setReplaySession
<1> DEFINE track == IF preview THEN Untravelled ELSE RecordedTrack(flight)
           length == Len(Recordings[flight])
           n == [map EXCEPT !.trajectory = track, !.samples = <<>>, !.total = 0, !.received = 0,
                            !.lastPublished = -1, !.published3D = 0,
                            !.session = flight, !.preview = preview,
                            !.liveUpdatePending = FALSE, !.snapshotPending = TRUE,
                            !.clearPending = FALSE, !.sessionPending = TRUE,
                            !.trail = length, !.trailPending = TRUE]
<1>3. map' = scheduleMapUpdate(n)
  <2>1. [NoLive(map) EXCEPT !.session = flight, !.preview = preview,
                         !.trajectory = IF preview THEN @ ELSE RecordedTrack(flight),
                         !.liveUpdatePending = FALSE, !.snapshotPending = TRUE,
                         !.clearPending = FALSE, !.sessionPending = TRUE,
                         !.trail = Len(Recordings[flight]), !.trailPending = TRUE] = n
    BY <1>1 DEF NoLive, Widgets
  <2> HIDE DEF n
  <2> QED BY <1>2, <2>1
<1>4. track \in Tracks /\ flight \in Sessions /\ flight # NoSession /\ preview \in BOOLEAN
  BY <1>2, NotTravelled, MapAssumption DEF Tracks, Sessions
<1>5. length \in Nat /\ -1 \in Int /\ 0 \in Nat /\ <<>> \in Seq(Rows)
  BY <1>2, MapAssumption
<1> HIDE DEF track, length
<1>6. n \in Widgets
  BY <1>1, <1>4, <1>5 DEF Widgets
<1>7. /\ n.session = flight /\ n.samples = <<>> /\ n.trail = length
      /\ n.sessionPending = TRUE /\ n.trailPending = TRUE /\ n.clearPending = FALSE
      /\ n.lastPublished = -1 /\ n.published3D = 0
      /\ n.mapReady = map.mapReady /\ n.attempt = map.attempt /\ n.watchdog = map.watchdog
      /\ n.error = map.error
  BY <1>1 DEF Widgets
<1> HIDE DEF n
<1>8. Loaded(n, page)
  BY <1>1, <1>4, <1>7 DEF PInv, Loaded
<1>9. Replayed(n, page)
  BY <1>5, <1>7 DEF Replayed, length
<1>10. PInv(n, page)
  BY <1>1, <1>4, <1>6, <1>7, <1>8, <1>9 DEF PInv
<1> QED BY <1>1, <1>3, <1>10, Scheduled

\* onSessionReset.
LEMMA MapResetKeeps == ASSUME MapInv, onSessionReset PROVE PInv(map', page')
<1>1. PInv(map, page) /\ map \in Widgets /\ page' = page
  BY DEF MapInv, PInv, onSessionReset
<1> DEFINE n == [map EXCEPT !.trajectory = Untravelled, !.samples = <<>>, !.total = 0,
                            !.received = 0, !.lastPublished = -1, !.published3D = 0,
                            !.session = NoSession, !.preview = FALSE,
                            !.liveUpdatePending = FALSE, !.snapshotPending = TRUE,
                            !.sessionPending = FALSE, !.trailPending = FALSE,
                            !.clearPending = TRUE]
<1>2. map' = scheduleMapUpdate(n)
  BY <1>1 DEF onSessionReset, NoLive, Widgets
<1>3. Untravelled \in Tracks /\ NoSession \in Sessions
  BY NotTravelled DEF Tracks, Sessions
<1>4. -1 \in Int /\ 0 \in Nat /\ <<>> \in Seq(Rows)
  OBVIOUS
<1>5. n \in Widgets
  BY <1>1, <1>3, <1>4 DEF Widgets
<1>6. /\ n.session = NoSession /\ n.samples = <<>> /\ n.trajectory = Untravelled
      /\ n.total = 0 /\ n.received = 0 /\ n.snapshotPending = TRUE
      /\ n.sessionPending = FALSE /\ n.trailPending = FALSE /\ n.clearPending = TRUE
      /\ n.lastPublished = -1 /\ n.published3D = 0
      /\ n.mapReady = map.mapReady /\ n.attempt = map.attempt /\ n.watchdog = map.watchdog
      /\ n.error = map.error
  BY <1>1 DEF Widgets
<1> HIDE DEF n
<1>7. Loaded(n, page)
  BY <1>1, <1>6 DEF PInv, Loaded
<1>8. Behind(n, page) = Nothing /\ Nothing.path = <<>> /\ Nothing.path3d = <<>>
      /\ Nothing.total = 0 /\ Nothing.trail = 0
  BY <1>6 DEF Behind, Nothing
<1>9. 0 <= kMap2DPointBudget
  BY MapAssumption
<1>10. Len(<<>>) = 0 /\ -1 < 0 /\ 0 >= 0
  OBVIOUS
<1>11. Lived(n, page)
  BY <1>6, <1>8, <1>9, <1>10, NotTravelled DEF Lived
<1>12. PInv(n, page)
  BY <1>1, <1>5, <1>6, <1>7, <1>11 DEF PInv
<1> QED BY <1>1, <1>2, <1>12, Scheduled

-----------------------------------------------------------------------------
(* What is published. *)

\* Two sequences, one behind the other.
InARow(both, a, b, S) ==
    /\ both \in Seq(S) /\ Len(both) = Len(a) + Len(b)
    /\ \A k \in 1 .. Len(a) : both[k] = a[k]
    /\ \A k \in 1 .. Len(b) : both[Len(a) + k] = b[k]

\* What o does with two sequences.
LEMMA Joined ==
    ASSUME NEW S, NEW a \in Seq(S), NEW b \in Seq(S), NEW both, both = a \o b
    PROVE  InARow(both, a, b, S)
BY DEF InARow

\* A row is drawn with its index.
LEMMA DotIndex == ASSUME NEW row, NEW traj PROVE Dot(row, traj).idx = row.sampleIndex
  BY DEF Dot, Point

Dots(rows, n, traj) == {Dot(rows[k], traj) : k \in 1 .. n}

\* The rows of a history can be drawn, in the order of their indices.
Drawable(rows) ==
    /\ \A k \in 1 .. Len(rows) : isUsableMapPoint(rows[k].sample)
    /\ \A j, k \in 1 .. Len(rows) : j < k => rows[j].sampleIndex < rows[k].sampleIndex

\* The page draws all of the history, globe rows of it in three dimensions.
DrawnWhole(q, rows, traj, globe) ==
    /\ Draws(q, rows, Len(rows), traj, globe) /\ globe \in Nat
    /\ rows = <<>> => q.path = <<>> /\ q.path3d = <<>> /\ globe = 0

\* All of the history is published.
LEMMA DrawsAll ==
    ASSUME NEW rows \in Seq(Rows), NEW traj, Drawable(rows), Len(rows) <= kMap2DPointBudget,
           NEW few, few = capped(rows, kLive3DCompactTarget), NEW q,
           q.path = capped(<<>> \o Points(rows, traj), kMap2DPointBudget),
           q.path3d = capped(<<>> \o Points(few, traj), kMap3DPointBudget)
    PROVE  /\ Draws(q, rows, Len(rows), traj, Len(Points(few, traj)))
           /\ rows = <<>> => q.path = <<>> /\ q.path3d = <<>> /\ Len(Points(few, traj)) = 0
           /\ Len(Points(few, traj)) \in Nat
<1> DEFINE n == Len(rows)
           d == Len(few)
           t == kLive3DCompactTarget
           D == Dots(rows, n, traj)
           path == Points(rows, traj)
           globe == Points(few, traj)
<1>0. /\ t \in Nat \ {0} /\ t <= kMap3DPointBudget
      /\ kMap3DPointBudget \in Nat \ {0} /\ kMap2DPointBudget \in Nat \ {0}
  BY MapAssumption DEF kLive3DCompactTarget
<1> HIDE DEF t
<1>1. n \in Nat /\ \A k \in 1 .. n : rows[k] \in Rows /\ rows[k].sampleIndex \in Nat
  <2>1. n \in Nat /\ \A k \in 1 .. n : rows[k] \in Rows
    OBVIOUS
  <2>2. \A row \in Rows : row.sampleIndex \in Nat
    BY DEF Rows
  <2> QED BY <2>1, <2>2
<1>2. /\ few \in Seq(Rows) /\ d = (IF n <= t THEN n ELSE t)
      /\ \E at \in [1 .. d -> 1 .. n] :
            /\ \A k \in 1 .. d : few[k] = rows[at[k]]
            /\ \A j, k \in 1 .. d : j < k => at[j] < at[k]
  BY <1>0, CappedRows DEF t
<1>3. PICK at \in [1 .. d -> 1 .. n] :
            /\ \A k \in 1 .. d : few[k] = rows[at[k]]
            /\ \A j, k \in 1 .. d : j < k => at[j] < at[k]
  BY <1>2
<1>4. \A k \in 1 .. d : at[k] \in 1 .. n /\ few[k] = rows[at[k]]
  BY <1>3
<1>5. /\ path = [k \in 1 .. n |-> Dot(rows[k], traj)]
      /\ path \in Seq(D) /\ Len(path) = n
  BY PointsAre DEF Drawable, Dots
<1> HIDE DEF path, n
<1>6. /\ globe = [k \in 1 .. d |-> Dot(few[k], traj)] /\ Len(globe) = d
  <2>1. \A k \in 1 .. d : isUsableMapPoint(few[k].sample)
    BY <1>4 DEF Drawable, n
  <2> QED BY <1>2, <2>1, PointsAre
<1> HIDE DEF globe, d
<1>7. d \in Nat /\ d <= t /\ (n > 0 => d > 0) /\ (n = 0 => d = 0)
  BY <1>0, <1>1, <1>2
<1>8. \A k \in 1 .. d : globe[k] = Dot(rows[at[k]], traj) /\ globe[k] \in D
  <2> SUFFICES ASSUME NEW k \in 1 .. d
               PROVE  globe[k] = Dot(rows[at[k]], traj) /\ globe[k] \in D
      OBVIOUS
  <2>1. globe[k] = Dot(rows[at[k]], traj) /\ at[k] \in 1 .. n
    BY <1>4, <1>6
  <2> QED BY <2>1 DEF Dots
<1> HIDE DEF D
<1>9. globe \in Seq(D) /\ DOMAIN globe = 1 .. d
  <2>1. globe = [k \in 1 .. d |-> globe[k]]
    BY <1>6
  <2> QED BY <2>1, <1>7, <1>8, SequenceOf
<1>10. q.path = path
  <2>1. <<>> \o path = path /\ Len(path) <= kMap2DPointBudget
    BY <1>5 DEF n
  <2> QED BY <2>1, <1>0, <1>5, CappedRows DEF path
<1>11. q.path3d = globe
  <2>1. <<>> \o globe = globe
    BY <1>9
  <2>2. Len(globe) <= kMap3DPointBudget
    BY <1>0, <1>6, <1>7
  <2> QED BY <2>1, <2>2, <1>0, <1>9, CappedRows DEF globe
<1>12. \A j, k \in 1 .. d : j < k => globe[j].idx < globe[k].idx
  <2> SUFFICES ASSUME NEW j \in 1 .. d, NEW k \in 1 .. d, j < k PROVE globe[j].idx < globe[k].idx
      OBVIOUS
  <2>1. /\ globe[j].idx = rows[at[j]].sampleIndex /\ globe[k].idx = rows[at[k]].sampleIndex
    BY <1>8, DotIndex
  <2>2. at[j] < at[k] /\ at[j] \in 1 .. n /\ at[k] \in 1 .. n
    BY <1>3, <1>4
  <2> QED BY <2>1, <2>2 DEF Drawable, n
<1>13. n > 0 => globe # <<>>
  <2>1. d > 0 => 1 \in DOMAIN globe
    BY <1>7, <1>9
  <2> QED BY <2>1, <1>7
<1>14. d <= kMap3DPointBudget
  BY <1>0, <1>7
<1>15. Draws(q, rows, n, traj, d)
  BY <1>5, <1>6, <1>9, <1>10, <1>11, <1>12, <1>13, <1>14 DEF Draws, D, Dots
<1>16. rows = <<>> => path = <<>> /\ globe = <<>> /\ d = 0
  <2> SUFFICES ASSUME rows = <<>> PROVE path = <<>> /\ globe = <<>> /\ d = 0
      OBVIOUS
  <2>1. n = 0
    BY DEF n
  <2>2. d = 0
    BY <2>1, <1>7
  <2> QED BY <2>1, <2>2, <1>5, <1>6, <1>9, NoElement
<1> QED BY <1>6, <1>7, <1>10, <1>11, <1>15, <1>16 DEF n, globe

\* What is new of the history is published.
LEMMA DrawsMore ==
    ASSUME NEW rows \in Seq(Rows), NEW traj, Drawable(rows), Len(rows) <= kMap2DPointBudget,
           NEW p, NEW n \in 0 .. Len(rows), NEW globe \in Nat, Draws(p, rows, n, traj, globe),
           NEW unsent, unsent = AtPlaces(rows, {k \in DOMAIN rows : n < k}),
           globe + Len(unsent) <= kMap3DPointBudget, NEW q,
           q.path = capped(p.path \o Points(unsent, traj), kMap2DPointBudget),
           q.path3d = capped(p.path3d \o Points(unsent, traj), kMap3DPointBudget),
           NEW g, g = Len(Points(unsent, traj)) + globe
    PROVE  DrawnWhole(q, rows, traj, g)
<1> DEFINE l == Len(rows)
           more == Points(unsent, traj)
           d == l - n
           D == Dots(rows, l, traj)
           path == p.path \o more
           path3d == p.path3d \o more
<1>0. kMap3DPointBudget \in Nat \ {0} /\ kMap2DPointBudget \in Nat \ {0}
  BY MapAssumption
<1>1. /\ l \in Nat /\ n \in 0 .. l /\ n \in Nat /\ d \in Nat /\ l = n + d
      /\ \A k \in 1 .. l : rows[k] \in Rows /\ rows[k].sampleIndex \in Nat
  <2>1. l \in Nat /\ \A k \in 1 .. l : rows[k] \in Rows
    OBVIOUS
  <2>2. \A row \in Rows : row.sampleIndex \in Nat
    BY DEF Rows
  <2> HIDE DEF l
  <2>3. n \in 0 .. l
    BY DEF l
  <2> QED BY <2>1, <2>2, <2>3
<1>2. /\ unsent = [k \in 1 .. d |-> rows[n + k]] /\ unsent \in Seq(Rows) /\ Len(unsent) = d
  BY RowsAfter
<1> HIDE DEF l, d
<1>3. \A k \in 1 .. d : n + k \in 1 .. l /\ unsent[k] = rows[n + k]
  BY <1>1, <1>2
<1>4. /\ more = [k \in 1 .. d |-> Dot(unsent[k], traj)] /\ Len(more) = d
  <2>1. \A k \in 1 .. d : isUsableMapPoint(unsent[k].sample)
    BY <1>3 DEF Drawable, l
  <2> QED BY <1>2, <2>1, PointsAre
<1> HIDE DEF more
<1>5. \A k \in 1 .. d : more[k] = Dot(rows[n + k], traj) /\ more[k] \in D
  <2> SUFFICES ASSUME NEW k \in 1 .. d PROVE more[k] = Dot(rows[n + k], traj) /\ more[k] \in D
      OBVIOUS
  <2>1. more[k] = Dot(rows[n + k], traj) /\ n + k \in 1 .. l
    BY <1>3, <1>4
  <2> QED BY <2>1 DEF Dots
<1>6. \A k \in 1 .. n : Dot(rows[k], traj) \in D
  BY <1>1 DEF Dots
<1>7. /\ p.path = [k \in 1 .. n |-> Dot(rows[k], traj)]
      /\ p.path3d \in Seq(Dots(rows, n, traj))
      /\ Len(p.path3d) = globe
      /\ \A j, k \in DOMAIN p.path3d : j < k => p.path3d[j].idx < p.path3d[k].idx
      /\ n > 0 => p.path3d # <<>>
  BY DEF Draws, Dots
<1>8. Dots(rows, n, traj) \in SUBSET D
  BY <1>6 DEF Dots
<1> HIDE DEF D
<1>9. more \in Seq(D)
  <2>1. more = [k \in 1 .. d |-> more[k]]
    BY <1>4
  <2> QED BY <2>1, <1>1, <1>5, SequenceOf
<1>10. p.path \in Seq(D) /\ Len(p.path) = n
  <2>1. \A k \in 1 .. n : p.path[k] \in D
    BY <1>6, <1>7
  <2>2. p.path = [k \in 1 .. n |-> p.path[k]]
    BY <1>7
  <2> QED BY <2>1, <2>2, <1>1, SequenceOf
<1>11. /\ p.path3d \in Seq(D) /\ DOMAIN p.path3d = 1 .. globe
       /\ \A k \in 1 .. globe : p.path3d[k] \in Dots(rows, n, traj)
  BY <1>7, <1>8
<1>12. /\ path \in Seq(D) /\ Len(path) = n + d
       /\ \A k \in 1 .. n : path[k] = p.path[k]
       /\ \A k \in 1 .. d : path[n + k] = more[k]
  <2> HIDE DEF path
  <2>1. path = p.path \o more
    BY DEF path
  <2> DEFINE a == p.path
  <2>2. a \in Seq(D) /\ more \in Seq(D) /\ path = a \o more /\ Len(a) = n /\ Len(more) = d
    BY <2>1, <1>4, <1>9, <1>10
  <2> HIDE DEF a
  <2>3. InARow(path, a, more, D)
    BY <2>2, Joined
  <2> QED BY <2>2, <2>3 DEF InARow, a
<1>13. /\ path3d \in Seq(D) /\ Len(path3d) = globe + d
       /\ \A k \in 1 .. globe : path3d[k] = p.path3d[k]
       /\ \A k \in 1 .. d : path3d[globe + k] = more[k]
  <2> HIDE DEF path3d
  <2>1. path3d = p.path3d \o more
    BY DEF path3d
  <2> DEFINE a == p.path3d
  <2>2. a \in Seq(D) /\ more \in Seq(D) /\ path3d = a \o more /\ Len(a) = globe /\ Len(more) = d
    BY <2>1, <1>4, <1>7, <1>9, <1>11
  <2> HIDE DEF a
  <2>3. InARow(path3d, a, more, D)
    BY <2>2, Joined
  <2> QED BY <2>2, <2>3 DEF InARow, a
<1>14. q.path = path /\ q.path3d = path3d
  <2>1. Len(path) <= kMap2DPointBudget
    BY <1>1, <1>12 DEF l
  <2>2. Len(path3d) <= kMap3DPointBudget
    BY <1>1, <1>2, <1>13
  <2>3. q.path = capped(path, kMap2DPointBudget) /\ q.path3d = capped(path3d, kMap3DPointBudget)
    BY DEF path, path3d, more
  <2> HIDE DEF path, path3d
  <2> QED BY <2>1, <2>2, <2>3, <1>0, <1>12, <1>13, CappedRows
<1> HIDE DEF path, path3d
<1>15. path = [k \in 1 .. l |-> Dot(rows[k], traj)]
  <2>1. path = [k \in 1 .. l |-> path[k]]
    BY <1>1, <1>12
  <2>2. \A k \in 1 .. l : path[k] = Dot(rows[k], traj)
    <3> SUFFICES ASSUME NEW k \in 1 .. l PROVE path[k] = Dot(rows[k], traj)
        OBVIOUS
    <3>1. CASE k <= n
      BY <3>1, <1>1, <1>7, <1>12
    <3>2. CASE ~(k <= n)
      <4> DEFINE j == k - n
      <4>1. j \in 1 .. d /\ k = n + j
        BY <3>2, <1>1
      <4> HIDE DEF j
      <4> QED BY <4>1, <1>5, <1>12
    <3> QED BY <3>1, <3>2
  <2> QED BY <2>1, <2>2
<1>16. \A k \in 1 .. globe : \E i \in 1 .. n : path3d[k] = Dot(rows[i], traj)
  BY <1>11, <1>13 DEF Dots
<1>17. ASSUME NEW j \in 1 .. globe + d, NEW k \in 1 .. globe + d, j < k
       PROVE  path3d[j].idx < path3d[k].idx
  <2>1. CASE k <= globe
    <3>1. /\ j \in 1 .. globe /\ k \in 1 .. globe
          /\ path3d[j] = p.path3d[j] /\ path3d[k] = p.path3d[k]
      BY <2>1, <1>17, <1>1, <1>13
    <3> QED BY <3>1, <1>7, <1>11, <1>17
  <2>2. CASE ~(k <= globe)
    <3> DEFINE b == k - globe
    <3>1. b \in 1 .. d /\ k = globe + b
      BY <2>2, <1>1
    <3> HIDE DEF b
    <3>2. path3d[k] = Dot(rows[n + b], traj) /\ n + b \in 1 .. l
      BY <3>1, <1>3, <1>5, <1>13
    <3>3. \E i \in 1 .. l : i < n + b /\ path3d[j] = Dot(rows[i], traj)
      <4>1. CASE j <= globe
        <5>1. j \in 1 .. globe
          BY <4>1
        <5>2. PICK i \in 1 .. n : path3d[j] = Dot(rows[i], traj)
          BY <5>1, <1>16
        <5>3. i \in 1 .. l /\ i < n + b
          BY <3>1, <1>1
        <5> QED BY <5>2, <5>3
      <4>2. CASE ~(j <= globe)
        <5> DEFINE a == j - globe
        <5>1. a \in 1 .. d /\ j = globe + a /\ n + a < n + b
          BY <4>2, <1>1, <1>17, <3>1
        <5> HIDE DEF a
        <5>2. path3d[j] = Dot(rows[n + a], traj) /\ n + a \in 1 .. l
          BY <5>1, <1>3, <1>5, <1>13
        <5> QED BY <5>1, <5>2
      <4> QED BY <4>1, <4>2
    <3>4. PICK i \in 1 .. l : i < n + b /\ path3d[j] = Dot(rows[i], traj)
      BY <3>3
    <3>5. path3d[j].idx = rows[i].sampleIndex /\ path3d[k].idx = rows[n + b].sampleIndex
      BY <3>2, <3>4, DotIndex
    <3> QED BY <3>2, <3>4, <3>5 DEF Drawable, l
  <2> QED BY <2>1, <2>2
<1>18. DOMAIN path3d = 1 .. globe + d
  BY <1>13
<1>19. l > 0 => path3d # <<>>
  <2> SUFFICES ASSUME l > 0 PROVE path3d # <<>>
      OBVIOUS
  <2>1. globe + d > 0
    <3>1. n > 0 => globe # 0
      BY <1>7, NoElement
    <3> QED BY <3>1, <1>1
  <2>2. 1 \in DOMAIN path3d
    BY <2>1, <1>1, <1>18
  <2> QED BY <2>2
<1>20. globe + d <= kMap3DPointBudget
  BY <1>2
<1>21. Draws(q, rows, l, traj, d + globe)
  <2>1. \A j, k \in DOMAIN path3d : j < k => path3d[j].idx < path3d[k].idx
    BY <1>17, <1>18
  <2>2. d + globe = globe + d /\ Len(path3d) = globe + d
    BY <1>1, <1>13
  <2> QED BY <2>1, <2>2, <1>13, <1>14, <1>15, <1>19, <1>20 DEF Draws, D, Dots
<1>22. rows = <<>> => path = <<>> /\ path3d = <<>> /\ d + globe = 0
  <2> SUFFICES ASSUME rows = <<>> PROVE path = <<>> /\ path3d = <<>> /\ d + globe = 0
      OBVIOUS
  <2>1. l = 0
    BY DEF l
  <2>2. n = 0 /\ d = 0
    BY <2>1, <1>1
  <2>3. Dots(rows, n, traj) = {}
    BY <2>2 DEF Dots
  <2>4. globe = 0
    <3> SUFFICES ASSUME globe # 0 PROVE FALSE
        OBVIOUS
    <3>1. 1 \in 1 .. globe
      OBVIOUS
    <3> QED BY <3>1, <2>3, <1>11
  <2>5. Len(path) = 0 /\ Len(path3d) = 0
    BY <2>2, <2>4, <1>12, <1>13
  <2> QED BY <2>2, <2>4, <2>5, <1>12, <1>13, NoElement
<1>23. g = d + globe /\ d + globe \in Nat
  <2>1. g = Len(more) + globe
    BY DEF more
  <2>2. Len(more) = d
    BY <1>4
  <2>3. d \in Nat
    BY <1>1
  <2>4. g = d + globe
    BY <2>1, <2>2
  <2> QED BY <2>3, <2>4
<1> QED BY <1>14, <1>21, <1>22, <1>23 DEF l, DrawnWhole

\* What a part of flushPendingUpdates does not touch, and that it keeps what holds.
Flushed(t, s) ==
    /\ PInv(t.map, t.page) /\ t.map.mapReady
    /\ t.map.samples = s.map.samples /\ t.map.trajectory = s.map.trajectory
    /\ t.map.received = s.map.received

\* A clear that waits.
LEMMA ClearedKeeps ==
    ASSUME NEW s, PInv(s.map, s.page), s.map.mapReady
    PROVE  Flushed(Cleared(s), s) /\ ~Cleared(s).map.clearPending
<1> DEFINE m == s.map
           p == s.page
           n == [m EXCEPT !.clearPending = FALSE]
           t == Cleared(s)
<1>1. m \in Widgets /\ Loaded(m, p) /\ IsPage(p)
  BY DEF PInv
<1>2. CASE ~m.clearPending
  BY <1>2 DEF Cleared, Flushed
<1>3. CASE m.clearPending
  <2>1. t = [map |-> n, page |-> Nothing]
    BY <1>3 DEF Cleared, clearAll
  <2>2. n \in Widgets
    BY <1>1 DEF Widgets
  <2>3. /\ n.session = m.session /\ n.samples = m.samples /\ n.trajectory = m.trajectory
        /\ n.total = m.total /\ n.received = m.received
        /\ n.lastPublished = m.lastPublished /\ n.published3D = m.published3D
        /\ n.sessionPending = m.sessionPending /\ n.trailPending = m.trailPending
        /\ n.liveUpdatePending = m.liveUpdatePending /\ n.snapshotPending = m.snapshotPending
        /\ n.mapReady = m.mapReady /\ n.attempt = m.attempt /\ n.watchdog = m.watchdog
        /\ n.error = m.error /\ n.clearPending = FALSE
    BY <1>1 DEF Widgets
  <2>4. t.map = n /\ t.page = Nothing
    BY <2>1
  <2> HIDE DEF m, n, p, t
  <2>5. m.session = NoSession /\ m.mapReady /\ Lived(m, p)
    <3>1. m.mapReady /\ PInv(m, p)
      BY DEF m, p
    <3>2. m.session = NoSession
      BY <1>1, <1>3 DEF Loaded
    <3> QED BY <3>1, <3>2 DEF PInv
  <2>6. Behind(m, p) = Nothing /\ Behind(n, Nothing) = Nothing
    BY <1>3 DEF Behind
  <2>7. Lived(n, Nothing)
    BY <2>3, <2>5, <2>6 DEF Lived
  <2>8. Loaded(n, Nothing)
    BY <1>1, <2>3, <2>5 DEF Loaded
  <2>9. IsPage(Nothing)
    BY DEF IsPage, Nothing
  <2>10. PInv(n, Nothing)
    BY <2>2, <2>3, <2>5, <2>7, <2>8, <2>9 DEF PInv
  <2> QED BY <2>3, <2>4, <2>5, <2>10 DEF Flushed, m, t
<1> QED BY <1>2, <1>3

\* sendPendingSession, after it.
LEMMA SessionKeeps ==
    ASSUME NEW s, PInv(s.map, s.page), s.map.mapReady, ~s.map.clearPending
    PROVE  /\ Flushed(sendPendingSession(s), s)
           /\ ~sendPendingSession(s).map.clearPending /\ ~sendPendingSession(s).map.sessionPending
<1> DEFINE m == s.map
           p == s.page
           n == [m EXCEPT !.sessionPending = FALSE]
           t == sendPendingSession(s)
           flight == SessionPayload(m)
           q == loadSession(p, flight)
<1>1. m \in Widgets /\ Loaded(m, p) /\ IsPage(p)
  BY DEF PInv
<1>2. CASE ~m.sessionPending
  BY <1>2 DEF sendPendingSession, Flushed
<1>3. CASE m.sessionPending
  <2>1. t = [map |-> n, page |-> q]
    BY <1>3 DEF sendPendingSession
  <2>2. n \in Widgets
    BY <1>1 DEF Widgets
  <2>3. /\ n.session = m.session /\ n.preview = m.preview
        /\ n.samples = m.samples /\ n.trajectory = m.trajectory
        /\ n.total = m.total /\ n.received = m.received
        /\ n.lastPublished = m.lastPublished /\ n.published3D = m.published3D
        /\ n.sessionPending = FALSE /\ n.trailPending = m.trailPending /\ n.trail = m.trail
        /\ n.mapReady = m.mapReady /\ n.attempt = m.attempt /\ n.watchdog = m.watchdog
        /\ n.error = m.error /\ n.clearPending = m.clearPending
    BY <1>1 DEF Widgets
  <2>4. t.map = n /\ t.page = q
    BY <2>1
  <2>5. /\ q.path = capped(flight.path, kMap2DPointBudget)
        /\ q.path3d = capped(flight.path3d, kMap3DPointBudget)
        /\ q.total = flight.total
        /\ q = [path |-> q.path, path3d |-> q.path3d, total |-> q.total, trail |-> q.trail,
                exact |-> q.exact]
    <3> DEFINE a == capped(flight.path, kMap2DPointBudget)
               b == capped(flight.path3d, kMap3DPointBudget)
    <3>1. q = [p EXCEPT !.path = a, !.path3d = b, !.total = flight.total,
                        !.trail = flight.total, !.exact = NoPoint]
      BY DEF loadSession
    <3> HIDE DEF a, b, flight, q
    <3>2. q = [path |-> a, path3d |-> b, total |-> flight.total, trail |-> flight.total,
               exact |-> NoPoint]
      BY <3>1, <1>1 DEF IsPage
    <3> QED BY <3>2 DEF a, b
  <2> HIDE DEF m, n, p, t, q
  <2>6. /\ m.session # NoSession /\ m.session \in DOMAIN Recordings /\ m.mapReady
        /\ m.trailPending /\ ~m.clearPending /\ Replayed(m, p)
    <3>1. m.mapReady /\ PInv(m, p) /\ ~m.clearPending
      BY DEF m, p
    <3>2. m.session # NoSession /\ m.trailPending
      BY <1>1, <1>3 DEF Loaded
    <3>3. m.session \in DOMAIN Recordings
      BY <1>1, <3>2, Members DEF Sessions
    <3> QED BY <3>1, <3>2, <3>3 DEF PInv
  <2>7. /\ flight.path = Points(PathRows(m, kMap2DPointBudget), Trajectory(m))
        /\ flight.path3d = Points(PathRows(m, kMap3DPointBudget), Trajectory(m))
        /\ flight.total = Len(Recordings[m.session])
    BY DEF SessionPayload
  <2> HIDE DEF flight
  <2>8. q.path = flight.path /\ q.path3d = flight.path3d
    <3>1. kMap2DPointBudget \in Nat \ {0} /\ kMap3DPointBudget \in Nat \ {0}
      BY MapAssumption
    <3> QED BY <3>1, <2>5, <2>6, <2>7, PayloadFits
  <2>9. q.total = Len(Recordings[m.session]) /\ q.total \in Nat
    BY <2>5, <2>6, <2>7, MapAssumption
  <2>10. SessionPayload(n) = flight
    BY <2>3, PayloadOf DEF flight
  <2>11. Replayed(n, q)
    BY <2>3, <2>6, <2>8, <2>9, <2>10 DEF Replayed
  <2>12. Loaded(n, q)
    BY <1>1, <2>3, <2>6 DEF Loaded
  <2>13. IsPage(q)
    BY <2>5, <2>9 DEF IsPage
  <2>14. PInv(n, q)
    BY <2>2, <2>3, <2>6, <2>11, <2>12, <2>13 DEF PInv
  <2> QED BY <2>3, <2>4, <2>6, <2>14 DEF Flushed, m, t
<1> QED BY <1>2, <1>3

\* sendPendingTrailLength, after the flight.
LEMMA TrailSentKeeps ==
    ASSUME NEW s, PInv(s.map, s.page), s.map.mapReady, ~s.map.sessionPending
    PROVE  Flushed(sendPendingTrailLength(s), s)
<1> DEFINE m == s.map
           p == s.page
           n == [m EXCEPT !.trailPending = FALSE]
           t == sendPendingTrailLength(s)
           exact == TrailPoint(m)
           q == showTrail(p, m.trail, exact)
<1>1. m \in Widgets /\ Loaded(m, p) /\ IsPage(p)
  BY DEF PInv
<1>2. CASE m.session = NoSession \/ ~m.trailPending
  BY <1>2 DEF sendPendingTrailLength, Flushed
<1>3. CASE ~(m.session = NoSession \/ ~m.trailPending)
  <2>1. t = [map |-> n, page |-> q]
    BY <1>3 DEF sendPendingTrailLength
  <2>2. n \in Widgets
    BY <1>1 DEF Widgets
  <2>3. /\ n.session = m.session /\ n.preview = m.preview
        /\ n.samples = m.samples /\ n.trajectory = m.trajectory
        /\ n.received = m.received
        /\ n.lastPublished = m.lastPublished /\ n.published3D = m.published3D
        /\ n.sessionPending = m.sessionPending /\ n.trailPending = FALSE /\ n.trail = m.trail
        /\ n.mapReady = m.mapReady /\ n.attempt = m.attempt /\ n.watchdog = m.watchdog
        /\ n.error = m.error /\ n.clearPending = m.clearPending
    BY <1>1 DEF Widgets
  <2>4. t.map = n /\ t.page = q
    BY <2>1
  <2>5. /\ q.path = p.path /\ q.path3d = p.path3d /\ q.total = p.total /\ q.exact = exact
        /\ q.trail = Min({m.trail, p.total})
        /\ q = [path |-> q.path, path3d |-> q.path3d, total |-> q.total, trail |-> q.trail,
                exact |-> q.exact]
    <3> DEFINE a == Min({m.trail, p.total})
    <3>1. q = [p EXCEPT !.trail = a, !.exact = exact]
      BY DEF showTrail
    <3> HIDE DEF a, exact, q
    <3>2. q = [path |-> p.path, path3d |-> p.path3d, total |-> p.total, trail |-> a,
               exact |-> exact]
      BY <3>1, <1>1 DEF IsPage
    <3> QED BY <3>2 DEF a
  <2> HIDE DEF m, n, p, t, q
  <2>6. m.session # NoSession /\ m.mapReady /\ ~m.sessionPending /\ Replayed(m, p)
        /\ m.session \in DOMAIN Recordings
    <3>1. m.mapReady /\ PInv(m, p) /\ ~m.sessionPending
      BY DEF m, p
    <3>2. m.session \in DOMAIN Recordings
      BY <1>1, <1>3, Members DEF Sessions
    <3> QED BY <1>3, <3>1, <3>2 DEF PInv
  <2>7. /\ p.path = SessionPayload(m).path /\ p.path3d = SessionPayload(m).path3d
        /\ p.total = Len(Recordings[m.session]) /\ m.trail <= Len(Recordings[m.session])
        /\ m.samples = <<>>
    BY <2>6 DEF Replayed
  <2>8. q.trail = m.trail
    <3>1. m.trail \in Nat /\ p.total \in Nat /\ m.trail <= p.total
      BY <1>1, <2>7, Members DEF IsPage
    <3> QED BY <3>1, <2>5, Least
  <2>9. SessionPayload(n) = SessionPayload(m) /\ TrailPoint(n) = exact
    BY <2>3, PayloadOf DEF exact
  <2>10. Replayed(n, q)
    BY <2>3, <2>5, <2>7, <2>8, <2>9 DEF Replayed
  <2>11. Loaded(n, q)
    BY <1>1, <2>3, <2>6 DEF Loaded
  <2>12. IsPage(q)
    BY <1>1, <2>5 DEF IsPage
  <2>13. PInv(n, q)
    BY <2>2, <2>3, <2>6, <2>10, <2>11, <2>12 DEF PInv
  <2> QED BY <2>3, <2>4, <2>6, <2>13 DEF Flushed, m, t
<1> QED BY <1>2, <1>3

\* addPoints, member by member.
LEMMA PointsAdded ==
    ASSUME NEW p, IsPage(p), NEW replace \in BOOLEAN, NEW total \in Nat, NEW path, NEW path3d,
           NEW q, q = addPoints(p, [replace |-> replace, total |-> total,
                                    path |-> path, path3d |-> path3d])
    PROVE  /\ IsPage(q) /\ q.total >= total /\ q.trail = q.total
           /\ replace => /\ q.path = capped(<<>> \o path, kMap2DPointBudget)
                         /\ q.path3d = capped(<<>> \o path3d, kMap3DPointBudget)
           /\ ~replace => /\ q.path = capped(p.path \o path, kMap2DPointBudget)
                          /\ q.path3d = capped(p.path3d \o path3d, kMap3DPointBudget)
<1> DEFINE a == IF replace THEN <<>> ELSE p.path
           b == IF replace THEN <<>> ELSE p.path3d
           c == capped(a \o path, kMap2DPointBudget)
           d == capped(b \o path3d, kMap3DPointBudget)
           e == IF replace \/ total > p.total THEN total ELSE p.total
<1>1. p = [path |-> p.path, path3d |-> p.path3d, total |-> p.total, trail |-> p.trail,
           exact |-> p.exact] /\ p.total \in Nat
  BY DEF IsPage
<1>2. q = [p EXCEPT !.path = c, !.path3d = d, !.total = e, !.trail = e, !.exact = NoPoint]
  BY DEF addPoints
<1>3. e \in Nat /\ e >= total
  BY <1>1
<1>4. /\ replace => /\ c = capped(<<>> \o path, kMap2DPointBudget)
                    /\ d = capped(<<>> \o path3d, kMap3DPointBudget)
      /\ ~replace => /\ c = capped(p.path \o path, kMap2DPointBudget)
                     /\ d = capped(p.path3d \o path3d, kMap3DPointBudget)
  OBVIOUS
<1> HIDE DEF c, d, e
<1>5. q = [path |-> c, path3d |-> d, total |-> e, trail |-> e, exact |-> NoPoint]
  BY <1>1, <1>2
<1>6. q.path = c /\ q.path3d = d /\ q.total = e /\ q.trail = e
  BY <1>5
<1>7. IsPage(q)
  BY <1>3, <1>5, <1>6 DEF IsPage
<1> QED BY <1>3, <1>4, <1>6, <1>7

\* sendPendingLiveSamples: afterwards all of the history is drawn.
LEMMA LiveKeeps ==
    ASSUME NEW s, PInv(s.map, s.page), s.map.mapReady, ~s.map.clearPending, ~s.map.sessionPending
    PROVE  /\ Flushed(sendPendingLiveSamples(s), s)
           /\ ~sendPendingLiveSamples(s).map.sessionPending
<1> DEFINE m == s.map
           p == s.page
           rows == m.samples
           traj == m.trajectory
           unsent == AtPlaces(rows, {k \in DOMAIN rows : rows[k].sampleIndex > m.lastPublished})
           replace == m.snapshotPending \/ m.published3D + Len(unsent) > kMap3DPointBudget
           few == capped(rows, kLive3DCompactTarget)
           path == Points(IF replace THEN rows ELSE unsent, traj)
           path3d == Points(IF replace THEN few ELSE unsent, traj)
           globe == Len(path3d) + (IF replace THEN 0 ELSE m.published3D)
           n == [m EXCEPT !.lastPublished = m.total - 1, !.snapshotPending = FALSE,
                          !.published3D = globe, !.liveUpdatePending = FALSE]
           q == addPoints(p, [replace |-> replace, total |-> m.total,
                              path |-> path, path3d |-> path3d])
           t == sendPendingLiveSamples(s)
<1>1. m \in Widgets /\ Loaded(m, p) /\ IsPage(p)
  BY DEF PInv
<1>2. CASE m.session # NoSession \/ ~m.liveUpdatePending
  BY <1>2 DEF sendPendingLiveSamples, Flushed
<1>3. CASE ~(m.session # NoSession \/ ~m.liveUpdatePending)
  <2>1. t = [map |-> n, page |-> q]
    BY <1>1, <1>3 DEF sendPendingLiveSamples, Widgets
  <2>2. t.map = n /\ t.page = q
    BY <2>1
  <2>3. PInv(m, p) /\ m.mapReady /\ ~m.clearPending /\ ~m.sessionPending /\ m.session = NoSession
    BY <1>3
  <2>4. /\ Len(rows) \in Nat /\ DOMAIN rows = 1 .. Len(rows) /\ rows \in Seq(Rows)
        /\ \A k \in 1 .. Len(rows) : rows[k].sampleIndex \in Nat
        /\ m.total \in Nat /\ m.lastPublished \in Int /\ m.published3D \in Nat
    BY <1>1, Members
  <2>5. replace \in BOOLEAN
    <3>1. m.snapshotPending \in BOOLEAN
      BY <1>1 DEF Widgets
    <3> QED BY <3>1
  <2>6. /\ replace => path = Points(rows, traj) /\ path3d = Points(few, traj)
        /\ ~replace => path = Points(unsent, traj) /\ path3d = Points(unsent, traj)
        /\ replace => globe = Len(path3d) + 0
        /\ ~replace => globe = Len(path3d) + m.published3D
        /\ ~replace => ~m.snapshotPending /\ ~(m.published3D + Len(unsent) > kMap3DPointBudget)
    OBVIOUS
  <2> HIDE DEF replace, path, path3d, globe, few, unsent
  <2>7. /\ IsPage(q) /\ q.total >= m.total /\ q.trail = q.total
        /\ replace => /\ q.path = capped(<<>> \o path, kMap2DPointBudget)
                      /\ q.path3d = capped(<<>> \o path3d, kMap3DPointBudget)
        /\ ~replace => /\ q.path = capped(p.path \o path, kMap2DPointBudget)
                       /\ q.path3d = capped(p.path3d \o path3d, kMap3DPointBudget)
    <3> HIDE DEF m, p, q
    <3>1. q = addPoints(p, [replace |-> replace, total |-> m.total,
                            path |-> path, path3d |-> path3d])
      BY DEF q
    <3> QED BY <1>1, <2>4, <2>5, <3>1, PointsAdded
  <2> HIDE DEF m, p, q, n, t
  <2>8. Lived(m, p) /\ Behind(m, p) = p
    BY <2>3 DEF PInv, Behind
  <2>9. /\ History(rows, traj, m.total, m.received)
        /\ Len(rows) <= kMap2DPointBudget
        /\ ~m.snapshotPending =>
              \E k \in 0 .. Len(rows) :
                  /\ \A j \in DOMAIN rows : rows[j].sampleIndex <= m.lastPublished <=> j <= k
                  /\ Draws(p, rows, k, traj, m.published3D)
    BY <2>8 DEF Lived
  <2> HIDE DEF rows, traj
  <2>10. Drawable(rows) /\ \A k \in 1 .. Len(rows) : rows[k].sampleIndex < m.total
    BY <2>4, <2>9 DEF History, Drawable
  <2>11. /\ Draws(q, rows, Len(rows), traj, globe)
         /\ rows = <<>> => q.path = <<>> /\ q.path3d = <<>> /\ globe = 0
         /\ globe \in Nat
    <3>1. CASE replace
      <4> DEFINE g == Len(Points(few, traj))
      <4>1. /\ q.path = capped(<<>> \o Points(rows, traj), kMap2DPointBudget)
            /\ q.path3d = capped(<<>> \o Points(few, traj), kMap3DPointBudget)
            /\ globe = g + 0
        BY <3>1, <2>6, <2>7
      <4>2. /\ Draws(q, rows, Len(rows), traj, g)
            /\ rows = <<>> => q.path = <<>> /\ q.path3d = <<>> /\ g = 0
            /\ g \in Nat
        <5>1. few = capped(rows, kLive3DCompactTarget)
          BY DEF few
        <5> QED BY <4>1, <5>1, <2>4, <2>9, <2>10, DrawsAll
      <4> HIDE DEF g
      <4>3. globe = g
        BY <4>1, <4>2
      <4> QED BY <4>2, <4>3
    <3>2. CASE ~replace
      <4> DEFINE g == Len(Points(unsent, traj)) + m.published3D
      <4>1. /\ q.path = capped(p.path \o Points(unsent, traj), kMap2DPointBudget)
            /\ q.path3d = capped(p.path3d \o Points(unsent, traj), kMap3DPointBudget)
            /\ globe = g /\ ~m.snapshotPending
            /\ ~(m.published3D + Len(unsent) > kMap3DPointBudget)
        BY <3>2, <2>6, <2>7
      <4>2. PICK k \in 0 .. Len(rows) :
                  /\ \A j \in DOMAIN rows : rows[j].sampleIndex <= m.lastPublished <=> j <= k
                  /\ Draws(p, rows, k, traj, m.published3D)
        BY <4>1, <2>9
      <4>3. unsent = AtPlaces(rows, {j \in DOMAIN rows : k < j})
        <5>1. \A j \in DOMAIN rows : rows[j].sampleIndex > m.lastPublished <=> k < j
          BY <4>2, <2>4
        <5>2. {j \in DOMAIN rows : rows[j].sampleIndex > m.lastPublished} =
              {j \in DOMAIN rows : k < j}
          BY <5>1
        <5> QED BY <5>2 DEF unsent
      <4>4. m.published3D + Len(unsent) <= kMap3DPointBudget
        <5>1. Len(unsent) \in Nat
          <6>1. Len(unsent) = Len(rows) - k
            BY <4>3, <2>4, RowsAfter
          <6> QED BY <6>1, <2>4
        <5> QED BY <5>1, <4>1, <2>4, MapAssumption
      <4>5. /\ Draws(q, rows, Len(rows), traj, g)
            /\ rows = <<>> => q.path = <<>> /\ q.path3d = <<>> /\ g = 0
            /\ g \in Nat
        <5> HIDE DEF g
        <5>1. k \in 0 .. Len(rows) /\ Draws(p, rows, k, traj, m.published3D)
          BY <4>2
        <5>2. g = Len(Points(unsent, traj)) + m.published3D
          BY DEF g
        <5>3. m.published3D \in Nat /\ rows \in Seq(Rows) /\ Len(rows) <= kMap2DPointBudget
          BY <2>4, <2>9
        <5>4. DrawnWhole(q, rows, traj, g)
          BY <5>1, <5>2, <5>3, <4>1, <4>3, <4>4, <2>10, DrawsMore
        <5> QED BY <5>4 DEF DrawnWhole
      <4> QED BY <4>1, <4>5
    <3> QED BY <3>1, <3>2
  <2>12. m.total - 1 \in Int /\ m.total - 1 < m.total
    BY <2>4
  <2>13. n \in Widgets
    BY <1>1, <2>11, <2>12 DEF Widgets, n
  <2>14. /\ n.session = m.session /\ n.samples = rows /\ n.trajectory = traj
         /\ n.total = m.total /\ n.received = m.received
         /\ n.lastPublished = m.total - 1 /\ n.published3D = globe
         /\ n.liveUpdatePending = FALSE /\ n.snapshotPending = FALSE
         /\ n.sessionPending = m.sessionPending /\ n.trailPending = m.trailPending
         /\ n.mapReady = m.mapReady /\ n.attempt = m.attempt /\ n.watchdog = m.watchdog
         /\ n.error = m.error /\ n.clearPending = m.clearPending
    BY <1>1 DEF Widgets, n, rows, traj
  <2>15. Loaded(n, q)
    BY <1>1, <2>3, <2>14 DEF Loaded
  <2>16. \E k \in 0 .. Len(rows) :
            /\ \A j \in DOMAIN rows : rows[j].sampleIndex <= m.total - 1 <=> j <= k
            /\ Draws(q, rows, k, traj, globe)
    <3>1. \A j \in DOMAIN rows : rows[j].sampleIndex <= m.total - 1 <=> j <= Len(rows)
      BY <2>4, <2>10
    <3>2. Len(rows) \in 0 .. Len(rows)
      BY <2>4
    <3> QED BY <3>1, <3>2, <2>11
  <2>17. Behind(n, q) = q
    BY <2>3, <2>14 DEF Behind
  <2>18. Lived(n, q)
    BY <2>7, <2>9, <2>11, <2>12, <2>14, <2>16, <2>17 DEF Lived
  <2>19. PInv(n, q)
    BY <2>3, <2>7, <2>13, <2>14, <2>15, <2>18 DEF PInv
  <2> QED BY <2>2, <2>3, <2>14, <2>19 DEF Flushed, m, t, rows, traj
<1> QED BY <1>2, <1>3

\* flushPendingUpdates, its parts in their order.
LEMMA MapFlushKeeps ==
    ASSUME NEW m, PInv(m, page), m.mapReady, Flush(m)
    PROVE  /\ PInv(map', page')
           /\ map'.samples = m.samples /\ map'.trajectory = m.trajectory
           /\ map'.received = m.received
<1> DEFINE s == [map |-> m, page |-> page]
           cleared == Cleared(s)
           told == sendPendingSession(cleared)
           fed == sendPendingLiveSamples(told)
           trailed == sendPendingTrailLength(fed)
<1>1. map' = trailed.map /\ page' = trailed.page
  BY DEF Flush
<1>2. s.map = m /\ s.page = page
  OBVIOUS
<1> HIDE DEF s, cleared, told, fed, trailed
<1>3. Flushed(cleared, s) /\ ~cleared.map.clearPending
  BY <1>2, ClearedKeeps DEF cleared
<1>4. Flushed(told, cleared) /\ ~told.map.clearPending /\ ~told.map.sessionPending
  BY <1>3, SessionKeeps DEF told, Flushed
<1>5. Flushed(fed, told) /\ ~fed.map.sessionPending
  BY <1>4, LiveKeeps DEF fed, Flushed
<1>6. Flushed(trailed, fed)
  BY <1>5, TrailSentKeeps DEF trailed, Flushed
<1> QED BY <1>1, <1>2, <1>3, <1>4, <1>5, <1>6 DEF Flushed

\* The update timer.
LEMMA MapUpdateKeeps ==
    ASSUME MapInv, UpdateTimeout
    PROVE  /\ PInv(map', page')
           /\ map'.samples = map.samples /\ map'.trajectory = map.trajectory
           /\ map'.received = map.received
<1> DEFINE m == [map EXCEPT !.updateTimer = FALSE]
<1>1. map \in Widgets /\ PInv(map, page)
  BY DEF MapInv, PInv
<1>2. /\ m = [map EXCEPT !.visible = map.visible, !.updateTimer = FALSE, !.watchdog = map.watchdog]
      /\ map.visible \in BOOLEAN /\ map.watchdog \in BOOLEAN
      /\ m.mapReady = map.mapReady /\ m.samples = map.samples /\ m.trajectory = map.trajectory
      /\ m.received = map.received
  BY <1>1 DEF Widgets
<1>3. PInv(m, page)
  BY <1>1, <1>2, SeenKeeps
<1>4. CASE Active(map)
  <2>1. Flush(m) /\ m.mapReady
    BY <1>2, <1>4 DEF UpdateTimeout, Active
  <2> HIDE DEF m
  <2> QED BY <1>2, <1>3, <2>1, MapFlushKeeps
<1>5. CASE ~Active(map)
  <2>1. map' = m /\ page' = page
    BY <1>5 DEF UpdateTimeout
  <2> HIDE DEF m
  <2> QED BY <1>2, <1>3, <2>1
<1> QED BY <1>4, <1>5

\* The widget and its page before the first event.
LEMMA MapStarts == ASSUME MapInit PROVE MapInv
<1>1. page = Nothing
  BY DEF MapInit
<1>2. Untravelled \in Tracks /\ NoSession \in Sessions
  BY NotTravelled DEF Tracks, Sessions
<1>3. -1 \in Int /\ 0 \in Nat /\ <<>> \in Seq(Rows) /\ TRUE \in BOOLEAN /\ FALSE \in BOOLEAN
  OBVIOUS
<1>4. map \in Widgets
  BY <1>2, <1>3 DEF MapInit, Widgets
<1>5. /\ map.session = NoSession /\ map.samples = <<>> /\ map.trajectory = Untravelled
      /\ map.total = 0 /\ map.received = 0 /\ map.snapshotPending = TRUE
      /\ map.sessionPending = FALSE /\ map.trailPending = FALSE /\ map.clearPending = FALSE
      /\ map.lastPublished = -1 /\ map.published3D = 0 /\ map.mapReady = FALSE
      /\ map.attempt = FALSE /\ map.error = FALSE /\ map.watchdog = FALSE
  BY DEF MapInit
<1>6. Loaded(map, Nothing)
  BY <1>5 DEF Loaded
<1>7. Behind(map, Nothing) = Nothing /\ Nothing.path = <<>> /\ Nothing.path3d = <<>>
      /\ Nothing.total = 0 /\ Nothing.trail = 0 /\ IsPage(Nothing)
  BY <1>5 DEF Behind, Nothing, IsPage
<1>8. 0 <= kMap2DPointBudget /\ Len(<<>>) = 0 /\ -1 < 0 /\ 0 >= 0
  BY MapAssumption
<1>9. Lived(map, Nothing)
  BY <1>5, <1>7, <1>8, NotTravelled DEF Lived
<1> QED BY <1>1, <1>4, <1>5, <1>6, <1>7, <1>9 DEF MapInv, PInv

\* The widget and the page of Map3DWidget and map3d.js agree on what is drawn and on
\* what still waits: the rows published up to lastPublished are drawn, each where the
\* trajectory now places it, or the whole history waits to be published again.
THEOREM MapInvariant == MapSpec => []MapInv
<1>1. MapInit => MapInv
  BY MapStarts
<1>2. MapInv /\ [MapNext]_mapVars => MapInv'
  <2> SUFFICES ASSUME MapInv, [MapNext]_mapVars PROVE PInv(map', page')
      BY DEF MapInv
  <2>1. CASE showEvent
    BY <2>1, ShowKeeps
  <2>2. CASE hideEvent
    BY <2>2, HideKeeps
  <2>3. CASE Retry
    BY <2>3, RetryKeeps
  <2>4. CASE LoadFinishes
    <3>1. PICK succeeded \in BOOLEAN : onMapLoadFinished(succeeded)
      BY <2>4 DEF LoadFinishes
    <3>2. page' = page
      BY <2>4 DEF LoadFinishes
    <3> QED BY <3>1, <3>2, LoadFinishedKeeps
  <2>5. CASE OldLoadFinishes
    <3>1. onMapLoadFinished(FALSE) /\ page' = page
      BY <2>5 DEF OldLoadFinishes
    <3> QED BY <3>1, LoadFinishedKeeps
  <2>6. CASE MapReady
    BY <2>6, ReadyKeeps
  <2>7. CASE ReadyTimeout
    BY <2>7, TimeoutKeeps
  <2>8. CASE UpdateTimeout
    BY <2>8, MapUpdateKeeps
  <2>9. CASE onSampleUpdated
    BY <2>9, MapSampleKeeps
  <2>10. CASE setReplaySession
    BY <2>10, ReplayKeeps
  <2>11. CASE onSessionReset
    BY <2>11, MapResetKeeps
  <2>12. CASE setReplayTrailLength
    BY <2>12, TrailKeeps
  <2>13. CASE UNCHANGED mapVars
    <3>1. map' = map /\ page' = page
      BY <2>13 DEF mapVars
    <3> QED BY <3>1 DEF MapInv
  <2> QED BY <2>1, <2>2, <2>3, <2>4, <2>5, <2>6, <2>7, <2>8, <2>9, <2>10, <2>11, <2>12, <2>13
             DEF MapNext
<1> QED BY <1>1, <1>2, PTL DEF MapSpec

\* What does not wait is drawn.
LEMMA MapShows == ASSUME MapInv PROVE PageShowsTheFlight
<1> SUFFICES ASSUME map.mapReady, ~Pending(map)
             PROVE  IF map.session = NoSession
                    THEN LET drawn == Points(map.samples, map.trajectory)
                         IN  /\ page.path = drawn
                             /\ page.total >= map.total /\ page.trail = page.total
                             /\ Len(page.path3d) <= kMap3DPointBudget
                             /\ IsSubsequence(page.path3d, drawn)
                             /\ drawn # <<>> => page.path3d # <<>>
                             /\ \A k \in DOMAIN drawn : drawn[k].idx < page.trail
                    ELSE /\ page.path = SessionPayload(map).path
                         /\ page.path3d = SessionPayload(map).path3d
                         /\ page.trail = map.trail /\ page.exact = TrailPoint(map)
    BY DEF PageShowsTheFlight
<1>1. map \in Widgets /\ IsPage(page)
  BY DEF MapInv, PInv
<1>2. CASE map.session # NoSession
  <2>1. Replayed(map, page) /\ ~map.sessionPending /\ ~map.trailPending
    BY <1>2 DEF MapInv, PInv, Pending
  <2> QED BY <2>1, <1>2 DEF Replayed
<1>3. CASE map.session = NoSession
  <2> DEFINE rows == map.samples
             traj == map.trajectory
             n == Len(rows)
             drawn == Points(rows, traj)
  <2>1. Lived(map, page) /\ ~map.clearPending /\ ~map.liveUpdatePending
    BY <1>3 DEF MapInv, PInv, Pending
  <2>2. Behind(map, page) = page
    BY <2>1 DEF Behind
  <2>3. /\ History(rows, traj, map.total, map.received)
        /\ page.trail = page.total /\ page.total >= map.total
        /\ rows = <<>> \/ (~map.snapshotPending /\ map.lastPublished = map.total - 1)
        /\ rows = <<>> => page.path = <<>> /\ page.path3d = <<>>
        /\ ~map.snapshotPending =>
              \E k \in 0 .. n :
                  /\ \A j \in DOMAIN rows : rows[j].sampleIndex <= map.lastPublished <=> j <= k
                  /\ Draws(page, rows, k, traj, map.published3D)
    BY <2>1, <2>2 DEF Lived
  <2>4. /\ n \in Nat /\ DOMAIN rows = 1 .. n /\ rows \in Seq(Rows)
        /\ map.total \in Nat /\ page.total \in Nat
        /\ \A k \in 1 .. n : rows[k].sampleIndex \in Nat
    BY <1>1, Members DEF IsPage
  <2> HIDE DEF rows, traj
  <2>5. /\ \A k \in 1 .. n : isUsableMapPoint(rows[k].sample) /\ rows[k].sampleIndex < map.total
    BY <2>3, <2>4 DEF History
  <2>6. drawn = [k \in 1 .. n |-> Dot(rows[k], traj)] /\ Len(drawn) = n
    BY <2>4, <2>5, PointsAre
  <2> HIDE DEF drawn
  <2>7. \A k \in DOMAIN drawn : drawn[k].idx < page.trail
    <3> SUFFICES ASSUME NEW k \in 1 .. n PROVE drawn[k].idx < page.trail
        BY <2>6
    <3>1. drawn[k].idx = rows[k].sampleIndex
      BY <2>6, DotIndex
    <3> QED BY <3>1, <2>3, <2>4, <2>5
  <2>8. /\ page.path = drawn /\ Len(page.path3d) <= kMap3DPointBudget
        /\ IsSubsequence(page.path3d, drawn)
        /\ drawn # <<>> => page.path3d # <<>>
    <3>1. CASE rows = <<>>
      <4>1. n = 0 /\ page.path = <<>> /\ page.path3d = <<>>
        BY <3>1, <2>3 DEF n
      <4>2. drawn = <<>>
        <5>1. drawn \in Seq({Dot(rows[k], traj) : k \in 1 .. n})
          BY <2>4, <2>5, PointsAre DEF drawn
        <5> QED BY <5>1, <4>1, <2>6, NoElement
      <4>3. Len(<<>>) <= kMap3DPointBudget /\ DOMAIN <<>> = {}
        BY MapAssumption
      <4> QED BY <4>1, <4>2, <4>3 DEF IsSubsequence
    <3>2. CASE rows # <<>>
      <4>1. ~map.snapshotPending /\ map.lastPublished = map.total - 1
        BY <3>2, <2>3
      <4>2. PICK k \in 0 .. n :
                  /\ \A j \in DOMAIN rows : rows[j].sampleIndex <= map.lastPublished <=> j <= k
                  /\ Draws(page, rows, k, traj, map.published3D)
        BY <4>1, <2>3
      <4>3. k = n
        <5>1. \A j \in 1 .. n : j <= k
          BY <4>1, <4>2, <2>4, <2>5
        <5> HIDE DEF n
        <5>2. n # 0 => n \in 1 .. n
          BY <2>4
        <5> QED BY <5>1, <5>2, <4>2, <2>4
      <4>4. /\ page.path = drawn
            /\ page.path3d \in Seq({Dot(rows[j], traj) : j \in 1 .. n})
            /\ Len(page.path3d) <= kMap3DPointBudget
            /\ \A i, j \in DOMAIN page.path3d : i < j => page.path3d[i].idx < page.path3d[j].idx
            /\ n > 0 => page.path3d # <<>>
        BY <4>2, <4>3, <2>6 DEF Draws
      <4>5. \A i \in DOMAIN page.path3d : \E j \in DOMAIN drawn : drawn[j] = page.path3d[i]
        <5> SUFFICES ASSUME NEW i \in DOMAIN page.path3d
                     PROVE  \E j \in DOMAIN drawn : drawn[j] = page.path3d[i]
            OBVIOUS
        <5>1. page.path3d[i] \in {Dot(rows[j], traj) : j \in 1 .. n}
          BY <4>4
        <5> QED BY <5>1, <2>6
      <4>6. n > 0
        <5>1. n # 0
          BY <3>2, <2>4, NoElement DEF n
        <5> QED BY <5>1, <2>4
      <4> QED BY <4>4, <4>5, <4>6 DEF IsSubsequence
    <3> QED BY <3>1, <3>2
  <2>9. LET all == drawn
        IN  /\ page.path = all
            /\ page.total >= map.total /\ page.trail = page.total
            /\ Len(page.path3d) <= kMap3DPointBudget
            /\ IsSubsequence(page.path3d, all)
            /\ all # <<>> => page.path3d # <<>>
            /\ \A k \in DOMAIN all : all[k].idx < page.trail
    BY <2>3, <2>7, <2>8
  <2> QED BY <2>9, <1>3 DEF drawn, rows, traj
<1> QED BY <1>2, <1>3

\* Map3DWidget and map3d.js: once nothing waits to be published, the page draws the
\* flight the widget has and no other, for every number of points the maps can draw,
\* every index at which a history is counted anew and every flight.
THEOREM MapsShowTheFlight == MapSpec => []PageShowsTheFlight
<1>1. MapInv => PageShowsTheFlight
  BY MapShows
<1> QED BY <1>1, MapInvariant, PTL

\* Of two rows of the live history only one holds a sample: the clock goes on.
LEMMA OneRow ==
    ASSUME NEW m \in Widgets, History(m.samples, m.trajectory, m.total, m.received),
           NEW i \in DOMAIN m.samples, NEW j \in DOMAIN m.samples,
           m.samples[i].sample = m.samples[j].sample
    PROVE  i = j
<1> DEFINE rows == m.samples
<1>1. /\ Len(rows) \in Nat /\ DOMAIN rows = 1 .. Len(rows)
      /\ \A k \in DOMAIN rows : rows[k].sample.timestamp \in Int
  BY Members
<1>2. \A k, l \in DOMAIN rows : k < l => rows[k].sample.timestamp < rows[l].sample.timestamp
  BY DEF History
<1> HIDE DEF rows
<1>3. i \in DOMAIN rows /\ j \in DOMAIN rows /\ i \in 1 .. Len(rows) /\ j \in 1 .. Len(rows)
  BY <1>1 DEF rows
<1>4. rows[i].sample.timestamp = rows[j].sample.timestamp
  BY DEF rows
<1>5. ~(i < j) /\ ~(j < i)
  BY <1>1, <1>2, <1>3, <1>4
<1> QED BY <1>1, <1>3, <1>5

\* A sample of two histories stays where it was drawn.
Stays(n, m) ==
    \A i \in DOMAIN m.samples, j \in DOMAIN n.samples :
        /\ m.samples[i].sample = n.samples[j].sample
        /\ Drawn(m, m.samples[i]) # m.samples[i].sample.place
        => Drawn(n, n.samples[j]) = Drawn(m, m.samples[i])

\* A history without samples.
LEMMA NothingStays == ASSUME NEW n, NEW m, n.samples = <<>> \/ m.samples = <<>> PROVE Stays(n, m)
<1>1. DOMAIN <<>> = {}
  OBVIOUS
<1> QED BY <1>1 DEF Stays

Untouched(n, m) == n.samples = m.samples /\ n.trajectory = m.trajectory

\* The same history.
LEMMA UntouchedStays ==
    ASSUME NEW m, NEW p, PInv(m, p), NEW n, Untouched(n, m)
    PROVE  Stays(n, m)
<1>1. CASE m.session # NoSession
  BY <1>1, NothingStays DEF PInv, Replayed
<1>2. CASE m.session = NoSession
  <2>1. m \in Widgets /\ History(m.samples, m.trajectory, m.total, m.received)
    BY <1>2 DEF PInv, Lived
  <2>2. n.samples = m.samples /\ n.trajectory = m.trajectory
    BY DEF Untouched
  <2>3. \A row : Drawn(n, row) = Drawn(m, row)
    BY <2>2 DEF Drawn
  <2>4. \A i, j \in DOMAIN m.samples : m.samples[i].sample = m.samples[j].sample => i = j
    BY <2>1, OneRow
  <2> QED BY <2>2, <2>3, <2>4 DEF Stays
<1> QED BY <1>1, <1>2

\* A history with a sample more, perhaps thinned or counted anew.
LEMMA DescendantsStay ==
    ASSUME NEW m \in Widgets, History(m.samples, m.trajectory, m.total, m.received),
           NEW n \in Widgets, Descends(n, m)
    PROVE  Stays(n, m)
<1> SUFFICES ASSUME NEW i \in DOMAIN m.samples, NEW j \in DOMAIN n.samples,
                    m.samples[i].sample = n.samples[j].sample,
                    Drawn(m, m.samples[i]) # m.samples[i].sample.place
             PROVE  Drawn(n, n.samples[j]) = Drawn(m, m.samples[i])
    BY DEF Stays
<1>1. /\ DOMAIN m.samples = 1 .. Len(m.samples) /\ DOMAIN n.samples = 1 .. Len(n.samples)
      /\ m.received \in Nat /\ m.samples[i].sample.timestamp \in Int
  BY Members
<1>2. m.samples[i].sample.timestamp <= m.received
  BY DEF History
<1>3. n.samples[j].sample.timestamp # m.received + 1
  BY <1>1, <1>2
<1>4. PICK k \in 1 .. Len(m.samples) :
          /\ n.samples[j].sample = m.samples[k].sample
          /\ Drawn(m, m.samples[k]) # m.samples[k].sample.place =>
                Drawn(n, n.samples[j]) = Drawn(m, m.samples[k])
  BY <1>1, <1>3 DEF Descends
<1>5. k = i
  BY <1>1, <1>4, OneRow
<1> QED BY <1>4, <1>5

\* onSampleUpdated moves no sample between two measured places.
LEMMA SampleStays == ASSUME MapInv, onSampleUpdated PROVE Stays(map', map)
<1>1. PInv(map, page) /\ map \in Widgets /\ map.received < Len(Sky)
  BY DEF MapInv, PInv, onSampleUpdated
<1>2. PICK place \in Sky[map.received + 1] :
          map' = IF map.session # NoSession THEN map ELSE Received(map, Arriving(map, place))
  BY DEF onSampleUpdated, Arriving
<1>3. CASE map.session # NoSession
  <2>1. map' = map
    BY <1>2, <1>3
  <2>2. Untouched(map', map)
    BY <2>1 DEF Untouched
  <2> QED BY <1>1, <2>2, UntouchedStays
<1>4. CASE map.session = NoSession
  <2> DEFINE sample == Arriving(map, place)
             n == Received(map, sample)
  <2>1. sample \in Samples /\ sample.timestamp = map.received + 1
    BY <1>1, <1>2, NextSample
  <2>2. map' = n
    BY <1>2, <1>4
  <2> HIDE DEF sample
  <2>3. /\ History(map.samples, map.trajectory, map.total, map.received)
        /\ map.lastPublished < map.total /\ Len(map.samples) <= kMap2DPointBudget
    BY <1>1, <1>4 DEF PInv, Lived
  <2>4. n \in Widgets /\ Descends(n, map)
    BY <1>1, <2>1, <2>3, SampleReceived
  <2> HIDE DEF n
  <2> QED BY <1>1, <2>2, <2>3, <2>4, DescendantsStay
<1> QED BY <1>3, <1>4

\* What a step of the page or of the user does not touch.
LEMMA ScheduledUntouched == ASSUME NEW m \in Widgets PROVE Untouched(scheduleMapUpdate(m), m)
  BY DEF scheduleMapUpdate, Untouched, Widgets

\* Neither does a load, nor its failure,
LEMMA LoadingUntouched ==
    ASSUME NEW m \in Widgets
    PROVE  Untouched(Loading(m), m) /\ Untouched(showMapLoadError(m), m)
  BY DEF Loading, showMapLoadError, Untouched, Widgets

\* nor showEvent in its last part
LEMMA ShownUntouched == ASSUME NEW m \in Widgets PROVE Untouched(Shown1(m), m)
<1> DEFINE a == m.samples # <<>>
           b == m.liveUpdatePending \/ m.total > 0
           n == [m EXCEPT !.snapshotPending = a, !.liveUpdatePending = b]
<1>1. Shown1(m) = IF m.mapReady THEN scheduleMapUpdate(n) ELSE n
  BY DEF Shown1, Widgets
<1>2. a \in BOOLEAN /\ b \in BOOLEAN
  OBVIOUS
<1> HIDE DEF a, b
<1>3. n \in Widgets /\ Untouched(n, m)
  BY <1>2 DEF Widgets, Untouched
<1> HIDE DEF n
<1>4. Untouched(scheduleMapUpdate(n), n)
  BY <1>3, ScheduledUntouched
<1> QED BY <1>1, <1>3, <1>4 DEF Untouched

\* or as a whole,
LEMMA ShowUntouched == ASSUME MapInv, showEvent PROVE Untouched(map', map)
<1> DEFINE m == [map EXCEPT !.visible = TRUE]
           w == m.watchdog \/ ~m.mapReady
           n == [m EXCEPT !.watchdog = w]
           l == Loading(m)
<1>1. map \in Widgets
  BY DEF MapInv, PInv
<1>2. m \in Widgets /\ Untouched(m, map)
  BY <1>1 DEF Widgets, Untouched
<1>3. map' = Shown1(l) \/ map' = Shown1(n)
  BY DEF showEvent
<1> HIDE DEF m
<1>4. n \in Widgets /\ Untouched(n, m)
  <2>1. w \in BOOLEAN
    OBVIOUS
  <2> HIDE DEF w
  <2> QED BY <1>2, <2>1 DEF Widgets, Untouched
<1>5. l \in Widgets /\ Untouched(l, m)
  BY <1>2, LoadingTyped, LoadingUntouched
<1> HIDE DEF n, l
<1>6. Untouched(Shown1(l), l) /\ Untouched(Shown1(n), n)
  BY <1>4, <1>5, ShownUntouched
<1> QED BY <1>2, <1>3, <1>4, <1>5, <1>6 DEF Untouched

\* nor onMapReady,
LEMMA ReadyUntouched == ASSUME MapInv, MapReady PROVE Untouched(map', map)
<1> DEFINE m == [map EXCEPT !.watchdog = FALSE]
           a == m.samples # <<>>
           b == m.total > 0
           n == [m EXCEPT !.attempt = FALSE, !.mapReady = TRUE, !.snapshotPending = a,
                          !.liveUpdatePending = b]
<1>1. map \in Widgets
  BY DEF MapInv, PInv
<1>2. map' = m \/ map' = scheduleMapUpdate(n)
  BY DEF MapReady
<1>3. m \in Widgets /\ Untouched(m, map)
  BY <1>1 DEF Widgets, Untouched
<1> HIDE DEF m
<1>4. a \in BOOLEAN /\ b \in BOOLEAN
  OBVIOUS
<1> HIDE DEF a, b
<1>5. n \in Widgets /\ Untouched(n, m)
  BY <1>3, <1>4 DEF Widgets, Untouched
<1> HIDE DEF n
<1>6. Untouched(scheduleMapUpdate(n), n)
  BY <1>5, ScheduledUntouched
<1> QED BY <1>2, <1>3, <1>5, <1>6 DEF Untouched

\* nor onMapLoadFinished.
LEMMA LoadFinishedUntouched ==
    ASSUME MapInv, NEW succeeded \in BOOLEAN, onMapLoadFinished(succeeded)
    PROVE  Untouched(map', map)
<1> DEFINE w == map.watchdog \/ (~map.mapReady /\ map.visible)
           n == [map EXCEPT !.watchdog = w]
<1>1. map \in Widgets
  BY DEF MapInv, PInv
<1>2. map' = map \/ map' = showMapLoadError(map) \/ map' = n
  BY DEF onMapLoadFinished
<1>3. Untouched(n, map)
  <2> HIDE DEF w
  <2> QED BY <1>1 DEF Widgets, Untouched
<1>4. Untouched(showMapLoadError(map), map)
  BY <1>1, LoadingUntouched
<1> QED BY <1>2, <1>3, <1>4 DEF Untouched

\* setReplaySession and onSessionReset leave no live sample.
LEMMA EmptiedStays == ASSUME MapInv, setReplaySession \/ onSessionReset PROVE map'.samples = <<>>
<1>1. map \in Widgets
  BY DEF MapInv, PInv
<1>2. \A n \in Widgets : scheduleMapUpdate(n).samples = n.samples
  BY ScheduledUntouched DEF Untouched
<1>3. CASE setReplaySession
  <2>1. MapInv /\ setReplaySession
    BY <1>3
  <2>2. PInv(map', page')
    BY <2>1, ReplayKeeps
  <2>3. map'.session # NoSession
    <3>1. PICK flight \in DOMAIN Recordings, preview \in BOOLEAN :
          map' = scheduleMapUpdate(
                     [NoLive(map) EXCEPT !.session = flight, !.preview = preview,
                         !.trajectory = IF preview THEN @ ELSE RecordedTrack(flight),
                         !.liveUpdatePending = FALSE, !.snapshotPending = TRUE,
                         !.clearPending = FALSE, !.sessionPending = TRUE,
                         !.trail = Len(Recordings[flight]), !.trailPending = TRUE])
      BY <1>3 DEF setReplaySession
    <3>2. map'.session = flight
      BY <1>1, <3>1 DEF scheduleMapUpdate, NoLive, Widgets
    <3> QED BY <3>2, MapAssumption
  <2> QED BY <2>2, <2>3 DEF PInv, Replayed
<1>4. CASE onSessionReset
  <2>1. map' = scheduleMapUpdate(
                  [NoLive(map) EXCEPT !.session = NoSession, !.preview = FALSE,
                      !.liveUpdatePending = FALSE, !.snapshotPending = TRUE,
                      !.sessionPending = FALSE, !.trailPending = FALSE, !.clearPending = TRUE])
    BY <1>4 DEF onSessionReset
  <2> QED BY <1>1, <2>1 DEF scheduleMapUpdate, NoLive, Widgets
<1> QED BY <1>3, <1>4

\* No step moves a sample between two measured places.
LEMMA StepStays == ASSUME MapInv, [MapNext]_mapVars PROVE Stays(map', map)
<1>1. map \in Widgets /\ PInv(map, page)
  BY DEF MapInv, PInv
<1>2. CASE onSampleUpdated
  BY <1>2, SampleStays
<1>3. CASE setReplaySession \/ onSessionReset
  BY <1>3, EmptiedStays, NothingStays
<1>4. ASSUME showEvent \/ hideEvent \/ Retry \/ LoadFinishes \/ OldLoadFinishes \/ MapReady
             \/ ReadyTimeout \/ UpdateTimeout \/ setReplayTrailLength \/ UNCHANGED mapVars
      PROVE  Untouched(map', map)
  <2>1. CASE showEvent
    BY <2>1, ShowUntouched
  <2>2. CASE hideEvent
    <3>1. map' = [map EXCEPT !.visible = FALSE, !.updateTimer = FALSE, !.watchdog = FALSE]
      BY <2>2 DEF hideEvent
    <3> QED BY <1>1, <3>1 DEF Widgets, Untouched
  <2>3. CASE Retry
    <3>1. map' = Loading(map)
      BY <2>3 DEF Retry
    <3> QED BY <1>1, <3>1, LoadingUntouched
  <2>4. CASE LoadFinishes
    <3>1. PICK succeeded \in BOOLEAN : onMapLoadFinished(succeeded)
      BY <2>4 DEF LoadFinishes
    <3> QED BY <3>1, LoadFinishedUntouched
  <2>5. CASE OldLoadFinishes
    <3>1. onMapLoadFinished(FALSE)
      BY <2>5 DEF OldLoadFinishes
    <3> QED BY <3>1, LoadFinishedUntouched
  <2>6. CASE MapReady
    BY <2>6, ReadyUntouched
  <2>7. CASE ReadyTimeout
    <3>1. map' = showMapLoadError(map)
      BY <2>7 DEF ReadyTimeout
    <3> QED BY <1>1, <3>1, LoadingUntouched
  <2>8. CASE UpdateTimeout
    BY <2>8, MapUpdateKeeps DEF Untouched
  <2>9. CASE setReplayTrailLength
    <3>1. PICK length \in 0 .. Len(Recordings[map.session]) :
              map' = scheduleMapUpdate([map EXCEPT !.trail = length, !.trailPending = TRUE])
      BY <2>9 DEF setReplayTrailLength
    <3> QED BY <1>1, <3>1 DEF scheduleMapUpdate, Widgets, Untouched
  <2>10. CASE UNCHANGED mapVars
    BY <2>10 DEF mapVars, Untouched
  <2> QED BY <1>4, <2>1, <2>2, <2>3, <2>4, <2>5, <2>6, <2>7, <2>8, <2>9, <2>10
<1>5. Untouched(map', map) => Stays(map', map)
  BY <1>1, UntouchedStays
<1> QED BY <1>2, <1>3, <1>4, <1>5 DEF MapNext

\* compactLiveHistory and rebaseLiveHistoryIndices: a sample that was drawn between two
\* measured places stays where it was drawn, for every history that the maps can keep.
THEOREM AlignedSamplesNeverMove == MapSpec => AlignedSamplesStay
<1>1. MapInv /\ [MapNext]_mapVars =>
          [map'.received >= map.received =>
               \A i \in DOMAIN map.samples, j \in DOMAIN map'.samples :
                   LET old == map.samples[i]
                       new == map'.samples[j]
                   IN  old.sample = new.sample /\ Drawn(map, old) # old.sample.place
                           => Drawn(map', new) = Drawn(map, old)]_mapVars
  <2> SUFFICES ASSUME MapInv, [MapNext]_mapVars
               PROVE  \A i \in DOMAIN map.samples, j \in DOMAIN map'.samples :
                          map.samples[i].sample = map'.samples[j].sample
                              /\ Drawn(map, map.samples[i]) # map.samples[i].sample.place
                              => Drawn(map', map'.samples[j]) = Drawn(map, map.samples[i])
      OBVIOUS
  <2>1. Stays(map', map)
    BY StepStays
  <2> QED BY <2>1 DEF Stays
<1> QED BY <1>1, MapInvariant, PTL DEF MapSpec, AlignedSamplesStay
=============================================================================
