--------------------------- MODULE GpsTrajectory ---------------------------
(***************************************************************************)
(* services/preview/GpsTrajectory: where a map draws the samples between   *)
(* two changes of the reported coordinate.  A sample is [timestamp, place, *)
(* altitude]; a place is [lat, lon] in degrees scaled so that the shares   *)
(* of an interval are whole, and altitude says whether it can be mapped.   *)
(* A fix may lie between two rows: its index is a fraction [num, den].     *)
(***************************************************************************)
EXTENDS Integers, Sequences, SequencesExt, FiniteSets, FiniteSetsExt

CONSTANTS
    kMaxGapMs,       \* a coordinate held longer is not aligned
    Quarter          \* 90 degrees

ASSUME TrajectoryAssumption == kMaxGapMs \in Nat /\ Quarter \in Nat \ {0}

Coordinates == [lat : Int, lon : Int]
Samples == [timestamp : Int, place : Coordinates, altitude : BOOLEAN]

Turn == 4 * Quarter

Untravelled == [fixes |-> <<>>, lastTimestamp |-> 0, currentSegment |-> 0, interrupted |-> TRUE]

InRange(place) ==
    /\ -Quarter <= place.lat /\ place.lat <= Quarter
    /\ -2 * Quarter <= place.lon /\ place.lon <= 2 * Quarter

\* Where a fix lies: before a row, or at it.
Precedes(at, row) == at.num < row * at.den
LiesAt(at, row) == at.num = row * at.den

valid(sample) ==
    /\ InRange(sample.place)
    /\ sample.place # [lat |-> 0, lon |-> 0]
    /\ sample.altitude

\* std::remainder of a difference of two longitudes
Remainder(x) == IF x > 2 * Quarter THEN x - Turn ELSE IF x < -2 * Quarter THEN x + Turn ELSE x

Interrupts(traj, sample) ==
    \/ traj.interrupted
    \/ sample.timestamp <= traj.lastTimestamp
    \/ sample.timestamp - traj.lastTimestamp > kMaxGapMs

Held(traj, sample) ==
    /\ traj.fixes # <<>>
    /\ ~Interrupts(traj, sample)
    /\ sample.place = Last(traj.fixes).place

\* append: the trajectory once a sample was taken ...
append(traj, sample, index) ==
    LET seen == [traj EXCEPT !.lastTimestamp = sample.timestamp]
        segment == traj.currentSegment +
                   (IF traj.fixes # <<>> /\ Interrupts(traj, sample) THEN 1 ELSE 0)
    IN  IF ~valid(sample) THEN [seen EXCEPT !.interrupted = TRUE]
        ELSE IF Held(traj, sample) THEN [seen EXCEPT !.interrupted = FALSE]
        ELSE [seen EXCEPT !.interrupted = FALSE,
                          !.currentSegment = segment,
                          !.fixes = Append(@, [index |-> [num |-> index, den |-> 1],
                                               timestamp |-> sample.timestamp,
                                               place |-> sample.place,
                                               segment |-> segment])]

Bug_redrawsNever(traj, sample, index) == FALSE

\* ... and whether a completed held interval needs redrawing.
redraws(traj, sample, index) ==
    /\ valid(sample)
    /\ traj.fixes # <<>>
    /\ ~Held(traj, sample)
    /\ ~Interrupts(traj, sample)
    /\ Precedes(Last(traj.fixes).index, index - 1)
    /\ sample.timestamp - Last(traj.fixes).timestamp <= kMaxGapMs

\* The number of fixes before a row (std::lower_bound), and up to it.
FixesBefore(traj, index) ==
    Cardinality({k \in DOMAIN traj.fixes : Precedes(traj.fixes[k].index, index)})
FixesUpTo(traj, index) ==
    Cardinality({k \in DOMAIN traj.fixes : \/ Precedes(traj.fixes[k].index, index)
                                           \/ LiesAt(traj.fixes[k].index, index)})

Share(from, to, elapsed, duration) == from + ((to - from) * elapsed) \div duration

coordinateAt(traj, index, sample) ==
    LET before == FixesBefore(traj, index)
    IN  IF ~valid(sample) \/ before = Len(traj.fixes) THEN sample.place
        ELSE IF LiesAt(traj.fixes[before + 1].index, index) THEN traj.fixes[before + 1].place
        ELSE IF before = 0 THEN sample.place
        ELSE LET from == traj.fixes[before]
                 to == traj.fixes[before + 1]
                 elapsed == sample.timestamp - from.timestamp
                 duration == to.timestamp - from.timestamp
                 deltaLon == Remainder(to.place.lon - from.place.lon)
             IN  IF \/ duration <= 0 \/ duration > kMaxGapMs
                    \/ elapsed <= 0 \/ elapsed >= duration
                    \/ from.segment # to.segment
                 THEN sample.place
                 ELSE [lat |-> Share(from.place.lat, to.place.lat, elapsed, duration),
                       lon |-> Remainder(Share(from.place.lon, from.place.lon + deltaLon,
                                               elapsed, duration))]

segmentAt(traj, index) ==
    IF FixesUpTo(traj, index) = 0 THEN 0 ELSE traj.fixes[FixesUpTo(traj, index)].segment

\* The elements of a sequence at some of its places, in their order.
Nth(places, k) == CHOOSE i \in places : Cardinality({j \in places : j <= i}) = k
AtPlaces(seq, places) == [k \in 1 .. Cardinality(places) |-> seq[Nth(places, k)]]

\* Of the fixes, those next to a retained row and the last one.
retainSamples(traj, indices) ==
    LET Beside(i) == {FixesBefore(traj, i), FixesBefore(traj, i) + 1}
        kept == (UNION {Beside(indices[k]) : k \in DOMAIN indices}) \cup {Len(traj.fixes)}
    IN  [traj EXCEPT !.fixes = AtPlaces(@, kept \cap DOMAIN @)]

\* Where a fix lies once the retained rows are counted from 0 again: as far between
\* the same two rows, or beyond the last two.
Rebased(at, indices) ==
    LET upTo == Cardinality({k \in DOMAIN indices : ~Precedes(at, indices[k])})
        high == IF upTo < 1 THEN 1 ELSE IF upTo > Len(indices) - 1 THEN Len(indices) - 1 ELSE upTo
        low == high - 1
        past(row) == at.num - row * at.den
        gap == indices[high + 1] - indices[low + 1]
    IN  IF Len(indices) = 1 THEN [at EXCEPT !.num = past(indices[1])]
        ELSE [num |-> low * (at.den * gap) + past(indices[low + 1]), den |-> at.den * gap]

Bug_rebaseIndicesKeepsFixes(traj, indices) == traj

rebaseIndices(traj, indices) ==
    IF indices = <<>> THEN [traj EXCEPT !.fixes = <<>>]
    ELSE [traj EXCEPT !.fixes = [k \in DOMAIN @ |->
                                     [traj.fixes[k] EXCEPT !.index = Rebased(@, indices)]]]

=============================================================================
