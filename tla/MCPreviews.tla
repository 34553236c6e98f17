----------------------------- MODULE MCPreviews -----------------------------
(***************************************************************************)
(* The recordings whose previews are computed, and what is asked of the    *)
(* charts, timelines and tracks drawn of them.                             *)
(***************************************************************************)
EXTENDS FlightPreview, GpsTrajectory

Level == {Missing, 1, 2, 3}

ValuesOf(seq) == [i \in 0 .. Len(seq) - 1 |-> seq[i + 1]]

\* Long recordings: a ramp, a peak, a gap or a scatter of gaps in a steady line.
LongRow(kind, n, i) ==
    CASE kind = "ramp" -> i
      [] kind = "peak" -> IF i = 13 THEN 9 ELSE 1
      [] kind = "gap" -> IF i \in 7 .. n - 6 THEN Missing ELSE i % 3
      [] kind = "holes" -> IF i % 3 = 1 THEN Missing ELSE 5 - i
      [] kind = "none" -> Missing

LongRows(kind, n) == [i \in 1 .. n |-> LongRow(kind, n, i - 1)]
Kinds == {"ramp", "peak", "gap", "holes", "none"}

ChartCases ==
    {[about |-> "chart", metrics |-> <<seq>>, budgets |-> {0, 1, 2, 5, 8}] :
        seq \in UNION {[1 .. n -> Level] : n \in 0 .. 5}} \cup
    {[about |-> "chart", metrics |-> <<LongRows(k, n), LongRows(l, n)>>, budgets |-> {3, 8, 14, 16}] :
        k \in Kinds, l \in Kinds, n \in {17, 21}}

Steps == {-2, 0, 1, 2, 7}
TimelineCases ==
    {[about |-> "timeline", deltas |-> d] : d \in UNION {[1 .. n -> Steps] : n \in 0 .. 4}}

\* Two places on either side of the half turn, and one that is no place.
Places == {[lat |-> 6, lon |-> 6], [lat |-> 0, lon |-> 30], [lat |-> -6, lon |-> -30],
           [lat |-> 30, lon |-> 0]}
TrackSample(t, p) == [timestamp |-> t, place |-> p, altitude |-> TRUE]
RECURSIVE TrackOf(_, _)
TrackOf(steps, places) ==
    IF steps = <<>> THEN <<>>
    ELSE LET before == TrackOf(Front(steps), Front(places))
         IN  Append(before, TrackSample((IF before = <<>> THEN 1 ELSE Last(before).timestamp)
                                            + Last(steps), Last(places)))
TrackCases ==
    {[about |-> "track", samples |-> TrackOf(s, p)] :
        <<s, p>> \in UNION {[1 .. n -> {0, 1, 2, 4}] \X [1 .. n -> Places] : n \in 1 .. 3}} \cup
    {[about |-> "track", samples |-> TrackOf(s, p)] :
        s \in {<<1, 1, 1, 1>>, <<1, 1, 2, 1>>, <<1, 4, 1, 1>>}, p \in [1 .. 4 -> Places]}

MapCases ==
    {[about |-> "map", places |-> p, budget |-> b] :
        p \in UNION {[1 .. n -> {"real", "origin", "none"}] : n \in 0 .. 5}, b \in {2, 3}}

PreviewCases == MapCases \cup ChartCases \cup TimelineCases \cup TrackCases

-----------------------------------------------------------------------------

Increasing(s) == \A i, j \in DOMAIN s : i < j => s[i] < s[j]
RowsOf(s) == {s[k] : k \in DOMAIN s}

\* What is selected of the rows begin to end - 1 is within the budget, keeps the
\* ends, and keeps the least and the greatest value of every metric if it can.
SelectionIsFair(values, n, begin, end, budget, enabled, rows) ==
    LET bounded == begin .. end - 1
        Peaks(m) == {i \in bounded : values[m][i] # Missing}
    IN  /\ Increasing(rows) /\ RowsOf(rows) \subseteq bounded /\ Len(rows) <= budget
        /\ bounded # {} /\ budget > 0 => begin \in RowsOf(rows)
        /\ bounded # {} /\ budget > 1 => end - 1 \in RowsOf(rows)
        /\ budget >= 2 + 6 * Cardinality(enabled) =>
               \A m \in enabled : \A i \in Peaks(m) :
                   /\ \E low \in RowsOf(rows) \cap Peaks(m) : values[m][low] <= values[m][i]
                   /\ \E high \in RowsOf(rows) \cap Peaks(m) : values[m][high] >= values[m][i]

\* A line joins rows with no missing value between them; every selected value is
\* drawn once, on a line or as a point of its own; lines are few.
LinesAreMeasured(values, rows, trace) ==
    LET drawn == FlattenSeq(trace.lines) \o trace.isolated
    IN  /\ Len(trace.lines) <= kMaxLineSegments
        /\ \A k \in DOMAIN trace.lines :
               /\ Len(trace.lines[k]) > 1
               /\ \A i \in 1 .. Len(trace.lines[k]) - 1 :
                      LET ends == {trace.lines[k][i], trace.lines[k][i + 1]}
                      IN  \A j \in Min(ends) .. Max(ends) : values[j] # Missing
        /\ IsInjective(drawn)
        /\ RowsOf(drawn) = {i \in RowsOf(rows) : values[i] # Missing}

\* One chart: every window of it, from the summaries and from the rows, drawn in the
\* order of the file and, live, in that of timestamps that may have run back.
ChartIsTrue(metrics, budgets) ==
    LET n == Len(metrics[1])
        values == [m \in DOMAIN metrics |-> ValuesOf(metrics[m])]
        trees == [m \in DOMAIN metrics |-> build(values[m], n)]
        none == [m \in DOMAIN metrics |-> NoTree]
        live == [i \in 1 .. n |-> IF i = 2 THEN 4 ELSE i]
        whole(m) == DrawnRange(values[m], select(values, trees, n, 0, n, Max(budgets), DOMAIN metrics))
        windows == IF n < 10 THEN {<<b, e>> \in (0 .. n) \X (0 .. n) : b <= e}
                             ELSE {<<0, n>>, <<1, n>>, <<3, n - 2>>, <<2, 7>>}
    IN  /\ \A m \in DOMAIN metrics :      \* the axis is fitted to the true extremes
               metricRange(values[m], n) = IF whole(m) = {} THEN <<0, 0>>
                                           ELSE <<Min(whole(m)), Max(whole(m))>>
        /\ \A w \in windows, budget \in budgets :
            LET rows == select(values, trees, n, w[1], w[2], budget, DOMAIN metrics)
                raw == select(values, none, n, w[1], w[2], budget, DOMAIN metrics)
            IN  /\ SelectionIsFair(values, n, w[1], w[2], budget, DOMAIN metrics, rows)
                /\ SelectionIsFair(values, n, w[1], w[2], budget, DOMAIN metrics, raw)
                /\ \A m \in DOMAIN metrics :
                       /\ hasMissing(values[m], trees[m], n, w[1], w[2])
                              = (\E i \in w[1] .. w[2] - 1 : values[m][i] = Missing)
                       /\ LinesAreMeasured(values[m], rows, TraceOf(values[m], trees[m], n, rows))
                       /\ LinesAreMeasured(values[m], raw,
                                           TraceOf(values[m], NoTree, n, ByTime(raw, live)))

\* A timeline never stands still or runs back, keeps every step that was good, and a
\* click or an event lands on the nearest sample.
TimelineServes(deltas) ==
    LET n == Len(deltas) + 1
        times[i \in 1 .. n] == IF i = 1 THEN 5 ELSE times[i - 1] + deltas[i - 1]
        shown == buildTimeline([i \in 1 .. n |-> times[i]])
        clicks == -1 .. shown[n] + 1
        Nearest(row, x) == \A i \in 1 .. n : Away(shown[row + 1], x) <= Away(shown[i], x)
    IN  /\ Increasing(shown) /\ shown[1] = 0
        /\ \A i \in 1 .. n - 1 : TrueDelta(deltas[i]) => shown[i + 1] - shown[i] = deltas[i]
        /\ \A x \in clicks : /\ Nearest(sampleIndexForDisplaySecond(shown, x), x)
                             /\ Nearest(seekEvent(shown, x) - 1, x)
        /\ \A i \in 0 .. n - 1 : sampleIndexForDisplaySecond(shown, displaySecondAt(shown, i)) = i
        /\ \A low, high \in clicks, limit \in 1 .. n : low <= high =>
               LET r == visibleRange(shown, low, high, limit)
               IN  /\ 0 <= r.begin /\ r.begin < r.end /\ r.end <= limit
                   /\ \A i \in 1 .. limit : low <= shown[i] /\ shown[i] <= high
                                                => i - 1 \in r.begin .. r.end - 1
        /\ \A low, high \in clicks : low <= high =>
               LET r == ViewportRows(shown, n, low, high)
               IN  \A i \in 1 .. n - 1 :      \* a line that crosses the view is drawn
                       shown[i] <= high /\ shown[i + 1] >= low => {i - 1, i} \subseteq r.begin .. r.end - 1

AwayFrom0(x) == Away(x, 0)

Distance(a, b) == AwayFrom0(Remainder(b.lon - a.lon)) + AwayFrom0(b.lat - a.lat)

\* A track moves only between two places it was measured at, the short way and without
\* turning back; what interrupts it separates its segments; and thinning the history
\* and counting it again from 0 moves nothing that is still drawn.
TrackIsTrue(samples) ==
    LET n == Len(samples)
        build0[k \in 0 .. n] == IF k = 0 THEN Untravelled ELSE append(build0[k - 1], samples[k], k - 1)
        traj == build0[n]
        Drawn(t, i) == coordinateAt(t, i, samples[i + 1])
        Breaks(i) == \/ samples[i + 1].timestamp <= samples[i].timestamp
                     \/ samples[i + 1].timestamp - samples[i].timestamp > kMaxGapMs
                     \/ ~valid(samples[i])
        rows == {i \in 0 .. n - 1 : valid(samples[i + 1])}
    IN  /\ \A i, j \in rows : i < j =>
               segmentAt(traj, j) - segmentAt(traj, i) =
                   Cardinality({k \in rows : i < k /\ k <= j /\ Breaks(k)})
        /\ \A i \in rows : Drawn(traj, i) # samples[i + 1].place =>
               \E f, c \in rows :
                   /\ f < i /\ i < c
                   /\ \A k \in f .. c : k > f => ~Breaks(k)
                   /\ samples[c + 1].timestamp - samples[f + 1].timestamp <= kMaxGapMs
                   /\ Distance(samples[f + 1].place, Drawn(traj, i)) + Distance(Drawn(traj, i), samples[c + 1].place)
                          = Distance(samples[f + 1].place, samples[c + 1].place)
        /\ \A kept \in SUBSET rows :
               LET indices == InOrder(kept, n)
                   thin == retainSamples(traj, indices)
                   again == rebaseIndices(thin, indices)
               IN  \A k \in DOMAIN indices :
                       /\ Drawn(thin, indices[k]) = Drawn(traj, indices[k])
                       /\ segmentAt(thin, indices[k]) = segmentAt(traj, indices[k])
                       /\ coordinateAt(again, k - 1, samples[indices[k] + 1]) = Drawn(traj, indices[k])
                       /\ segmentAt(again, k - 1) = segmentAt(traj, indices[k])

\* A map draws no placeholder where a real coordinate is known, keeps the first and the
\* last place, and draws few.
MapIsFair(places, budget) ==
    LET rows == ValidRows(places)
        few == cappedIndices(rows, budget)
        real == {i \in 0 .. Len(places) - 1 : places[i + 1] = "real"}
    IN  /\ Increasing(few) /\ Len(few) <= budget /\ RowsOf(few) \subseteq RowsOf(rows)
        /\ rows # <<>> => few[1] = rows[1] /\ Last(few) = Last(rows)
        /\ real # {} => RowsOf(rows) = real
        /\ real = {} => RowsOf(rows) = {i \in 0 .. Len(places) - 1 : places[i + 1] = "origin"}

PreviewIsTrue(input) ==
    CASE input.about = "map" -> MapIsFair(input.places, input.budget)
      [] input.about = "chart" -> ChartIsTrue(input.metrics, input.budgets)
      [] input.about = "timeline" -> TimelineServes(input.deltas)
      [] input.about = "track" -> TrackIsTrue(input.samples)
=============================================================================
