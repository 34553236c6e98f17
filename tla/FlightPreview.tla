--------------------------- MODULE FlightPreview ---------------------------
(***************************************************************************)
(* services/preview/FlightPreviewCache: what is computed once about a      *)
(* recording, the timeline it is shown on and the rows its charts and maps *)
(* draw; and what DashboardPage draws of them.  Rows count from 0, times   *)
(* are milliseconds.                                                       *)
(***************************************************************************)
EXTENDS ChartOverview

CONSTANTS
    MaxDelta,            \* the largest difference of timestamps a long holds
    kMaxLineSegments     \* lines a metric is drawn with at most

Sorted(seq) == SortSeq(seq, <)

DeltaTo(times, i) == times[i + 1] - times[i]      \* to row i from the row before it
TrueDelta(d) == 0 < d /\ d <= MaxDelta

\* The median of the steps that go forward stands in for every other step.
MedianDelta(times) ==
    LET forward == Sorted(SelectSeq([i \in 1 .. Len(times) - 1 |-> DeltaTo(times, i)], TrueDelta))
    IN  IF forward = <<>> THEN 1 ELSE forward[Len(forward) \div 2 + 1]

\* m_displaySeconds
buildTimeline(times) ==
    LET shown[i \in 1 .. Len(times)] ==
            IF i = 1 THEN 0
            ELSE shown[i - 1] + (IF TrueDelta(DeltaTo(times, i - 1)) THEN DeltaTo(times, i - 1)
                                                                     ELSE MedianDelta(times))
    IN  [i \in 1 .. Len(times) |-> shown[i]]

displaySecondAt(shown, row) ==
    IF shown = <<>> THEN 0 ELSE shown[Within(row, 0, Len(shown) - 1) + 1]

\* std::lower_bound and std::upper_bound on the first n rows
FirstAtLeast(shown, n, x) == Cardinality({i \in 1 .. n : shown[i] < x})
FirstAbove(shown, n, x) == Cardinality({i \in 1 .. n : shown[i] <= x})

Away(x, y) == IF x < y THEN y - x ELSE x - y

sampleIndexForDisplaySecond(shown, x) ==
    LET row == FirstAtLeast(shown, Len(shown), x)
    IN  IF shown = <<>> \/ row = 0 THEN 0
        ELSE IF row = Len(shown) THEN row - 1
        ELSE IF Away(shown[row], x) <= Away(shown[row + 1], x) THEN row - 1 ELSE row

\* DashboardPage::seekEvent: the trail that ends at an event, or NoRow without a preview.
seekEvent(shown, x) ==
    LET row == FirstAtLeast(shown, Len(shown), x)
        index == IF row = Len(shown) THEN row - 1 ELSE row
    IN  (IF index > 0 /\ Away(shown[index], x) < Away(shown[index + 1], x) THEN index - 1
                                                                           ELSE index) + 1

visibleRange(shown, low, high, limit) ==
    LET cap == Within(limit, 0, Len(shown))
        begin == FirstAtLeast(shown, cap, low)
        end == Within(FirstAbove(shown, cap, high), begin, cap)
    IN  IF cap = 0 THEN [begin |-> 0, end |-> 0]
        ELSE IF low > high THEN [begin |-> 0, end |-> cap]
        ELSE IF begin < end THEN [begin |-> begin, end |-> end]
        ELSE LET b == Within(begin - 1, 0, cap - 1) IN [begin |-> b, end |-> b + 1]

\* A place is real, a placeholder at the origin, or no coordinate at all.
Shown(places, p) ==
    \/ p = "real"
    \/ p = "origin" /\ \A i \in DOMAIN places : places[i] # "real"

\* buildGpsIndices: m_validGpsIndices
ValidRows(places) ==
    InOrder({i \in 0 .. Len(places) - 1 : Shown(places, places[i + 1])}, Len(places))

cappedIndices(source, budget) ==
    IF Len(source) <= budget THEN source
    ELSE LET at(i) == source[(i * (Len(source) - 1)) \div (budget - 1) + 1]
         IN  SelectSeq(source, LAMBDA row : \E i \in 0 .. budget - 1 : row = at(i))

metricRange(values, n) ==
    LET present == {values[i] : i \in 0 .. n - 1} \ {Missing}
    IN  IF present = {} THEN <<0, 0>> ELSE <<Min(present), Max(present)>>

-----------------------------------------------------------------------------
(* DashboardPage::buildChartFromSamples and buildChartFromSampleIndices *)

\* The rows of a live chart whose axis the user holds: those in sight and their neighbours.
ViewportRows(x, n, low, high) ==
    LET ahead == {b \in 0 .. n - 1 : b + 1 = n \/ x[b + 2] >= low}
        begin == Min(ahead)
        past == {e \in begin .. n : e = n \/ x[e + 1] > high}
    IN  [begin |-> begin, end |-> IF Min(past) < n THEN Min(past) + 1 ELSE n]

\* Rows in the order they are drawn: that of the axis, and of the file where it ties.
ByTime(rows, x) ==
    SortSeq(rows, LAMBDA i, j : (x[i + 1] < x[j + 1]) \/ (x[i + 1] = x[j + 1] /\ i < j))

NoTrace == [points |-> <<>>, lines |-> <<>>, isolated |-> <<>>, previous |-> NoRow]

flushSegment(t) ==
    IF t.points = <<>> THEN t
    ELSE IF Len(t.points) = 1 \/ Len(t.lines) >= kMaxLineSegments
         THEN [t EXCEPT !.points = <<>>, !.isolated = @ \o t.points]
         ELSE [t EXCEPT !.points = <<>>, !.lines = Append(@, t.points)]

Bug_TracedBridgesGaps(values, tree, n, t, row) ==
    IF values[row] = Missing THEN [flushSegment(t) EXCEPT !.previous = NoRow]
    ELSE [t EXCEPT !.points = Append(@, row), !.previous = row]

\* One more row of a metric: a line ends at a missing value, and where one was left out.
Traced(values, tree, n, t, row) ==
    IF values[row] = Missing THEN [flushSegment(t) EXCEPT !.previous = NoRow]
    ELSE LET low == Min({t.previous, row})
             high == Max({t.previous, row})
             gap == t.previous # NoRow /\ hasMissing(values, tree, n, low + 1, high)
         IN  [(IF gap THEN flushSegment(t) ELSE t) EXCEPT !.points = Append(@, row), !.previous = row]

TraceOf(values, tree, n, rows) ==
    flushSegment(FoldLeft(LAMBDA t, row : Traced(values, tree, n, t, row), NoTrace, rows))

\* yMin and yMax of the rows drawn, or nothing: what the metric's axis is fitted to.
DrawnRange(values, rows) ==
    {values[rows[k]] : k \in DOMAIN rows} \ {Missing}
=============================================================================
