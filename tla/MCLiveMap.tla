----------------------------- MODULE MCLiveMap -----------------------------
EXTENDS LiveMap

East == [lat |-> 6, lon |-> 30]
West == [lat |-> 0, lon |-> -30]      \* across the half turn
Nowhere == [lat |-> 100, lon |-> 0]

\* A coordinate that is held, crosses the half turn, is lost and comes back.
MCSky == <<{East}, {East, West}, {East, West, Nowhere}, {West, Nowhere}, {East, West}, {East, West}>>

At(t, place) == [timestamp |-> t, place |-> place, altitude |-> TRUE]
MCRecordings ==
    [f \in {"f1"} |-> <<At(1, East), At(2, East), At(3, West), [At(4, West) EXCEPT !.altitude = FALSE],
                        At(5, East)>>]
=============================================================================
