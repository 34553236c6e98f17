---------------------------- MODULE MCReplayView ----------------------------
(***************************************************************************)
(* Two flights: one of four samples, the last two at the same time, so that *)
(* a chart of PointBudget = 2 points groups samples and a seek to the third *)
(* leaves the replay at the end with one sample to show; and one whose only *)
(* sample has time 0, which ends as it starts.                              *)
(***************************************************************************)
EXTENDS ReplayView

CONSTANTS long, short

Times == [f \in {long, short} |-> IF f = long THEN <<0, 2, 6, 6>> ELSE <<0>>]
=============================================================================
