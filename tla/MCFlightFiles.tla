--------------------------- MODULE MCFlightFiles ---------------------------
(***************************************************************************)
(* One path, which recordings overwrite in turn: two are enough for one to  *)
(* meet the files of the other.                                             *)
(***************************************************************************)
EXTENDS FlightFiles

CONSTANT file

MCBounds ==
    {[exports |-> 2, fixes |-> 0], [exports |-> 1, fixes |-> 2], [exports |-> 0, fixes |-> 4]}
=============================================================================
