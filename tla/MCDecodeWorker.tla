--------------------------- MODULE MCDecodeWorker ---------------------------
(***************************************************************************)
(* Small byte streams for DecodeWorker: rows shorter and longer than the   *)
(* line limit, empty and spoiled rows, and a last row without a newline.   *)
(***************************************************************************)
EXTENDS DecodeWorker

Row(n) == [i \in 1..n |-> "good"]
Line(n) == Append(Row(n), "newline")

MCStreams ==
    { Line(1) \o Line(1) \o Line(1) \o Row(1),
      Line(2) \o <<"newline", "bad">> \o Row(2) }

MCShortStreams == { Line(1) \o Line(1) \o Row(1) }

=============================================================================
