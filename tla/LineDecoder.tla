----------------------------- MODULE LineDecoder -----------------------------
(***************************************************************************)
(* cosmo::telemetry::LineTelemetryDecoder: cuts a byte stream into lines   *)
(* and decodes each complete line.                                         *)
(*                                                                         *)
(* A byte is abstracted to its place in the stream and its kind: a         *)
(* newline, a byte of a row that decodes, or a byte that spoils its row.   *)
(* A decoded sample is the sequence of the places its row was built from.  *)
(***************************************************************************)
EXTENDS Integers, Sequences, SequencesExt

CONSTANT MaxLineBytes   \* m_maxLineBytes

ASSUME MaxLineBytesAssumption == MaxLineBytes \in Nat \ {0}

\* The state of a decoder after reset(): m_pending, m_discardingDamagedLine,
\* m_oversizedLine, m_malformedLines, the sequence number in m_lastDiagnostic,
\* and the samples of the present ingest() or finish() call.
FreshDecoder ==
    [pending |-> <<>>, discarding |-> FALSE, oversized |-> FALSE,
     malformed |-> 0, row |-> 0, samples |-> <<>>]

Bug_NotifyDataGapResumesAtOnce(d) == [d EXCEPT !.pending = <<>>]

\* notifyDataGap()
NotifyDataGap(d) == [d EXCEPT !.pending = <<>>, !.discarding = TRUE]

Spoiled(line) == \E i \in DOMAIN line : line[i].kind = "bad"
Places(line) == [i \in DOMAIN line |-> line[i].at]

\* processLine: an empty line is ignored, every other one is a row.
ProcessLine(d) ==
    IF d.pending = <<>> THEN d
    ELSE IF Spoiled(d.pending)
    THEN [d EXCEPT !.row = @ + 1, !.malformed = @ + 1]
    ELSE [d EXCEPT !.row = @ + 1, !.samples = Append(@, Places(d.pending))]

\* A line too long is closed by the newline that ends its discarding, or by
\* finish(): it counts as one more row.
CloseOversized(d) ==
    [d EXCEPT !.row = @ + (IF d.oversized THEN 1 ELSE 0), !.oversized = FALSE]

\* One turn of the loop of ingest().
IngestByte(d, byte) ==
    CASE d.discarding /\ byte.kind # "newline" -> d
      [] d.discarding /\ byte.kind = "newline" ->
            [CloseOversized(d) EXCEPT !.discarding = FALSE]
      [] ~d.discarding /\ byte.kind = "newline" ->
            [ProcessLine(d) EXCEPT !.pending = <<>>]
      [] ~d.discarding /\ byte.kind # "newline" /\ Len(d.pending) >= MaxLineBytes ->
            [d EXCEPT !.pending = <<>>, !.discarding = TRUE,
                      !.oversized = TRUE, !.malformed = @ + 1]
      [] OTHER -> [d EXCEPT !.pending = Append(@, byte)]

\* ingest(bytes)
Ingest(d, bytes) == FoldLeft(IngestByte, [d EXCEPT !.samples = <<>>], bytes)

\* finish(): the row still open is decoded unless it is known to be damaged.
Finish(d) ==
    LET closed == [CloseOversized(d) EXCEPT !.samples = <<>>]
        last   == IF d.discarding THEN closed ELSE ProcessLine(closed)
    IN  [last EXCEPT !.pending = <<>>, !.discarding = FALSE]

=============================================================================
