-------------------------- MODULE SampleFileLoader --------------------------
(***************************************************************************)
(* SampleFileLoader.cpp: a flight session out of a CSV file, a workbook or *)
(* a TELEM capture.  A text is a sequence of tokens.  What may be absent   *)
(* is a set of at most one element: an optional, a value of a sample.  A   *)
(* load also takes the number of the poll from which cancellation is seen, *)
(* and the session it is to replace.                                       *)
(***************************************************************************)
EXTENDS Integers, Sequences, FiniteSets, SequencesExt, FiniteSetsExt, ZipFormat

CONSTANTS
    MAXIMUM_TELEMETRY_MAGNITUDE,
    MaxTimestamp,        \* the largest long
    MaxLatitude, MaxLongitude,
    kMaxXlsxFileBytes, kMaxXlsxEntryBytes, kMaxXlsxColumns, kMaxXlsxRows,
    Letters,             \* the letters of a cell reference, 26
    SheetPaths,          \* the worksheet entries xl/worksheets/sheet*.xml, in map order
    Period               \* the period of a packet's clock

Token(is, of, number) == [is |-> is, of |-> of, number |-> number]
Word(w) == Token("word", w, 0)
Number(halves) == Token("number", "", halves)      \* numbers count halves
Space == Token("space", "", 0)
Comma == Token("comma", "", 0)
Hash == Token("hash", "", 0)

AbsOf(n) == IF n < 0 THEN -n ELSE n

\* std::round: halves away from zero.
Rounded(halves) == IF halves < 0 THEN -((1 - halves) \div 2) ELSE (halves + 1) \div 2

trimInPlace(text) ==
    LET solid == {i \in DOMAIN text : text[i] # Space}
    IN  IF solid = {} THEN <<>> ELSE SubSeq(text, Min(solid), Max(solid))

splitCsvLine(line) ==
    LET cells == FoldLeft(LAMBDA done, t : IF t = Comma THEN Append(done, <<>>)
                                           ELSE [done EXCEPT ![Len(done)] = Append(@, t)],
                          << <<>> >>, line)
    IN  [i \in DOMAIN cells |-> trimInPlace(cells[i])]

-----------------------------------------------------------------------------
\* Columns, counted from 1; 0 is none.

Aliases ==
    [rssi |-> <<"rssi">>, accel |-> <<"acceleration", "accel">>,
     accelX |-> <<"acceleration_x", "accel_x", "ax", "ax_ms2">>,
     accelY |-> <<"acceleration_y", "accel_y", "ay", "ay_ms2">>,
     accelZ |-> <<"acceleration_z", "accel_z", "az", "az_ms2">>,
     gyroX |-> <<"angular_velocity_x", "gyro_x", "gx", "gx_rads">>,
     gyroY |-> <<"angular_velocity_y", "gyro_y", "gy", "gy_rads">>,
     gyroZ |-> <<"angular_velocity_z", "gyro_z", "gz", "gz_rads">>,
     attitudeX |-> <<"attitude_x_deg", "anglex_deg", "angle_x_deg">>,
     attitudeY |-> <<"attitude_y_deg", "angley_deg", "angle_y_deg">>,
     attitudeZ |-> <<"attitude_z_deg", "anglez_deg", "angle_z_deg">>,
     pressure |-> <<"pressure", "pressure_pa">>,
     altitude |-> <<"altitude", "altitude_m", "alt_m">>,
     temperature |-> <<"temperature", "temperature_c", "temp", "temp_c">>,
     battery |-> <<"battery_voltage", "battery", "voltage", "main_voltage">>,
     latitude |-> <<"latitude", "lat">>, longitude |-> <<"longitude", "lon", "lng">>]

Fields == DOMAIN Aliases

findColumn(header, name) ==
    LET at == {i \in DOMAIN header : trimInPlace(header[i]) = <<Word(name)>>}
    IN  IF at = {} THEN 0 ELSE Min(at)

findColumnAny(header, names) ==
    LET found == SelectSeq(names, LAMBDA n : findColumn(header, n) # 0)
    IN  IF found = <<>> THEN 0 ELSE findColumn(header, found[1])

resolveTelemetryColumns(header) ==
    LET milliseconds == findColumnAny(header, <<"time_ms", "timestamp_ms">>)
        seconds == findColumnAny(header, <<"time", "time_s", "timestamp">>)
        of == [f \in Fields |-> findColumnAny(header, Aliases[f])]
        time == IF milliseconds # 0 THEN milliseconds ELSE seconds
    IN  {c \in {[time |-> time, inMilliseconds |-> milliseconds # 0, of |-> of]} :
            c.time # 0 /\ c.of.altitude # 0}

\* A finite number, spaces around it allowed.
parseDouble(text) ==
    LET t == trimInPlace(text) IN {n \in {u.number : u \in ToSet(t)} : t = <<Number(n)>>}

parseCellDouble(cells, column) ==
    IF column \in DOMAIN cells THEN parseDouble(cells[column]) ELSE {}

\* The values the cell may stand for: none where it refuses the row.
parseOptionalTelemetryCell(cells, column) ==
    IF column \notin DOMAIN cells \/ cells[column] = <<>> THEN {{}}
    ELSE {{n} : n \in {m \in parseDouble(cells[column]) :
                           AbsOf(m) <= 2 * MAXIMUM_TELEMETRY_MAGNITUDE}}

\* The sample of a row, or none.
sampleFromCells(cells, columns) ==
    LET read == [f \in Fields |-> parseOptionalTelemetryCell(cells, columns.of[f])]
        value(f) == CHOOSE v \in read[f] : TRUE
        stamps == {t \in {Rounded(IF columns.inMilliseconds THEN n ELSE 1000 * n) :
                              n \in parseCellDouble(cells, columns.time)} :
                      AbsOf(t) <= MaxTimestamp}
        \* One acceleration stands for the z axis until an axis has its own.
        axis(f, other) == IF value(f) # {} THEN value(f)
                          ELSE IF value("accel") = {} THEN {} ELSE other
        kept(f) == CASE f = "accelX" -> axis(f, {0})
                     [] f = "accelY" -> axis(f, {0})
                     [] f = "accelZ" -> axis(f, value("accel"))
                     [] OTHER -> value(f)
    IN  IF \/ columns.of.altitude > Len(cells)
           \/ \E f \in Fields : read[f] = {}
           \/ \E n \in value("latitude") : AbsOf(n) > 2 * MaxLatitude
           \/ \E n \in value("longitude") : AbsOf(n) > 2 * MaxLongitude
        THEN {}
        ELSE {[timestamp |-> t, value |-> [f \in Fields \ {"accel"} |-> kept(f)]] : t \in stamps}

\* The fields a trace can be drawn from, as FlightSession names its metrics.
applyMetricsInSource(columns) ==
    LET has(fields) == \E f \in fields : columns.of[f] # 0
    IN  [altitude |-> TRUE, temperature |-> has({"temperature"}), pressure |-> has({"pressure"}),
         acceleration |-> has({"accel", "accelX", "accelY", "accelZ"}),
         battery |-> has({"battery"}), rssi |-> has({"rssi"}),
         gyro |-> has({"gyroX", "gyroY", "gyroZ"}),
         latitude |-> has({"latitude"}), longitude |-> has({"longitude"})]

hasRequiredCells(cells, columns) ==
    columns.time <= Len(cells) /\ columns.of.altitude <= Len(cells)

\* The samples of the rows that make one, in their order.
Accepted(rows, columns) ==
    LET kept == SelectSeq(rows, LAMBDA r : /\ hasRequiredCells(r, columns)
                                           /\ sampleFromCells(r, columns) # {})
    IN  [i \in DOMAIN kept |-> CHOOSE s \in sampleFromCells(kept[i], columns) : TRUE]

-----------------------------------------------------------------------------
\* What a load returns, with the session it leaves in out.

canceled_load_result(out) == [outcome |-> "canceled", out |-> out]
failed_load_result(out) == [outcome |-> "error", out |-> out]

finishTelemetrySession(samples, columns, out) ==
    IF samples = <<>> THEN failed_load_result(out)
    ELSE [outcome |-> "ok",
          out |-> [samples |-> samples, metricsInSource |-> applyMetricsInSource(columns)]]

HeaderText(line) ==
    LET t == trimInPlace(line)
    IN  IF t # <<>> /\ t[1] = Hash THEN trimInPlace(Tail(t)) ELSE t

\* Poll 0 is the first, poll i that of line i, and the last follows the lines.
loadTheseusCsv(lines, cancel, out) ==
    LET named == {i \in DOMAIN lines : HeaderText(lines[i]) # <<>>}
        at == IF named = {} THEN Len(lines) ELSE Min(named)
        columns == UNION {resolveTelemetryColumns(splitCsvLine(HeaderText(lines[i]))) :
                              i \in named \cap {at}}
        trimmed == [i \in 1 .. Len(lines) - at |-> trimInPlace(lines[at + i])]
        data == SelectSeq(trimmed, LAMBDA t : t # <<>> /\ t[1] # Hash)
        rows == [i \in DOMAIN data |-> splitCsvLine(data[i])]
    IN  IF cancel <= at THEN canceled_load_result(out)
        ELSE IF columns = {} THEN failed_load_result(out)
        ELSE IF cancel <= Len(lines) + 1 THEN canceled_load_result(out)
        ELSE LET c == CHOOSE d \in columns : TRUE
             IN  finishTelemetrySession(Accepted(rows, c), c, out)

-----------------------------------------------------------------------------
\* FlightLogManager::exportSessionToCsv, whose files are loaded again.

ExportedFields ==
    <<"altitude", "temperature", "pressure", "accelX", "accelY", "accelZ", "latitude",
      "longitude", "battery", "rssi", "gyroX", "gyroY", "gyroZ",
      "attitudeX", "attitudeY", "attitudeZ">>

ExportedHeader ==
    <<"timestamp_ms", "altitude", "temperature", "pressure", "acceleration_x",
      "acceleration_y", "acceleration_z", "latitude", "longitude", "battery_voltage", "rssi",
      "angular_velocity_x", "angular_velocity_y", "angular_velocity_z",
      "attitude_x_deg", "attitude_y_deg", "attitude_z_deg">>

Line(cells) ==
    FlattenSeq([i \in DOMAIN cells |-> IF i = 1 THEN cells[i] ELSE <<Comma>> \o cells[i]])

\* A value that is not finite leaves its cell empty.
writeCsvSample(sample) ==
    Line(<< <<Number(2 * sample.timestamp)>> >> \o
         [i \in DOMAIN ExportedFields |->
             LET v == sample.value[ExportedFields[i]]
             IN  IF v = {} THEN <<>> ELSE <<Number(CHOOSE n \in v : TRUE)>>])

exportSessionToCsv(samples) ==
    <<Line([i \in DOMAIN ExportedHeader |-> <<Word(ExportedHeader[i])>>])>>
    \o [i \in DOMAIN samples |-> writeCsvSample(samples[i])]

=============================================================================
