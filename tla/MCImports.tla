----------------------------- MODULE MCImports -----------------------------
(***************************************************************************)
(* What the loaders of flight logs are given, and what is asked of them.   *)
(***************************************************************************)
EXTENDS Workbook, TelemCapture

MCSheetPaths == << <<"xl", "worksheets", "sheet1.xml">>, <<"xl", "worksheets", "sheet2.xml">> >>

Before == [samples |-> <<>>, metricsInSource |-> [ofBefore |-> TRUE]]
Never == 1000

\* --- a session that was exported ---

SampleOf(t, values) ==
    [timestamp |-> t,
     value |-> [f \in Fields \ {"accel"} |-> IF f \in DOMAIN values THEN values[f] ELSE {}]]

ExportedSamples ==
    {SampleOf(t, [altitude |-> h, latitude |-> l, accelZ |-> z, attitudeZ |-> z]) :
        t \in {-1, 0, 7}, h \in {{}, {0}, {-3}, {40}, {41}}, l \in {{}, {-6}, {7}}, z \in {{}, {1}}}

\* A sample the loader takes: every value within what it accepts.
WithinLimits(sample) ==
    /\ \A f \in DOMAIN sample.value : \A n \in sample.value[f] :
           AbsOf(n) <= 2 * MAXIMUM_TELEMETRY_MAGNITUDE
    /\ \A n \in sample.value.latitude : AbsOf(n) <= 2 * MaxLatitude
    /\ \A n \in sample.value.longitude : AbsOf(n) <= 2 * MaxLongitude

\* --- a table, as text and as a workbook ---

Headers == {<<"time_ms", "altitude">>, <<"altitude", "time">>, <<"other", "time", "altitude_m">>,
            <<"time", "alt_m", "time_ms">>, <<"timestamp_ms", "altitude", "accel">>,
            <<"altitude", "accel_z", "accel", "time_s">>, <<"lat", "time_ms", "altitude">>,
            <<"time_ms", "other">>, <<"altitude", "other", "altitude">>}

Texts == {<<>>, <<Number(3)>>, <<Number(-50)>>, <<Space, Number(4)>>, <<Word("x")>>}

TableRows(n) == [1 .. n -> IF n < 4 THEN Texts ELSE Texts \ {<<Number(-50)>>, <<Word("x")>>}]

HeaderRow(names) == [i \in DOMAIN names |-> <<Word(names[i])>>]

Tables == UNION {{<<HeaderRow(h), r>> : r \in TableRows(Len(h))} : h \in Headers}
          \cup {<<HeaderRow(<<"time_ms", "altitude">>), r, s>> :
                     r \in TableRows(2), s \in [1 .. 2 -> {<<>>, <<Number(3)>>, <<Word("x")>>}]}

CsvOf(table) == [i \in DOMAIN table |-> Line(table[i])]

\* The ways a writer may lay a table out: which texts are shared or inline, which
\* cells name their column, how entries are packed and how the sheet is found.
Layouts ==
    {l \in [shared : BOOLEAN, refs : BOOLEAN, compression : {"stored", "deflated"},
            found : {"target", "absolute", "path"}] :
        /\ l.compression = "deflated" <=> l.refs = l.shared
        /\ l.found = "path" <=> l.shared}

SharedIndex(table, text) ==
    Min({i \in 1 .. Len(table) * Len(table[1]) :
            table[1 + ((i - 1) \div Len(table[1]))][1 + ((i - 1) % Len(table[1]))] = text})

LettersOf(column) ==
    IF column <= Letters THEN <<column>>
    ELSE <<(column - 1) \div Letters, 1 + ((column - 1) % Letters)>>

SheetCell(table, i, j, layout) ==
    LET text == table[i][j]
    IN  [ref |-> IF layout.refs THEN LettersOf(j) ELSE <<>>,
         type |-> IF layout.shared THEN "s" ELSE IF text # <<>> /\ text[1].is = "word"
                                               THEN "inlineStr" ELSE "n",
         raw |-> IF layout.shared THEN <<Number(2 * (SharedIndex(table, text) - 1))>> ELSE text,
         runs |-> IF text = <<>> THEN <<>> ELSE <<SubSeq(text, 1, 1), Tail(text)>>]

SheetRow(table, i, layout) ==
    LET cells == [j \in DOMAIN table[i] |-> SheetCell(table, i, j, layout)]
        named == SelectSeq(cells, LAMBDA c : c.type = "s" \/ c.raw # <<>>)
    IN  [element |-> "row", cells |-> IF layout.refs THEN named ELSE cells]

Sheet(table, layout) ==
    <<[element |-> "row", cells |-> <<>>]>>
    \o [i \in DOMAIN table |-> SheetRow(table, i, layout)]

SharedPart(table) ==
    [i \in 1 .. Len(table) * Len(table[1]) |->
        [element |-> "si", runs |-> <<table[1 + ((i - 1) \div Len(table[1]))]
                                           [1 + ((i - 1) % Len(table[1]))]>>]]

Part(name, content, layout) ==
    [name |-> name, content |-> content, compression |-> layout.compression,
     flags |-> {}, attributes |-> 0, extra |-> IF layout.refs THEN 1 ELSE 0]

Decoy == <<[element |-> "row", cells |-> <<>>]>>

WorkbookOf(table, layout) ==
    LET second == Part(MCSheetPaths[2], Sheet(table, layout), layout)
        strings == Part(SharedStrings, SharedPart(table), layout)
        workbook == Part(WorkbookPart, <<[element |-> "sheet", id |-> ""],
                                         [element |-> "sheet", id |-> "r1"]>>, layout)
        target == IF layout.found = "absolute" THEN <<"">> \o MCSheetPaths[2]
                  ELSE <<".", "worksheets", "sheet2.xml">>
        relations == Part(RelationshipsPart, <<[element |-> "Relationship", id |-> "r2",
                              target |-> <<"styles.xml">>],
                         [element |-> "Relationship", id |-> "r1", target |-> target]>>, layout)
        parts == IF layout.found = "path" THEN <<second, strings>>
                 ELSE <<Part(MCSheetPaths[1], Decoy, layout), workbook, strings, relations, second>>
    IN  Archive(parts, <<>>)

\* --- a capture of packets, with the time each was really sent at ---

Packet(device, time, kind, decodes) ==
    [form |-> "packet", device |-> device, stamp |-> time % Period, kind |-> kind,
     decodes |-> decodes, payload |-> [device |-> device, time |-> time]]

Packets == {Packet(d, t, k, TRUE) : d \in {1, 2}, t \in {1, 3, 4, 5, 7}, k \in {"TeleMetrumV2"}}
           \cup {Packet(1, t, k, ok) : t \in {2, 6}, k \in {Imu, "Gps"}, ok \in BOOLEAN}
           \cup {[Packet(1, 9, "TeleMiniV1", TRUE) EXCEPT !.form = "other"]}

Captures == UNION {[1 .. n -> Packets] : n \in 0 .. 3}

-----------------------------------------------------------------------------

ImportCases ==
    {[about |-> "export", samples |-> <<s>>] : s \in ExportedSamples}
    \cup {[about |-> "export", samples |-> <<s, t>>] :
              s \in {x \in ExportedSamples : x.timestamp = 7},
              t \in {x \in ExportedSamples : x.timestamp # 7}}
    \cup {[about |-> "table", table |-> t, layout |-> {}] : t \in Tables}
    \cup {[about |-> "capture", lines |-> c, cancel |-> n] : c \in Captures, n \in {1, Never}}
    \cup {[about |-> "cancel", table |-> t, cancel |-> n] :
              t \in {x \in Tables : Len(x) = 3}, n \in 0 .. 9}
    \cup {[about |-> "reference", letters |-> r] : r \in UNION {[1 .. n -> 1 .. Letters] : n \in 0 .. 3}}

\* FlightLogManager::exportSessionToCsv, then loadTheseusCsv: of the samples that
\* were exported those within the loader's limits come back, each with its time and
\* every value it had, an unknown value as unknown; none comes back altered.
ExportedSamplesComeBack(samples) ==
    LET kept == SelectSeq(samples, WithinLimits)
        loaded == loadTheseusCsv(exportSessionToCsv(samples), Never, Before)
    IN  IF kept = <<>> THEN loaded.outcome = "error"
        ELSE loaded.out.samples = kept

\* loadXlsx and loadTheseusCsv: a table means the same session whether it is read
\* as text or as a workbook, wherever its worksheet lies and whether its cells are
\* shared, inline, named or packed.
TableMeansOneSession(table, layout) ==
    loadXlsx(WorkbookOf(table, layout), Never, Before)
        = loadTheseusCsv(CsvOf(table), Never, Before)

\* columnIndexFromCellRef: the column a reference names in bijective base Letters,
\* or none past the limit, whatever the number of its letters.
ReferenceNamesColumn(letters) ==
    LET value == FoldLeft(LAMBDA v, d : v * Letters + d, 0, letters)
    IN  columnIndexFromCellRef(letters) = IF value \in 1 .. kMaxXlsxColumns THEN value - 1 ELSE -1

\* loadTelemFile: the samples are of one device, their times never go back, two
\* that follow each other are as far apart as their packets, and a capture whose
\* packets are in order and close enough is replayed whole.
TimelineIsTrue(lines) ==
    LET samples == loadTelemFile(lines, Never, [Before EXCEPT !.samples = <<>>]).out.samples
        usable == SelectSeq(lines, LAMBDA p : /\ p.form = "packet" /\ p.decodes
                                              /\ p.kind \notin {"Gps", "Config"})
        own == SelectSeq(usable, LAMBDA p : p.device = usable[1].device)
        steady == \A i \in 1 .. Len(own) - 1 :
                      own[i + 1].payload.time - own[i].payload.time \in 0 .. (Period \div 2) - 1
    IN  /\ \A i \in DOMAIN samples : samples[i].payload.device = usable[1].device
        /\ \A i \in 1 .. Len(samples) - 1 :
               LET apart == samples[i + 1].timestamp - samples[i].timestamp
               IN  /\ apart >= 0
                   /\ (samples[i + 1].payload.time - samples[i].payload.time - apart) % Period = 0
        /\ steady =>
               /\ Len(samples) = Len(own)
               /\ \A i \in DOMAIN samples :
                      samples[i].timestamp = own[i].payload.time - own[1].payload.time

\* loadTheseusCsv, loadXlsx, loadTelemFile: a load that fails or is cancelled
\* leaves the session it was to replace as it was, and one cancelled before its
\* last poll never replaces it.
AllOrNothing(result, cancelled) ==
    /\ result.outcome # "ok" => result.out = Before
    /\ cancelled => result.outcome # "ok"
    /\ result.outcome = "ok" => result.out.samples # <<>>

=============================================================================
