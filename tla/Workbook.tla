------------------------------ MODULE Workbook ------------------------------
(***************************************************************************)
(* SampleFileLoader.cpp: the first worksheet of a workbook.  An entry of   *)
(* the archive holds the elements of an XML document; an element           *)
(* "error" is where the document is not well formed.                       *)
(***************************************************************************)
EXTENDS SampleFileLoader

SharedStrings == <<"xl", "sharedStrings.xml">>
WorkbookPart == <<"xl", "workbook.xml">>
RelationshipsPart == <<"xl", "_rels", "workbook.xml.rels">>

findWorkbookEnd(archive) ==
    LET ends == {o \in 0 .. Len(archive) - 1 : SigAt(archive, o) = "end"}
    IN  {o \in ends : \A p \in ends : p <= o}

\* One turn of the loop over the directory: of two entries of a name the later.
ReadWorkbookEntry(archive, read) ==
    LET o == read.offset
        cell == archive[o + 1]
        next == o + HeaderCells + cell.name + cell.extra + cell.comment
        name == IF cell.name = 1 THEN archive[o + HeaderCells + 1].is ELSE <<>>
    IN  IF \/ ~read.ok
           \/ ~rangeFits(Len(archive), o, HeaderCells) \/ SigAt(archive, o) # "central"
           \/ ~rangeFits(Len(archive), o + HeaderCells, cell.name) \/ next > Len(archive)
        THEN [read EXCEPT !.ok = FALSE]
        ELSE [ok |-> TRUE, offset |-> next,
              entries |-> [n \in (DOMAIN read.entries) \cup {name} |->
                              IF n = name THEN cell ELSE read.entries[n]]]

\* The entries of the archive, a function from names, or none.
readZipCentralDirectory(archive) ==
    IF findWorkbookEnd(archive) = {} THEN {}
    ELSE LET eocd == archive[1 + CHOOSE o \in findWorkbookEnd(archive) : TRUE]
             read == FoldLeft(LAMBDA r, i : ReadWorkbookEntry(archive, r),
                              [ok |-> TRUE, offset |-> eocd.at, entries |-> <<>>],
                              [i \in 1 .. eocd.count |-> i])
         IN  IF rangeFits(Len(archive), eocd.at, eocd.size) /\ read.ok THEN {read.entries} ELSE {}

\* The content of the named entry, or none.  Its digest is not looked at.
unzipEntry(archive, entries, name) ==
    IF \/ name \notin DOMAIN entries \/ entries[name].size > kMaxXlsxEntryBytes
       \/ ~rangeFits(Len(archive), entries[name].at, HeaderCells)
       \/ SigAt(archive, entries[name].at) # "local"
    THEN {}
    ELSE LET e == entries[name]
             local == archive[e.at + 1]
             dataAt == e.at + HeaderCells + local.name + local.extra
             cells == SubSeq(archive, dataAt + 1, dataAt + e.packed)
         IN  IF ~rangeFits(Len(archive), dataAt, e.packed) THEN {}
             ELSE CASE e.compression = "stored" -> {c \in {Stored(cells)} : e.packed = e.size}
                    [] e.compression = "deflated" -> {s.output : s \in {t \in Inflated(cells) :
                                                          Len(t.output) = e.size}}
                    [] OTHER -> {}

-----------------------------------------------------------------------------

Broken(content) == \E i \in DOMAIN content : content[i].element = "error"

\* The elements of a kind that precede the error, if there is one.
Elements(content, kind) ==
    LET errors == {i \in DOMAIN content : content[i].element = "error"}
        sound == IF errors = {} THEN content ELSE SubSeq(content, 1, Min(errors) - 1)
    IN  SelectSeq(sound, LAMBDA e : e.element = kind)

readTextRuns(runs) == FlattenSeq(runs)

readSharedStrings(content) ==
    LET strings == Elements(content, "si")
    IN  IF Broken(content) THEN {}
        ELSE {[i \in DOMAIN strings |-> readTextRuns(strings[i].runs)]}

\* The column a reference's letters name, counted from 0; -1 is none.  The
\* division keeps the value from passing the limit.
columnIndexFromCellRef(ref) ==
    LET value == FoldLeft(LAMBDA v, digit :
                              IF v < 0 \/ v > (kMaxXlsxColumns - digit) \div Letters THEN -1
                              ELSE v * Letters + digit,
                          0, ref)
    IN  IF value <= 0 \/ value > kMaxXlsxColumns THEN -1 ELSE value - 1

readWorksheetCell(cell, shared) ==
    CASE cell.type = "s" ->
             LET indices == {n \div 2 : n \in {m \in parseDouble(cell.raw) : m >= 0 /\ m % 2 = 0}}
                 known == {i \in indices : i + 1 \in DOMAIN shared}
             IN  IF known = {} THEN <<>> ELSE shared[1 + CHOOSE i \in known : TRUE]
      [] cell.type = "inlineStr" -> readTextRuns(cell.runs)
      [] OTHER -> cell.raw

\* A cell of a row: its column is the one it names or the next.  Slots say which
\* place a column is kept at, 0 for none; before the header every column is kept.
ReadCell(read, cell, shared, slots) ==
    LET explicit == columnIndexFromCellRef(cell.ref)
        column == IF explicit >= 0 THEN explicit ELSE read.next
        slot == IF slots = <<>> THEN column + 1 ELSE slots[column + 1]
        size == IF slot > Len(read.cells) THEN slot ELSE Len(read.cells)
    IN  IF \/ ~read.ok \/ (cell.ref # <<>> /\ explicit < 0) \/ column >= kMaxXlsxColumns
        THEN [read EXCEPT !.ok = FALSE]
        ELSE [ok |-> TRUE, next |-> column + 1,
              cells |-> [i \in 1 .. size |->
                            IF i = slot THEN readWorksheetCell(cell, shared)
                            ELSE IF i \in DOMAIN read.cells THEN read.cells[i] ELSE <<>>]]

readWorksheetRow(cells, shared, slots, retained) ==
    FoldLeft(LAMBDA r, c : ReadCell(r, c, shared, slots),
             [ok |-> TRUE, next |-> 0, cells |-> [i \in 1 .. retained |-> <<>>]], cells)

rowIsEmpty(row) == \A i \in DOMAIN row : trimInPlace(row[i]) = <<>>

\* Only the telemetry columns are kept, each at a place of its own; which place
\* it is does not matter, and here the order of the columns is kept.
SlotOf(columns, c) ==
    LET retained == ({columns.time} \cup {columns.of[f] : f \in Fields}) \ {0}
    IN  IF c \in retained THEN Cardinality({d \in retained : d <= c}) ELSE 0

\* Mutant: a column that is kept is still looked for where the worksheet has it.
Bug_Remapped(columns) == columns

Remapped(columns) ==
    [columns EXCEPT !.time = SlotOf(columns, @),
                    !.of = [f \in Fields |-> SlotOf(columns, @[f])]]

\* The row that is the header.
ReadHeader(read, cells, columns) ==
    [read EXCEPT !.rowCount = @ + 1, !.columns = {Remapped(columns)},
                 !.slots = [c \in 1 .. kMaxXlsxColumns |-> SlotOf(columns, c)],
                 !.retained = Cardinality({SlotOf(columns, c) : c \in DOMAIN cells} \ {0})]

\* One row: the header is the first that is not empty.
ReadRow(read, row) ==
    IF read.rowCount = kMaxXlsxRows THEN [read EXCEPT !.status = "failed"]
    ELSE IF ~row.ok THEN [read EXCEPT !.status = "broken"]
    ELSE IF read.columns # {} THEN [read EXCEPT !.rowCount = @ + 1, !.rows = Append(@, row.cells)]
    ELSE IF rowIsEmpty(row.cells) THEN [read EXCEPT !.rowCount = @ + 1]
    ELSE IF resolveTelemetryColumns(row.cells) = {} THEN [read EXCEPT !.status = "failed"]
    ELSE ReadHeader(read, row.cells, CHOOSE c \in resolveTelemetryColumns(row.cells) : TRUE)

\* One element of the worksheet.
ReadElement(read, element, shared) ==
    CASE element.element = "error" -> [read EXCEPT !.status = "broken"]
      [] element.element = "row" ->
             ReadRow(read, readWorksheetRow(element.cells, shared, read.slots, read.retained))
      [] OTHER -> read

\* The rows of the worksheet; its elements are polled from poll + 1 on.
ReadWorksheet(content, shared, cancel, poll) ==
    FoldLeft(LAMBDA r, i : IF r.status # "reading" THEN r
                           ELSE IF cancel <= poll + i THEN [r EXCEPT !.status = "canceled"]
                           ELSE ReadElement(r, content[i], shared),
             [status |-> "reading", columns |-> {}, slots |-> <<>>, retained |-> 0,
              rowCount |-> 0, rows |-> <<>>],
             [i \in DOMAIN content |-> i])

\* What comes of it, if the last poll does not cancel it.
finishWorksheet(read, canceled, out) ==
    IF read.status = "failed" THEN failed_load_result(out)
    ELSE IF canceled THEN canceled_load_result(out)
    ELSE IF read.status = "broken" \/ read.columns = {} THEN failed_load_result(out)
    ELSE LET columns == CHOOSE c \in read.columns : TRUE
         IN  finishTelemetrySession(Accepted(read.rows, columns), columns, out)

loadWorksheet(content, shared, cancel, poll, out) ==
    finishWorksheet(ReadWorksheet(content, shared, cancel, poll),
                    cancel <= poll + Len(content) + 1, out)

-----------------------------------------------------------------------------
\* Which entry is the worksheet.

firstWorksheetRelationshipId(content) ==
    LET sheets == SelectSeq(Elements(content, "sheet"), LAMBDA e : e.id # "")
    IN  IF sheets = <<>> THEN {} ELSE {sheets[1].id}

worksheetRelationshipTarget(content, id) ==
    LET relationships == SelectSeq(Elements(content, "Relationship"), LAMBDA e : e.id = id)
    IN  IF relationships = <<>> THEN {} ELSE {relationships[1].target}

\* A target is the sequence of its parts between slashes, backslashes among them.
worksheetTargetToZipEntryName(target) ==
    LET solid == {i \in DOMAIN target : target[i] # "."}
        path == IF solid = {} THEN <<>> ELSE SubSeq(target, Min(solid), Len(target))
    IN  IF path # <<>> /\ path[1] = "" THEN Tail(path)
        ELSE IF Len(path) > 1 /\ path[1] = "xl" THEN path
        ELSE <<"xl">> \o path

worksheetEntryNameFromWorkbook(archive, entries) ==
    LET ids == UNION {firstWorksheetRelationshipId(c) :
                          c \in unzipEntry(archive, entries, WorkbookPart)}
        targets == UNION {worksheetRelationshipTarget(c, id) :
                              c \in unzipEntry(archive, entries, RelationshipsPart), id \in ids}
    IN  IF {WorkbookPart, RelationshipsPart} \subseteq DOMAIN entries
        THEN {worksheetTargetToZipEntryName(t) : t \in targets} \cap DOMAIN entries
        ELSE {}

firstWorksheetEntryNameByPath(entries) ==
    LET present == SelectSeq(SheetPaths, LAMBDA p : p \in DOMAIN entries)
    IN  IF present = <<>> THEN {} ELSE {present[1]}

\* The polls: 0 the first, 1 the file, 2 its directory, 3 the shared strings,
\* 4 the workbook, 5 the worksheet, then one for each element and the last.
loadXlsx(archive, cancel, out) ==
    LET entries == CHOOSE e \in readZipCentralDirectory(archive) : TRUE
        strings == IF SharedStrings \in DOMAIN entries
                   THEN UNION {readSharedStrings(c) :
                                   c \in unzipEntry(archive, entries, SharedStrings)}
                   ELSE {<<>>}
        named == worksheetEntryNameFromWorkbook(archive, entries)
        worksheet == IF named # {} THEN named ELSE firstWorksheetEntryNameByPath(entries)
        contents == UNION {unzipEntry(archive, entries, n) : n \in worksheet}
    IN  IF cancel <= 1 THEN canceled_load_result(out)
        ELSE IF Len(archive) > kMaxXlsxFileBytes THEN failed_load_result(out)
        ELSE IF cancel <= 2 THEN canceled_load_result(out)
        ELSE IF readZipCentralDirectory(archive) = {} THEN failed_load_result(out)
        ELSE IF cancel <= 3 THEN canceled_load_result(out)
        ELSE IF strings = {} THEN failed_load_result(out)
        ELSE IF cancel <= 4 THEN canceled_load_result(out)
        ELSE IF worksheet = {} THEN failed_load_result(out)
        ELSE IF cancel <= 5 THEN canceled_load_result(out)
        ELSE IF contents = {} THEN failed_load_result(out)
        ELSE loadWorksheet(CHOOSE c \in contents : TRUE, CHOOSE s \in strings : TRUE,
                           cancel, 5, out)

=============================================================================
