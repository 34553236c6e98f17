---------------------------- MODULE MCAlgorithms ----------------------------
(***************************************************************************)
(* The parts that compute a result from an input: each input of bounded    *)
(* size is a state.  A stream is read one character at a time, and a       *)
(* table is laid out in every way.                                         *)
(***************************************************************************)
EXTENDS MCImports, MCPreviews, MCSkins, PacketFramer, FiniteSets

CONSTANTS
    Alphabet,    \* the characters a stream is made of
    MaxStream    \* bound: the length of the stream

VARIABLES
    input,       \* what is computed on; the next three only when it is a stream
    stream,      \* the characters so far
    pending,     \* m_pending of the framer
    answers      \* history: the frames and errors it gave, with their places

vars == <<input, stream, pending, answers>>

TwoLetters == <<"T", "E">>
TwoDigits == <<"2", "2">>

StreamInit == stream = <<>> /\ pending = <<>> /\ answers = {}

Read(c) ==
    LET did == FrameChar(pending, [char |-> c])
    IN  /\ Len(stream) < MaxStream
        /\ stream' = Append(stream, [char |-> c])
        /\ pending' = did.pending
        /\ answers' = IF did.answer = "none" THEN answers
                      ELSE answers \cup {[at |-> Len(stream'), kind |-> did.answer,
                                          size |-> Len(pending) + 1]}

Init ==
    /\ input \in ArchiveCases \cup ImportCases \cup ThemeCases \cup PreviewCases
                  \cup {[about |-> "stream"]}
    /\ StreamInit

ReadStream == \E c \in Alphabet : input.about = "stream" /\ Read(c) /\ UNCHANGED input

LayOut ==
    /\ input.about = "table" /\ input.layout = {}
    /\ \E l \in Layouts : input' = [input EXCEPT !.layout = {l}]
    /\ UNCHANGED <<stream, pending, answers>>

Next == ReadStream \/ LayOut

Spec == Init /\ [][Next]_vars

-----------------------------------------------------------------------------

StandsAsPacket(s) ==
    \E gap \in {<<>>, <<"sp">>} :
        LET header == Magic \o gap \o LengthMark
        IN  /\ Len(s) = Len(header) + PayloadChars
            /\ SubSeq(Chars(s), 1, Len(header)) = header
            /\ \A i \in Len(header) + 1 .. Len(s) : s[i].char \notin {"T", "nl"}

PacketHeaders ==
    {i \in 1 .. Len(stream) - Len(Magic) + 1 :
        Chars(SubSeq(stream, i, i + Len(Magic) - 1)) = Magic}

\* The next T after i, or the end of the stream.
NextSign(i) ==
    LET signs == {j \in DOMAIN stream : j > i /\ stream[j].char = "T"}
    IN  IF signs = {} THEN Len(stream)
        ELSE CHOOSE j \in signs : \A k \in signs : j <= k

\* AltosFramer::read_frame: the frames are exactly the packets that stand in the
\* stream, whatever stands between, before or inside them, none missed because a
\* damaged one precedes it and none spliced out of two; and whatever begins as a
\* packet is answered once, as a frame or one error, or is still being read.
FramesAreThePackets ==
    /\ {<<a.at - a.size + 1, a.at>> : a \in {b \in answers : b.kind = "frame"}}
           = {<<i, j>> \in (DOMAIN stream) \X (DOMAIN stream) :
                 i <= j /\ StandsAsPacket(SubSeq(stream, i, j))}
    /\ \A i \in PacketHeaders :
           LET given == {a \in answers : i < a.at /\ a.at <= NextSign(i)}
           IN  IF given = {} THEN pending = SubSeq(stream, i, Len(stream))
               ELSE Cardinality(given) = 1

-----------------------------------------------------------------------------

\* readSkinArchive: what was put into an archive comes out of it, or nothing does.
ArchivesMeanTheirFiles ==
    input.about = "archive" => ArchiveMeansItsFiles(input.entries, input.damage)

\* parseThemeJson, importArchiveDetailed and loadFromDirectory: a theme that is
\* accepted is legible, and one that was imported is the same when it is read again.
ThemesAreSound ==
    input.about = "theme" =>
        /\ AcceptedThemeIsLegible(input.json, input.files)
        /\ ImportedThemeLoadsAgain(input.json, input.files)

\* What was exported comes back, and a table means the same session as text and as
\* a workbook.
TablesKeepTheirMeaning ==
    /\ input.about = "export" => ExportedSamplesComeBack(input.samples)
    /\ input.about = "table" => \A l \in input.layout : TableMeansOneSession(input.table, l)
    /\ input.about = "reference" => ReferenceNamesColumn(input.letters)

\* A plain workbook of one sheet.
PlainLayout == [shared |-> FALSE, refs |-> FALSE, compression |-> "stored", found |-> "path"]

\* A load that fails, or is cancelled at any of its polls, of which each format has
\* one a row and a few more, leaves the session it was to replace as it was.
LoadsAreAllOrNothing ==
    /\ input.about = "cancel" =>
           /\ AllOrNothing(loadTheseusCsv(CsvOf(input.table), input.cancel, Before),
                           input.cancel <= Len(input.table) + 1)
           /\ AllOrNothing(loadXlsx(WorkbookOf(input.table, PlainLayout), input.cancel, Before),
                           input.cancel <= Len(input.table) + 6)
    /\ input.about = "capture" =>
           AllOrNothing(loadTelemFile(input.lines, input.cancel, Before),
                        input.cancel <= Len(input.lines) + 1)

\* loadTheseusCsv, loadXlsx, loadTelemFile and exportSessionToCsv: a loaded session is
\* what the file says, all of it or the session that was there.
LoadsMeanTheirFiles == TablesKeepTheirMeaning /\ LoadsAreAllOrNothing

\* AltosFramer and loadTelemFile: a stream yields its packets and no others, and the
\* timeline of a capture is that of its packets.
CapturesAreTheirPackets ==
    /\ FramesAreThePackets
    /\ input.about = "capture" => TimelineIsTrue(input.lines)

\* ChartOverview, FlightPreviewCache, GpsTrajectory and buildChartFromSampleIndices: a
\* chart keeps the peaks of what it leaves out and bridges no gap, a click lands on the
\* nearest sample, and a track moves only between two places it was measured at.
PreviewsAreTrue ==
    input.about \in {"chart", "map", "timeline", "track"} => PreviewIsTrue(input)

=============================================================================
