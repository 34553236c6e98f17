---------------------------- MODULE SkinArchive ----------------------------
(***************************************************************************)
(* SkinArchive.cpp: the files of a skin out of a ZIP archive, or nothing.  *)
(* An entry's name is the sequence of its parts between slashes.           *)
(***************************************************************************)
EXTENDS Naturals, Sequences, FiniteSets, SequencesExt, ZipFormat

CONSTANTS
    kMaxThemeBytes, kMaxImageBytes,
    TextureFiles,    \* the file names that match the texture pattern
    kMaxArchiveBytes, kMaxEntries, kMaxExpandedBytes,
    Backslashed,     \* the name parts that hold a backslash
    InvalidNames,    \* the names that are empty, hold a NUL or are not UTF-8
    CaseFolded       \* function: the name parts that case folding changes, and to what

ThemeFile == <<"theme.json">>
PreviewFile == <<"preview.png">>
TexturesDirectory == <<"textures", "">>

\* The end record is the last one whose comment reaches exactly to the end.
findEndOfCentralDirectory(archive) ==
    LET ends == {o \in 0 .. Len(archive) - 1 :
                    /\ SigAt(archive, o) = "end"
                    /\ o + HeaderCells + archive[o + 1].comment = Len(archive)}
    IN  {o \in ends : \A p \in ends : p <= o}

\* The kinds of flag, compression and attribute the reader tells apart.
Encrypting == {"encrypted", "strong", "masked"}
AllowedFlags == {"level", "descriptor", "utf8"}
AllowedTypes == {"none", "regular", "directory"}

IsDirectory(e) == e.name[Len(e.name)] = "" \/ e.attributes.directory

AllowedFile(name) ==
    \/ name \in {ThemeFile, PreviewFile}
    \/ (Len(name) = 2 /\ name[1] = "textures" /\ name[2] \in TextureFiles)

validateEntryName(e) ==
    /\ e.name[1] # "" /\ \A i \in DOMAIN e.name : e.name[i] \notin Backslashed \cup {"..", "."}
    /\ e.attributes.type \in AllowedTypes
    /\ IF IsDirectory(e)
       THEN /\ e.name = TexturesDirectory
            /\ e.size = 0 /\ e.packed = 0 /\ e.compression = "stored"
       ELSE /\ AllowedFile(e.name)
            /\ e.size <= (IF e.name = ThemeFile THEN kMaxThemeBytes ELSE kMaxImageBytes)

AllowedOptions(e) ==
    /\ e.flags \cap Encrypting = {}
    /\ e.flags \subseteq AllowedFlags
    /\ e.compression = "stored" => "level" \notin e.flags
    /\ e.compression \in {"stored", "deflated"}

\* The directory entry at offset, or none.
DirectoryEntry(archive, offset, centralEnd) ==
    LET cell == archive[offset + 1]
        nameAt == offset + HeaderCells
        next == nameAt + cell.name + cell.extra + cell.comment
    IN  IF \/ ~rangeFits(Len(archive), offset, HeaderCells)
           \/ offset + HeaderCells > centralEnd
           \/ cell.sig # "central"
           \/ ~rangeFits(Len(archive), nameAt, cell.name) \/ next > centralEnd
        THEN {}
        ELSE {[name |-> IF cell.name = 1 THEN Stored(<<archive[nameAt + 1]>>)[1] ELSE <<>>,
               flags |-> cell.flags, compression |-> cell.compression, crc |-> cell.crc,
               packed |-> cell.packed, size |-> cell.size, at |-> cell.at, disk |-> cell.disk,
               attributes |-> cell.attributes, next |-> next]}

Folded(name) ==
    [i \in DOMAIN name |-> IF name[i] \in DOMAIN CaseFolded THEN CaseFolded[name[i]] ELSE name[i]]

\* One turn of the loop over the directory.
ReadEntry(archive, centralEnd, read) ==
    LET found == DirectoryEntry(archive, read.offset, centralEnd)
        accepted == {e \in found :
                        /\ e.name \notin InvalidNames
                        /\ \A i \in DOMAIN read.entries :
                               Folded(read.entries[i].name) # Folded(e.name)
                        /\ e.disk = 0
                        /\ AllowedOptions(e)
                        /\ validateEntryName(e)
                        /\ read.expanded + e.size <= kMaxExpandedBytes}
    IN  IF ~read.ok \/ accepted = {} THEN [read EXCEPT !.ok = FALSE]
        ELSE LET e == CHOOSE a \in accepted : TRUE
             IN  [ok |-> TRUE, offset |-> e.next, expanded |-> read.expanded + e.size,
                  entries |-> Append(read.entries, e)]

\* Whether the local header is that of the entry, and its data lies before the
\* directory.
LocalAgrees(archive, e, centralOffset) ==
    /\ rangeFits(Len(archive), e.at, HeaderCells) /\ SigAt(archive, e.at) = "local"
    /\ LET cell == archive[e.at + 1]
           nameAt == e.at + HeaderCells
           dataAt == nameAt + cell.name + cell.extra
       IN  /\ rangeFits(Len(archive), nameAt, cell.name) /\ cell.name = 1
           /\ Stored(<<archive[nameAt + 1]>>)[1] = e.name
           /\ cell.flags = e.flags /\ cell.compression = e.compression
           /\ \/ "descriptor" \in e.flags
              \/ cell.crc = e.crc /\ cell.packed = e.packed /\ cell.size = e.size
           /\ rangeFits(Len(archive), dataAt, e.packed)
           /\ dataAt + e.packed <= centralOffset

\* Mutant: the digest of the content is not looked at.
Bug_inflateEntry(archive, e, centralOffset) ==
    IF ~LocalAgrees(archive, e, centralOffset) THEN {}
    ELSE LET cell == archive[e.at + 1]
             dataAt == e.at + HeaderCells + cell.name + cell.extra
             cells == SubSeq(archive, dataAt + 1, dataAt + e.packed)
         IN  IF e.compression = "stored"
             THEN {s \in {Stored(cells)} : e.packed = e.size}
             ELSE {s.output : s \in {t \in Inflated(cells) :
                       Len(t.output) = e.size /\ t.taken = e.packed}}

\* An entry's content where every header, size and digest agrees, or none.
inflateEntry(archive, e, centralOffset) ==
    IF ~LocalAgrees(archive, e, centralOffset) THEN {}
    ELSE LET cell == archive[e.at + 1]
             dataAt == e.at + HeaderCells + cell.name + cell.extra
             cells == SubSeq(archive, dataAt + 1, dataAt + e.packed)
             output == IF e.compression = "stored"
                       THEN {s \in {Stored(cells)} : e.packed = e.size}
                       ELSE {s.output : s \in {t \in Inflated(cells) :
                                 Len(t.output) = e.size /\ t.taken = e.packed}}
         IN  {content \in output : Crc(content) = e.crc}

\* The archive's files, a function from names to contents, or none.
readSkinArchive(archive) ==
    IF Len(archive) > kMaxArchiveBytes \/ findEndOfCentralDirectory(archive) = {}
    THEN {}
    ELSE LET eocd == archive[1 + CHOOSE o \in findEndOfCentralDirectory(archive) : TRUE]
             endAt == CHOOSE o \in findEndOfCentralDirectory(archive) : TRUE
             centralEnd == eocd.at + eocd.size
             read == FoldLeft(LAMBDA r, i : ReadEntry(archive, centralEnd, r),
                              [ok |-> TRUE, offset |-> eocd.at, expanded |-> 0, entries |-> <<>>],
                              [i \in 1 .. eocd.count |-> i])
             content(i) == inflateEntry(archive, read.entries[i], eocd.at)
             kept == {i \in DOMAIN read.entries : ~IsDirectory(read.entries[i])}
         IN  IF /\ eocd.disk = 0 /\ eocd.centralDisk = 0
                /\ eocd.onDisk = eocd.count /\ eocd.count \in 1 .. kMaxEntries
                /\ rangeFits(Len(archive), eocd.at, eocd.size) /\ centralEnd <= endAt
                /\ read.ok /\ read.offset = centralEnd
                /\ \E i \in DOMAIN read.entries : read.entries[i].name = ThemeFile
                /\ \A i \in DOMAIN read.entries : content(i) # {}
             THEN {[name \in {read.entries[i].name : i \in kept} |->
                       CHOOSE c \in UNION {content(i) : i \in {j \in kept :
                                               read.entries[j].name = name}} : TRUE]}
             ELSE {}

=============================================================================
