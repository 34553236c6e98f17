----------------------------- MODULE ZipFormat -----------------------------
(***************************************************************************)
(* What the two archive readers take a ZIP file to be: a sequence of       *)
(* cells, one for each header, name and extra field and one for each byte  *)
(* of stored data.  Offsets count cells from 0.  A cell read as something  *)
(* it is not has another signature.                                        *)
(***************************************************************************)
LOCAL INSTANCE Naturals
LOCAL INSTANCE Sequences
LOCAL INSTANCE SequencesExt

HeaderCells == 1

Byte(b) == [sig |-> "byte", is |-> b]

SigAt(archive, offset) == archive[offset + 1].sig

rangeFits(size, offset, count) == offset <= size /\ count <= size - offset

\* A digest that tells any two contents apart.
Crc(content) == [crc |-> content]

\* The bytes of stored data; a cell that is no data byte reads as one none wrote.
Stored(cells) == [i \in DOMAIN cells |-> IF cells[i].sig = "byte" THEN cells[i].is
                                         ELSE <<"garbage">>]

Packed(content, compression) ==
    IF compression = "deflated" THEN <<[sig |-> "deflated", holds |-> content]>>
    ELSE [i \in DOMAIN content |-> Byte(content[i])]

\* inflate: the stream that starts at the first cell, what it expands to and
\* how many cells it took; none where no stream starts.
Inflated(cells) ==
    IF cells # <<>> /\ cells[1].sig = "deflated"
    THEN {[output |-> cells[1].holds, taken |-> 1]}
    ELSE {}

-----------------------------------------------------------------------------

\* A writer of archives: the local parts of the entries in their order, then the
\* directory, then its end.  An entry has a name, a content, a compression,
\* flags, attributes and the number of cells of its extra field.
LocalPart(e) ==
    <<[sig |-> "local", flags |-> e.flags, compression |-> e.compression,
       crc |-> Crc(e.content), packed |-> Len(Packed(e.content, e.compression)),
       size |-> Len(e.content), name |-> 1, extra |-> e.extra], Byte(e.name)>>
    \o [i \in 1 .. e.extra |-> Byte("extra")]
    \o Packed(e.content, e.compression)

CentralPart(e, at) ==
    <<[sig |-> "central", flags |-> e.flags, compression |-> e.compression,
       crc |-> Crc(e.content), packed |-> Len(Packed(e.content, e.compression)),
       size |-> Len(e.content), name |-> 1, extra |-> e.extra, comment |-> 0,
       disk |-> 0, attributes |-> e.attributes, at |-> at], Byte(e.name)>>
    \o [i \in 1 .. e.extra |-> Byte("extra")]

Archive(entries, comment) ==
    LET locals(n) == FlattenSeq([i \in 1 .. n |-> LocalPart(entries[i])])
        all == locals(Len(entries))
        directory == FlattenSeq([i \in DOMAIN entries |->
                                     CentralPart(entries[i], Len(locals(i - 1)))])
    IN  all \o directory
        \o <<[sig |-> "end", disk |-> 0, centralDisk |-> 0, onDisk |-> Len(entries),
              count |-> Len(entries), size |-> Len(directory), at |-> Len(all),
              comment |-> Len(comment)]>>
        \o comment

=============================================================================
