---------------------------- MODULE PacketFramer ----------------------------
(***************************************************************************)
(* AltosFramer: finds "TELEM" packets in a stream of characters.           *)
(*                                                                         *)
(* A packet is the five letters of TELEM, a space or none, the length 22   *)
(* and 70 more characters, none of them a T or the end of a line.          *)
(*                                                                         *)
(* The framer reads a stream of records with a field char: "T", "sp" and   *)
(* "nl" (both line ends) matter to it, and the letters and digits of Magic *)
(* and LengthMark.                                                         *)
(***************************************************************************)
EXTENDS Integers, Sequences

CONSTANTS
    Magic,         \* "TELEM"
    LengthMark,    \* "22"
    PayloadChars   \* the 70 characters after it

ASSUME MagicAssumption ==
    /\ Magic # <<>> /\ Magic[1] = "T"
    /\ \A i \in DOMAIN Magic : i > 1 => Magic[i] # "T"
ASSUME LengthMarkAssumption ==
    LengthMark # <<>> /\ \A i \in DOMAIN LengthMark : LengthMark[i] \notin {"T", "sp", "nl"}
ASSUME PayloadAssumption == PayloadChars \in Nat \ {0}

Chars(s) == [i \in DOMAIN s |-> s[i].char]

\* What read_frame() does with a character: it goes on, returns a frame or
\* throws ("resync", "length", "cut"), and m_pending is what it keeps.
Goes(pending) == [pending |-> pending, answer |-> "none"]
Throws(pending, what) == [pending |-> pending, answer |-> what]

\* Where the packet proper begins: the number of characters before it.
Start(s) == Len(Magic) + Len(LengthMark) + (IF s[Len(Magic) + 1].char = "sp" THEN 1 ELSE 0)

MatchesMagic(s) == Chars(s) = SubSeq(Magic, 1, Len(s))

HasLength(s) == Chars(SubSeq(s, Start(s) - Len(LengthMark) + 1, Start(s))) = LengthMark

\* Characters after the letters of Magic.
PastMagic(grown) ==
    IF Len(grown) = Start(grown) /\ ~HasLength(grown) THEN Throws(<<>>, "length")
    ELSE IF grown[Len(grown)].char = "nl" THEN Throws(<<>>, "cut")
    ELSE IF Len(grown) = Start(grown) + PayloadChars
    THEN [pending |-> <<>>, answer |-> "frame"]
    ELSE Goes(grown)

\* One turn of the loop of read_frame(), after a character has been read.  A T
\* begins a packet wherever it stands.
FrameChar(s, c) ==
    LET grown == Append(s, c)
    IN  IF c.char = "T" THEN IF Len(s) > 1 THEN Throws(<<c>>, "resync") ELSE Goes(<<c>>)
        ELSE IF s = <<>> THEN Goes(<<>>)
        ELSE IF Len(grown) > Len(Magic) THEN PastMagic(grown)
        ELSE IF MatchesMagic(grown) THEN Goes(grown) ELSE Goes(<<>>)

=============================================================================
