------------------------- MODULE MCRecordedSession -------------------------
(***************************************************************************)
(* Small recordings for RecordedSession: packets of three characters.      *)
(***************************************************************************)
EXTENDS RecordedSession

Sign == <<"T">>
Digit == <<"2">>

NoPacket == [intact |-> FALSE, type |-> "other", device |-> 0, at |-> 0]
Char(c) == [char |-> c, packet |-> NoPacket]

Sent(intact, type, device, at) ==
    <<Char("T"), Char("2"),
      [char |-> "x",
       packet |-> [intact |-> intact, type |-> type, device |-> device, at |-> at]]>>

Packet(device, at) == Sent(TRUE, "imu", device, at)

\* The clock wraps between the first two packets, at 8; the third goes back by
\* half a period, and the fourth is beyond the largest elapsed time.
Wrapping == Packet(1, 7) \o Packet(1, 9) \o Packet(1, 5) \o Packet(1, 12)

\* Three damaged packets, one of an unsupported type, one that is not intact, one of
\* another device, and one cut off by the end of the file.
Damaged == <<Char("T"), Char("2"), Char("nl"), Char("T"), Char("2"), Char("T"), Char("x")>>
               \o Sent(TRUE, "other", 1, 1) \o Sent(FALSE, "imu", 1, 1) 
               \o Packet(1, 2) \o Packet(2, 3) \o <<Char("T"), Char("2")>>

TwoRecordings == {Wrapping, Damaged}

Short == Packet(1, 1) \o Packet(1, 2)
OneRecording == {Short}

=============================================================================
