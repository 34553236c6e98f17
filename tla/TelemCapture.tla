---------------------------- MODULE TelemCapture ----------------------------
(***************************************************************************)
(* SampleFileLoader.cpp: a TELEM capture.  A line is a packet or not; a    *)
(* packet has a device, the value of its clock, a kind, and a payload its  *)
(* decoder accepts or not.                                                 *)
(***************************************************************************)
EXTENDS SampleFileLoader

Placeholders == {"Gps", "Config"}
Minis == {"TeleMiniV1", "TeleMiniV3"}
Imu == "TeleMegaInvensenseIMU"

\* A line of the length and prefix of a packet whose digits are hexadecimal and
\* whose first byte counts the payload.
IsPacket(line) == line.form = "packet"

\* What the decoders of a kind really fill in: of all the metrics of a session.
MetricsOf(kind) ==
    [altitude |-> kind # Imu, temperature |-> kind \in Minis \cup {Imu},
     pressure |-> kind \in Minis, acceleration |-> FALSE, battery |-> kind # Imu,
     rssi |-> TRUE, gyro |-> FALSE, latitude |-> FALSE, longitude |-> FALSE]

\* Mutant: a clock that has gone round is taken for one that goes back.
Bug_DeltaOf(loaded, stamp) ==
    IF loaded.samples = <<>> \/ stamp < loaded.previous THEN 0 ELSE stamp - loaded.previous

\* The time since the last sample, the clock having gone round at most once.
DeltaOf(loaded, stamp) ==
    IF loaded.samples = <<>> THEN 0
    ELSE IF stamp < loaded.previous THEN stamp - loaded.previous + Period
    ELSE stamp - loaded.previous

\* One line of the capture.
ReadPacket(loaded, line) ==
    LET delta == DeltaOf(loaded, line.stamp)
    IN  IF \/ ~IsPacket(line) \/ line.kind \in Placeholders \/ ~line.decodes
           \/ (loaded.serial # {} /\ line.device \notin loaded.serial)
           \/ delta >= Period \div 2 \/ loaded.elapsed > MaxTimestamp - delta
        THEN loaded
        ELSE [serial |-> {line.device}, previous |-> line.stamp,
              elapsed |-> loaded.elapsed + delta,
              metrics |-> [m \in DOMAIN loaded.metrics |->
                              loaded.metrics[m] \/ MetricsOf(line.kind)[m]],
              samples |-> Append(loaded.samples,
                  [timestamp |-> loaded.elapsed + delta, payload |-> line.payload,
                   known |-> {m \in DOMAIN loaded.metrics : MetricsOf(line.kind)[m]}])]

NothingLoaded ==
    [serial |-> {}, previous |-> 0, elapsed |-> 0, samples |-> <<>>,
     metrics |-> [m \in DOMAIN MetricsOf(Imu) |-> FALSE]]

\* Poll 0 is the first, poll i that of line i, and the last follows the lines.
loadTelemFile(lines, cancel, out) ==
    LET loaded == FoldLeft(ReadPacket, NothingLoaded, lines)
    IN  IF cancel <= Len(lines) + 1 THEN canceled_load_result(out)
        ELSE IF loaded.samples = <<>> THEN failed_load_result(out)
        ELSE [outcome |-> "ok",
              out |-> [samples |-> loaded.samples, metricsInSource |-> loaded.metrics]]

=============================================================================
