------------------------- MODULE FlightFiles_proofs -------------------------
(***************************************************************************)
(* Proof that annotations are only ever found, or shown, with the telemetry *)
(* they were saved with, that an announced save is what is found again, and *)
(* that the way to the rocket is current or marked as old and outlives a    *)
(* crash, for any number of files and recordings, whichever writes fail and *)
(* wherever the program dies.                                               *)
(***************************************************************************)
EXTENDS FlightFiles, TLAPS

Recoveries ==
    [record : Records, stored : Records, identity : Someone, reference : Someone,
     real : BOOLEAN, clock : 0..Second]

-----------------------------------------------------------------------------
(* The recovery record keeps its shape. *)

\* The kinds of values RecoveryState is made of.
LEMMA RecoveryParts ==
    /\ NoRecord \in Records /\ NoRecovery \in Recoveries
    /\ Nobody \in Someone /\ 0 \in 0..Second /\ Second \in 0..Second
    /\ \A r \in Recoveries : r.record \in Records /\ r.stored \in Records
<1>1. Nobody \in Someone /\ 0 \in 0..Second /\ Second \in 0..Second
  BY SecondAssumption DEF Someone, Nobody
<1>2. NoRecord \in Records
  BY <1>1 DEF NoRecord, Records
<1> QED
  BY <1>1, <1>2 DEF NoRecovery, Recoveries

\* MainWindow::stopSerial and beginSession write the record down or age it.
LEMMA EndingTyped ==
    ASSUME NEW r \in Recoveries
    PROVE  /\ markEarlier(r) \in Recoveries /\ Stored(r) \in Recoveries
           /\ endInput(r) \in Recoveries
           /\ \A real \in BOOLEAN : [endInput(r) EXCEPT !.real = real] \in Recoveries
           /\ \A n \in Someone : beginSession(r, n) \in Recoveries
<1>1. ASSUME NEW s \in Recoveries PROVE markEarlier(s) \in Recoveries
  <2>1. [s.record EXCEPT !.earlier = TRUE] \in Records
    BY DEF Recoveries, Records
  <2> QED
    BY <2>1 DEF markEarlier, Recoveries
<1>2. ASSUME NEW s \in Recoveries PROVE Stored(s) \in Recoveries
  BY DEF Stored, json, Recoveries
<1>3. endInput(r) \in Recoveries
  BY <1>1, <1>2 DEF endInput
<1>4. \A real \in BOOLEAN : [endInput(r) EXCEPT !.real = real] \in Recoveries
  BY <1>3 DEF Recoveries
<1>5. ASSUME NEW n \in Someone PROVE beginSession(r, n) \in Recoveries
  <2>1. [r EXCEPT !.identity = n, !.reference = Nobody] \in Recoveries
    BY RecoveryParts DEF Recoveries
  <2> QED
    BY <2>1, <1>1 DEF beginSession
<1> QED
  BY <1>1, <1>2, <1>3, <1>4, <1>5

\* A fix, a chosen reference and a restart keep the shape of the record.
LEMMA ObservingTyped ==
    ASSUME NEW r \in Recoveries
    PROVE  /\ recordFix(r) \in Recoveries
           /\ restore(r) \in Recoveries /\ Waited(r) \in Recoveries
           /\ \A n \in Someone : setReference(r, n) \in Recoveries
<1> USE RecoveryParts
<1>1. observe(r) \in Recoveries
  <2> DEFINE ref == IF r.reference = Nobody THEN r.identity ELSE r.reference
             rec == [of |-> r.identity, at |-> r.clock, earlier |-> FALSE, reference |-> ref]
  <2>1. ref \in Someone /\ rec \in Records
    BY DEF Recoveries, Records
  <2>2. observe(r) = IF ~r.real THEN r ELSE [r EXCEPT !.reference = ref, !.record = rec]
    BY DEF observe
  <2> HIDE DEF ref, rec
  <2> QED
    BY <2>1, <2>2 DEF Recoveries
<1>2. recordFix(r) \in Recoveries
  <2>1. [observe(r) EXCEPT !.record.at = 0, !.clock = 0] \in Recoveries
    <3>1. [observe(r).record EXCEPT !.at = 0] \in Records
      BY <1>1 DEF Recoveries, Records
    <3> QED
      BY <1>1, <3>1 DEF Recoveries
  <2> QED
    BY <1>1, <2>1, EndingTyped DEF recordFix
<1>3. restore(r) \in Recoveries
  <2>1. r.stored \in Records
    BY DEF Recoveries
  <2>2. [r.stored EXCEPT !.earlier = TRUE, !.at = 0] \in Records
    BY <2>1 DEF Records
  <2>3. r.stored.reference \in Someone
    BY <2>1 DEF Records
  <2> QED
    BY <2>1, <2>2, <2>3 DEF restore, Recoveries
<1>4. Waited(r) \in Recoveries
  BY SecondAssumption DEF Waited, Recoveries
<1>5. ASSUME NEW n \in Someone PROVE setReference(r, n) \in Recoveries
  <2>1. [r.record EXCEPT !.reference = n] \in Records
    BY DEF Recoveries, Records
  <2> QED
    BY <2>1 DEF setReference, Recoveries
<1> QED
  BY <1>2, <1>3, <1>4, <1>5

-----------------------------------------------------------------------------
(* Types. *)

Exports ==
    [step : {"telemetry", "sidecar", "saved", "failed"}, path : Paths,
     telemetry : Telemetries, notes : Notes]

Loads ==
    [step : {"telemetry", "sidecar", "digest", "loaded", "error"}, path : Paths,
     telemetry : Telemetries, sidecar : Sidecars, accepted : BOOLEAN, disturbed : BOOLEAN]

Files == [telemetry : TelemetryFiles, sidecar : Sidecars]

\* What the program starts with, in memory and on the disk.
LEMMA BlanksTyped ==
    /\ NoTelemetry \in Telemetries /\ NoNotes \in Notes /\ Empty \in Shows
    /\ NoFile \in TelemetryFiles /\ NoFile \in Sidecars
<1>1. NoTelemetry \in Telemetries /\ NoNotes \in Notes
  BY FileAssumption, RecoveryParts DEF NoTelemetry, NoNotes, Telemetries, Notes
<1> QED
  BY <1>1 DEF Empty, Shows, TelemetryFiles, Sidecars

\* A task that is at a step is under way.
LEMMA TasksTyped ==
    ASSUME FilesTypeOK
    PROVE  /\ exporting.step # "idle" => exporting \in Exports
           /\ exporting # Idle => exporting \in Exports
           /\ loading.step # "idle" => loading \in Loads
           /\ loading # Idle => loading \in Loads
BY DEF FilesTypeOK, Exports, Loads, Idle

\* The steps of the recording in the program.
LEMMA RecordingTyped ==
    ASSUME FilesTypeOK,
           \/ \E real \in BOOLEAN : NewInput(real)
           \/ \E fix \in BOOLEAN : recordLiveSample(fix)
           \/ EndInput \/ onClearFlightData \/ EditEvents \/ EditReference
    PROVE  FilesTypeOK'
<1> USE BlanksTyped, RecoveryParts
<1>0. recovery \in Recoveries /\ shown \in Shows
  BY DEF FilesTypeOK, Recoveries
<1>1. ASSUME NEW real \in BOOLEAN, NewInput(real) PROVE FilesTypeOK'
  <2> DEFINE begun == recordings + 1
             ended == [endInput(recovery) EXCEPT !.real = real]
  <2>1. begun \in Recordings /\ begun \in Someone
    BY <1>1, FileAssumption DEF NewInput, FilesTypeOK, Recordings, Someone
  <2>2. ended \in Recoveries
    BY <1>0, EndingTyped
  <2>3. [Empty EXCEPT !.telemetry.of = begun, !.live = TRUE] \in Shows
    BY <2>1 DEF Empty, Shows, Telemetries, NoTelemetry
  <2>4. recovery' \in Recoveries
    <3>1. beginSession(ended, begun) \in Recoveries
      <4> HIDE DEF ended, begun
      <4> QED
        BY <2>1, <2>2, EndingTyped
    <3> QED
      BY <2>2, <3>1, <1>1 DEF NewInput
  <2> QED
    BY <1>1, <2>1, <2>3, <2>4 DEF NewInput, FilesTypeOK, Recordings, Recoveries
<1>2. ASSUME NEW fix \in BOOLEAN, recordLiveSample(fix) PROVE FilesTypeOK'
  <2> DEFINE seen == IF fix THEN recordFix(recovery) ELSE recovery
             reference == IF fix /\ seen.real THEN json(seen).reference
                          ELSE shown.notes.reference
  <2>1. seen \in Recoveries
    BY <1>0, ObservingTyped
  <2>2. reference \in Someone
    <3> HIDE DEF seen
    <3> QED
      BY <1>0, <2>1 DEF json, Recoveries, Records, Shows, Notes
  <2>3. [shown.telemetry EXCEPT !.samples = @ + 1] \in Telemetries
    <3>1. shown.telemetry \in Telemetries /\ shown.telemetry.samples < MaxSamples
      BY <1>0, <1>2 DEF recordLiveSample, Shows
    <3>2. shown.telemetry.samples + 1 \in 0..MaxSamples
      BY <3>1, FileAssumption DEF Telemetries
    <3> QED
      BY <3>1, <3>2 DEF Telemetries
  <2>4. [shown.notes EXCEPT !.reference = reference] \in Notes
    BY <1>0, <2>2 DEF Shows, Notes
  <2>5. shown' = [shown EXCEPT !.telemetry = [shown.telemetry EXCEPT !.samples = @ + 1],
                               !.notes = [shown.notes EXCEPT !.reference = reference]]
    BY <1>2 DEF recordLiveSample
  <2>6. shown' \in Shows
    <3> HIDE DEF reference
    <3> QED
      BY <1>0, <2>3, <2>4, <2>5 DEF Shows
  <2>7. left' \in [exports : Nat, fixes : Nat]
    <3>1. left \in [exports : Nat, fixes : Nat] /\ (fix => left.fixes > 0)
      BY <1>2 DEF recordLiveSample, FilesTypeOK
    <3>2. fix => left.fixes - 1 \in Nat
      BY <3>1
    <3>3. left' = IF fix THEN [left EXCEPT !.fixes = left.fixes - 1] ELSE left
      BY <1>2 DEF recordLiveSample
    <3> QED
      BY <3>1, <3>2, <3>3
  <2> QED
    BY <1>2, <2>1, <2>6, <2>7 DEF recordLiveSample, FilesTypeOK, Recoveries
<1>3. ASSUME EndInput PROVE FilesTypeOK'
  <2>1. recovery' \in Recoveries /\ shown' \in Shows
    BY <1>0, <1>3, EndingTyped DEF EndInput, Shows
  <2> QED
    BY <1>3, <2>1 DEF EndInput, FilesTypeOK, Recoveries
<1>4. ASSUME onClearFlightData PROVE FilesTypeOK'
  <2>1. recovery' \in Recoveries
    BY <1>0, <1>4, EndingTyped DEF onClearFlightData
  <2> QED
    BY <1>4, <2>1 DEF onClearFlightData, FilesTypeOK, Recoveries
<1>5. ASSUME EditEvents PROVE FilesTypeOK'
  <2>1. PICK events \in {{}, {shown.telemetry.of}} :
            shown' = [shown EXCEPT !.notes.events = events]
    BY <1>5 DEF EditEvents
  <2>2. [shown.notes EXCEPT !.events = events] \in Notes
    BY <1>0 DEF Shows, Notes, Telemetries
  <2>3. shown' = [shown EXCEPT !.notes = [shown.notes EXCEPT !.events = events]]
    BY <2>1
  <2>4. shown' \in Shows
    BY <1>0, <2>2, <2>3 DEF Shows
  <2> QED
    BY <1>5, <2>4 DEF EditEvents, FilesTypeOK
<1>6. ASSUME EditReference PROVE FilesTypeOK'
  <2>1. /\ shown.telemetry.of \in Someone /\ recovery.identity \in Someone
    BY <1>0 DEF Shows, Telemetries, Recoveries
  <2>2. \A n \in Someone : Stored(setReference(recovery, n)) \in Recoveries
    BY <1>0, ObservingTyped, EndingTyped
  <2>3. recovery' \in Recoveries
    BY <1>0, <1>6, <2>1, <2>2 DEF EditReference
  <2>4. \A n \in Someone : [shown EXCEPT !.notes.reference = n] \in Shows
    <3> TAKE n \in Someone
    <3>1. [shown.notes EXCEPT !.reference = n] \in Notes
      BY <1>0 DEF Shows, Notes
    <3> QED
      BY <1>0, <3>1 DEF Shows
  <2>5. shown' \in Shows
    BY <1>0, <1>6, <2>1, <2>4 DEF EditReference
  <2> QED
    BY <1>6, <2>3, <2>5 DEF EditReference, FilesTypeOK, Recoveries
<1> QED
  BY <1>1, <1>2, <1>3, <1>4, <1>5, <1>6

\* What a save knows of the disk at each of its steps.
SaveInv ==
    /\ exporting.step \in {"sidecar", "saved"} =>
           disk[exporting.path].telemetry = Telemetry(exporting.telemetry)
    /\ exporting.step = "saved" =>
           disk[exporting.path].sidecar =
               Sidecar(exporting.telemetry, exporting.notes, exporting.telemetry)
    /\ exporting # Idle => claimed[exporting.path] = Empty

\* The steps of a save: the digest is that of the telemetry it has just written.
LEMMA SavingTyped ==
    ASSUME FilesTypeOK, SaveInv,
           \/ \E p \in Paths : exportSession(p)
           \/ exportSessionToCsv \/ saveMetadata \/ ExportFinished
    PROVE  FilesTypeOK'
<1>0. /\ shown \in Shows /\ disk \in [Paths -> Files] /\ claimed \in [Paths -> Shows]
      /\ exporting.step # "idle" => exporting \in Exports
      /\ exporting \in Exports \cup {Idle} /\ loading \in Loads \cup {Idle}
  BY TasksTyped DEF FilesTypeOK, Files, Exports, Loads
<1>1. ASSUME NEW p \in Paths, exportSession(p) PROVE FilesTypeOK'
  <2>1. exporting' \in Exports
    BY <1>0, <1>1 DEF exportSession, Exports, Shows
  <2>2. claimed' \in [Paths -> Shows]
    BY <1>0, <1>1, BlanksTyped DEF exportSession
  <2>3. left' \in [exports : Nat, fixes : Nat]
    <3>1. left \in [exports : Nat, fixes : Nat] /\ left.exports > 0
      BY <1>1 DEF exportSession, FilesTypeOK
    <3>2. left.exports - 1 \in Nat
      BY <3>1
    <3>3. left' = [left EXCEPT !.exports = left.exports - 1]
      BY <1>1 DEF exportSession
    <3> QED
      BY <3>1, <3>2, <3>3
  <2> QED
    BY <1>1, <2>1, <2>2, <2>3 DEF exportSession, FilesTypeOK, Exports
<1>2. ASSUME NEW p \in Paths PROVE Disturbed(p) \in Loads \cup {Idle}
  BY <1>0 DEF Disturbed, Loads
<1>3. ASSUME exporting.step # "idle",
             NEW s \in {"telemetry", "sidecar", "saved", "failed"}, Proceeds(s)
      PROVE  exporting' \in Exports
  BY <1>0, <1>3 DEF Proceeds, Exports
<1>4. ASSUME exportSessionToCsv PROVE FilesTypeOK'
  <2>1. exporting \in Exports /\ exporting.step # "idle"
    BY <1>0, <1>4 DEF exportSessionToCsv, At
  <2>2. exporting' \in Exports
    BY <1>3, <1>4, <2>1 DEF exportSessionToCsv
  <2>3. exporting.path \in Paths /\ Telemetry(exporting.telemetry) \in TelemetryFiles
    BY <2>1 DEF Exports, Telemetry, TelemetryFiles
  <2>4. [disk[exporting.path] EXCEPT !.telemetry = Telemetry(exporting.telemetry)] \in Files
    BY <1>0, <2>3 DEF Files
  <2>5. disk' \in [Paths -> Files] /\ loading' \in Loads \cup {Idle}
    BY <1>0, <1>2, <1>4, <2>3, <2>4 DEF exportSessionToCsv
  <2> QED
    BY <1>4, <2>2, <2>5 DEF exportSessionToCsv, FilesTypeOK, Files, Exports, Loads
<1>5. ASSUME saveMetadata PROVE FilesTypeOK'
  <2> DEFINE saved == Sidecar(recordingDigest(exporting.path), exporting.notes,
                              exporting.telemetry)
  <2>1. exporting \in Exports /\ exporting.step # "idle"
    BY <1>0, <1>5 DEF saveMetadata, At
  <2>2. recordingDigest(exporting.path) = exporting.telemetry
    BY <1>5 DEF saveMetadata, At, SaveInv, recordingDigest, Telemetry
  <2>3. exporting.path \in Paths /\ saved \in Sidecars
    BY <2>1, <2>2 DEF Exports, Sidecar, Sidecars
  <2>4. [disk[exporting.path] EXCEPT !.sidecar = saved] \in Files
    BY <1>0, <2>3 DEF Files
  <2>5. disk' \in [Paths -> Files] /\ loading' \in Loads \cup {Idle}
    BY <1>0, <1>2, <1>5, <2>3, <2>4 DEF saveMetadata
  <2>6. exporting' \in Exports
    BY <1>3, <1>5, <2>1 DEF saveMetadata
  <2> QED
    BY <1>5, <2>5, <2>6 DEF saveMetadata, FilesTypeOK, Files, Exports, Loads
<1>6. ASSUME ExportFinished PROVE FilesTypeOK'
  <2>1. exporting \in Exports
    BY <1>0, <1>6 DEF ExportFinished
  <2>2. [Empty EXCEPT !.telemetry = exporting.telemetry, !.notes = exporting.notes] \in Shows
    BY <2>1, BlanksTyped DEF Exports, Shows
  <2>3. claimed' \in [Paths -> Shows]
    BY <1>0, <1>6, <2>1, <2>2 DEF ExportFinished
  <2> QED
    BY <1>6, <2>3 DEF ExportFinished, FilesTypeOK
<1> QED
  BY <1>1, <1>4, <1>5, <1>6

\* The steps of a load, and the ways the program ends.
LEMMA LoadingTyped ==
    ASSUME FilesTypeOK,
           \/ \E p \in Paths : loadFlightLogAsync(p)
           \/ LoadTelemetry \/ ReadSidecar \/ CheckDigest \/ LoadFinished
           \/ cancelFlightLogLoad \/ TimePasses \/ Quit \/ Crash
    PROVE  FilesTypeOK'
<1> USE BlanksTyped
<1>0. /\ shown \in Shows /\ disk \in [Paths -> Files] /\ recovery \in Recoveries
      /\ loading.step # "idle" => loading \in Loads
  BY TasksTyped DEF FilesTypeOK, Files, Loads, Recoveries
<1>1. ASSUME NEW p \in Paths, loadFlightLogAsync(p) PROVE FilesTypeOK'
  <2>1. recovery' \in Recoveries /\ shown' \in Shows
    BY <1>0, <1>1, EndingTyped DEF loadFlightLogAsync, Shows
  <2>2. loading' \in Loads
    BY <1>1 DEF loadFlightLogAsync, Loads
  <2> QED
    BY <1>1, <2>1, <2>2 DEF loadFlightLogAsync, FilesTypeOK, Recoveries, Loads
<1>2. ASSUME LoadTelemetry PROVE FilesTypeOK'
  <2>1. loading \in Loads /\ loading.path \in Paths
    BY <1>0, <1>2 DEF LoadTelemetry, LoadAt, Loads
  <2>2. disk[loading.path].telemetry # NoFile =>
            disk[loading.path].telemetry.data \in Telemetries
    BY <1>0, <2>1 DEF Files, TelemetryFiles
  <2>3. loading' \in Loads
    BY <1>2, <2>1, <2>2 DEF LoadTelemetry, Loads
  <2> QED
    BY <1>2, <2>3 DEF LoadTelemetry, FilesTypeOK, Loads
<1>3. ASSUME ReadSidecar PROVE FilesTypeOK'
  <2>1. loading \in Loads /\ loading.path \in Paths
    BY <1>0, <1>3 DEF ReadSidecar, LoadAt, Loads
  <2>2. disk[loading.path].sidecar \in Sidecars
    BY <1>0, <2>1 DEF Files
  <2>3. loading' \in Loads
    BY <1>3, <2>1, <2>2 DEF ReadSidecar, Loads
  <2> QED
    BY <1>3, <2>3 DEF ReadSidecar, FilesTypeOK, Loads
<1>4. ASSUME CheckDigest PROVE FilesTypeOK'
  <2>1. loading \in Loads
    BY <1>0, <1>4 DEF CheckDigest, LoadAt
  <2>2. loading' \in Loads
    BY <1>4, <2>1 DEF CheckDigest, Loads
  <2> QED
    BY <1>4, <2>2 DEF CheckDigest, FilesTypeOK, Loads
<1>5. ASSUME LoadFinished PROVE FilesTypeOK'
  <2>1. loading \in Loads
    BY <1>0, <1>5 DEF LoadFinished
  <2>2. loading.sidecar # NoFile => loading.sidecar.notes \in Notes
    BY <2>1 DEF Loads, Sidecars
  <2>3. [NoNotes EXCEPT !.reference = shown.notes.reference] \in Notes
    BY <1>0 DEF Shows, Notes
  <2>4. loading.accepted \in BOOLEAN /\ loading.telemetry \in Telemetries
    BY <2>1 DEF Loads
  <2>5. CASE LoadAt("error")
    BY <1>5, <2>5 DEF LoadFinished, FilesTypeOK
  <2>6. CASE ~LoadAt("error")
    <3> DEFINE notes == CASE ~loading.accepted -> [NoNotes EXCEPT !.reference = shown.notes.reference]
                          [] loading.accepted /\ loading.sidecar = NoFile -> NoNotes
                          [] loading.accepted /\ loading.sidecar # NoFile -> loading.sidecar.notes
    <3>1. notes \in Notes
      BY <2>2, <2>3, <2>4
    <3>2. shown' = [telemetry |-> loading.telemetry, live |-> FALSE, replay |-> TRUE,
                    notes |-> notes]
      BY <1>5, <2>6 DEF LoadFinished
    <3> HIDE DEF notes
    <3>3. shown' \in Shows
      BY <2>4, <3>1, <3>2 DEF Shows
    <3> QED
      BY <1>5, <3>3 DEF LoadFinished, FilesTypeOK
  <2> QED
    BY <2>5, <2>6
<1>6. ASSUME cancelFlightLogLoad \/ TimePasses PROVE FilesTypeOK'
  <2>1. recovery' \in Recoveries
    BY <1>0, <1>6, ObservingTyped DEF cancelFlightLogLoad, TimePasses
  <2> QED
    BY <1>6, <2>1 DEF cancelFlightLogLoad, TimePasses, FilesTypeOK, Recoveries
<1>7. ASSUME Quit \/ Crash PROVE FilesTypeOK'
  <2>1. \A r \in Recoveries : restore(r) \in Recoveries /\ Stored(r) \in Recoveries
    BY ObservingTyped, EndingTyped
  <2>2. endInput(recovery) \in Recoveries
    BY <1>0, EndingTyped
  <2>3. recovery' \in Recoveries
    BY <1>0, <1>7, <2>1, <2>2 DEF Quit, Crash
  <2> QED
    BY <1>7, <2>3 DEF Quit, Crash, FilesTypeOK, Recoveries
<1> QED
  BY <1>1, <1>2, <1>3, <1>4, <1>5, <1>6, <1>7

-----------------------------------------------------------------------------
(* Saves and loads. *)

\* A sidecar was written after the telemetry it means, and digests that.
SidecarInv == \A p \in Paths : disk[p].sidecar # NoFile =>
                                  disk[p].sidecar.digest = disk[p].sidecar.meant

\* What a load knows of the disk, as long as no save disturbs it.
LoadInv ==
    loading # Idle =>
        /\ loading.sidecar # NoFile => loading.sidecar.digest = loading.sidecar.meant
        /\ ~loading.disturbed /\ loading.step \in {"sidecar", "digest", "loaded"} =>
               disk[loading.path].telemetry = Telemetry(loading.telemetry)
        /\ ~loading.disturbed /\ LoadAt("loaded") /\ loading.accepted
                /\ loading.sidecar # NoFile => loading.sidecar.digest = loading.telemetry

FInv == FilesTypeOK /\ SaveInv /\ SidecarInv /\ LoadInv /\ SavedSurvives

\* A step that is no part of a save, and at most ends a load or a save.
Elsewhere ==
    /\ UNCHANGED <<disk, claimed>>
    /\ exporting' \in {exporting, Idle} /\ loading' \in {loading, Idle}

\* Steps elsewhere keep what saves and loads know.
LEMMA ElsewhereKeeps ==
    ASSUME FInv, Elsewhere
    PROVE  SaveInv' /\ SidecarInv' /\ LoadInv' /\ SavedSurvives'
<1>1. SidecarInv' /\ SavedSurvives'
  BY DEF FInv, Elsewhere, SidecarInv, SavedSurvives
<1>2. SaveInv'
  BY DEF FInv, Elsewhere, SaveInv, Idle
<1>3. LoadInv'
  BY DEF FInv, Elsewhere, LoadInv, LoadAt
<1> QED
  BY <1>1, <1>2, <1>3

\* The first step of a save: nothing is said to be saved at its path any more.
LEMMA SaveBegins ==
    ASSUME FInv, NEW p \in Paths, exportSession(p)
    PROVE  SaveInv' /\ SidecarInv' /\ LoadInv' /\ SavedSurvives'
<1>1. claimed \in [Paths -> Shows]
  BY DEF FInv, FilesTypeOK
<1>2. /\ exporting'.step = "telemetry" /\ exporting'.path = p
      /\ claimed' = [claimed EXCEPT ![p] = Empty] /\ UNCHANGED <<disk, loading>>
  BY DEF exportSession
<1>3. SaveInv' /\ SidecarInv' /\ LoadInv'
  BY <1>1, <1>2 DEF FInv, SaveInv, SidecarInv, LoadInv, LoadAt
<1>4. SavedSurvives'
  BY <1>1, <1>2 DEF FInv, SavedSurvives
<1> QED
  BY <1>3, <1>4

\* Replacing the telemetry leaves no announced save at its path, and disturbs the
\* loads of it.
LEMMA TelemetryKeeps ==
    ASSUME FInv, exportSessionToCsv
    PROVE  SaveInv' /\ SidecarInv' /\ LoadInv' /\ SavedSurvives'
<1> DEFINE path == exporting.path
           written == Telemetry(exporting.telemetry)
<1>1. /\ exporting \in Exports /\ exporting.step = "telemetry" /\ claimed[path] = Empty
      /\ path \in Paths /\ disk \in [Paths -> Files]
  BY TasksTyped DEF FInv, exportSessionToCsv, At, SaveInv, Idle, FilesTypeOK, Files, Exports
<1>2. CASE /\ disk' = [disk EXCEPT ![path].telemetry = written]
           /\ loading' = Disturbed(path) /\ Proceeds("sidecar")
  <2>1. /\ exporting'.step = "sidecar" /\ exporting'.path = path
        /\ exporting'.telemetry = exporting.telemetry /\ exporting' # Idle
        /\ UNCHANGED claimed
    BY <1>1, <1>2 DEF Proceeds, exportSessionToCsv, Exports, Idle
  <2>2. /\ \A p \in Paths : disk'[p].sidecar = disk[p].sidecar
        /\ \A p \in Paths \ {path} : disk'[p] = disk[p]
        /\ disk'[path].telemetry = written
    BY <1>1, <1>2 DEF Files
  <2>3. SaveInv'
    BY <1>1, <2>1, <2>2 DEF SaveInv
  <2>4. SidecarInv'
    BY <2>2 DEF FInv, SidecarInv
  <2>5. SavedSurvives'
    BY <1>1, <2>1, <2>2 DEF FInv, SavedSurvives
  <2>6. LoadInv'
    <3>1. CASE loading # Idle /\ loading.path = path
      <4>1. loading \in Loads
        BY <3>1, TasksTyped DEF FInv
      <4>2. /\ loading' = [loading EXCEPT !.disturbed = TRUE]
            /\ loading'.disturbed /\ loading'.sidecar = loading.sidecar
        BY <1>2, <3>1, <4>1 DEF Disturbed, Loads
      <4> QED
        BY <3>1, <4>2 DEF FInv, LoadInv
    <3>2. CASE ~(loading # Idle /\ loading.path = path)
      <4>1. loading' = loading
        BY <1>2, <3>2 DEF Disturbed
      <4>2. loading # Idle => loading.path \in Paths \ {path}
        BY <3>2, TasksTyped DEF FInv, Loads
      <4> QED
        BY <4>1, <4>2, <2>2 DEF FInv, LoadInv, LoadAt
    <3> QED
      BY <3>1, <3>2
  <2> QED
    BY <2>3, <2>4, <2>5, <2>6
<1>3. CASE Proceeds("failed") /\ UNCHANGED <<disk, loading>>
  <2>1. exporting'.step = "failed" /\ exporting'.path = path /\ UNCHANGED <<disk, loading, claimed>>
    BY <1>1, <1>3 DEF Proceeds, exportSessionToCsv, Exports
  <2>2. SaveInv' /\ SidecarInv'
    BY <1>1, <2>1 DEF FInv, SaveInv, SidecarInv
  <2>3. LoadInv' /\ SavedSurvives'
    BY <2>1 DEF FInv, LoadInv, LoadAt, SavedSurvives
  <2> QED
    BY <2>2, <2>3
<1> QED
  BY <1>2, <1>3 DEF exportSessionToCsv

\* The sidecar digests the telemetry that was written before it.
LEMMA MetadataKeeps ==
    ASSUME FInv, saveMetadata
    PROVE  SaveInv' /\ SidecarInv' /\ LoadInv' /\ SavedSurvives'
<1> DEFINE path == exporting.path
           t == exporting.telemetry
           written == Sidecar(recordingDigest(path), exporting.notes, t)
<1>1. /\ exporting \in Exports /\ exporting.step = "sidecar" /\ claimed[path] = Empty
      /\ path \in Paths /\ disk \in [Paths -> Files] /\ disk[path].telemetry = Telemetry(t)
  BY TasksTyped DEF FInv, saveMetadata, At, SaveInv, Idle, FilesTypeOK, Files, Exports
<1>2. recordingDigest(path) = t
  BY <1>1 DEF recordingDigest, Telemetry
<1>3. written.digest = t /\ written.meant = t
  BY <1>2 DEF Sidecar
<1>4. CASE /\ disk' = [disk EXCEPT ![path].sidecar = written]
           /\ loading' = Disturbed(path) /\ Proceeds("saved")
  <2>1. /\ exporting'.step = "saved" /\ exporting'.path = path
        /\ exporting'.telemetry = t /\ exporting'.notes = exporting.notes
        /\ UNCHANGED claimed
    BY <1>1, <1>4 DEF Proceeds, saveMetadata, Exports
  <2>2. /\ \A p \in Paths : disk'[p].telemetry = disk[p].telemetry
        /\ \A p \in Paths \ {path} : disk'[p] = disk[p]
        /\ disk'[path].sidecar = written
    <3> HIDE DEF written
    <3> QED
      BY <1>1, <1>4 DEF Files
  <2>3. SaveInv'
    BY <1>1, <1>2, <2>1, <2>2 DEF SaveInv
  <2>4. SidecarInv'
    <3> HIDE DEF written
    <3> QED
      BY <1>3, <2>2 DEF FInv, SidecarInv
  <2>5. SavedSurvives'
    <3> HIDE DEF written
    <3> QED
      BY <1>1, <2>1, <2>2 DEF FInv, SavedSurvives
  <2>6. LoadInv'
    <3>1. CASE loading # Idle /\ loading.path = path
      <4>1. loading \in Loads
        BY <3>1, TasksTyped DEF FInv
      <4>2. /\ loading' = [loading EXCEPT !.disturbed = TRUE]
            /\ loading'.disturbed /\ loading'.sidecar = loading.sidecar
        BY <1>4, <3>1, <4>1 DEF Disturbed, Loads
      <4> QED
        BY <3>1, <4>2 DEF FInv, LoadInv
    <3>2. CASE ~(loading # Idle /\ loading.path = path)
      <4>1. loading' = loading
        BY <1>4, <3>2 DEF Disturbed
      <4>2. loading # Idle => loading.path \in Paths
        BY TasksTyped DEF FInv, Loads
      <4> QED
        BY <4>1, <4>2, <2>2 DEF FInv, LoadInv, LoadAt
    <3> QED
      BY <3>1, <3>2
  <2> QED
    BY <2>3, <2>4, <2>5, <2>6
<1>5. CASE Proceeds("failed") /\ UNCHANGED <<disk, loading>>
  <2>1. exporting'.step = "failed" /\ exporting'.path = path /\ UNCHANGED <<disk, loading, claimed>>
    BY <1>1, <1>5 DEF Proceeds, saveMetadata, Exports
  <2>2. SaveInv' /\ SidecarInv'
    BY <1>1, <2>1 DEF FInv, SaveInv, SidecarInv
  <2>3. LoadInv' /\ SavedSurvives'
    BY <2>1 DEF FInv, LoadInv, LoadAt, SavedSurvives
  <2> QED
    BY <2>2, <2>3
<1> QED
  BY <1>4, <1>5 DEF saveMetadata

\* What is announced is what the last two steps wrote.
LEMMA AnnounceKeeps ==
    ASSUME FInv, ExportFinished
    PROVE  SaveInv' /\ SidecarInv' /\ LoadInv' /\ SavedSurvives'
<1> DEFINE path == exporting.path
           said == [Empty EXCEPT !.telemetry = exporting.telemetry, !.notes = exporting.notes]
<1>1. exporting \in Exports /\ path \in Paths /\ claimed \in [Paths -> Shows]
  BY TasksTyped DEF FInv, ExportFinished, FilesTypeOK, Exports
<1>2. exporting' = Idle /\ UNCHANGED <<disk, loading>>
  BY DEF ExportFinished
<1>3. SaveInv' /\ SidecarInv' /\ LoadInv'
  BY <1>2 DEF FInv, SaveInv, SidecarInv, LoadInv, LoadAt, Idle
<1>4. CASE exporting.step = "failed"
  BY <1>2, <1>3, <1>4 DEF ExportFinished, At, FInv, SavedSurvives
<1>5. CASE exporting.step = "saved"
  <2>1. claimed' = [claimed EXCEPT ![path] = said]
    BY <1>5 DEF ExportFinished, At
  <2>2. said.telemetry = exporting.telemetry /\ said.notes = exporting.notes
    BY DEF Empty
  <2> HIDE DEF said
  <2>3. SavedSurvives'
    BY <1>1, <1>2, <1>5, <2>1, <2>2 DEF FInv, SaveInv, SavedSurvives
  <2> QED
    BY <1>3, <2>3
<1> QED
  BY <1>4, <1>5 DEF ExportFinished

\* A load reads the telemetry, then its sidecar, then the digest.
LEMMA LoadKeeps ==
    ASSUME FInv,
           (\E p \in Paths : loadFlightLogAsync(p)) \/ LoadTelemetry \/ ReadSidecar \/ CheckDigest
    PROVE  SaveInv' /\ SidecarInv' /\ LoadInv' /\ SavedSurvives'
<1>1. UNCHANGED <<disk, exporting, claimed>>
  BY DEF loadFlightLogAsync, LoadTelemetry, ReadSidecar, CheckDigest
<1>2. SaveInv' /\ SidecarInv' /\ SavedSurvives'
  BY <1>1 DEF FInv, SaveInv, SidecarInv, SavedSurvives
<1>3. disk \in [Paths -> Files] /\ (loading.step # "idle" => loading \in Loads)
  BY TasksTyped DEF FInv, FilesTypeOK, Files
<1>4. ASSUME NEW p \in Paths, loadFlightLogAsync(p) PROVE LoadInv'
  BY <1>4 DEF loadFlightLogAsync, LoadInv, LoadAt
<1>5. ASSUME LoadTelemetry PROVE LoadInv'
  <2>1. loading \in Loads /\ loading.step = "telemetry" /\ loading # Idle
    BY <1>3, <1>5 DEF LoadTelemetry, LoadAt, Idle
  <2>2. disk[loading.path].telemetry # NoFile =>
            disk[loading.path].telemetry = Telemetry(disk[loading.path].telemetry.data)
    BY <1>3, <2>1 DEF Loads, Files, TelemetryFiles, Telemetry
  <2> QED
    BY <1>1, <1>5, <2>1, <2>2 DEF FInv, LoadTelemetry, LoadInv, LoadAt, Loads
<1>6. ASSUME ReadSidecar PROVE LoadInv'
  <2>1. loading \in Loads /\ loading.step = "sidecar" /\ loading # Idle
    BY <1>3, <1>6 DEF ReadSidecar, LoadAt, Idle
  <2>2. disk[loading.path].sidecar # NoFile =>
            disk[loading.path].sidecar.digest = disk[loading.path].sidecar.meant
    BY <2>1 DEF FInv, SidecarInv, Loads
  <2> QED
    BY <1>1, <1>6, <2>1, <2>2 DEF FInv, ReadSidecar, LoadInv, LoadAt, Loads
<1>7. ASSUME CheckDigest PROVE LoadInv'
  <2>1. loading \in Loads /\ loading.step = "digest" /\ loading # Idle
    BY <1>3, <1>7 DEF CheckDigest, LoadAt, Idle
  <2>2. ~loading.disturbed => recordingDigest(loading.path) = loading.telemetry
    BY <2>1 DEF FInv, LoadInv, recordingDigest, Telemetry
  <2> QED
    BY <1>1, <1>7, <2>1, <2>2 DEF FInv, CheckDigest, LoadInv, LoadAt, Loads
<1> QED
  BY <1>2, <1>4, <1>5, <1>6, <1>7

-----------------------------------------------------------------------------

\* FilesInit: nothing is on the disk, and no task is under way.
LEMMA InitHolds == FilesInit => FInv
<1> SUFFICES ASSUME FilesInit PROVE FInv
  OBVIOUS
<1>1. FilesTypeOK
  BY BlanksTyped, RecoveryParts, FileAssumption
  DEF FilesInit, FilesTypeOK, Recoveries, Files
<1> QED
  BY <1>1 DEF FilesInit, FInv, SaveInv, SidecarInv, LoadInv, SavedSurvives, Idle

\* Every step keeps the invariant, the ones that fail and a crash included.
LEMMA StepHolds == FInv /\ [FilesNext]_fileVars => FInv'
<1> SUFFICES ASSUME FInv, [FilesNext]_fileVars PROVE FInv'
  OBVIOUS
<1>1. FilesTypeOK'
  <2>1. CASE UNCHANGED fileVars
    BY <2>1 DEF FInv, FilesTypeOK, fileVars
  <2>2. CASE FilesNext
    BY <2>2, RecordingTyped, SavingTyped, LoadingTyped DEF FInv, FilesNext
  <2> QED
    BY <2>1, <2>2
<1>2. CASE Elsewhere
  BY <1>1, <1>2, ElsewhereKeeps DEF FInv
<1>3. CASE /\ FilesNext /\ ~Elsewhere
  <2>1. \/ \E p \in Paths : exportSession(p) \/ loadFlightLogAsync(p)
        \/ exportSessionToCsv \/ saveMetadata \/ ExportFinished
        \/ LoadTelemetry \/ ReadSidecar \/ CheckDigest
    <3>1. ASSUME \/ \E real \in BOOLEAN : NewInput(real)
                 \/ \E fix \in BOOLEAN : recordLiveSample(fix)
                 \/ EndInput \/ onClearFlightData \/ EditEvents \/ EditReference
          PROVE  Elsewhere
      BY <3>1 DEF NewInput, recordLiveSample, EndInput, onClearFlightData, EditEvents,
                  EditReference, Elsewhere
    <3>2. ASSUME LoadFinished \/ cancelFlightLogLoad \/ TimePasses \/ Quit \/ Crash
          PROVE  Elsewhere
      BY <3>2 DEF LoadFinished, cancelFlightLogLoad, TimePasses, Quit, Crash, Elsewhere
    <3> QED
      BY <1>3, <3>1, <3>2 DEF FilesNext
  <2> QED
    BY <1>1, <2>1, SaveBegins, TelemetryKeeps, MetadataKeeps, AnnounceKeeps, LoadKeeps DEF FInv
<1>4. CASE UNCHANGED fileVars
  BY <1>2, <1>4 DEF fileVars, Elsewhere
<1> QED
  BY <1>2, <1>3, <1>4

\* The types of the program's state, of its files and of its tasks.
THEOREM FilesTyped == FilesSpec => []FilesTypeOK
<1>1. FInv => FilesTypeOK
  BY DEF FInv
<1> QED
  BY <1>1, InitHolds, StepHolds, PTL DEF FilesSpec

\* saveMetadata, loadMetadata: annotations are only found, or shown, with the
\* telemetry they were saved with.
THEOREM AnnotationsMatch == FilesSpec => []AnnotationsBelong
<1>1. FInv => AnnotationsBelong
  <2> SUFFICES ASSUME FInv PROVE AnnotationsBelong
    OBVIOUS
  <2>1. AnnotationsMatchTelemetry
    BY DEF FInv, SidecarInv, AnnotationsMatchTelemetry
  <2>2. LoadedTogether
    BY DEF FInv, LoadInv, LoadedTogether, LoadAt, Idle
  <2> QED
    BY <2>1, <2>2 DEF AnnotationsBelong
<1> QED
  BY <1>1, InitHolds, StepHolds, PTL DEF FilesSpec

\* exportSession: what was announced as saved is what is found again.
THEOREM AnnouncedIsFound == FilesSpec => []SavedSurvives
<1>1. FInv => SavedSurvives
  BY DEF FInv
<1> QED
  BY <1>1, InitHolds, StepHolds, PTL DEF FilesSpec

-----------------------------------------------------------------------------
(***************************************************************************)
(* The way to the rocket.  The record in memory ages when its input ends,  *)
(* so one that has not aged is of the input that runs; and the copy in the *)
(* settings is rewritten whenever it would fall a second or a reference    *)
(* behind.  For that the numbers of recordings must grow over crashes, or  *)
(* an old copy could be taken for one of the new recording.                *)
(***************************************************************************)

Aged(r) == r.record = NoRecord \/ r.record.earlier

\* The copy is at most a second behind, and has the record's own reference.
Outlives(r) ==
    r.record # NoRecord =>
        /\ r.stored.of = r.record.of =>
            /\ r.record.at - r.stored.at < Second
            /\ r.stored.reference = r.record.reference
        /\ r.stored.of # r.record.of => r.record.at < Second

\* Of the n recordings begun so far.
Sound(r, n) ==
    /\ r.record.of <= n /\ r.stored.of <= n /\ r.identity <= n
    /\ r.record # NoRecord => r.record.of # Nobody
    /\ r.stored # NoRecord => r.stored.of # Nobody
    /\ r.record = NoRecord <=> r.stored = NoRecord
    /\ r.clock < Second => r.record # NoRecord
    /\ Outlives(r)

\* While a recording of a real input runs, RecoveryState is about that one.
Receiving(r, live, of) ==
    /\ Aged(r) \/ (live /\ r.real /\ r.record.of = r.identity /\ r.record.reference = r.identity)
    /\ live /\ r.real =>
        /\ r.identity = of /\ of # Nobody
        /\ r.reference \in {Nobody, of}
        /\ r.stored.of = of => r.stored.reference = of

LoadingEndsInput == loading # Idle => ~shown.live

RInv ==
    /\ Sound(recovery, recordings)
    /\ Receiving(recovery, shown.live, shown.telemetry.of)
    /\ LoadingEndsInput

\* The fields of the values of RecoveryState.
LEMMA RecoveryFields ==
    ASSUME NEW r \in Recoveries
    PROVE  /\ r.record.of \in Nat /\ r.stored.of \in Nat /\ r.identity \in Nat
           /\ r.record.at \in 0..Second /\ r.stored.at \in 0..Second
           /\ r.clock \in 0..Second /\ Second \in Nat \ {0}
<1>1. Someone \subseteq Nat
  BY FileAssumption DEF Someone, Recordings, Nobody
<1>2. r.record \in Records /\ r.stored \in Records
  BY RecoveryParts
<1> QED
  BY <1>1, <1>2, SecondAssumption DEF Recoveries, Records

LEMMA NoRecordFields ==
    /\ NoRecord.of = Nobody /\ NoRecord.at = 0 /\ NoRecord.earlier = FALSE
    /\ NoRecord.reference = Nobody
BY DEF NoRecord

\* Writing the record down brings the copy up to date.
LEMMA StoringSound ==
    ASSUME NEW r \in Recoveries, NEW n \in Nat,
           r.record.of <= n /\ r.identity <= n,
           r.record # NoRecord => r.record.of # Nobody,
           r.clock < Second => r.record # NoRecord
    PROVE  /\ Sound(Stored(r), n)
           /\ Stored(r).record = r.record /\ Stored(r).identity = r.identity
           /\ Stored(r).reference = r.reference /\ Stored(r).real = r.real
           /\ Stored(r).stored = r.record
<1>1. /\ Stored(r).record = r.record /\ Stored(r).identity = r.identity
      /\ Stored(r).reference = r.reference /\ Stored(r).real = r.real
      /\ Stored(r).stored = r.record /\ Stored(r).clock = r.clock
  BY DEF Stored, json, Recoveries
<1>2. r.record.at - r.record.at < Second
  <2>1. r.record.at \in 0..Second /\ Second \in Nat \ {0}
    BY RecoveryFields
  <2> QED
    BY <2>1
<1> QED
  BY <1>1, <1>2 DEF Sound, Outlives

\* beginSession and the end of an input age the record.
LEMMA AgeingSound ==
    ASSUME NEW r \in Recoveries, NEW n \in Nat, Sound(r, n)
    PROVE  /\ Sound(markEarlier(r), n) /\ Aged(markEarlier(r))
           /\ markEarlier(r).identity = r.identity /\ markEarlier(r).reference = r.reference
           /\ markEarlier(r).real = r.real /\ markEarlier(r).stored = r.stored
<1>1. CASE r.record = NoRecord
  BY <1>1 DEF markEarlier, Aged
<1>2. CASE r.record # NoRecord
  <2> DEFINE e == markEarlier(r)
  <2>1. r.record \in Records
    BY RecoveryParts
  <2>2. /\ e.record = [r.record EXCEPT !.earlier = TRUE]
        /\ e.identity = r.identity /\ e.reference = r.reference
        /\ e.real = r.real /\ e.stored = r.stored /\ e.clock = r.clock
    BY <1>2 DEF markEarlier, Recoveries
  <2>3. /\ e.record.of = r.record.of /\ e.record.at = r.record.at /\ e.record.earlier
        /\ e.record.reference = r.record.reference
    BY <2>1, <2>2 DEF Records
  <2>4. e.record # NoRecord
    BY <2>3, NoRecordFields
  <2> HIDE DEF e
  <2> QED
    BY <1>2, <2>2, <2>3, <2>4 DEF Sound, Outlives, Aged, e
<1> QED
  BY <1>1, <1>2

\* MainWindow::stopSerial: what runs no longer is no longer current.
LEMMA EndingSound ==
    ASSUME NEW r \in Recoveries, NEW n \in Nat, Sound(r, n), Aged(r) \/ r.real
    PROVE  /\ Sound(endInput(r), n) /\ Aged(endInput(r))
           /\ endInput(r).identity = r.identity /\ endInput(r).real = r.real
<1> DEFINE e == markEarlier(r)
<1>1. e \in Recoveries /\ Sound(e, n) /\ Aged(e) /\ e.identity = r.identity /\ e.real = r.real
  BY EndingTyped, AgeingSound
<1>2. endInput(r) = IF ~r.real THEN r ELSE IF e.record = NoRecord THEN e ELSE Stored(e)
  BY DEF endInput
<1> HIDE DEF e
<1>3. /\ Sound(Stored(e), n) /\ Stored(e).record = e.record
      /\ Stored(e).identity = e.identity /\ Stored(e).real = e.real
  BY <1>1, StoringSound DEF Sound
<1>4. Aged(Stored(e))
  BY <1>1, <1>3 DEF Aged
<1> QED
  BY <1>1, <1>2, <1>3, <1>4

\* A chosen reference is written down at once.
LEMMA ReferenceSound ==
    ASSUME NEW r \in Recoveries, NEW n \in Nat, Sound(r, n), NEW who \in Someone
    PROVE  LET s == Stored(setReference(r, who)) IN
           /\ Sound(s, n) /\ (Aged(r) => Aged(s))
           /\ s.record.of = r.record.of /\ s.identity = r.identity /\ s.real = r.real
           /\ s.reference = who /\ s.stored = s.record
           /\ r.record # NoRecord => s.record.reference = who
           /\ r.record = NoRecord => s.record = NoRecord
<1> DEFINE q == setReference(r, who)
<1>1. q \in Recoveries
  BY ObservingTyped
<1>2. /\ q.identity = r.identity /\ q.real = r.real /\ q.clock = r.clock /\ q.reference = who
      /\ q.record = IF r.record = NoRecord THEN NoRecord ELSE [r.record EXCEPT !.reference = who]
  BY DEF setReference, Recoveries
<1>3. r.record # NoRecord =>
          /\ q.record.of = r.record.of /\ q.record.earlier = r.record.earlier
          /\ q.record.reference = who
  BY <1>2, RecoveryParts DEF Records
<1>4. r.record # NoRecord => q.record # NoRecord
  BY <1>3, NoRecordFields DEF Sound
<1>5. Aged(r) => Aged(q)
  BY <1>2, <1>3 DEF Aged
<1>6. q.record.of = r.record.of
  BY <1>2, <1>3
<1> HIDE DEF q
<1>7. /\ Sound(Stored(q), n) /\ Stored(q).record = q.record /\ Stored(q).identity = q.identity
      /\ Stored(q).reference = q.reference /\ Stored(q).real = q.real
      /\ Stored(q).stored = q.record
  BY <1>1, <1>2, <1>3, <1>4, <1>6, StoringSound DEF Sound
<1>8. Aged(q) => Aged(Stored(q))
  BY <1>7 DEF Aged
<1> QED
  BY <1>2, <1>3, <1>5, <1>6, <1>7, <1>8 DEF q

\* A fix of the input that runs is the record, and is written down in time.
LEMMA FixSound ==
    ASSUME NEW r \in Recoveries, NEW n \in Nat, NEW of \in Someone,
           Sound(r, n), Receiving(r, TRUE, of)
    PROVE  Sound(recordFix(r), n) /\ Receiving(recordFix(r), TRUE, of)
<1> DEFINE ref == IF r.reference = Nobody THEN r.identity ELSE r.reference
           rec == [of |-> r.identity, at |-> r.clock, earlier |-> FALSE, reference |-> ref]
           seen == [r EXCEPT !.reference = ref, !.record = rec]
<1>0. /\ r.stored.of \in Nat /\ r.identity \in Nat /\ r.stored.at \in 0..Second
      /\ r.clock \in 0..Second /\ Second \in Nat \ {0} /\ 0 \in 0..Second
  BY RecoveryFields, RecoveryParts
<1>1. CASE ~r.real
  BY <1>1 DEF recordFix, observe
<1>2. CASE r.real
  <2>1. /\ r.identity = of /\ of # Nobody /\ ref = of /\ of <= n
        /\ r.stored.of = of => r.stored.reference = of
    BY <1>2 DEF Receiving, Sound
  <2>2. observe(r) = seen
    BY <1>2 DEF observe
  <2>3. /\ seen.record = rec /\ seen.reference = of /\ seen.identity = of /\ seen.real
        /\ seen.clock = r.clock /\ seen.stored = r.stored
    BY <1>2, <2>1 DEF Recoveries
  <2>4. /\ rec.of = of /\ rec.at = r.clock /\ rec.earlier = FALSE /\ rec.reference = of
        /\ rec # NoRecord
    <3>1. rec.of = of /\ rec.at = r.clock /\ rec.earlier = FALSE /\ rec.reference = of
      BY <2>1
    <3> HIDE DEF rec
    <3> QED
      BY <2>1, <3>1, NoRecordFields
  <2>5. seen \in Recoveries
    <3>1. rec \in Records
      BY <1>0, <2>1 DEF Recoveries, Records
    <3> QED
      BY <2>1, <3>1 DEF Recoveries
  <2> HIDE DEF rec, seen, ref
  <2>6. CASE r.clock < Second
    <3>1. recordFix(r) = seen
      BY <2>2, <2>6 DEF recordFix
    <3>2. r.stored # NoRecord /\ r.clock - r.stored.at < Second
      BY <1>0, <2>6 DEF Sound
    <3>3. Sound(seen, n)
      BY <2>1, <2>3, <2>4, <2>6, <3>2 DEF Sound, Outlives
    <3>4. Receiving(seen, TRUE, of)
      BY <2>1, <2>3, <2>4 DEF Receiving
    <3> QED
      BY <3>1, <3>3, <3>4
  <2>7. CASE ~(r.clock < Second)
    <3> DEFINE kept == [seen EXCEPT !.record = [rec EXCEPT !.at = 0], !.clock = 0]
    <3>1. recordFix(r) = Stored(kept)
      BY <1>2, <2>2, <2>3, <2>5, <2>7 DEF recordFix, Recoveries
    <3>2. [rec EXCEPT !.at = 0] \in Records
      BY <1>0, <2>3, <2>5 DEF Recoveries, Records
    <3>3. kept \in Recoveries
      BY <1>0, <2>5, <3>2 DEF Recoveries
    <3>4. /\ kept.record = [rec EXCEPT !.at = 0] /\ kept.identity = of /\ kept.reference = of
          /\ kept.real
      BY <2>3, <2>5 DEF Recoveries
    <3>5. kept.record.of = of /\ kept.record.reference = of
      BY <2>3, <2>4, <2>5, <3>4 DEF Recoveries, Records
    <3>6. kept.record # NoRecord
      BY <2>1, <3>5, NoRecordFields
    <3> HIDE DEF kept
    <3>7. /\ Sound(Stored(kept), n) /\ Stored(kept).record = kept.record
          /\ Stored(kept).identity = of /\ Stored(kept).reference = of
          /\ Stored(kept).real /\ Stored(kept).stored = kept.record
      BY <2>1, <3>3, <3>4, <3>5, <3>6, StoringSound
    <3>8. Receiving(Stored(kept), TRUE, of)
      BY <2>1, <3>5, <3>7 DEF Receiving
    <3> QED
      BY <3>1, <3>7, <3>8
  <2> QED
    BY <2>6, <2>7
<1> QED
  BY <1>1, <1>2

\* What is found again after a crash is as good as it was, and is marked as old.
LEMMA RestoringSound ==
    ASSUME NEW r \in Recoveries, NEW n \in Nat, Sound(r, n)
    PROVE  Sound(restore(r), n) /\ Aged(restore(r))
<1> DEFINE s == restore(r)
<1>0. r.stored \in Records /\ r.stored.at \in 0..Second /\ Second \in Nat \ {0}
  BY RecoveryParts, RecoveryFields
<1>1. CASE r.stored = NoRecord
  <2>1. /\ s.record = NoRecord /\ s.stored = NoRecord /\ s.identity = Nobody /\ s.clock = Second
    BY <1>1 DEF restore, NoRecovery
  <2> HIDE DEF s
  <2>2. Sound(s, n) /\ Aged(s)
    BY <1>0, <2>1, NoRecordFields DEF Sound, Outlives, Aged, Nobody
  <2> QED
    BY <2>2 DEF s
<1>2. CASE r.stored # NoRecord
  <2>1. /\ s.record = [r.stored EXCEPT !.earlier = TRUE, !.at = 0] /\ s.stored = r.stored
        /\ s.identity = Nobody /\ s.clock = Second
    BY <1>2 DEF restore, NoRecovery
  <2>2. /\ s.record.of = r.stored.of /\ s.record.at = 0 /\ s.record.earlier
        /\ s.record.reference = r.stored.reference
    BY <1>0, <2>1 DEF Records
  <2>3. s.record # NoRecord /\ r.stored.of # Nobody /\ 0 - r.stored.at < Second
    BY <1>0, <1>2, <2>2, NoRecordFields DEF Sound
  <2> HIDE DEF s
  <2>4. Sound(s, n) /\ Aged(s)
    BY <1>0, <1>2, <2>1, <2>2, <2>3 DEF Sound, Outlives, Aged, Nobody
  <2> QED
    BY <2>4 DEF s
<1> QED
  BY <1>1, <1>2

\* Without an input that runs, an aged record is all there is to know.
LEMMA NothingReceived ==
    ASSUME NEW r, NEW of, Aged(r) PROVE Receiving(r, FALSE, of)
BY DEF Receiving

\* Every step of the program, its end and its crash keep the invariant.
LEMMA RecoveryStep == FilesTypeOK /\ RInv /\ [FilesNext]_fileVars => RInv'
<1> SUFFICES ASSUME FilesTypeOK, RInv, [FilesNext]_fileVars PROVE RInv'
  OBVIOUS
<1> DEFINE r == recovery
           n == recordings
           of == shown.telemetry.of
<1>0. /\ r \in Recoveries /\ n \in Nat /\ shown \in Shows /\ of \in Someone
      /\ Sound(r, n) /\ Receiving(r, shown.live, of) /\ LoadingEndsInput
  BY FileAssumption DEF FilesTypeOK, Recoveries, RInv, Shows, Telemetries
<1>1. Aged(r) \/ (shown.live /\ r.real)
  BY <1>0 DEF Receiving
<1>2. Sound(endInput(r), n) /\ Aged(endInput(r)) /\ endInput(r) \in Recoveries
  BY <1>0, <1>1, EndingSound, EndingTyped
<1>3. ASSUME shown'.live = FALSE, recordings' = n, Sound(recovery', n), Aged(recovery')
      PROVE  RInv'
  BY <1>3, NothingReceived DEF RInv, LoadingEndsInput
<1>4. ASSUME UNCHANGED <<recovery, recordings>>, shown'.live = shown.live,
             shown'.telemetry.of = of, loading # Idle \/ loading' = Idle
      PROVE  RInv'
  BY <1>0, <1>4 DEF RInv, LoadingEndsInput
<1>5. ASSUME NEW real \in BOOLEAN, NewInput(real) PROVE RInv'
  <2> DEFINE begun == n + 1
             ended == [endInput(r) EXCEPT !.real = real]
             fresh == [ended EXCEPT !.identity = begun, !.reference = Nobody]
  <2>1. /\ recordings' = begun /\ recovery' = IF real THEN markEarlier(fresh) ELSE ended
        /\ shown'.live /\ shown'.telemetry.of = begun /\ loading' = Idle
        /\ begun \in Someone
    BY <1>0, <1>5, FileAssumption
       DEF NewInput, beginSession, Empty, NoTelemetry, Someone, Recordings
  <2>2. /\ ended \in Recoveries /\ ended.real = real /\ ended.record = endInput(r).record
        /\ ended.stored = endInput(r).stored /\ ended.identity = endInput(r).identity
        /\ ended.clock = endInput(r).clock
    BY <1>2 DEF Recoveries
  <2>3. Sound(ended, begun) /\ Aged(ended) /\ ended.stored.of <= n
    <3>1. ended.record.of \in Nat /\ ended.stored.of \in Nat /\ ended.identity \in Nat
      BY <2>2, RecoveryFields
    <3> HIDE DEF ended
    <3>2. ended.record.of <= n /\ ended.stored.of <= n /\ ended.identity <= n
      BY <1>2, <2>2 DEF Sound
    <3> QED
      BY <1>0, <1>2, <2>2, <3>1, <3>2 DEF Sound, Outlives, Aged
  <2> HIDE DEF ended
  <2>4. CASE ~real
    BY <2>1, <2>2, <2>3, <2>4 DEF RInv, Receiving, LoadingEndsInput
  <2>5. CASE real
    <3>1. /\ fresh \in Recoveries /\ fresh.identity = begun /\ fresh.reference = Nobody
          /\ fresh.real = real /\ fresh.record = ended.record /\ fresh.stored = ended.stored
          /\ fresh.clock = ended.clock
      BY <2>1, <2>2, RecoveryParts DEF Recoveries
    <3>2. Sound(fresh, begun)
      BY <1>0, <2>3, <3>1 DEF Sound, Outlives
    <3> HIDE DEF fresh
    <3>3. /\ Sound(recovery', begun) /\ Aged(recovery') /\ recovery'.identity = begun
          /\ recovery'.reference = Nobody /\ recovery'.stored = ended.stored
      BY <1>0, <2>1, <2>5, <3>1, <3>2, AgeingSound
    <3>4. begun # Nobody /\ recovery'.stored.of # begun
      BY <1>0, <2>3, <3>3 DEF Nobody
    <3> QED
      BY <2>1, <3>3, <3>4 DEF RInv, Receiving, LoadingEndsInput
  <2> QED
    BY <2>4, <2>5
<1>6. ASSUME NEW fix \in BOOLEAN, recordLiveSample(fix) PROVE RInv'
  <2>1. /\ shown.live = TRUE /\ shown'.live = shown.live /\ shown'.telemetry.of = of
        /\ UNCHANGED <<recordings, loading>>
        /\ recovery' = IF fix THEN recordFix(r) ELSE r
    BY <1>0, <1>6 DEF recordLiveSample, Shows, Telemetries
  <2>2. Sound(recovery', n) /\ Receiving(recovery', TRUE, of)
    BY <1>0, <2>1, FixSound
  <2> QED
    BY <1>0, <2>1, <2>2 DEF RInv, LoadingEndsInput
<1>7. CASE EndInput \/ onClearFlightData \/ \E p \in Paths : loadFlightLogAsync(p)
  <2>1. shown'.live = FALSE
    BY <1>0, <1>7 DEF EndInput, onClearFlightData, loadFlightLogAsync, Empty, Shows
  <2>2. recordings' = n /\ recovery' = endInput(r)
    BY <1>7 DEF EndInput, onClearFlightData, loadFlightLogAsync
  <2> QED
    BY <1>2, <1>3, <2>1, <2>2
<1>8. CASE EditEvents
  BY <1>0, <1>4, <1>8 DEF EditEvents, Shows, Telemetries
<1>9. CASE EditReference
  <2>1. /\ shown'.live = shown.live /\ shown'.telemetry.of = of /\ UNCHANGED <<recordings, loading>>
    BY <1>0, <1>9 DEF EditReference, Shows, Telemetries
  <2>2. r.identity \in Someone
    BY <1>0 DEF Recoveries
  <2>3. \/ recovery' = r
        \/ \E who \in {of, r.identity} : recovery' = Stored(setReference(r, who))
    BY <1>9 DEF EditReference
  <2>4. ASSUME NEW who \in {of, r.identity}, recovery' = Stored(setReference(r, who)) PROVE RInv'
    <3>1. /\ Sound(recovery', n) /\ (Aged(r) => Aged(recovery'))
          /\ recovery'.record.of = r.record.of /\ recovery'.identity = r.identity
          /\ recovery'.real = r.real
          /\ recovery'.reference = who /\ recovery'.stored = recovery'.record
          /\ r.record # NoRecord => recovery'.record.reference = who
          /\ r.record = NoRecord => recovery'.record = NoRecord
      BY <1>0, <2>2, <2>4, ReferenceSound
    <3>2. shown.live /\ r.real => who = of /\ of # Nobody
      BY <1>0 DEF Receiving
    <3>3. shown.live /\ r.real /\ recovery'.stored.of = of => recovery'.stored.reference = of
      <4>1. NoRecord.of = Nobody
        BY DEF NoRecord
      <4> QED
        BY <3>1, <3>2, <4>1
    <3>4. Aged(recovery') \/ (shown.live /\ r.real /\ recovery'.record.of = r.identity
                                                   /\ recovery'.record.reference = r.identity)
      BY <1>0, <3>1, <3>2 DEF Receiving, Aged
    <3>5. Receiving(recovery', shown.live, of)
      BY <1>0, <3>1, <3>2, <3>3, <3>4 DEF Receiving
    <3> QED
      BY <1>0, <2>1, <3>1, <3>5 DEF RInv, LoadingEndsInput
  <2> QED
    BY <1>4, <2>1, <2>3, <2>4
<1>10. CASE \/ \E p \in Paths : exportSession(p)
            \/ exportSessionToCsv \/ saveMetadata \/ ExportFinished
  <2>1. UNCHANGED <<shown, recordings, recovery>> /\ (loading # Idle \/ loading' = Idle)
    BY <1>10 DEF exportSession, exportSessionToCsv, saveMetadata, ExportFinished, Disturbed
  <2> QED
    BY <1>4, <2>1
<1>11. CASE LoadTelemetry \/ ReadSidecar \/ CheckDigest \/ cancelFlightLogLoad
  <2>1. loading # Idle /\ UNCHANGED <<shown, recordings, recovery>>
    BY <1>11 DEF LoadTelemetry, ReadSidecar, CheckDigest, cancelFlightLogLoad, LoadAt, Idle
  <2> QED
    BY <1>4, <2>1
<1>12. CASE LoadFinished
  <2>1. loading # Idle /\ UNCHANGED <<recordings, recovery>>
    BY <1>12 DEF LoadFinished, Idle
  <2>2. shown.live = FALSE
    BY <1>0, <2>1 DEF LoadingEndsInput, Shows
  <2>3. shown'.live = FALSE
    BY <1>12, <2>2 DEF LoadFinished
  <2> QED
    BY <1>0, <1>1, <1>3, <2>1, <2>2, <2>3
<1>13. CASE TimePasses
  <2>1. /\ recovery' = Waited(r) /\ UNCHANGED <<shown, recordings, loading>>
    BY <1>13 DEF TimePasses
  <2>2. /\ recovery'.record = r.record /\ recovery'.stored = r.stored
        /\ recovery'.identity = r.identity /\ recovery'.reference = r.reference
        /\ recovery'.real = r.real
        /\ recovery'.clock = IF r.clock < Second THEN r.clock + 1 ELSE Second
    BY <1>0, <2>1 DEF Waited, Recoveries
  <2>3. recovery'.clock < Second => r.clock < Second
    BY <1>0, <2>2, RecoveryFields
  <2> QED
    BY <1>0, <2>1, <2>2, <2>3 DEF RInv, Sound, Outlives, Receiving, Aged, LoadingEndsInput
<1>14. CASE Quit \/ Crash
  <2>1. shown'.live = FALSE /\ recordings' = n
    BY <1>14 DEF Quit, Crash, Empty
  <2>2. \A q \in Recoveries : Sound(q, n) => Sound(restore(q), n) /\ Aged(restore(q))
    BY <1>0, RestoringSound
  <2>3. Sound(Stored(endInput(r)), n) /\ Stored(endInput(r)) \in Recoveries
    BY <1>0, <1>2, StoringSound, EndingTyped DEF Sound
  <2>4. Sound(recovery', n) /\ Aged(recovery')
    BY <1>0, <1>2, <1>14, <2>2, <2>3 DEF Quit, Crash
  <2> QED
    BY <1>3, <2>1, <2>4
<1>15. CASE UNCHANGED fileVars
  BY <1>4, <1>15 DEF fileVars
<1> QED
  BY <1>5, <1>6, <1>7, <1>8, <1>9, <1>10, <1>11, <1>12, <1>13, <1>14, <1>15 DEF FilesNext

LEMMA RecoveryInit == FilesInit => RInv
<1> SUFFICES ASSUME FilesInit PROVE RInv
  OBVIOUS
<1>1. /\ recovery = NoRecovery /\ recordings = 0 /\ shown.live = FALSE /\ loading = Idle
  BY DEF FilesInit, Empty
<1> QED
  BY <1>1, SecondAssumption
     DEF RInv, Sound, Outlives, Receiving, Aged, LoadingEndsInput, NoRecovery, NoRecord, Nobody

\* RecoveryState: the way to the rocket is said to be current only while the input
\* that received it runs; a crash loses less than a second of it, and never the
\* reference chosen for it.
THEOREM WayIsFound == FilesSpec => []RecoveryIsTrue
<1>1. FilesTypeOK /\ RInv => RecoveryIsTrue
  <2> SUFFICES ASSUME FilesTypeOK, RInv PROVE RecoveryIsTrue
    OBVIOUS
  <2>1. RecoveryIsCurrent
    BY DEF RInv, Receiving, Aged, RecoveryIsCurrent
  <2>2. RecoveryOutlivesCrash
    BY DEF RInv, Sound, Outlives, RecoveryOutlivesCrash
  <2> QED
    BY <2>1, <2>2 DEF RecoveryIsTrue
<1>2. FInv => FilesTypeOK
  BY DEF FInv
<1> QED
  BY <1>1, <1>2, InitHolds, StepHolds, RecoveryInit, RecoveryStep, PTL DEF FilesSpec

=============================================================================
