---------------------------- MODULE FlightFiles ----------------------------
(***************************************************************************)
(* What of a recording is on disk: FlightLogManager writes the telemetry,   *)
(* FlightMetadata its annotations beside it, each file atomically, in a     *)
(* background task of MainWindow::exportSession; another background task    *)
(* reads them back.  The program may die between any two steps.  Beside the *)
(* files, RecoveryRecord is kept in the settings.                           *)
(*                                                                          *)
(* A recording is its number and the number of its samples.  An event is    *)
(* named by the recording it was marked in, and so is a ground reference.   *)
(* Who is asked before a recording is replaced is RecordingGuard's matter.  *)
(***************************************************************************)
EXTENDS RecoveryRecord, FiniteSets

CONSTANTS
    Paths,
    MaxRecordings,  \* bound: inputs that are started
    MaxSamples,     \* bound: samples of one recording that are told apart
    Bounds          \* bound: how many exports and fixes one behaviour may have

ASSUME FileAssumption ==
    /\ MaxRecordings \in Nat /\ MaxSamples \in Nat \ {0}
    /\ Bounds \subseteq [exports : Nat, fixes : Nat]

VARIABLES
    shown,          \* the recording in the program, with its annotations
    recordings,     \* how many inputs have been started
    disk,           \* of a path: the telemetry, and the annotations beside it
    exporting,      \* the task of exportSession
    loading,        \* the task of loadFlightLogAsync
    claimed,        \* of a path: what the user was last told is saved there
    recovery,       \* RecoveryState and the settings
    left            \* the exports and the fixes that may still come

fileVars == <<shown, recordings, disk, exporting, loading, claimed, recovery, left>>

NoFile == [kind |-> "none"]
Idle == [step |-> "idle"]
NoTelemetry == [of |-> Nobody, samples |-> 0]
NoNotes == [events |-> {}, reference |-> Nobody]

Empty == [telemetry |-> NoTelemetry, notes |-> NoNotes, live |-> FALSE, replay |-> FALSE]

\* The digest of a file stands for its bytes.
Telemetry(t) == [kind |-> "telemetry", data |-> t]
recordingDigest(path) == disk[path].telemetry.data

\* "meant" is no part of the file: it names the telemetry it was exported with.
Sidecar(digest, notes, meant) ==
    [kind |-> "sidecar", digest |-> digest, notes |-> notes, meant |-> meant]

FilesInit ==
    /\ shown = Empty /\ recordings = 0
    /\ disk = [p \in Paths |-> [telemetry |-> NoFile, sidecar |-> NoFile]]
    /\ exporting = Idle /\ loading = Idle
    /\ claimed = [p \in Paths |-> Empty]
    /\ recovery = NoRecovery
    /\ left \in Bounds

-----------------------------------------------------------------------------
(* The recording in the program. *)

\* startSerial, or another input, whose samples are no real fixes.
NewInput(real) ==
    LET begun == recordings + 1
        ended == [endInput(recovery) EXCEPT !.real = real]
    IN  /\ begun <= MaxRecordings
        /\ recordings' = begun
        /\ recovery' = IF real THEN beginSession(ended, begun) ELSE ended
        /\ shown' = [Empty EXCEPT !.telemetry.of = begun, !.live = TRUE]
        /\ loading' = Idle
        /\ UNCHANGED <<disk, exporting, claimed, left>>

\* A live sample, with a position or without.
recordLiveSample(fix) ==
    LET seen == IF fix THEN recordFix(recovery) ELSE recovery IN
    /\ shown.live /\ shown.telemetry.samples < MaxSamples
    /\ fix => left.fixes > 0
    /\ left' = IF fix THEN [left EXCEPT !.fixes = @ - 1] ELSE left
    /\ recovery' = seen
    /\ shown' = [shown EXCEPT
                    !.telemetry.samples = @ + 1,
                    !.notes.reference = IF fix /\ seen.real THEN json(seen).reference ELSE @]
    /\ UNCHANGED <<recordings, disk, exporting, loading, claimed>>

EndInput ==
    /\ shown.live
    /\ shown' = [shown EXCEPT !.live = FALSE]
    /\ recovery' = endInput(recovery)
    /\ UNCHANGED <<recordings, disk, exporting, loading, claimed, left>>

onClearFlightData ==
    /\ shown' = Empty
    /\ recovery' = endInput(recovery)
    /\ loading' = Idle
    /\ UNCHANGED <<recordings, disk, exporting, claimed, left>>

EditEvents ==
    /\ shown.telemetry.samples > 0
    /\ \E events \in {{}, {shown.telemetry.of}} :
        shown' = [shown EXCEPT !.notes.events = events]
    /\ UNCHANGED <<recordings, disk, exporting, loading, claimed, recovery, left>>

\* A ground reference chosen on the map of the page, or on the live map.
EditReference ==
    LET who == shown.telemetry.of
        own == recovery.real /\ ~shown.replay
    IN  /\ \/ /\ shown.telemetry.samples > 0
              /\ shown' = [shown EXCEPT !.notes.reference = who]
              /\ recovery' = IF own THEN Stored(setReference(recovery, who)) ELSE recovery
           \/ /\ recovery' = Stored(setReference(recovery, recovery.identity))
              /\ shown' = IF own THEN [shown EXCEPT !.notes.reference = recovery.identity]
                          ELSE shown
        /\ UNCHANGED <<recordings, disk, exporting, loading, claimed, left>>

-----------------------------------------------------------------------------
(* Saving. *)

exportSession(path) ==
    /\ exporting = Idle
    /\ shown.telemetry.samples > 0 \/ shown.notes.events # {}
    /\ exporting' = [step |-> "telemetry", path |-> path,
                     telemetry |-> shown.telemetry, notes |-> shown.notes]
    /\ claimed' = [claimed EXCEPT ![path] = Empty]
    /\ left.exports > 0 /\ left' = [left EXCEPT !.exports = @ - 1]
    /\ UNCHANGED <<shown, recordings, disk, loading, recovery>>

At(step) == exporting.step = step

Proceeds(step) == exporting' = [exporting EXCEPT !.step = step]

\* A load that overlaps with a file being replaced.
Disturbed(path) ==
    IF loading # Idle /\ loading.path = path
    THEN [loading EXCEPT !.disturbed = TRUE] ELSE loading

Bug_exportSessionToCsvIgnoresFailure ==
    /\ At("telemetry")
    /\ \/ /\ disk' = [disk EXCEPT ![exporting.path].telemetry = Telemetry(exporting.telemetry)]
          /\ loading' = Disturbed(exporting.path)
       \/ disk[exporting.path].telemetry # NoFile /\ UNCHANGED <<disk, loading>>
    /\ Proceeds("sidecar")
    /\ UNCHANGED <<shown, recordings, claimed, recovery, left>>

\* The file is replaced as a whole, or not at all.
exportSessionToCsv ==
    /\ At("telemetry")
    /\ \/ /\ disk' = [disk EXCEPT ![exporting.path].telemetry = Telemetry(exporting.telemetry)]
          /\ loading' = Disturbed(exporting.path)
          /\ Proceeds("sidecar")
       \/ Proceeds("failed") /\ UNCHANGED <<disk, loading>>
    /\ UNCHANGED <<shown, recordings, claimed, recovery, left>>

\* The digest is that of the file that is there now.
saveMetadata ==
    /\ At("sidecar")
    /\ \/ /\ disk' = [disk EXCEPT ![exporting.path].sidecar =
                        Sidecar(recordingDigest(exporting.path), exporting.notes,
                                exporting.telemetry)]
          /\ loading' = Disturbed(exporting.path)
          /\ Proceeds("saved")
       \/ Proceeds("failed") /\ UNCHANGED <<disk, loading>>
    /\ UNCHANGED <<shown, recordings, claimed, recovery, left>>

Bug_ExportFinishedClaimsFailure ==
    /\ exporting.step \in {"saved", "failed"}
    /\ claimed' = [claimed EXCEPT ![exporting.path] =
                      [Empty EXCEPT !.telemetry = exporting.telemetry,
                                    !.notes = exporting.notes]]
    /\ exporting' = Idle
    /\ UNCHANGED <<shown, recordings, disk, loading, recovery, left>>

ExportFinished ==
    /\ exporting.step \in {"saved", "failed"}
    /\ claimed' = IF At("failed") THEN claimed
                  ELSE [claimed EXCEPT ![exporting.path] =
                          [Empty EXCEPT !.telemetry = exporting.telemetry,
                                        !.notes = exporting.notes]]
    /\ exporting' = Idle
    /\ UNCHANGED <<shown, recordings, disk, loading, recovery, left>>

-----------------------------------------------------------------------------
(* Reopening. *)

loadFlightLogAsync(path) ==
    /\ shown' = [shown EXCEPT !.live = FALSE]
    /\ recovery' = endInput(recovery)
    /\ loading' = [step |-> "telemetry", path |-> path, telemetry |-> NoTelemetry,
                   sidecar |-> NoFile, accepted |-> FALSE, disturbed |-> FALSE]
    /\ UNCHANGED <<recordings, disk, exporting, claimed, left>>

LoadAt(step) == loading.step = step

LoadTelemetry ==
    /\ LoadAt("telemetry")
    /\ loading' = IF disk[loading.path].telemetry = NoFile
                  THEN [loading EXCEPT !.step = "error"]
                  ELSE [loading EXCEPT !.step = "sidecar",
                                       !.telemetry = disk[loading.path].telemetry.data]
    /\ UNCHANGED <<shown, recordings, disk, exporting, claimed, recovery, left>>

\* No sidecar at all is accepted, as a recording without annotations.
ReadSidecar ==
    /\ LoadAt("sidecar")
    /\ LET found == disk[loading.path].sidecar IN
       loading' = [loading EXCEPT !.step = IF found = NoFile THEN "loaded" ELSE "digest",
                                  !.sidecar = found, !.accepted = found = NoFile]
    /\ UNCHANGED <<shown, recordings, disk, exporting, claimed, recovery, left>>

\* loadMetadata digests the file again, by its path.
CheckDigest ==
    /\ LoadAt("digest")
    /\ loading' = [loading EXCEPT !.step = "loaded",
                    !.accepted = loading.sidecar.digest = recordingDigest(loading.path)]
    /\ UNCHANGED <<shown, recordings, disk, exporting, claimed, recovery, left>>

\* Annotations that are refused leave the events empty, and the reference of the page.
LoadFinished ==
    /\ loading.step \in {"error", "loaded"}
    /\ shown' =
        IF LoadAt("error") THEN shown
        ELSE [telemetry |-> loading.telemetry, live |-> FALSE, replay |-> TRUE,
              notes |-> CASE ~loading.accepted -> [NoNotes EXCEPT !.reference = shown.notes.reference]
                          [] loading.accepted /\ loading.sidecar = NoFile -> NoNotes
                          [] loading.accepted /\ loading.sidecar # NoFile -> loading.sidecar.notes]
    /\ loading' = Idle
    /\ UNCHANGED <<recordings, disk, exporting, claimed, recovery, left>>

cancelFlightLogLoad ==
    /\ loading # Idle
    /\ loading' = Idle
    /\ UNCHANGED <<shown, recordings, disk, exporting, claimed, recovery, left>>

-----------------------------------------------------------------------------
TimePasses ==
    /\ recovery' = Waited(recovery)
    /\ recovery' # recovery
    /\ UNCHANGED <<shown, recordings, disk, exporting, loading, claimed, left>>

\* closeEvent ends the input and writes the record; then the program starts anew.
Quit ==
    /\ exporting = Idle
    /\ LET ended == endInput(recovery) IN
       recovery' = restore(IF json(ended) = NoRecord THEN ended ELSE Stored(ended))
    /\ shown' = Empty /\ loading' = Idle
    /\ UNCHANGED <<recordings, disk, exporting, claimed, left>>

Crash ==
    /\ shown' = Empty /\ exporting' = Idle /\ loading' = Idle
    /\ recovery' = restore(recovery)
    /\ UNCHANGED <<recordings, disk, claimed, left>>

FilesNext ==
    \/ \E real \in BOOLEAN : NewInput(real)
    \/ \E fix \in BOOLEAN : recordLiveSample(fix)
    \/ EndInput \/ onClearFlightData \/ EditEvents \/ EditReference
    \/ \E p \in Paths : exportSession(p) \/ loadFlightLogAsync(p)
    \/ exportSessionToCsv \/ saveMetadata \/ ExportFinished
    \/ LoadTelemetry \/ ReadSidecar \/ CheckDigest \/ LoadFinished \/ cancelFlightLogLoad
    \/ TimePasses \/ Quit \/ Crash

FilesSpec == FilesInit /\ [][FilesNext]_fileVars

-----------------------------------------------------------------------------
Recordings == 1..MaxRecordings
Someone == Recordings \union {Nobody}
Telemetries == [of : Someone, samples : 0..MaxSamples]
Notes == [events : SUBSET Someone, reference : Someone]
Shows == [telemetry : Telemetries, notes : Notes, live : BOOLEAN, replay : BOOLEAN]
Records == [of : Someone, at : 0..Second, earlier : BOOLEAN, reference : Someone]
TelemetryFiles == [kind : {"telemetry"}, data : Telemetries] \union {NoFile}
Sidecars ==
    [kind : {"sidecar"}, digest : Telemetries, notes : Notes, meant : Telemetries]
        \union {NoFile}

FilesTypeOK ==
    /\ shown \in Shows
    /\ recordings \in 0..MaxRecordings
    /\ disk \in [Paths -> [telemetry : TelemetryFiles, sidecar : Sidecars]]
    /\ claimed \in [Paths -> Shows]
    /\ exporting \in
        [step : {"telemetry", "sidecar", "saved", "failed"}, path : Paths,
         telemetry : Telemetries, notes : Notes] \union {Idle}
    /\ loading \in
        [step : {"telemetry", "sidecar", "digest", "loaded", "error"}, path : Paths,
         telemetry : Telemetries, sidecar : Sidecars,
         accepted : BOOLEAN, disturbed : BOOLEAN] \union {Idle}
    /\ recovery \in
        [record : Records, stored : Records, identity : Someone, reference : Someone,
         real : BOOLEAN, clock : 0..Second]
    /\ left \in [exports : Nat, fixes : Nat]

\* A reader who finds annotations that match the telemetry beside them finds
\* the ones that were saved with it, whatever crash or failed write came
\* between the two files, of this or of an earlier recording.
AnnotationsMatchTelemetry ==
    \A p \in Paths :
        LET f == disk[p] IN
        f.telemetry # NoFile /\ f.sidecar # NoFile /\ f.sidecar.digest = f.telemetry.data
            => f.sidecar.meant = f.telemetry.data

\* What the user was told is saved is what reopening the file finds, with its
\* annotations, until something else is saved there - also after a crash.
SavedSurvives ==
    \A p \in Paths : claimed[p] # Empty =>
        /\ disk[p].telemetry = Telemetry(claimed[p].telemetry)
        /\ disk[p].sidecar = Sidecar(claimed[p].telemetry, claimed[p].notes,
                                     claimed[p].telemetry)

\* A load that no save of the same file overlaps with shows annotations only
\* with the telemetry they were saved with.
LoadedTogether ==
    LoadAt("loaded") /\ ~loading.disturbed /\ loading.accepted /\ loading.sidecar # NoFile
        => loading.sidecar.meant = loading.telemetry

\* saveMetadata and loadMetadata: annotations are only ever those of the telemetry
\* they are found, or shown, with.
AnnotationsBelong == AnnotationsMatchTelemetry /\ LoadedTogether

\* The retained fix is said to be current only while the real input that
\* received it runs, and its reference was then chosen, or first seen, in it.
RecoveryIsCurrent ==
    recovery.record # NoRecord /\ ~recovery.record.earlier =>
        /\ shown.live /\ recovery.real
        /\ recovery.record.of = shown.telemetry.of
        /\ recovery.record.reference = recovery.record.of

\* A crash loses less than a second of the way to the last fix, and no
\* reference that belongs to the fix that is found again.
RecoveryOutlivesCrash ==
    LET kept == recovery.stored IN
    recovery.record # NoRecord =>
        /\ kept # NoRecord
        /\ kept.of = recovery.record.of =>
            /\ recovery.record.at - kept.at < Second
            /\ kept.reference = recovery.record.reference
        /\ kept.of # recovery.record.of => recovery.record.at < Second

\* RecoveryState: what is shown, and found after a crash, of the way to the rocket.
RecoveryIsTrue == RecoveryIsCurrent /\ RecoveryOutlivesCrash

\* "References remain scoped to their recording": what is shown with a
\* recording, and would be saved with it, was chosen in it.
ReferenceStaysWithRecording ==
    shown.telemetry.samples > 0 => shown.notes.reference \in {Nobody, shown.telemetry.of}
=============================================================================
