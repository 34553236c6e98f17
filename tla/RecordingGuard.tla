--------------------------- MODULE RecordingGuard ---------------------------
(***************************************************************************)
(* MainWindow's protection of unsaved recordings: RecordingRevision, the   *)
(* Save/Discard/Cancel question, the background export, the background     *)
(* import of a flight log, and closing the window.                         *)
(*                                                                         *)
(* All handlers run on the GUI thread, but a modal dialog runs an event    *)
(* loop of its own inside the handler that opened it: samples, completions *)
(* and timers are served while the question is on the screen.  The dialogs *)
(* form a stack, and only the top one takes input.  No handler opens a     *)
(* dialog while m_discardApproved is set, so a handler that runs approved  *)
(* runs to its end: approval is not a variable here but which operator is  *)
(* called.                                                                 *)
(*                                                                         *)
(* A recording is abstracted to how often it changed: each retained sample *)
(* and each edit is one change, and revision 0 holds nothing new.  Samples *)
(* the log refuses at its memory limit are not part of a recording.        *)
(***************************************************************************)
EXTENDS Integers, Sequences, FiniteSets, SequencesExt

CONSTANTS
    MaxSession,         \* bound: recordings begun
    MaxRevision,        \* bound: changes of one recording
    MaxDialogs,         \* bound: dialogs open once a question is asked
    MaxLoadGeneration,  \* bound: an import starts below this generation
    NestedQuestions,    \* whether quitting may ask while a question is already open
    EditsWhileSaving    \* whether an editor may be opened while an export runs

ASSUME BoundAssumption ==
    /\ {MaxSession, MaxRevision, MaxDialogs, MaxLoadGeneration} \subseteq Nat
    /\ MaxSession >= 1
    /\ {NestedQuestions, EditsWhileSaving} \subseteq BOOLEAN

VARIABLES
    \* m_recordingRevision
    session, revision, saved,
    imported,        \* the recording is a flight log that was loaded
    markers,         \* the recordings the event markers now shown were made for
    \* Acquisition
    input,           \* "none", "live" (serial or recorded input) or "demo"
    queued,          \* samples decoded and not yet drained into the recording
    \* The GUI thread
    dialogs,         \* the open modal dialogs, the top one last
    closing,         \* the close() calls posted by closeEvent
    exited,          \* m_exitAccepted
    \* The background export and imports
    export,          \* the running export, or NoExport (m_exportInProgress false)
    loadGeneration,  \* m_loadGeneration
    loads,           \* the running imports, with the recording their user gave up
    \* History
    written          \* newest revision of the recording that is on disk

recording == <<session, revision, saved, imported, markers, written>>
acquisition == <<input, queued>>
loading == <<loadGeneration, loads>>
vars == <<recording, acquisition, loading, dialogs, closing, exited, export>>

Change == {"acquire", "demo", "load", "clear", "close"}
NoExport == [stage |-> "none"]

\* The recording a user who was not asked has agreed to lose.
None == 0

Init ==
    /\ session = 1 /\ revision = 0 /\ saved = 0 /\ imported = FALSE
    /\ markers = {} /\ written = 0
    /\ input = "none" /\ queued = 0
    /\ dialogs = <<>> /\ closing = {} /\ exited = FALSE
    /\ export = NoExport
    /\ loadGeneration = 0 /\ loads = {}

Exporting == export # NoExport
Dirty == revision # saved
AcquisitionActive == input # "none"

\* sessionGuardNeeded()
SessionGuardNeeded == Dirty \/ Exporting \/ AcquisitionActive

-----------------------------------------------------------------------------
(***************************************************************************)
(* The recording.                                                          *)
(***************************************************************************)

\* changed(), n times
Changed(n) == revision' = revision + n /\ UNCHANGED <<session, imported, written>>

\* stopFakeTransmission and stopSerial; what was queued is recorded.
StopInputs == input' = "none" /\ queued' = 0

Bug_KeepsMarkers(changes, file) ==
    /\ session < MaxSession /\ session' = session + 1 /\ revision' = changes
    /\ imported' = file /\ UNCHANGED markers /\ written' = 0

\* The old recording and its markers go; reset() comes after that.
NewRecording(changes, file) ==
    /\ session < MaxSession
    /\ session' = session + 1
    /\ revision' = changes
    /\ imported' = file
    /\ markers' = {}
    /\ written' = 0

\* m_saved is known as long as the recording stays.
SavedIs(known) == saved' = IF session' = session THEN known ELSE 0

Bug_SavedIgnoresSession(snapshot) ==
    IF snapshot.revision > saved THEN snapshot.revision ELSE saved

\* m_saved after RecordingRevision::saved(snapshot)
SavedAfter(snapshot) ==
    IF /\ snapshot.session = session
       /\ snapshot.revision > saved
       /\ snapshot.revision <= revision
    THEN snapshot.revision ELSE saved

\* There is one progress dialog at most.
WithoutProgress(open) ==
    LET at == {i \in DOMAIN open : open[i].kind = "progress"}
    IN  IF at = {} THEN open ELSE RemoveAt(open, CHOOSE i \in at : TRUE)

\* cancelFlightLogLoad: the progress dialog closes and a running import is stale.
CancelFlightLogLoad(open) ==
    /\ dialogs' = WithoutProgress(open)
    /\ loadGeneration' = loadGeneration + 1

-----------------------------------------------------------------------------
(***************************************************************************)
(* The changes a user may ask for, once they may proceed.  open: the       *)
(* dialogs that stay; agreed: the recording the user has agreed to lose.   *)
(***************************************************************************)

\* startSerial that opens no port: the recording stays.  An empty name is noticed
\* before the demo is stopped.
AcquireFails(open) ==
    /\ input' \in IF input = "demo" THEN {"demo", "none"} ELSE {"none"}
    /\ queued' = 0
    /\ Changed(queued)
    /\ dialogs' = open
    /\ UNCHANGED <<markers, loading>>

\* startSerial and startRecordedImuInput; the threads may still fail to start.
Acquire(open) ==
    /\ NewRecording(0, FALSE)
    /\ input' \in {"live", "none"} /\ queued' = 0
    /\ CancelFlightLogLoad(open)
    /\ UNCHANGED loads

\* onStartLiveDemo: the first sample comes at once.
Demo(open) ==
    /\ NewRecording(1, FALSE)
    /\ input' = "demo" /\ queued' = 0
    /\ CancelFlightLogLoad(open)
    /\ UNCHANGED loads

\* onClearFlightData
Clear(open) ==
    /\ NewRecording(0, FALSE)
    /\ StopInputs
    /\ CancelFlightLogLoad(open)
    /\ UNCHANGED loads

\* loadFlightLogAsync: an import starts behind a window-modal progress dialog.
Load(open, agreed) ==
    /\ loadGeneration < MaxLoadGeneration
    /\ StopInputs /\ Changed(queued)
    /\ loadGeneration' = loadGeneration + 2
    /\ loads' = loads \cup {[generation |-> loadGeneration + 2, agreed |-> agreed]}
    /\ dialogs' = Append(WithoutProgress(open), [kind |-> "progress", action |-> "load"])
    /\ UNCHANGED markers

\* What closeEvent asks for: close() is posted, with what was known here.
PostClose(discarded, open, agreed) ==
    /\ closing' = closing \cup
           {[discarded |-> discarded, session |-> session, agreed |-> agreed]}
    /\ dialogs' = open
    /\ UNCHANGED <<session, revision, imported, markers, written, loading>>

\* A change is carried out with m_discardApproved set.
Perform(action, open, agreed) ==
    /\ \/ action = "acquire" /\ (Acquire(open) \/ AcquireFails(open))
       \/ action = "demo" /\ Demo(open)
       \/ action = "clear" /\ Clear(open)
       \/ action = "load" /\ Load(open, agreed)
    /\ UNCHANGED <<closing, exited>>

\* requestSessionChange, called only if sessionGuardNeeded(): the question; while an
\* export runs there is only a message.
RequestSessionChange(action) ==
    /\ ~Exporting
    /\ Len(dialogs) < MaxDialogs
    /\ NestedQuestions \/ \A i \in 1..Len(dialogs) : dialogs[i].kind # "guard"
    /\ dialogs' = Append(dialogs, [kind |-> "guard", action |-> action])
    /\ UNCHANGED <<recording, acquisition, loading, exited, export>>

\* A closeEvent that goes through.
Exit ==
    /\ StopInputs /\ Changed(queued)
    /\ exited' = TRUE
    /\ UNCHANGED <<saved, markers, loading, dialogs, export>>

-----------------------------------------------------------------------------
(***************************************************************************)
(* The user.                                                               *)
(***************************************************************************)

UserFree == ~exited /\ dialogs = <<>>

\* A change is requested and nothing is at stake.
ChangeAtOnce ==
    /\ UserFree /\ ~SessionGuardNeeded
    /\ \E action \in Change \ {"close"} : Perform(action, dialogs, None)
    /\ SavedIs(saved)
    /\ UNCHANGED export

\* A change is requested and the user is asked about the recording.
RequestChange ==
    /\ UserFree /\ SessionGuardNeeded
    /\ \E action \in Change \ {"close"} : RequestSessionChange(action)
    /\ UNCHANGED closing

\* The window is closed or the application asked to quit; no dialog prevents the latter.
Quit ==
    /\ ~exited
    /\ IF SessionGuardNeeded THEN RequestSessionChange("close") ELSE Exit
    /\ UNCHANGED closing

\* onDisconnectLiveDevice, or an input that fails: the recording stays.
Disconnect ==
    /\ ~exited /\ AcquisitionActive
    /\ StopInputs /\ Changed(queued)
    /\ UNCHANGED <<saved, markers, loading, dialogs, closing, exited, export>>

\* The ground reference of the recording is set.
SetReference ==
    /\ UserFree /\ revision + queued < MaxRevision
    /\ Changed(1)
    /\ UNCHANGED <<saved, markers, acquisition, loading, dialogs, closing, exited, export>>

\* "Add event marker" or "Manage flight events" opens, made for this recording ...
EditorOpens ==
    /\ UserFree
    /\ Exporting => EditsWhileSaving
    /\ dialogs' = Append(dialogs, [kind |-> "editor", action |-> session])
    /\ UNCHANGED <<recording, acquisition, loading, closing, exited, export>>

Top == dialogs[Len(dialogs)]
WithoutTop == SubSeq(dialogs, 1, Len(dialogs) - 1)
OnTop(kind) == ~exited /\ dialogs # <<>> /\ Top.kind = kind

\* ... and its result goes into whatever recording there is when it is accepted.
EditorAccepts ==
    /\ OnTop("editor")
    /\ revision + queued < MaxRevision
    /\ Changed(1)
    /\ markers' = {Top.action}
    /\ dialogs' = WithoutTop
    /\ UNCHANGED <<saved, acquisition, loading, closing, exited, export>>

\* An editor or the question is canceled (as it is when no destination is chosen),
\* or a message is read.
Dismiss ==
    /\ \E kind \in {"editor", "guard", "notice"} : OnTop(kind)
    /\ dialogs' = WithoutTop
    /\ UNCHANGED <<recording, acquisition, loading, closing, exited, export>>

\* Discard
AnswerDiscard ==
    /\ OnTop("guard")
    /\ \/ Perform(Top.action, WithoutTop, session)
       \/ /\ Top.action = "close"
          /\ PostClose(SessionGuardNeeded, WithoutTop, session)
          /\ UNCHANGED <<acquisition, exited>>
    /\ SavedIs(saved)
    /\ UNCHANGED export

\* The recording holds neither samples nor markers.
Empty == revision + queued = 0 /\ ~imported

\* What exportSession keeps for its completion.
Snapshot(after) ==
    [stage |-> "csv", session |-> session, revision |-> revision', after |-> after]

\* Save, with a destination: acquisition stops, what was queued is recorded, and the
\* export starts; unless one runs, or there is nothing to write, or no snapshot.
AnswerSave ==
    /\ OnTop("guard") /\ (Empty => Exporting)
    /\ StopInputs /\ Changed(queued)
    /\ dialogs' = WithoutTop
    /\ \/ ~Exporting /\ export' = Snapshot(Top.action)
       \/ UNCHANGED export
    /\ UNCHANGED <<saved, markers, loading, closing, exited>>

\* Save with nothing recorded: the change follows at once.
AnswerSaveEmpty ==
    /\ OnTop("guard") /\ Empty /\ ~Exporting
    /\ \/ Perform(Top.action, WithoutTop, None)
       \/ /\ Top.action = "close"
          /\ StopInputs
          /\ PostClose(FALSE, WithoutTop, None)
          /\ UNCHANGED exited
    /\ SavedIs(saved)
    /\ UNCHANGED export

\* onExportSession: what is recorded now is exported, and recording goes on.
StartExport ==
    /\ UserFree /\ ~Exporting
    /\ revision > 0 \/ imported
    /\ UNCHANGED <<recording, acquisition, loading, dialogs, closing, exited>>
    /\ export' = Snapshot("nothing")

\* The progress dialog is canceled.
CancelLoad ==
    /\ OnTop("progress")
    /\ CancelFlightLogLoad(dialogs)
    /\ UNCHANGED <<recording, acquisition, loads, closing, exited, export>>

-----------------------------------------------------------------------------
(***************************************************************************)
(* Events that the event loop of any dialog serves, and background tasks.  *)
(***************************************************************************)

\* The live input decodes a sample ...
SampleArrives ==
    /\ ~exited /\ input = "live"
    /\ revision + queued < MaxRevision
    /\ queued' = queued + 1
    /\ UNCHANGED <<recording, input, loading, dialogs, closing, exited, export>>

\* ... and a posted drain records what is queued.
Drain ==
    /\ ~exited /\ queued > 0
    /\ Changed(queued)
    /\ queued' = 0
    /\ UNCHANGED <<saved, markers, input, loading, dialogs, closing, exited, export>>

\* The demo's timer: the next sample ...
DemoTick ==
    /\ ~exited /\ input = "demo"
    /\ revision < MaxRevision
    /\ Changed(1)
    /\ UNCHANGED <<saved, markers, acquisition, loading, dialogs, closing, exited, export>>

\* ... or the end of the profile, or the user's stop.
DemoEnds ==
    /\ ~exited /\ input = "demo"
    /\ input' = "none"
    /\ UNCHANGED <<recording, queued, loading, dialogs, closing, exited, export>>

\* The background task writes the telemetry, then the metadata; either may fail.
WriteTelemetry ==
    /\ Exporting /\ export.stage = "csv"
    /\ \E stage \in {"metadata", "failed"} : export' = [export EXCEPT !.stage = stage]
    /\ UNCHANGED <<recording, acquisition, loading, dialogs, closing, exited>>

WriteMetadata ==
    /\ Exporting /\ export.stage = "metadata"
    /\ \/ /\ export' = [export EXCEPT !.stage = "done"]
          /\ written' = IF export.session = session /\ export.revision > written
                        THEN export.revision ELSE written
       \/ export' = [export EXCEPT !.stage = "failed"] /\ UNCHANGED written
    /\ UNCHANGED <<session, revision, saved, imported, markers, acquisition, loading,
                   dialogs, closing, exited>>

Finished(stage) == ~exited /\ Exporting /\ export.stage = stage /\ export' = NoExport

ExportFails ==
    /\ Finished("failed")
    /\ UNCHANGED <<recording, acquisition, loading, dialogs, closing, exited>>

\* The export succeeded, and nothing was to follow or something changed meanwhile.
ExportSucceeds ==
    /\ Finished("done")
    /\ saved' = SavedAfter(export)
    /\ export.after = "nothing" \/ revision # SavedAfter(export)
    /\ UNCHANGED <<session, revision, imported, markers, written, acquisition, loading,
                   dialogs, closing, exited>>

Bug_FollowsUnsavedChanges ==
    /\ Finished("done")
    /\ \/ Perform(export.after, dialogs, None)
       \/ /\ export.after = "close"
          /\ PostClose(AcquisitionActive, dialogs, None)
          /\ UNCHANGED <<acquisition, exited>>
    /\ SavedIs(SavedAfter(export))

\* The export succeeded and nothing is unsaved: the change it was made for follows.
ExportThenChange ==
    /\ Finished("done")
    /\ revision = SavedAfter(export)
    /\ \/ Perform(export.after, dialogs, None)
       \/ /\ export.after = "close"
          /\ PostClose(AcquisitionActive, dialogs, None)
          /\ UNCHANGED <<acquisition, exited>>
    /\ SavedIs(SavedAfter(export))

\* An import ends.
LoadEnds(load) ==
    /\ ~exited /\ load \in loads
    /\ loads' = loads \ {load}
    /\ UNCHANGED <<acquisition, loadGeneration, closing, exited, export>>

Current(load) == load.generation = loadGeneration

\* A canceled import is dropped: its dialog is long closed.
StaleLoadEnds ==
    /\ \E load \in loads : ~Current(load) /\ LoadEnds(load)
    /\ UNCHANGED <<recording, dialogs>>

\* A failed one shows its message.
LoadFails ==
    /\ \E load \in loads : Current(load) /\ LoadEnds(load)
    /\ dialogs' = Append(WithoutProgress(dialogs), [kind |-> "notice", action |-> "load"])
    /\ UNCHANGED recording

\* What was loaded becomes the recording; an input that runs goes on.
LoadReplaces(load) ==
    /\ Current(load)
    /\ LoadEnds(load)
    /\ NewRecording(0, TRUE)
    /\ dialogs' = WithoutProgress(dialogs)
    /\ SavedIs(saved)

LoadSucceeds == \E load \in loads : LoadReplaces(load)

\* The posted close() may drop what the user gave up, but no other recording.
Approved(timer) ==
    \/ timer.discarded /\ timer.session = session
    \/ ~SessionGuardNeeded

\* The posted close() runs: closeEvent as if the user had asked, unless approved.
CloseTimer ==
    /\ ~exited
    /\ \E timer \in closing :
          /\ closing' = closing \ {timer}
          /\ \/ Approved(timer) /\ Exit
             \/ ~Approved(timer) /\ RequestSessionChange("close")
             \/ ~Approved(timer) /\ Exporting /\ UNCHANGED
                    <<recording, acquisition, loading, dialogs, exited, export>>

UserAction ==
    \/ ChangeAtOnce \/ RequestChange \/ Quit \/ Disconnect
    \/ SetReference \/ EditorOpens \/ EditorAccepts \/ Dismiss
    \/ AnswerDiscard \/ AnswerSave \/ AnswerSaveEmpty
    \/ StartExport \/ CancelLoad

Event ==
    \/ SampleArrives \/ Drain \/ DemoTick \/ DemoEnds
    \/ WriteTelemetry \/ WriteMetadata
    \/ ExportFails \/ ExportSucceeds \/ ExportThenChange
    \/ StaleLoadEnds \/ LoadFails \/ LoadSucceeds
    \/ CloseTimer

Next == UserAction \/ Event

Spec == Init /\ [][Next]_vars

-----------------------------------------------------------------------------
(***************************************************************************)
(* Properties.                                                             *)
(***************************************************************************)

Dialog ==
    [kind : {"guard"}, action : Change]
        \cup [kind : {"progress", "notice"}, action : {"load"}]
        \cup [kind : {"editor"}, action : 1..MaxSession]

Export ==
    [stage : {"csv", "metadata", "done", "failed"}, session : 1..MaxSession,
     revision : Nat, after : Change \cup {"nothing"}]

\* Every variable keeps to its values, the saved revision is one that exists, and
\* the imports that run were started.
TypeOK ==
    /\ session \in 1..MaxSession
    /\ revision \in Nat /\ saved \in 0..revision /\ written \in 0..revision
    /\ imported \in BOOLEAN
    /\ markers \subseteq 1..MaxSession
    /\ input \in {"none", "live", "demo"} /\ queued \in Nat
    /\ dialogs \in Seq(Dialog)
    /\ closing \subseteq [discarded : BOOLEAN, session : 1..MaxSession, agreed : 0..MaxSession]
    /\ exited \in BOOLEAN
    /\ export \in Export \cup {NoExport}
    /\ loadGeneration \in Nat
    /\ loads \subseteq [generation : 1..loadGeneration, agreed : 0..MaxSession]

\* What the user agreed to lose with the import or the close() that this step ends.
Agreed == {task.agreed : task \in (loads \ loads') \cup (closing \ closing')}

\* A recording with changes that are not on disk, or with samples not yet recorded,
\* is replaced or left behind only in answer to "Discard", or by the import or the
\* close() that this answer set off (the guards of requestSessionChange, closeEvent
\* and the completion of exportSession).
NothingDroppedUnasked ==
    [][session' # session \/ exited' # exited
         => \/ revision = written /\ queued = 0
            \/ AnswerDiscard
            \/ session \in Agreed]_vars

\* Nothing counts as saved that is not on disk, telemetry and metadata both, whatever
\* export finishes after whatever replacement (RecordingRevision::saved).
SavedMeansWritten == saved <= written

\* The event markers shown, and exported as metadata, were made for the recording
\* there is (setReplaySession clears them, editFlightEvents writes them back).
MarkersStayWithRecording == markers \subseteq {session}

=============================================================================
