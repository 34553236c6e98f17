------------------------ MODULE RecordingGuard_proofs ------------------------
(***************************************************************************)
(* Proofs about the recording guard, for any number of recordings,         *)
(* changes, dialogs and imports.                                           *)
(*                                                                         *)
(* RInv: a revision counts as saved only if it is on disk.  It relates the *)
(* three revisions of the recording to the export that may be running: an  *)
(* export never ran for a recording that is still to come, it never knows  *)
(* a newer revision of this one than there is, and if it is done its       *)
(* revision of this recording is on disk.                                  *)
(*                                                                         *)
(* GInv adds which dialogs can be on the stack together, and that an       *)
(* import that was not canceled runs behind its progress dialog.  AInv     *)
(* says what the user was asked, MInv which recording an editor is of;     *)
(* both are invariant on top of GInv.                                      *)
(***************************************************************************)
EXTENDS RecordingGuard, SequenceTheorems, TLAPS

Counters == {session, revision, saved, written, queued} \subseteq Nat

RevisionsOrdered == saved <= written /\ written <= revision

ExportKnowsRecording ==
    Exporting =>
        /\ export = [stage |-> export.stage, session |-> export.session,
                     revision |-> export.revision, after |-> export.after]
        /\ export.session \in Nat /\ export.revision \in Nat
        /\ export.session <= session
        /\ export.session = session => export.revision <= revision
        /\ export.session = session /\ export.stage = "done" => export.revision <= written

RInv == Counters /\ RevisionsOrdered /\ ExportKnowsRecording

-----------------------------------------------------------------------------

\* The recording grows, or a new one begins: what a step that writes nothing to
\* disk does to it.
Grows ==
    /\ session' = session /\ written' = written
    /\ revision' \in Nat /\ revision <= revision'
    /\ queued' \in Nat

Begins == session' = session + 1 /\ revision' \in Nat /\ written' = 0 /\ queued' \in Nat

\* The invariant holds at the start: nothing is recorded and no export runs
\* (MainWindow's members as constructed).
LEMMA InvHolds_Init == Init => RInv
BY DEF Init, RInv, Counters, RevisionsOrdered, ExportKnowsRecording, Exporting, NoExport

\* What RecordingRevision::saved remembers is on disk, if the export was done.
LEMMA SavedIsWritten ==
    ASSUME RInv, Exporting, export.stage = "done"
    PROVE  SavedAfter(export) \in Nat /\ SavedAfter(export) <= written
BY DEF RInv, Counters, RevisionsOrdered, ExportKnowsRecording, SavedAfter

\* A change that may proceed lets the recording grow or begins another
\* (startSerial, startRecordedImuInput, onStartLiveDemo, onClearFlightData and
\* loadFlightLogAsync).
LEMMA PerformMoves ==
    ASSUME RInv, NEW action, NEW open, NEW agreed, Perform(action, open, agreed)
    PROVE  Grows \/ Begins
<1> USE DEF RInv, Counters, Grows, Begins, Changed, NewRecording, StopInputs
<1>1. CASE Acquire(open) BY <1>1 DEF Acquire
<1>2. CASE AcquireFails(open) BY <1>2 DEF AcquireFails
<1>3. CASE Demo(open) BY <1>3 DEF Demo
<1>4. CASE Clear(open) BY <1>4 DEF Clear
<1>5. CASE Load(open, agreed) BY <1>5 DEF Load
<1>6. QED BY <1>1, <1>2, <1>3, <1>4, <1>5 DEF Perform

\* The invariant survives any such move, as long as the running export is left
\* alone or forgotten and saved keeps to what is on disk.
LEMMA MovePreserves ==
    ASSUME RInv, Grows \/ Begins, NEW known \in Nat, known <= written, SavedIs(known),
           export' = export \/ export' = NoExport
    PROVE  RInv'
<1>1. Counters' /\ RevisionsOrdered'
    BY DEF RInv, Counters, RevisionsOrdered, Grows, Begins, SavedIs
<1>2. ExportKnowsRecording'
    <2>1. CASE export' = NoExport BY <2>1 DEF ExportKnowsRecording, Exporting
    <2>2. CASE export' = export
        BY <2>2 DEF RInv, Counters, ExportKnowsRecording, Exporting, Grows, Begins
    <2>3. QED BY <2>1, <2>2
<1>3. QED BY <1>1, <1>2 DEF RInv

\* An export that starts knows the recording as it is then (exportSession).
LEMMA SnapshotPreserves ==
    ASSUME RInv, Grows, saved' = saved, NEW after, export' = Snapshot(after)
    PROVE  RInv'
<1>1. Counters' /\ RevisionsOrdered'
    BY DEF RInv, Counters, RevisionsOrdered, Grows
<1>2. ExportKnowsRecording'
    BY DEF RInv, Counters, ExportKnowsRecording, Exporting, Snapshot, Grows
<1>3. QED BY <1>1, <1>2 DEF RInv

-----------------------------------------------------------------------------

\* Every action of the user preserves the invariant.
LEMMA UserPreserves == ASSUME RInv, UserAction PROVE RInv'
<1> USE DEF RInv
<1>0. /\ saved \in Nat /\ saved <= written /\ queued \in Nat /\ revision \in Nat
      /\ session \in Nat /\ written \in Nat
    BY DEF Counters, RevisionsOrdered
<1>1. ASSUME Grows \/ Begins, SavedIs(saved), export' = export PROVE RInv'
    BY <1>0, <1>1, MovePreserves
<1>2. CASE ChangeAtOnce
    BY <1>1, <1>2, PerformMoves DEF ChangeAtOnce
<1>3. CASE RequestChange
    BY <1>0, <1>1, <1>3
    DEF RequestChange, RequestSessionChange, recording, acquisition, Grows, SavedIs
<1>4. CASE Quit
    BY <1>0, <1>1, <1>4
    DEF Quit, RequestSessionChange, Exit, Changed, StopInputs, recording, acquisition,
        Grows, SavedIs
<1>5. CASE Disconnect
    BY <1>0, <1>1, <1>5 DEF Disconnect, Changed, StopInputs, Grows, SavedIs
<1>6. CASE SetReference
    BY <1>0, <1>1, <1>6 DEF SetReference, Changed, acquisition, Grows, SavedIs
<1>7. CASE EditorOpens \/ Dismiss \/ CancelLoad
    BY <1>0, <1>1, <1>7
    DEF EditorOpens, Dismiss, CancelLoad, recording, acquisition, Grows, SavedIs
<1>8. CASE EditorAccepts
    BY <1>0, <1>1, <1>8 DEF EditorAccepts, Changed, acquisition, Grows, SavedIs
<1>9. CASE AnswerDiscard
    <2>1. CASE Perform(Top.action, WithoutTop, session)
        BY <1>1, <1>9, <2>1, PerformMoves DEF AnswerDiscard
    <2>2. CASE PostClose(SessionGuardNeeded, WithoutTop, session) /\ UNCHANGED acquisition
        BY <1>0, <1>1, <1>9, <2>2 DEF AnswerDiscard, PostClose, acquisition, Grows
    <2>3. QED BY <1>9, <2>1, <2>2 DEF AnswerDiscard
<1>10. CASE AnswerSave
    <2>1. Grows /\ saved' = saved
        BY <1>0, <1>10 DEF AnswerSave, Changed, StopInputs, Grows
    <2>2. CASE export' = export BY <1>1, <2>1, <2>2 DEF SavedIs, Grows
    <2>3. CASE export' = Snapshot(Top.action) BY <2>1, <2>3, SnapshotPreserves
    <2>4. QED BY <1>10, <2>2, <2>3 DEF AnswerSave
<1>11. CASE AnswerSaveEmpty
    <2>1. CASE Perform(Top.action, WithoutTop, None)
        BY <1>1, <1>11, <2>1, PerformMoves DEF AnswerSaveEmpty
    <2>2. CASE StopInputs /\ PostClose(FALSE, WithoutTop, None)
        BY <1>0, <1>1, <1>11, <2>2 DEF AnswerSaveEmpty, PostClose, StopInputs, Grows
    <2>3. QED BY <1>11, <2>1, <2>2 DEF AnswerSaveEmpty
<1>12. CASE StartExport
    <2>1. Grows /\ saved' = saved
        BY <1>0, <1>12 DEF StartExport, recording, acquisition, Grows
    <2>2. QED BY <1>12, <2>1, SnapshotPreserves DEF StartExport
<1>13. QED
    BY <1>2, <1>3, <1>4, <1>5, <1>6, <1>7, <1>8, <1>9, <1>10, <1>11, <1>12 DEF UserAction

\* So does every event: samples and timers, the export, the imports, the posted
\* close().
LEMMA EventPreserves == ASSUME RInv, Event PROVE RInv'
<1> USE DEF RInv
<1>0. /\ saved \in Nat /\ saved <= written /\ queued \in Nat /\ revision \in Nat
      /\ session \in Nat /\ written \in Nat
    BY DEF Counters, RevisionsOrdered
<1>1. ASSUME Grows \/ Begins, SavedIs(saved), export' = export \/ export' = NoExport
      PROVE  RInv'
    BY <1>0, <1>1, MovePreserves
<1>2. CASE SampleArrives
    BY <1>0, <1>1, <1>2 DEF SampleArrives, recording, Grows, SavedIs
<1>3. CASE Drain
    BY <1>0, <1>1, <1>3 DEF Drain, Changed, Grows, SavedIs
<1>4. CASE DemoTick
    BY <1>0, <1>1, <1>4 DEF DemoTick, Changed, acquisition, Grows, SavedIs
<1>5. CASE DemoEnds
    BY <1>0, <1>1, <1>5 DEF DemoEnds, recording, Grows, SavedIs
<1>6. CASE WriteTelemetry
    <2>1. Counters' /\ RevisionsOrdered'
        BY <1>6 DEF WriteTelemetry, Counters, RevisionsOrdered, recording, acquisition
    <2>2. ExportKnowsRecording'
        BY <1>0, <1>6
        DEF WriteTelemetry, ExportKnowsRecording, Exporting, recording
    <2>3. QED BY <2>1, <2>2
<1>7. CASE WriteMetadata
    <2>1. Counters' /\ RevisionsOrdered'
        BY <1>0, <1>7 DEF WriteMetadata, Counters, RevisionsOrdered, acquisition,
                         ExportKnowsRecording
    <2>2. ExportKnowsRecording'
        BY <1>0, <1>7 DEF WriteMetadata, ExportKnowsRecording, Exporting
    <2>3. QED BY <2>1, <2>2
<1>8. CASE ExportFails
    BY <1>0, <1>1, <1>8 DEF ExportFails, Finished, recording, acquisition, Grows, SavedIs
<1>9. CASE ExportSucceeds
    <2>1. Grows /\ SavedIs(SavedAfter(export)) /\ export' = NoExport
        BY <1>0, <1>9 DEF ExportSucceeds, Finished, acquisition, Grows, SavedIs
    <2>2. SavedAfter(export) \in Nat /\ SavedAfter(export) <= written
        BY <1>9, SavedIsWritten DEF ExportSucceeds, Finished
    <2>3. QED BY <2>1, <2>2, MovePreserves
<1>10. CASE ExportThenChange
    <2>1. Grows \/ Begins
        <3>1. CASE Perform(export.after, dialogs, None) BY <3>1, PerformMoves
        <3>2. CASE PostClose(AcquisitionActive, dialogs, None) /\ UNCHANGED acquisition
            BY <1>0, <3>2 DEF PostClose, acquisition, Grows
        <3>3. QED BY <1>10, <3>1, <3>2 DEF ExportThenChange
    <2>2. SavedAfter(export) \in Nat /\ SavedAfter(export) <= written
        BY <1>10, SavedIsWritten DEF ExportThenChange, Finished
    <2>3. QED BY <1>10, <2>1, <2>2, MovePreserves DEF ExportThenChange, Finished
<1>11. CASE StaleLoadEnds
    BY <1>0, <1>1, <1>11
    DEF StaleLoadEnds, LoadEnds, recording, acquisition, Grows, SavedIs
<1>12. CASE LoadFails
    BY <1>0, <1>1, <1>12 DEF LoadFails, LoadEnds, recording, acquisition, Grows, SavedIs
<1>13. CASE LoadSucceeds
    BY <1>0, <1>1, <1>13
    DEF LoadSucceeds, LoadReplaces, LoadEnds, NewRecording, acquisition, Begins
<1>14. CASE CloseTimer
    BY <1>0, <1>1, <1>14
    DEF CloseTimer, Exit, Changed, StopInputs, RequestSessionChange, recording,
        acquisition, Grows, SavedIs
<1>15. QED
    BY <1>2, <1>3, <1>4, <1>5, <1>6, <1>7, <1>8, <1>9, <1>10, <1>11, <1>12, <1>13, <1>14
    DEF Event

\* The invariant holds throughout.
THEOREM RevisionsAreKnown == Spec => []RInv
<1>1. RInv /\ [Next]_vars => RInv'
    <2>1. CASE UserAction BY <2>1, UserPreserves
    <2>2. CASE Event BY <2>2, EventPreserves
    <2>3. CASE UNCHANGED vars
        BY <2>3 DEF vars, recording, acquisition, RInv, Counters, RevisionsOrdered,
                    ExportKnowsRecording, Exporting
    <2>4. QED BY <2>1, <2>2, <2>3 DEF Next
<1>2. QED BY <1>1, InvHolds_Init, PTL DEF Spec

\* Nothing counts as saved that is not on disk, whatever is edited, recorded,
\* imported or asked while the export runs (RecordingRevision::saved and the
\* completion of exportSession).
THEOREM SavedIsOnDisk == Spec => []SavedMeansWritten
<1>1. RInv => SavedMeansWritten BY DEF RInv, RevisionsOrdered, SavedMeansWritten
<1>2. QED BY <1>1, RevisionsAreKnown, PTL

-----------------------------------------------------------------------------
(***************************************************************************)
(* The stack of dialogs.  An editor, or a question about anything but      *)
(* closing, opens only while no dialog is open, so it stays at the bottom; *)
(* there is one progress dialog at most.                                   *)
(***************************************************************************)

Has(open, kind) == \E i \in 1..Len(open) : open[i].kind = kind

\* A dialog that opens only over the bare window.
Bottom(d) == d.kind = "editor" \/ (d.kind = "guard" /\ d.action # "close")

\* No two dialogs of a kind.
Single(open, kind) ==
    \A i, j \in 1..Len(open) : open[i].kind = kind /\ open[j].kind = kind => i = j

\* Every editor was made for recording number s.
EditorsOf(open, s) ==
    \A i \in 1..Len(open) : open[i].kind = "editor" => open[i].action = s

Stack(open) ==
    /\ open \in Seq(Dialog)
    /\ \A i \in 1..Len(open) : Bottom(open[i]) => i = 1
    /\ Single(open, "progress")

\* What a sequence without its k-th element is.
LEMMA RemoveAtIs ==
    ASSUME NEW S, NEW s \in Seq(S), NEW k \in 1..Len(s)
    PROVE  /\ RemoveAt(s, k) \in Seq(S)
           /\ Len(RemoveAt(s, k)) = Len(s) - 1
           /\ \A i \in 1..Len(s) - 1 :
                  RemoveAt(s, k)[i] = IF i < k THEN s[i] ELSE s[i + 1]
<1> DEFINE before == SubSeq(s, 1, k - 1)
           after == SubSeq(s, k + 1, Len(s))
<1>1. Len(s) \in Nat /\ \A i \in 1..Len(s) : s[i] \in S
    BY LenProperties, ElementOfSeq
<1>2. /\ before \in Seq(S) /\ Len(before) = k - 1
      /\ \A i \in 1..k - 1 : before[i] = s[i]
    <2>1. /\ before \in Seq(S)
          /\ Len(before) = IF 1 <= k - 1 THEN k - 1 - 1 + 1 ELSE 0
          /\ \A i \in 1..k - 1 - 1 + 1 : before[i] = s[1 + i - 1]
        BY <1>1, SubSeqProperties
    <2>2. QED BY <1>1, <2>1
<1>3. /\ after \in Seq(S) /\ Len(after) = Len(s) - k
      /\ \A i \in 1..Len(s) - k : after[i] = s[k + i]
    <2>1. /\ after \in Seq(S)
          /\ Len(after) = IF k + 1 <= Len(s) THEN Len(s) - (k + 1) + 1 ELSE 0
          /\ \A i \in 1..Len(s) - (k + 1) + 1 : after[i] = s[k + 1 + i - 1]
        BY <1>1, SubSeqProperties
    <2>2. QED BY <1>1, <2>1
<1>4. RemoveAt(s, k) = before \o after BY DEF RemoveAt
<1> HIDE DEF before, after
<1>5. /\ before \o after \in Seq(S)
      /\ Len(before \o after) = Len(before) + Len(after)
      /\ \A i \in 1..Len(before) + Len(after) :
             (before \o after)[i] = IF i <= Len(before) THEN before[i]
                                   ELSE after[i - Len(before)]
    BY <1>2, <1>3, ConcatProperties
<1>6. ASSUME NEW i \in 1..Len(s) - 1
      PROVE  RemoveAt(s, k)[i] = IF i < k THEN s[i] ELSE s[i + 1]
    <2>1. CASE i < k
        BY <1>1, <1>2, <1>3, <1>4, <1>5, <2>1
    <2>2. CASE ~(i < k)
        <3>1. i - (k - 1) \in 1..Len(s) - k BY <1>1, <2>2
        <3>2. (before \o after)[i] = after[i - (k - 1)]
            BY <1>1, <1>2, <1>3, <1>5, <2>2
        <3>3. after[i - (k - 1)] = s[k + (i - (k - 1))] BY <1>3, <3>1
        <3>4. k + (i - (k - 1)) = i + 1 OBVIOUS
        <3>5. QED BY <1>4, <2>2, <3>2, <3>3, <3>4
    <2>3. QED BY <2>1, <2>2
<1>7. RemoveAt(s, k) \in Seq(S) /\ Len(RemoveAt(s, k)) = Len(s) - 1
    BY <1>1, <1>2, <1>3, <1>4, <1>5
<1>8. QED BY <1>6, <1>7

\* A dialog that closes leaves the others as they were.
LEMMA RemovalKeeps ==
    ASSUME NEW open, Stack(open), NEW k \in 1..Len(open)
    PROVE  /\ Stack(RemoveAt(open, k))
           /\ \A kind : Single(open, kind) => Single(RemoveAt(open, k), kind)
           /\ \A kind : Has(RemoveAt(open, k), kind) => Has(open, kind)
           /\ \A kind : Has(open, kind) /\ open[k].kind # kind => Has(RemoveAt(open, k), kind)
           /\ \A kind : Single(open, kind) /\ open[k].kind = kind
                            => ~Has(RemoveAt(open, k), kind)
           /\ \A s : EditorsOf(open, s) => EditorsOf(RemoveAt(open, k), s)
<1> DEFINE rest == RemoveAt(open, k)
<1>1. open \in Seq(Dialog) /\ Len(open) \in Nat BY LenProperties DEF Stack
<1>2. /\ rest \in Seq(Dialog) /\ Len(rest) = Len(open) - 1
      /\ \A i \in 1..Len(open) - 1 : rest[i] = IF i < k THEN open[i] ELSE open[i + 1]
    BY <1>1, RemoveAtIs
<1>3. \A i \in 1..Len(open) : i # k =>
          LET j == IF i < k THEN i ELSE i - 1
          IN  j \in 1..Len(rest) /\ rest[j] = open[i]
    BY <1>1, <1>2
<1> HIDE DEF rest
<1>4. \A kind : Single(open, kind) => Single(rest, kind)
    <2> SUFFICES ASSUME NEW kind, Single(open, kind),
                        NEW i \in 1..Len(rest), NEW j \in 1..Len(rest),
                        rest[i].kind = kind, rest[j].kind = kind
                 PROVE  i = j
        BY DEF Single
    <2> DEFINE was(n) == IF n < k THEN n ELSE n + 1
    <2>1. /\ was(i) \in 1..Len(open) /\ rest[i] = open[was(i)]
          /\ was(j) \in 1..Len(open) /\ rest[j] = open[was(j)]
        BY <1>1, <1>2
    <2>2. was(i) = was(j) BY <2>1 DEF Single
    <2>3. QED BY <1>1, <1>2, <2>2
<1>5. Stack(rest)
    <2>1. \A i \in 1..Len(rest) : Bottom(rest[i]) => i = 1
        <3> SUFFICES ASSUME NEW i \in 1..Len(rest), Bottom(rest[i]) PROVE i = 1
            OBVIOUS
        <3>1. PICK j \in 1..Len(open) : i <= j /\ rest[i] = open[j]
            BY <1>1, <1>2
        <3>2. j = 1 BY <3>1 DEF Stack
        <3>3. QED BY <3>1, <3>2
    <2>2. QED BY <1>2, <1>4, <2>1 DEF Stack
<1>6. \A kind : Has(rest, kind) => Has(open, kind)
    BY <1>1, <1>2 DEF Has
<1>7. \A kind : Has(open, kind) /\ open[k].kind # kind => Has(rest, kind)
    BY <1>1, <1>3 DEF Has
<1>8. \A kind : Single(open, kind) /\ open[k].kind = kind => ~Has(rest, kind)
    BY <1>1, <1>2 DEF Single, Has
<1>9. \A s : EditorsOf(open, s) => EditorsOf(rest, s)
    BY <1>1, <1>2 DEF EditorsOf
<1>10. QED BY <1>4, <1>5, <1>6, <1>7, <1>8, <1>9 DEF rest

\* A dialog that opens joins the others.
LEMMA OpeningKeeps ==
    ASSUME NEW open, Stack(open), NEW d \in Dialog,
           Bottom(d) => open = <<>>,
           d.kind = "progress" => ~Has(open, "progress")
    PROVE  /\ Stack(Append(open, d))
           /\ \A kind : Has(Append(open, d), kind) <=> Has(open, kind) \/ d.kind = kind
           /\ \A kind : Single(open, kind) /\ ~(Has(open, kind) /\ d.kind = kind)
                            => Single(Append(open, d), kind)
           /\ \A s : EditorsOf(open, s) /\ (d.kind = "editor" => d.action = s)
                         => EditorsOf(Append(open, d), s)
<1> DEFINE all == Append(open, d)
<1>1. open \in Seq(Dialog) /\ Len(open) \in Nat BY LenProperties DEF Stack
<1>2. /\ all \in Seq(Dialog) /\ Len(all) = Len(open) + 1
      /\ \A i \in 1..Len(open) : all[i] = open[i]
      /\ all[Len(open) + 1] = d
    BY <1>1, AppendProperties
<1> HIDE DEF all
<1>3. \A kind : Has(all, kind) <=> Has(open, kind) \/ d.kind = kind
    BY <1>1, <1>2 DEF Has
<1>4. \A kind : Single(open, kind) /\ ~(Has(open, kind) /\ d.kind = kind) => Single(all, kind)
    BY <1>1, <1>2 DEF Single, Has
<1>5. \A s : EditorsOf(open, s) /\ (d.kind = "editor" => d.action = s) => EditorsOf(all, s)
    BY <1>1, <1>2 DEF EditorsOf
<1>6. Stack(all)
    <2>1. \A i \in 1..Len(all) : Bottom(all[i]) => i = 1
        <3>1. CASE open = <<>> BY <1>1, <1>2, <3>1, EmptySeq
        <3>2. CASE ~Bottom(d)
            <4> SUFFICES ASSUME NEW i \in 1..Len(all), Bottom(all[i]) PROVE i = 1
                OBVIOUS
            <4>1. i \in 1..Len(open) /\ all[i] = open[i] BY <1>1, <1>2, <3>2
            <4>2. QED BY <4>1 DEF Stack
        <3>3. QED BY <3>1, <3>2
    <2>2. Single(all, "progress") BY <1>4 DEF Stack
    <2>3. QED BY <1>2, <2>1, <2>2 DEF Stack
<1>7. QED BY <1>3, <1>4, <1>5, <1>6 DEF all

\* WithoutProgress closes the progress dialog and no other (cancelFlightLogLoad).
LEMMA WithoutProgressKeeps ==
    ASSUME NEW open, Stack(open)
    PROVE  /\ Stack(WithoutProgress(open))
           /\ ~Has(WithoutProgress(open), "progress")
           /\ \A kind : Single(open, kind) => Single(WithoutProgress(open), kind)
           /\ \A kind : Has(WithoutProgress(open), kind) => Has(open, kind)
           /\ \A s : EditorsOf(open, s) => EditorsOf(WithoutProgress(open), s)
<1> DEFINE at == {i \in DOMAIN open : open[i].kind = "progress"}
<1>1. DOMAIN open = 1..Len(open) BY LenProperties DEF Stack
<1>2. CASE at = {}
    <2>1. WithoutProgress(open) = open BY <1>2 DEF WithoutProgress
    <2>2. ~Has(open, "progress") BY <1>1, <1>2 DEF Has
    <2>3. QED BY <2>1, <2>2
<1>3. CASE at # {}
    <2> DEFINE k == CHOOSE i \in at : TRUE
    <2>1. k \in 1..Len(open) /\ open[k].kind = "progress" BY <1>1, <1>3
    <2>2. WithoutProgress(open) = RemoveAt(open, k) BY <1>3 DEF WithoutProgress
    <2> HIDE DEF k
    <2>3. Single(open, "progress") BY DEF Stack
    <2>4. QED BY <2>1, <2>2, <2>3, RemovalKeeps
<1>4. QED BY <1>2, <1>3

\* The dialog that is answered closes; one that opens only over the bare window
\* leaves the bare window.
LEMMA TopGoes ==
    ASSUME Stack(dialogs), dialogs # <<>>
    PROVE  /\ Len(dialogs) \in 1..Len(dialogs) /\ Top \in Dialog
           /\ WithoutTop = RemoveAt(dialogs, Len(dialogs))
           /\ Bottom(Top) => WithoutTop = <<>> /\ Len(dialogs) = 1
<1>1. dialogs \in Seq(Dialog) /\ Len(dialogs) \in Nat /\ Len(dialogs) # 0
    BY EmptySeq, LenProperties DEF Stack
<1>2. Top \in Dialog BY <1>1, ElementOfSeq DEF Top
<1>3. /\ WithoutTop \in Seq(Dialog)
      /\ SubSeq(dialogs, Len(dialogs) + 1, Len(dialogs)) = <<>>
    <2>1. \A i \in 1..Len(dialogs) - 1 : dialogs[i] \in Dialog
        BY <1>1, ElementOfSeq
    <2>2. QED BY <1>1, <2>1, SubSeqProperties, SubSeqEmpty DEF WithoutTop
<1>4. WithoutTop = RemoveAt(dialogs, Len(dialogs))
    BY <1>3, ConcatEmptySeq DEF RemoveAt, WithoutTop
<1>5. Bottom(Top) => WithoutTop = <<>> /\ Len(dialogs) = 1
    <2>1. Len(dialogs) \in 1..Len(dialogs) BY <1>1
    <2>2. Bottom(Top) => Len(dialogs) = 1 BY <2>1 DEF Stack, Top
    <2>3. SubSeq(dialogs, 1, 0) = <<>> BY SubSeqEmpty
    <2>4. Bottom(Top) => Len(dialogs) - 1 = 0 BY <2>2
    <2>5. QED BY <2>2, <2>3, <2>4, Zenon DEF WithoutTop
<1>6. QED BY <1>1, <1>2, <1>4, <1>5
-----------------------------------------------------------------------------
(***************************************************************************)
(* The values of the variables, and the imports: one that has not been     *)
(* canceled runs behind its progress dialog.                               *)
(***************************************************************************)

LoadsShown(open) == \A load \in loads : Current(load) => Has(open, "progress")

LoadsKnown ==
    /\ loadGeneration \in Nat
    /\ loads \subseteq [generation : 1..loadGeneration, agreed : 0..MaxSession]
    /\ \A load, other \in loads : load.generation = other.generation => load = other

Typed ==
    /\ session \in 1..MaxSession
    /\ imported \in BOOLEAN /\ exited \in BOOLEAN
    /\ markers \subseteq 1..MaxSession
    /\ input \in {"none", "live", "demo"}
    /\ closing \subseteq [discarded : BOOLEAN, session : 1..MaxSession, agreed : 0..MaxSession]
    /\ export \in Export \cup {NoExport}

DialogsInv == Stack(dialogs) /\ LoadsShown(dialogs)

GInv == RInv /\ Typed /\ LoadsKnown /\ DialogsInv

\* Dialogs and imports are kept by a step that leaves them alone, that closes a
\* dialog which is no progress dialog, or that opens one which is none.
LEMMA CalmKeepsDialogs ==
    ASSUME GInv, UNCHANGED <<dialogs, loads, loadGeneration>>
    PROVE  LoadsKnown' /\ DialogsInv'
BY DEF GInv, LoadsKnown, DialogsInv, LoadsShown, Current

\* Without the dialog that is answered, the stack is still right.
LEMMA AnswerKeepsDialogs ==
    ASSUME GInv, dialogs # <<>>, Top.kind # "progress"
    PROVE  Stack(WithoutTop) /\ LoadsShown(WithoutTop)
<1>1. Stack(dialogs) BY DEF GInv, DialogsInv
<1>2. /\ Len(dialogs) \in 1..Len(dialogs) /\ WithoutTop = RemoveAt(dialogs, Len(dialogs))
    BY <1>1, TopGoes
<1>3. dialogs[Len(dialogs)].kind # "progress" BY DEF Top
<1>4. Stack(WithoutTop) /\ (Has(dialogs, "progress") => Has(WithoutTop, "progress"))
    BY <1>1, <1>2, <1>3, RemovalKeeps
<1>5. QED BY <1>4 DEF GInv, DialogsInv, LoadsShown

\* So a step that closes it keeps dialogs and imports,
LEMMA CloseKeepsDialogs ==
    ASSUME GInv, dialogs # <<>>, Top.kind # "progress", dialogs' = WithoutTop,
           UNCHANGED loading
    PROVE  LoadsKnown' /\ DialogsInv'
<1>1. Stack(WithoutTop) /\ LoadsShown(WithoutTop) BY AnswerKeepsDialogs
<1>2. QED BY <1>1 DEF GInv, LoadsKnown, DialogsInv, LoadsShown, Current, loading

\* and so does one that opens a dialog.
LEMMA OpenKeepsDialogs ==
    ASSUME GInv, NEW d \in Dialog, d.kind # "progress", Bottom(d) => dialogs = <<>>,
           dialogs' = Append(dialogs, d), UNCHANGED loading
    PROVE  LoadsKnown' /\ DialogsInv'
<1>1. Stack(dialogs) BY DEF GInv, DialogsInv
<1>2. Stack(dialogs') /\ (Has(dialogs, "progress") => Has(dialogs', "progress"))
    BY <1>1, OpeningKeeps
<1>3. QED BY <1>2 DEF GInv, LoadsKnown, DialogsInv, LoadsShown, Current, loading

\* A canceled import is an old one: nothing is current any more.
LEMMA CancelKeepsDialogs ==
    ASSUME GInv, NEW open, Stack(open), CancelFlightLogLoad(open), UNCHANGED loads
    PROVE  LoadsKnown' /\ DialogsInv' /\ \A load \in loads' : ~Current(load)'
<1>1. Stack(dialogs') BY WithoutProgressKeeps DEF CancelFlightLogLoad
<1>2. loadGeneration \in Nat /\ loadGeneration' = loadGeneration + 1
    BY DEF GInv, LoadsKnown, CancelFlightLogLoad
<1>3. \A load \in loads : load.generation \in 1..loadGeneration
    BY DEF GInv, LoadsKnown
<1>4. \A load \in loads' : ~Current(load)'
    BY <1>2, <1>3 DEF Current
<1>5. loads' \subseteq [generation : 1..loadGeneration', agreed : 0..MaxSession]
    BY <1>2 DEF GInv, LoadsKnown
<1>6. LoadsKnown'
    BY <1>2, <1>5 DEF GInv, LoadsKnown
<1>7. QED BY <1>1, <1>4, <1>6 DEF DialogsInv, LoadsShown

\* A new import is the only current one, and its progress dialog is open.
LEMMA LoadKeepsDialogs ==
    ASSUME GInv, NEW open, Stack(open), NEW agreed \in 0..MaxSession, Load(open, agreed)
    PROVE  /\ LoadsKnown' /\ DialogsInv'
           /\ \A load \in loads' : Current(load)' => load.agreed = agreed
<1> DEFINE new == [generation |-> loadGeneration + 2, agreed |-> agreed]
<1>1. /\ loadGeneration \in Nat /\ loadGeneration' = loadGeneration + 2
      /\ loads' = loads \cup {new}
    BY DEF GInv, LoadsKnown, Load
<1>2. \A load \in loads : load.generation \in 1..loadGeneration
    BY DEF GInv, LoadsKnown
<1>3. LoadsKnown'
    <2>1. loads' \subseteq [generation : 1..loadGeneration', agreed : 0..MaxSession]
        BY <1>1 DEF GInv, LoadsKnown
    <2>2. \A load, other \in loads' : load.generation = other.generation => load = other
        BY <1>1, <1>2 DEF GInv, LoadsKnown
    <2>3. QED BY <1>1, <2>1, <2>2 DEF LoadsKnown
<1>4. Stack(dialogs') /\ Has(dialogs', "progress")
    <2> DEFINE rest == WithoutProgress(open)
               d == [kind |-> "progress", action |-> "load"]
    <2>1. Stack(rest) /\ ~Has(rest, "progress") BY WithoutProgressKeeps
    <2>2. d \in Dialog /\ ~Bottom(d) /\ d.kind = "progress" BY DEF Dialog, Bottom
    <2>3. dialogs' = Append(rest, d) BY DEF Load
    <2> HIDE DEF rest, d
    <2>4. QED BY <2>1, <2>2, <2>3, OpeningKeeps
<1>5. \A load \in loads' : Current(load)' => load.agreed = agreed
    BY <1>1, <1>2 DEF Current
<1>6. QED BY <1>3, <1>4, <1>5 DEF DialogsInv, LoadsShown

\* A change that may proceed keeps the types, the dialogs and the imports.
LEMMA PerformKeeps ==
    ASSUME GInv, NEW open, Stack(open), LoadsShown(open), NEW action,
           NEW agreed \in 0..MaxSession, Perform(action, open, agreed),
           export' = export \/ export' = NoExport
    PROVE  LoadsKnown' /\ DialogsInv' /\ Typed'
<1>0. Typed'
    <2> DEFINE stays == UNCHANGED <<session, imported, markers>>
               begins == /\ session < MaxSession /\ session' = session + 1
                         /\ imported' = FALSE /\ markers' = {}
    <2>1. (stays \/ begins) /\ input' \in {"none", "live", "demo"}
        <3>1. CASE Acquire(open) BY <3>1 DEF Acquire, NewRecording
        <3>2. CASE AcquireFails(open) BY <3>2 DEF AcquireFails, Changed
        <3>3. CASE Demo(open) BY <3>3 DEF Demo, NewRecording
        <3>4. CASE Clear(open) BY <3>4 DEF Clear, NewRecording, StopInputs
        <3>5. CASE Load(open, agreed) BY <3>5 DEF Load, Changed, StopInputs
        <3>6. QED BY <3>1, <3>2, <3>3, <3>4, <3>5 DEF Perform
    <2>2. session' \in 1..MaxSession
        BY <2>1, BoundAssumption DEF GInv, Typed
    <2>3. UNCHANGED <<closing, exited>> BY DEF Perform
    <2>4. QED BY <2>1, <2>2, <2>3 DEF GInv, Typed
<1>1. CASE Acquire(open) BY <1>0, <1>1, CancelKeepsDialogs DEF Acquire
<1>2. CASE AcquireFails(open)
    BY <1>0, <1>2 DEF AcquireFails, GInv, LoadsKnown, DialogsInv, LoadsShown, Current, loading
<1>3. CASE Demo(open) BY <1>0, <1>3, CancelKeepsDialogs DEF Demo
<1>4. CASE Clear(open) BY <1>0, <1>4, CancelKeepsDialogs DEF Clear
<1>5. CASE Load(open, agreed) BY <1>0, <1>5, LoadKeepsDialogs
<1>6. QED BY <1>1, <1>2, <1>3, <1>4, <1>5 DEF Perform

\* The question about a change is one more dialog.
LEMMA RequestKeeps ==
    ASSUME GInv, NEW action \in Change, RequestSessionChange(action),
           action # "close" => dialogs = <<>>, closing' \subseteq closing
    PROVE  LoadsKnown' /\ DialogsInv' /\ Typed'
<1> DEFINE d == [kind |-> "guard", action |-> action]
<1>1. d \in Dialog /\ d.kind # "progress" /\ (Bottom(d) => dialogs = <<>>)
    BY DEF Dialog, Bottom
<1>2. dialogs' = Append(dialogs, d) /\ UNCHANGED loading BY DEF RequestSessionChange
<1> HIDE DEF d
<1>3. LoadsKnown' /\ DialogsInv' BY <1>1, <1>2, OpenKeepsDialogs
<1>4. Typed'
    BY DEF RequestSessionChange, recording, acquisition, GInv, Typed
<1>5. QED BY <1>3, <1>4

\* What is asked about is one of the changes, and the dialog answered was no
\* progress dialog.
LEMMA TopAsked ==
    ASSUME GInv, dialogs # <<>>
    PROVE  /\ Top \in Dialog
           /\ Top.kind = "guard" => Top.action \in Change
           /\ Top.kind = "editor" => Top.action \in 1..MaxSession
           /\ Bottom(Top) => dialogs = <<Top>> /\ WithoutTop = <<>>
<1>1. Stack(dialogs) BY DEF GInv, DialogsInv
<1>2. Top \in Dialog /\ (Bottom(Top) => WithoutTop = <<>> /\ Len(dialogs) = 1)
    BY <1>1, TopGoes
<1>3. /\ Top.kind = "guard" => Top.action \in Change
      /\ Top.kind = "editor" => Top.action \in 1..MaxSession
    BY <1>2 DEF Dialog
<1>4. Len(dialogs) = 1 => dialogs = <<Top>>
    BY <1>1 DEF Stack, Top
<1>5. QED BY <1>2, <1>3, <1>4

\* A posted close() remembers a recording there is.
LEMMA PostCloseTyped ==
    ASSUME GInv, NEW discarded \in BOOLEAN, NEW open, NEW agreed \in 0..MaxSession,
           PostClose(discarded, open, agreed), export' = export \/ export' = NoExport,
           exited' = exited, input' = input \/ input' = "none"
    PROVE  Typed'
BY DEF PostClose, GInv, Typed

\* Every action of the user keeps types, dialogs and imports.
LEMMA UserKeepsDialogs ==
    ASSUME GInv, UserAction PROVE LoadsKnown' /\ DialogsInv' /\ Typed'
<1>0. /\ session \in 1..MaxSession /\ session \in 0..MaxSession /\ None \in 0..MaxSession
      /\ revision \in Nat /\ queued \in Nat
      /\ Stack(dialogs) /\ LoadsShown(dialogs)
    BY BoundAssumption DEF GInv, Typed, None, DialogsInv, RInv, Counters
<1>1. ASSUME UNCHANGED <<dialogs, loading>> PROVE LoadsKnown' /\ DialogsInv'
    BY <1>1, CalmKeepsDialogs DEF loading
<1>2. ASSUME dialogs # <<>>, Top.kind # "progress", NEW action,
             NEW agreed \in 0..MaxSession, Perform(action, WithoutTop, agreed),
             export' = export
      PROVE  LoadsKnown' /\ DialogsInv' /\ Typed'
    BY <1>2, AnswerKeepsDialogs, PerformKeeps
<1>3. ASSUME dialogs # <<>>, Top.kind # "progress", NEW discarded \in BOOLEAN,
             NEW agreed \in 0..MaxSession, PostClose(discarded, WithoutTop, agreed),
             export' = export, exited' = exited, input' = input \/ input' = "none"
      PROVE  LoadsKnown' /\ DialogsInv' /\ Typed'
    <2>1. LoadsKnown' /\ DialogsInv' BY <1>3, CloseKeepsDialogs DEF PostClose
    <2>2. Typed' BY <1>3, PostCloseTyped
    <2>3. QED BY <2>1, <2>2
<1>4. CASE ChangeAtOnce
    BY <1>0, <1>4, PerformKeeps DEF ChangeAtOnce
<1>5. CASE RequestChange
    BY <1>5, RequestKeeps DEF RequestChange, UserFree
<1>6. CASE Quit
    <2>1. CASE RequestSessionChange("close")
        BY <1>6, <2>1, RequestKeeps DEF Quit, Change
    <2>2. CASE Exit
        BY <1>1, <1>6, <2>2
        DEF Quit, Exit, StopInputs, Changed, GInv, Typed
    <2>3. QED BY <1>6, <2>1, <2>2 DEF Quit
<1>7. CASE Disconnect
    BY <1>1, <1>7 DEF Disconnect, StopInputs, Changed, GInv, Typed
<1>8. CASE SetReference
    BY <1>1, <1>8 DEF SetReference, Changed, acquisition, GInv, Typed
<1>9. CASE EditorOpens
    <2> DEFINE d == [kind |-> "editor", action |-> session]
    <2>1. d \in Dialog /\ d.kind # "progress" BY <1>0 DEF Dialog
    <2>2. dialogs = <<>> /\ dialogs' = Append(dialogs, d) /\ UNCHANGED loading
        BY <1>9 DEF EditorOpens, UserFree
    <2> HIDE DEF d
    <2>3. LoadsKnown' /\ DialogsInv' BY <2>1, <2>2, OpenKeepsDialogs
    <2>4. Typed'
        BY <1>9 DEF EditorOpens, recording, acquisition, GInv, Typed
    <2>5. QED BY <2>3, <2>4
<1>10. CASE EditorAccepts
    <2>1. dialogs # <<>> /\ Top.kind = "editor" /\ dialogs' = WithoutTop /\ UNCHANGED loading
        BY <1>10 DEF EditorAccepts, OnTop
    <2>2. LoadsKnown' /\ DialogsInv' BY <2>1, CloseKeepsDialogs
    <2>3. Top.action \in 1..MaxSession BY <2>1, TopAsked
    <2>4. Typed'
        BY <1>10, <2>3 DEF EditorAccepts, Changed, acquisition, GInv, Typed
    <2>5. QED BY <2>2, <2>4
<1>11. CASE Dismiss
    <2>1. LoadsKnown' /\ DialogsInv'
        BY <1>11, CloseKeepsDialogs DEF Dismiss, OnTop
    <2>2. Typed'
        BY <1>11 DEF Dismiss, recording, acquisition, GInv, Typed
    <2>3. QED BY <2>1, <2>2
<1>12. CASE AnswerDiscard
    BY <1>0, <1>2, <1>3, <1>12
    DEF AnswerDiscard, OnTop, SessionGuardNeeded, Dirty, Exporting, AcquisitionActive,
        acquisition
<1>13. CASE AnswerSave
    <2>1. dialogs # <<>> /\ Top.kind = "guard" /\ dialogs' = WithoutTop /\ UNCHANGED loading
        BY <1>13 DEF AnswerSave, OnTop
    <2>2. LoadsKnown' /\ DialogsInv' BY <2>1, CloseKeepsDialogs
    <2>3. Top.action \in Change BY <2>1, TopAsked
    <2>4. revision' \in Nat /\ session' = session /\ input' = "none"
        BY <1>0, <1>13 DEF AnswerSave, Changed, StopInputs
    <2>5. export' \in Export \cup {NoExport}
        BY <1>0, <1>13, <2>3, <2>4 DEF AnswerSave, Snapshot, Export, GInv, Typed
    <2>6. Typed'
        BY <1>13, <2>4, <2>5 DEF AnswerSave, Changed, GInv, Typed
    <2>7. QED BY <2>2, <2>6
<1>14. CASE AnswerSaveEmpty
    BY <1>0, <1>2, <1>3, <1>14 DEF AnswerSaveEmpty, OnTop, StopInputs
<1>15. CASE StartExport
    <2>1. UNCHANGED <<dialogs, loading, recording, acquisition, closing, exited>>
        BY <1>15 DEF StartExport
    <2>2. export' \in Export
        BY <1>0, <1>15 DEF StartExport, Snapshot, Export, recording
    <2>3. QED BY <1>1, <2>1, <2>2 DEF recording, acquisition, GInv, Typed
<1>16. CASE CancelLoad
    <2>1. LoadsKnown' /\ DialogsInv'
        BY <1>0, <1>16, CancelKeepsDialogs DEF CancelLoad
    <2>2. Typed'
        BY <1>16 DEF CancelLoad, recording, acquisition, GInv, Typed
    <2>3. QED BY <2>1, <2>2
<1>17. QED
    BY <1>4, <1>5, <1>6, <1>7, <1>8, <1>9, <1>10, <1>11, <1>12, <1>13, <1>14, <1>15, <1>16
    DEF UserAction

\* An import that ends was running, and if it was current, none is any more.
LEMMA LoadEndsKnown ==
    ASSUME GInv, NEW load, LoadEnds(load)
    PROVE  /\ LoadsKnown'
           /\ \A other \in loads' : other \in loads /\ (Current(other)' <=> Current(other))
           /\ Current(load) => \A other \in loads' : ~Current(other)'
BY DEF GInv, LoadsKnown, LoadEnds, Current

\* So does every event.
LEMMA EventKeepsDialogs ==
    ASSUME GInv, Event PROVE LoadsKnown' /\ DialogsInv' /\ Typed'
<1>0. /\ session \in 1..MaxSession /\ None \in 0..MaxSession
      /\ Stack(dialogs) /\ LoadsShown(dialogs)
    BY BoundAssumption DEF GInv, Typed, None, DialogsInv
<1>1. ASSUME UNCHANGED <<dialogs, loading>> PROVE LoadsKnown' /\ DialogsInv'
    BY <1>1, CalmKeepsDialogs DEF loading
<1>2. CASE SampleArrives \/ DemoEnds
    BY <1>1, <1>2 DEF SampleArrives, DemoEnds, recording, GInv, Typed
<1>3. CASE Drain \/ DemoTick
    BY <1>1, <1>3 DEF Drain, DemoTick, Changed, acquisition, GInv, Typed
<1>4. CASE WriteTelemetry \/ WriteMetadata
    <2>1. /\ UNCHANGED <<dialogs, loading, session, imported, markers, acquisition, closing,
                         exited>>
          /\ Exporting /\ \E stage \in {"metadata", "failed", "done"} :
                 export' = [export EXCEPT !.stage = stage]
        BY <1>4 DEF WriteTelemetry, WriteMetadata, recording
    <2>2. export \in Export BY <2>1 DEF GInv, Typed, Exporting
    <2>3. export' \in Export BY <2>1, <2>2 DEF Export
    <2>4. QED BY <1>1, <2>1, <2>3 DEF acquisition, GInv, Typed
<1>5. CASE ExportFails \/ ExportSucceeds
    BY <1>1, <1>5
    DEF ExportFails, ExportSucceeds, Finished, recording, acquisition, GInv, Typed
<1>6. CASE ExportThenChange
    <2>1. CASE Perform(export.after, dialogs, None)
        BY <1>0, <1>6, <2>1, PerformKeeps DEF ExportThenChange, Finished
    <2>2. CASE /\ PostClose(AcquisitionActive, dialogs, None)
               /\ UNCHANGED <<acquisition, exited>>
        <3>1. export' = NoExport BY <1>6 DEF ExportThenChange, Finished
        <3>2. LoadsKnown' /\ DialogsInv' BY <1>1, <2>2 DEF PostClose
        <3>3. AcquisitionActive \in BOOLEAN BY DEF AcquisitionActive
        <3>4. Typed'
            BY <1>0, <2>2, <3>1, <3>3, PostCloseTyped DEF acquisition
        <3>5. QED BY <3>2, <3>4
    <2>3. QED BY <1>6, <2>1, <2>2 DEF ExportThenChange
<1>7. CASE StaleLoadEnds
    <2>1. PICK load \in loads : LoadEnds(load) /\ UNCHANGED <<recording, dialogs>>
        BY <1>7 DEF StaleLoadEnds
    <2>2. LoadsKnown' /\ \A other \in loads' : other \in loads /\ (Current(other)' <=> Current(other))
        BY <2>1, LoadEndsKnown
    <2>3. DialogsInv' BY <1>0, <2>1, <2>2 DEF DialogsInv, LoadsShown
    <2>4. Typed' BY <2>1 DEF LoadEnds, recording, acquisition, GInv, Typed
    <2>5. QED BY <2>2, <2>3, <2>4
<1>8. CASE LoadFails
    <2> DEFINE d == [kind |-> "notice", action |-> "load"]
               rest == WithoutProgress(dialogs)
    <2>1. PICK load \in loads : Current(load) /\ LoadEnds(load) BY <1>8 DEF LoadFails
    <2>2. LoadsKnown' /\ \A other \in loads' : ~Current(other)' BY <2>1, LoadEndsKnown
    <2>3. Stack(rest) BY <1>0, WithoutProgressKeeps
    <2>4. d \in Dialog /\ ~Bottom(d) /\ d.kind # "progress" BY DEF Dialog, Bottom
    <2>5. dialogs' = Append(rest, d) /\ UNCHANGED recording BY <1>8 DEF LoadFails
    <2> HIDE DEF d, rest
    <2>6. Stack(dialogs') BY <2>3, <2>4, <2>5, OpeningKeeps
    <2>7. Typed' BY <2>1, <2>5 DEF LoadEnds, recording, acquisition, GInv, Typed
    <2>8. QED BY <2>2, <2>6, <2>7 DEF DialogsInv, LoadsShown
<1>9. CASE LoadSucceeds
    <2>1. PICK load \in loads : LoadReplaces(load) BY <1>9 DEF LoadSucceeds
    <2>2. LoadsKnown' /\ \A other \in loads' : ~Current(other)'
        BY <2>1, LoadEndsKnown DEF LoadReplaces
    <2>3. Stack(dialogs') BY <1>0, <2>1, WithoutProgressKeeps DEF LoadReplaces
    <2>4. session' \in 1..MaxSession
        BY <1>0, <2>1, BoundAssumption DEF LoadReplaces, NewRecording
    <2>5. Typed'
        BY <2>1, <2>4 DEF LoadReplaces, NewRecording, LoadEnds, acquisition, GInv, Typed
    <2>6. QED BY <2>2, <2>3, <2>5 DEF DialogsInv, LoadsShown
<1>10. CASE CloseTimer
    <2>1. PICK timer \in closing :
              /\ ~exited /\ closing' = closing \ {timer}
              /\ \/ Exit
                 \/ RequestSessionChange("close")
                 \/ UNCHANGED <<recording, acquisition, loading, dialogs, exited, export>>
        BY <1>10 DEF CloseTimer
    <2>2. CASE Exit
        BY <1>1, <2>1, <2>2 DEF Exit, StopInputs, Changed, GInv, Typed
    <2>3. CASE RequestSessionChange("close")
        BY <2>1, <2>3, RequestKeeps DEF Change
    <2>4. CASE UNCHANGED <<recording, acquisition, loading, dialogs, exited, export>>
        BY <1>1, <2>1, <2>4 DEF recording, acquisition, GInv, Typed
    <2>5. QED BY <2>1, <2>2, <2>3, <2>4
<1>11. QED
    BY <1>2, <1>3, <1>4, <1>5, <1>6, <1>7, <1>8, <1>9, <1>10 DEF Event

\* At the start no dialog is open and no import runs.
LEMMA DialogsInit == Init => GInv
<1> SUFFICES ASSUME Init PROVE GInv OBVIOUS
<1>1. RInv BY InvHolds_Init
<1>2. Typed /\ LoadsKnown
    <2>1. session \in 1..MaxSession
        BY BoundAssumption DEF Init
    <2>2. QED BY <2>1 DEF Init, Typed, LoadsKnown
<1>3. DialogsInv
    BY DEF Init, DialogsInv, Stack, Single, LoadsShown
<1>4. QED BY <1>1, <1>2, <1>3 DEF GInv

\* Every step keeps types, dialogs and imports.
LEMMA DialogsStep == ASSUME GInv, [Next]_vars PROVE GInv'
<1>1. CASE UserAction
    BY <1>1, UserPreserves, UserKeepsDialogs DEF GInv
<1>2. CASE Event
    BY <1>2, EventPreserves, EventKeepsDialogs DEF GInv
<1>3. CASE UNCHANGED vars
    <2>1. LoadsKnown' /\ DialogsInv'
        BY <1>3, CalmKeepsDialogs DEF vars, loading
    <2>2. Typed' BY <1>3 DEF vars, recording, acquisition, GInv, Typed
    <2>3. RInv'
        BY <1>3 DEF vars, recording, acquisition, GInv, RInv, Counters,
                    RevisionsOrdered, ExportKnowsRecording, Exporting
    <2>4. QED BY <2>1, <2>2, <2>3 DEF GInv
<1>4. QED BY <1>1, <1>2, <1>3 DEF Next

\* Types, dialogs and imports are right throughout.
THEOREM DialogsAreKnown == Spec => []GInv
<1>1. GInv /\ [Next]_vars => GInv' BY DialogsStep
<1>2. QED BY <1>1, DialogsInit, PTL DEF Spec

\* Every variable keeps to its values: what is saved or written is a revision there
\* is, the dialogs are those the window opens, the imports that run were started.
THEOREM TypeCorrect == Spec => []TypeOK
<1>1. GInv => TypeOK
    BY DEF GInv, RInv, Counters, RevisionsOrdered, Typed, LoadsKnown, DialogsInv, Stack, TypeOK
<1>2. QED BY <1>1, DialogsAreKnown, PTL
-----------------------------------------------------------------------------
(***************************************************************************)
(* What the user was asked, if questions are not nested.  There is one     *)
(* question at most, and none while an export runs; an export that a       *)
(* change waits for, or an import that replaces a recording nobody gave    *)
(* up, leaves nothing that could be lost: acquisition has stopped.         *)
(***************************************************************************)

\* Everything recorded is on disk, and nothing more comes.
Safe == revision = written /\ queued = 0 /\ input = "none"

QueuedIsLive == queued # 0 => input = "live"

ExportAlone ==
    Exporting => /\ ~Has(dialogs, "guard")
                 /\ export.after # "nothing" => input = "none" /\ queued = 0

LoadsAgreed == \A load \in loads : Current(load) => load.agreed = session \/ Safe

ClosesAgreed == \A timer \in closing : timer.discarded => timer.agreed = timer.session

AInv ==
    /\ QueuedIsLive
    /\ Single(dialogs, "guard")
    /\ ExportAlone
    /\ LoadsAgreed
    /\ ClosesAgreed

\* A window nobody has to ask about has everything on disk.
LEMMA UnguardedIsSafe ==
    ASSUME GInv, AInv, ~SessionGuardNeeded
    PROVE  Safe
BY DEF GInv, RInv, Counters, RevisionsOrdered, AInv, QueuedIsLive, Safe,
       SessionGuardNeeded, Dirty, AcquisitionActive, Exporting

\* So has a recording without content.
LEMMA EmptyIsWritten ==
    ASSUME GInv, Empty
    PROVE  revision = written /\ revision = 0 /\ queued = 0
BY DEF GInv, RInv, Counters, RevisionsOrdered, Empty

\* And so has one whose export succeeded last.
LEMMA ExportedIsWritten ==
    ASSUME GInv, Exporting, export.stage = "done", revision = SavedAfter(export)
    PROVE  revision = written
BY SavedIsWritten DEF GInv, RInv, Counters, RevisionsOrdered

\* The question that is answered was the only one, and no export runs beside it.
LEMMA QuestionGoes ==
    ASSUME GInv, AInv, OnTop("guard")
    PROVE  /\ Stack(WithoutTop) /\ LoadsShown(WithoutTop)
           /\ ~Has(WithoutTop, "guard") /\ ~Exporting
<1>1. Stack(dialogs) /\ dialogs # <<>> /\ Top.kind = "guard"
    BY DEF GInv, DialogsInv, OnTop
<1>2. Len(dialogs) \in 1..Len(dialogs) /\ WithoutTop = RemoveAt(dialogs, Len(dialogs))
    BY <1>1, TopGoes
<1>3. dialogs[Len(dialogs)].kind = "guard" BY <1>1 DEF Top
<1>4. ~Has(WithoutTop, "guard")
    BY <1>1, <1>2, <1>3, RemovalKeeps DEF AInv
<1>5. Has(dialogs, "guard") BY <1>2, <1>3 DEF Has
<1>6. QED BY <1>1, <1>4, <1>5, AnswerKeepsDialogs DEF AInv, ExportAlone

\* A stack without questions has one at most.
LEMMA NoneIsSingle == ASSUME NEW open, NEW kind, ~Has(open, kind) PROVE Single(open, kind)
BY DEF Has, Single

\* What is canceled is never current again, so there is nothing to agree about.
LEMMA CancelAsked ==
    ASSUME GInv, NEW open, Stack(open), ~Has(open, "guard"),
           CancelFlightLogLoad(open), UNCHANGED loads
    PROVE  ~Has(dialogs', "guard") /\ LoadsAgreed'
<1>1. ~Has(dialogs', "guard") BY WithoutProgressKeeps DEF CancelFlightLogLoad
<1>2. \A load \in loads' : ~Current(load)' BY CancelKeepsDialogs
<1>3. QED BY <1>1, <1>2 DEF LoadsAgreed

\* A change is carried out with the user's consent, or with everything on disk.
LEMMA PerformAsked ==
    ASSUME GInv, AInv, NEW open, Stack(open), ~Has(open, "guard"), NEW action,
           NEW agreed \in 0..MaxSession, Perform(action, open, agreed),
           agreed = session \/ (revision = written /\ queued = 0),
           export' = NoExport \/ (export' = export /\ ~Exporting)
    PROVE  AInv'
<1>1. ClosesAgreed' BY DEF Perform, AInv, ClosesAgreed
<1>2. ~Exporting' BY DEF Exporting
<1>3. ASSUME ~Has(dialogs', "guard"), LoadsAgreed', queued' = 0 PROVE AInv'
    BY <1>1, <1>2, <1>3, NoneIsSingle DEF AInv, QueuedIsLive, ExportAlone
<1>4. CASE Acquire(open) BY <1>3, <1>4, CancelAsked DEF Acquire
<1>5. CASE AcquireFails(open)
    <2>1. LoadsAgreed'
        BY <1>5 DEF AcquireFails, Changed, loading, AInv, LoadsAgreed, Current, Safe,
                    GInv, RInv, Counters
    <2>2. QED BY <1>3, <1>5, <2>1 DEF AcquireFails
<1>6. CASE Demo(open) BY <1>3, <1>6, CancelAsked DEF Demo
<1>7. CASE Clear(open) BY <1>3, <1>7, CancelAsked DEF Clear, StopInputs
<1>8. CASE Load(open, agreed)
    <2>1. \A load \in loads' : Current(load)' => load.agreed = agreed
        BY <1>8, LoadKeepsDialogs
    <2>2. agreed = session' \/ Safe'
        BY <1>8 DEF Load, StopInputs, Changed, Safe, GInv, RInv, Counters
    <2>3. ~Has(dialogs', "guard")
        <3> DEFINE rest == WithoutProgress(open)
                   d == [kind |-> "progress", action |-> "load"]
        <3>1. Stack(rest) /\ ~Has(rest, "guard") /\ ~Has(rest, "progress")
            BY WithoutProgressKeeps
        <3>2. d \in Dialog /\ ~Bottom(d) /\ d.kind = "progress" BY DEF Dialog, Bottom
        <3>3. dialogs' = Append(rest, d) BY <1>8 DEF Load
        <3> HIDE DEF rest, d
        <3>4. QED BY <3>1, <3>2, <3>3, OpeningKeeps
    <2>4. QED BY <1>3, <1>8, <2>1, <2>2, <2>3 DEF LoadsAgreed, Load, StopInputs
<1>9. QED BY <1>4, <1>5, <1>6, <1>7, <1>8 DEF Perform

\* A question opens only if there is none and no export runs (for questions that
\* are not nested).
LEMMA RequestAsked ==
    ASSUME ~NestedQuestions, GInv, AInv, NEW action \in Change,
           RequestSessionChange(action), action # "close" => dialogs = <<>>,
           closing' \subseteq closing
    PROVE  AInv'
<1> DEFINE d == [kind |-> "guard", action |-> action]
<1>1. d \in Dialog /\ d.kind = "guard" /\ (Bottom(d) => dialogs = <<>>)
    BY DEF Dialog, Bottom
<1>2. /\ dialogs' = Append(dialogs, d) /\ ~Exporting /\ Stack(dialogs)
      /\ UNCHANGED <<recording, acquisition, loading, export>>
    BY DEF RequestSessionChange, GInv, DialogsInv
<1> HIDE DEF d
<1>3. ~Has(dialogs, "guard") BY DEF RequestSessionChange, Has
<1>4. Single(dialogs', "guard") BY <1>1, <1>2, <1>3, OpeningKeeps, NoneIsSingle
<1>5. QED
    BY <1>2, <1>4
    DEF AInv, QueuedIsLive, ExportAlone, LoadsAgreed, ClosesAgreed, Safe, Current, Exporting,
        recording, acquisition, loading

\* While the recording stays, it is enough that what was safe is still so, unless no
\* import is current.
LEMMA StayAsked ==
    ASSUME GInv, AInv, session' = session, QueuedIsLive',
           UNCHANGED loading, closing' \subseteq closing,
           Single(dialogs', "guard"), Has(dialogs', "guard") => Has(dialogs, "guard"),
           \/ export' = NoExport
           \/ Exporting /\ export'.after = export.after /\ (input = "none" => input' = "none")
           \/ export' = export /\ (input = "none" => input' = "none"),
           \/ Safe => Safe'
           \/ ~Has(dialogs, "progress")
    PROVE  AInv'
<1>1. ExportAlone'
    BY DEF AInv, ExportAlone, Exporting, QueuedIsLive
<1>2. LoadsAgreed'
    BY DEF AInv, LoadsAgreed, Current, loading, GInv, DialogsInv, LoadsShown
<1>3. ClosesAgreed'
    BY DEF AInv, ClosesAgreed
<1>4. QED BY <1>1, <1>2, <1>3 DEF AInv

\* Every action of the user keeps what was asked.
LEMMA UserAsked == ASSUME ~NestedQuestions, GInv, AInv, UserAction PROVE AInv'
<1>0. /\ session \in 0..MaxSession /\ None \in 0..MaxSession
      /\ revision \in Nat /\ queued \in Nat
      /\ Stack(dialogs) /\ LoadsShown(dialogs) /\ Single(dialogs, "guard") /\ QueuedIsLive
    BY BoundAssumption DEF GInv, Typed, None, DialogsInv, RInv, Counters, AInv
<1>1. dialogs = <<>> => ~Has(dialogs, "guard") /\ ~Has(dialogs, "progress")
    BY DEF Has
<1>2. ASSUME ~exited, UNCHANGED <<session, loading, dialogs, export, written>>,
             closing' \subseteq closing, StopInputs, revision' = revision + queued
      PROVE  AInv'
    BY <1>0, <1>2, StayAsked DEF StopInputs, QueuedIsLive, Safe
<1>3. CASE ChangeAtOnce
    <2>1. Safe /\ ~Exporting /\ ~Has(dialogs, "guard")
        BY <1>1, <1>3, UnguardedIsSafe DEF ChangeAtOnce, UserFree, SessionGuardNeeded
    <2>2. QED BY <1>0, <1>3, <2>1, PerformAsked DEF ChangeAtOnce, Safe
<1>4. CASE RequestChange
    BY <1>4, RequestAsked DEF RequestChange, UserFree
<1>5. CASE Quit
    <2>1. CASE RequestSessionChange("close")
        BY <1>5, <2>1, RequestAsked DEF Quit, Change
    <2>2. CASE Exit
        BY <1>2, <1>5, <2>2 DEF Quit, Exit, Changed
    <2>3. QED BY <1>5, <2>1, <2>2 DEF Quit
<1>6. CASE Disconnect BY <1>2, <1>6 DEF Disconnect, Changed
<1>7. CASE SetReference
    BY <1>0, <1>1, <1>7, StayAsked
    DEF SetReference, UserFree, Changed, acquisition, QueuedIsLive
<1>8. CASE EditorOpens
    <2> DEFINE d == [kind |-> "editor", action |-> session]
    <2>1. d \in Dialog /\ d.kind = "editor" BY DEF Dialog, GInv, Typed
    <2>2. /\ dialogs = <<>> /\ dialogs' = Append(dialogs, d)
          /\ UNCHANGED <<recording, acquisition, loading, closing, export>>
        BY <1>8 DEF EditorOpens, UserFree
    <2> HIDE DEF d
    <2>3. ~Has(dialogs', "guard") BY <1>0, <1>1, <2>1, <2>2, OpeningKeeps
    <2>4. QED
        BY <1>0, <2>2, <2>3, NoneIsSingle, StayAsked
        DEF recording, acquisition, QueuedIsLive, Safe
<1>9. CASE EditorAccepts
    <2>1. dialogs # <<>> /\ Bottom(Top) /\ Top.kind = "editor" /\ dialogs' = WithoutTop
        BY <1>9 DEF EditorAccepts, OnTop, Bottom
    <2>2. dialogs = <<Top>> /\ dialogs' = <<>> BY <2>1, TopAsked
    <2>3. ~Has(dialogs', "guard") /\ ~Has(dialogs, "progress") BY <2>1, <2>2 DEF Has
    <2>4. QED
        BY <1>0, <1>9, <2>3, NoneIsSingle, StayAsked
        DEF EditorAccepts, Changed, acquisition, QueuedIsLive
<1>10. CASE Dismiss
    <2>1. dialogs # <<>> /\ dialogs' = WithoutTop
        BY <1>10 DEF Dismiss, OnTop
    <2>2. Single(dialogs', "guard") /\ (Has(dialogs', "guard") => Has(dialogs, "guard"))
        BY <1>0, <2>1, TopGoes, RemovalKeeps
    <2>3. QED
        BY <1>0, <1>10, <2>2, StayAsked DEF Dismiss, recording, acquisition, QueuedIsLive, Safe
<1>11. CASE AnswerDiscard
    <2>1. Stack(WithoutTop) /\ ~Has(WithoutTop, "guard") /\ ~Exporting /\ export' = export
        BY <1>11, QuestionGoes DEF AnswerDiscard
    <2>2. CASE Perform(Top.action, WithoutTop, session)
        BY <1>0, <2>1, <2>2, PerformAsked
    <2>3. CASE PostClose(SessionGuardNeeded, WithoutTop, session) /\ UNCHANGED acquisition
        BY <1>0, <2>1, <2>3, NoneIsSingle
        DEF PostClose, acquisition, loading, AInv, QueuedIsLive, ExportAlone, LoadsAgreed,
            ClosesAgreed, Current, Safe, Exporting
    <2>4. QED BY <1>11, <2>2, <2>3 DEF AnswerDiscard
<1>12. CASE AnswerSave
    <2>1. ~Has(WithoutTop, "guard") /\ dialogs' = WithoutTop /\ UNCHANGED <<loading, closing>>
        BY <1>12, QuestionGoes DEF AnswerSave
    <2>2. /\ input' = "none" /\ queued' = 0 /\ revision' = revision + queued
          /\ session' = session /\ written' = written
        BY <1>12 DEF AnswerSave, StopInputs, Changed
    <2>3. LoadsAgreed' /\ ClosesAgreed'
        BY <1>0, <2>1, <2>2
        DEF AInv, LoadsAgreed, ClosesAgreed, Current, loading, Safe
    <2>4. QED
        BY <2>1, <2>2, <2>3, NoneIsSingle DEF AInv, QueuedIsLive, ExportAlone
<1>13. CASE AnswerSaveEmpty
    <2>1. Stack(WithoutTop) /\ ~Has(WithoutTop, "guard") /\ ~Exporting /\ export' = export
        BY <1>13, QuestionGoes DEF AnswerSaveEmpty
    <2>2. revision = written /\ queued = 0
        BY <1>13, EmptyIsWritten DEF AnswerSaveEmpty
    <2>3. CASE Perform(Top.action, WithoutTop, None)
        BY <1>0, <2>1, <2>2, <2>3, PerformAsked
    <2>4. CASE PostClose(FALSE, WithoutTop, None) /\ StopInputs
        BY <1>0, <2>1, <2>2, <2>4, NoneIsSingle
        DEF PostClose, StopInputs, loading, AInv, QueuedIsLive, ExportAlone, LoadsAgreed,
            ClosesAgreed, Current, Safe, Exporting
    <2>5. QED BY <1>13, <2>3, <2>4 DEF AnswerSaveEmpty
<1>14. CASE StartExport
    <2>1. /\ ~Has(dialogs, "guard") /\ export'.after = "nothing"
          /\ UNCHANGED <<recording, acquisition, loading, dialogs, closing>>
        BY <1>1, <1>14 DEF StartExport, UserFree, Snapshot
    <2>2. QED
        BY <2>1 DEF AInv, QueuedIsLive, ExportAlone, LoadsAgreed, ClosesAgreed, Current, Safe,
                    recording, acquisition, loading
<1>15. CASE CancelLoad
    <2>1. /\ Single(dialogs', "guard") /\ (Has(dialogs', "guard") => Has(dialogs, "guard"))
          /\ \A load \in loads' : ~Current(load)'
        BY <1>0, <1>15, CancelKeepsDialogs, WithoutProgressKeeps
        DEF CancelLoad, CancelFlightLogLoad
    <2>2. UNCHANGED <<recording, acquisition, closing, export>> BY <1>15 DEF CancelLoad
    <2>3. QED
        BY <2>1, <2>2 DEF AInv, QueuedIsLive, ExportAlone, LoadsAgreed, ClosesAgreed,
                          recording, acquisition, Exporting
<1>16. QED
    BY <1>3, <1>4, <1>5, <1>6, <1>7, <1>8, <1>9, <1>10, <1>11, <1>12, <1>13, <1>14, <1>15
    DEF UserAction

\* So does every event.
LEMMA EventAsked == ASSUME ~NestedQuestions, GInv, AInv, Event PROVE AInv'
<1>0. /\ None \in 0..MaxSession
      /\ revision \in Nat /\ queued \in Nat /\ written \in Nat /\ written <= revision
      /\ Stack(dialogs) /\ Single(dialogs, "guard") /\ QueuedIsLive
    BY BoundAssumption
    DEF GInv, Typed, None, DialogsInv, RInv, Counters, RevisionsOrdered, AInv
<1>1. CASE SampleArrives
    BY <1>0, <1>1, StayAsked DEF SampleArrives, recording, QueuedIsLive, Safe
<1>2. CASE Drain
    BY <1>0, <1>2, StayAsked DEF Drain, Changed, QueuedIsLive, Safe
<1>3. CASE DemoTick
    BY <1>0, <1>3, StayAsked DEF DemoTick, Changed, acquisition, QueuedIsLive, Safe
<1>4. CASE DemoEnds
    BY <1>0, <1>4, StayAsked DEF DemoEnds, recording, QueuedIsLive, Safe
<1>5. CASE WriteTelemetry \/ WriteMetadata
    <2>1. /\ UNCHANGED <<session, revision, acquisition, loading, dialogs, closing>>
          /\ Exporting /\ export.session \in Nat /\ export.revision \in Nat
          /\ export.session = session => export.revision <= revision
          /\ \/ written' = written
             \/ export.session = session /\ export.revision > written
                /\ written' = export.revision
        BY <1>5 DEF WriteTelemetry, WriteMetadata, recording, GInv, RInv, ExportKnowsRecording
    <2>2. export \in Export BY <2>1 DEF GInv, Typed, Exporting
    <2>3. export'.after = export.after
        BY <1>5, <2>2 DEF WriteTelemetry, WriteMetadata, Export
    <2>4. Safe => Safe' BY <1>0, <2>1 DEF Safe, acquisition
    <2>5. QED BY <1>0, <2>1, <2>3, <2>4, StayAsked DEF acquisition, QueuedIsLive
<1>6. CASE ExportFails \/ ExportSucceeds
    BY <1>0, <1>6, StayAsked
    DEF ExportFails, ExportSucceeds, Finished, recording, acquisition, QueuedIsLive, Safe
<1>7. CASE ExportThenChange
    <2>1. /\ Exporting /\ export.stage = "done" /\ revision = SavedAfter(export)
          /\ export' = NoExport /\ ~Has(dialogs, "guard")
        BY <1>7 DEF ExportThenChange, Finished, AInv, ExportAlone
    <2>2. revision = written BY <2>1, ExportedIsWritten
    <2>3. CASE Perform(export.after, dialogs, None)
        <3>1. export.after # "nothing" BY <2>3 DEF Perform
        <3>2. queued = 0 BY <2>1, <3>1 DEF AInv, ExportAlone
        <3>3. QED BY <1>0, <2>1, <2>2, <2>3, <3>2, PerformAsked
    <2>4. CASE /\ export.after = "close" /\ PostClose(AcquisitionActive, dialogs, None)
               /\ UNCHANGED acquisition
        <3>1. AcquisitionActive = FALSE
            BY <2>1, <2>4 DEF AInv, ExportAlone, AcquisitionActive
        <3>2. ClosesAgreed'
            BY <2>4, <3>1 DEF PostClose, AInv, ClosesAgreed
        <3>3. QED
            BY <2>1, <2>4, <3>2
            DEF PostClose, acquisition, loading, AInv, QueuedIsLive, ExportAlone, LoadsAgreed,
                Current, Safe, Exporting
    <2>5. QED BY <1>7, <2>3, <2>4 DEF ExportThenChange
<1>8. CASE StaleLoadEnds
    <2>1. PICK load \in loads : LoadEnds(load) /\ UNCHANGED <<recording, dialogs>>
        BY <1>8 DEF StaleLoadEnds
    <2>2. \A other \in loads' : other \in loads /\ (Current(other)' <=> Current(other))
        BY <2>1, LoadEndsKnown
    <2>3. LoadsAgreed'
        BY <2>1, <2>2 DEF AInv, LoadsAgreed, LoadEnds, Safe, recording, acquisition
    <2>4. QED
        BY <2>1, <2>3 DEF LoadEnds, AInv, QueuedIsLive, ExportAlone, ClosesAgreed, Exporting,
                          recording, acquisition
<1>9. CASE LoadFails
    <2> DEFINE d == [kind |-> "notice", action |-> "load"]
               rest == WithoutProgress(dialogs)
    <2>1. PICK load \in loads : Current(load) /\ LoadEnds(load) BY <1>9 DEF LoadFails
    <2>2. LoadsAgreed' BY <2>1, LoadEndsKnown DEF LoadsAgreed
    <2>3. /\ Stack(rest) /\ Single(rest, "guard")
          /\ Has(rest, "guard") => Has(dialogs, "guard")
        BY <1>0, WithoutProgressKeeps
    <2>4. d \in Dialog /\ ~Bottom(d) /\ d.kind = "notice" BY DEF Dialog, Bottom
    <2>5. dialogs' = Append(rest, d) /\ UNCHANGED recording BY <1>9 DEF LoadFails
    <2> HIDE DEF d, rest
    <2>6. Single(dialogs', "guard") /\ (Has(dialogs', "guard") => Has(dialogs, "guard"))
        BY <2>3, <2>4, <2>5, OpeningKeeps
    <2>7. QED
        BY <2>1, <2>2, <2>5, <2>6 DEF LoadEnds, AInv, QueuedIsLive, ExportAlone, ClosesAgreed,
                                      Exporting, recording, acquisition
<1>10. CASE LoadSucceeds
    <2>1. PICK load \in loads : LoadReplaces(load) BY <1>10 DEF LoadSucceeds
    <2>2. LoadsAgreed' BY <2>1, LoadEndsKnown DEF LoadsAgreed, LoadReplaces
    <2>3. Single(dialogs', "guard") /\ (Has(dialogs', "guard") => Has(dialogs, "guard"))
        BY <1>0, <2>1, WithoutProgressKeeps DEF LoadReplaces
    <2>4. QED
        BY <2>1, <2>2, <2>3 DEF LoadReplaces, LoadEnds, AInv, QueuedIsLive, ExportAlone,
                                ClosesAgreed, Exporting, acquisition
<1>11. CASE CloseTimer
    <2>1. PICK timer \in closing :
              /\ closing' = closing \ {timer}
              /\ \/ Exit
                 \/ RequestSessionChange("close")
                 \/ UNCHANGED <<recording, acquisition, loading, dialogs, exited, export>>
        BY <1>11 DEF CloseTimer
    <2>2. CASE Exit
        BY <1>0, <2>1, <2>2, StayAsked
        DEF Exit, StopInputs, Changed, QueuedIsLive, Safe
    <2>3. CASE RequestSessionChange("close")
        BY <2>1, <2>3, RequestAsked DEF Change
    <2>4. CASE UNCHANGED <<recording, acquisition, loading, dialogs, exited, export>>
        BY <1>0, <2>1, <2>4, StayAsked DEF recording, acquisition, QueuedIsLive, Safe
    <2>5. QED BY <2>1, <2>2, <2>3, <2>4
<1>12. QED
    BY <1>1, <1>2, <1>3, <1>4, <1>5, <1>6, <1>7, <1>8, <1>9, <1>10, <1>11 DEF Event

\* At the start there is nothing to ask about.
LEMMA AskedInit == Init => AInv
BY DEF Init, AInv, QueuedIsLive, Single, ExportAlone, Exporting, LoadsAgreed, ClosesAgreed

\* If questions are not nested, what was asked is known throughout.
LEMMA AskedThroughout ==
    ASSUME ~NestedQuestions PROVE Spec => [](GInv /\ AInv)
<1>1. GInv /\ AInv /\ [Next]_vars => (GInv /\ AInv)'
    <2> SUFFICES ASSUME GInv, AInv, [Next]_vars PROVE (GInv /\ AInv)' OBVIOUS
    <2>1. GInv' BY DialogsStep
    <2>2. CASE UserAction BY <2>1, <2>2, UserAsked
    <2>3. CASE Event BY <2>1, <2>3, EventAsked
    <2>4. CASE UNCHANGED vars
        BY <2>1, <2>4
        DEF vars, recording, acquisition, loading, AInv, QueuedIsLive, ExportAlone, Exporting,
            LoadsAgreed, ClosesAgreed, Current, Safe
    <2>5. QED BY <2>2, <2>3, <2>4 DEF Next
<1>2. QED BY <1>1, DialogsInit, AskedInit, PTL DEF Spec

\* A change that may proceed ends a recording only if everything of it is on disk, or
\* the user has given it up.
LEMMA NothingDropped ==
    ASSUME GInv, AInv, Next, session' # session \/ exited' # exited
    PROVE  (revision = written /\ queued = 0) \/ AnswerDiscard \/ session \in Agreed
<1>1. CASE ChangeAtOnce
    BY <1>1, UnguardedIsSafe DEF ChangeAtOnce, Safe
<1>2. CASE Quit
    BY <1>2, UnguardedIsSafe DEF Quit, RequestSessionChange, recording, Safe
<1>3. CASE AnswerSaveEmpty
    BY <1>3, EmptyIsWritten DEF AnswerSaveEmpty
<1>4. CASE ExportThenChange
    <2>1. /\ Exporting /\ export.stage = "done" /\ revision = SavedAfter(export)
          /\ export.after # "nothing"
        BY <1>4 DEF ExportThenChange, Finished, Perform
    <2>2. queued = 0 BY <2>1 DEF AInv, ExportAlone
    <2>3. QED BY <2>1, <2>2, ExportedIsWritten
<1>5. CASE LoadSucceeds
    <2>1. PICK load \in loads : Current(load) /\ loads' = loads \ {load}
        BY <1>5 DEF LoadSucceeds, LoadReplaces, LoadEnds
    <2>2. load.agreed \in Agreed BY <2>1 DEF Agreed
    <2>3. QED BY <2>1, <2>2 DEF AInv, LoadsAgreed, Safe
<1>6. CASE CloseTimer
    <2>1. PICK timer \in closing :
              /\ closing' = closing \ {timer}
              /\ (Approved(timer) /\ Exit) \/ UNCHANGED <<session, exited>>
        BY <1>6 DEF CloseTimer, RequestSessionChange, recording
    <2>2. timer.agreed \in Agreed BY <2>1 DEF Agreed
    <2>3. Approved(timer)
        BY <2>1
    <2>4. CASE timer.discarded /\ timer.session = session
        BY <2>2, <2>4 DEF AInv, ClosesAgreed
    <2>5. CASE ~SessionGuardNeeded BY <2>5, UnguardedIsSafe DEF Safe
    <2>6. QED BY <2>3, <2>4, <2>5 DEF Approved
<1>7. CASE AnswerDiscard BY <1>7
<1>8. CASE \/ RequestChange \/ Disconnect \/ SetReference \/ EditorOpens \/ EditorAccepts
           \/ Dismiss \/ AnswerSave \/ StartExport \/ CancelLoad
    BY <1>8 DEF RequestChange, RequestSessionChange, Disconnect, SetReference, EditorOpens,
                EditorAccepts, Dismiss, AnswerSave, StartExport, CancelLoad, Changed, recording
<1>9. CASE \/ SampleArrives \/ Drain \/ DemoTick \/ DemoEnds
           \/ WriteTelemetry \/ WriteMetadata \/ ExportFails \/ ExportSucceeds
           \/ StaleLoadEnds \/ LoadFails
    BY <1>9 DEF SampleArrives, Drain, DemoTick, DemoEnds, WriteTelemetry, WriteMetadata,
                ExportFails, ExportSucceeds, Finished, StaleLoadEnds, LoadFails, LoadEnds,
                Changed, recording
<1>10. QED
    BY <1>1, <1>2, <1>3, <1>4, <1>5, <1>6, <1>7, <1>8, <1>9 DEF Next, UserAction, Event

\* If questions are not nested, a recording with changes that are not on disk, or with
\* samples not yet recorded, is replaced or left behind only in answer to "Discard", or
\* by the import or the close() that this answer set off (requestSessionChange,
\* closeEvent and the completion of exportSession).
THEOREM NothingGoesUnasked ==
    ASSUME ~NestedQuestions PROVE Spec => NothingDroppedUnasked
<1> DEFINE Asked == session' # session \/ exited' # exited
                        => \/ revision = written /\ queued = 0
                           \/ AnswerDiscard
                           \/ session \in Agreed
<1>1. GInv /\ AInv /\ [Next]_vars => [Asked]_vars
    BY NothingDropped
<1>2. QED BY <1>1, AskedThroughout, PTL DEF Spec, NothingDroppedUnasked
-----------------------------------------------------------------------------
(***************************************************************************)
(* The markers, if no editor is opened while an export runs.  An editor is *)
(* of the recording there is, because nothing that could replace it is     *)
(* under way while it is open: no import is current, and no export but one *)
(* that at most closes the window.                                         *)
(***************************************************************************)

EditorAlone ==
    Has(dialogs, "editor") =>
        /\ Exporting => export.after \in {"nothing", "close"}
        /\ \A load \in loads : ~Current(load)

MInv ==
    /\ markers \subseteq {session}
    /\ EditorsOf(dialogs, session)
    /\ EditorAlone

\* Without editors, only the markers matter.
LEMMA NoEditorIsFine ==
    ASSUME ~Has(dialogs', "editor"), markers' \subseteq {session'}
    PROVE  MInv'
BY DEF MInv, EditorsOf, EditorAlone, Has

\* The recording stays, no editor opens, and nothing begins that could replace it.
LEMMA StayMarked ==
    ASSUME MInv, UNCHANGED <<session, markers>>,
           EditorsOf(dialogs', session), Has(dialogs', "editor") => Has(dialogs, "editor"),
           export' \in {export, NoExport} \/ (Exporting /\ export'.after = export.after),
           \A load \in loads' : load \in loads /\ (Current(load)' => Current(load))
    PROVE  MInv'
BY DEF MInv, EditorAlone, Exporting

\* A change is carried out only where no editor is open.
LEMMA PerformMarked ==
    ASSUME GInv, MInv, NEW open, Stack(open), ~Has(open, "editor"), NEW action,
           NEW agreed, Perform(action, open, agreed)
    PROVE  MInv'
<1>1. ~Has(dialogs', "editor")
    <2>1. CASE dialogs' = open BY <2>1
    <2>2. CASE CancelFlightLogLoad(open)
        BY <2>2, WithoutProgressKeeps DEF CancelFlightLogLoad
    <2>3. CASE Load(open, agreed)
        <3> DEFINE rest == WithoutProgress(open)
                   d == [kind |-> "progress", action |-> "load"]
        <3>1. Stack(rest) /\ ~Has(rest, "editor") /\ ~Has(rest, "progress")
            BY WithoutProgressKeeps
        <3>2. d \in Dialog /\ ~Bottom(d) /\ d.kind = "progress" BY DEF Dialog, Bottom
        <3>3. dialogs' = Append(rest, d) BY <2>3 DEF Load
        <3> HIDE DEF rest, d
        <3>4. QED BY <3>1, <3>2, <3>3, OpeningKeeps
    <2>4. QED BY <2>1, <2>2, <2>3 DEF Perform, Acquire, AcquireFails, Demo, Clear
<1>2. markers' = {} \/ UNCHANGED <<markers, session>>
    BY DEF Perform, Acquire, AcquireFails, Demo, Clear, Load, NewRecording, Changed
<1>3. QED BY <1>1, <1>2, NoEditorIsFine DEF MInv

\* Every action of the user keeps the markers right.
LEMMA UserMarked == ASSUME ~EditsWhileSaving, GInv, MInv, UserAction PROVE MInv'
<1>0. /\ Stack(dialogs) /\ LoadsShown(dialogs) /\ EditorsOf(dialogs, session)
      /\ markers \subseteq {session} /\ session \in 1..MaxSession
    BY DEF GInv, Typed, DialogsInv, MInv
<1>1. ~Has(<<>>, "editor") /\ ~Has(<<>>, "progress") BY DEF Has
<1>2. ASSUME UNCHANGED <<session, markers, dialogs, export, loading>> PROVE MInv'
    BY <1>0, <1>2, StayMarked DEF loading, Current
<1>3. ASSUME dialogs # <<>>, dialogs' = WithoutTop
      PROVE  /\ EditorsOf(dialogs', session)
             /\ Has(dialogs', "editor") => Has(dialogs, "editor")
    BY <1>0, <1>3, TopGoes, RemovalKeeps
<1>4. ASSUME OnTop("guard"), NEW agreed, Perform(Top.action, WithoutTop, agreed) PROVE MInv'
    <2>1. Top.action # "close" /\ dialogs # <<>> /\ Top.kind = "guard"
        BY <1>4 DEF Perform, OnTop
    <2>2. WithoutTop = <<>> BY <2>1, TopAsked DEF Bottom
    <2>3. Stack(<<>>) BY DEF Stack, Single
    <2>4. QED BY <1>1, <1>4, <2>2, <2>3, PerformMarked
<1>5. ASSUME OnTop("guard"), NEW discarded, NEW agreed,
             PostClose(discarded, WithoutTop, agreed), export' = export
      PROVE  MInv'
    BY <1>3, <1>5, StayMarked DEF PostClose, OnTop, loading, Current
<1>6. ASSUME NEW action \in Change, RequestSessionChange(action),
             action # "close" => dialogs = <<>>
      PROVE  MInv'
    <2> DEFINE d == [kind |-> "guard", action |-> action]
    <2>1. d \in Dialog /\ d.kind = "guard" /\ (Bottom(d) => dialogs = <<>>)
        BY <1>6 DEF Dialog, Bottom
    <2>2. dialogs' = Append(dialogs, d) /\ UNCHANGED <<session, markers, export, loading>>
        BY <1>6 DEF RequestSessionChange, recording
    <2> HIDE DEF d
    <2>3. EditorsOf(dialogs', session) /\ (Has(dialogs', "editor") => Has(dialogs, "editor"))
        BY <1>0, <2>1, <2>2, OpeningKeeps
    <2>4. QED BY <2>2, <2>3, StayMarked DEF loading, Current
<1>7. CASE ChangeAtOnce
    BY <1>0, <1>1, <1>7, PerformMarked DEF ChangeAtOnce, UserFree
<1>8. CASE RequestChange BY <1>6, <1>8 DEF RequestChange, UserFree
<1>9. CASE Quit
    <2>1. CASE RequestSessionChange("close") BY <1>6, <2>1 DEF Change
    <2>2. CASE Exit BY <1>2, <2>2 DEF Exit, Changed
    <2>3. QED BY <1>9, <2>1, <2>2 DEF Quit
<1>10. CASE Disconnect \/ SetReference
    BY <1>2, <1>10 DEF Disconnect, SetReference, Changed
<1>11. CASE EditorOpens
    <2> DEFINE d == [kind |-> "editor", action |-> session]
    <2>1. d \in Dialog /\ d.kind = "editor" /\ d.action = session BY <1>0 DEF Dialog
    <2>2. /\ dialogs = <<>> /\ dialogs' = Append(dialogs, d) /\ ~Exporting
          /\ UNCHANGED <<session, markers, loading, export>>
        BY <1>11 DEF EditorOpens, UserFree, recording
    <2> HIDE DEF d
    <2>3. EditorsOf(dialogs', session) BY <1>0, <2>1, <2>2, OpeningKeeps
    <2>4. \A load \in loads : ~Current(load) BY <1>0, <1>1, <2>2 DEF LoadsShown
    <2>5. QED
        BY <1>0, <2>2, <2>3, <2>4 DEF MInv, EditorAlone, Exporting, Current, loading
<1>12. CASE EditorAccepts
    <2>1. dialogs # <<>> /\ Bottom(Top) /\ Top.kind = "editor"
        BY <1>12 DEF EditorAccepts, OnTop, Bottom
    <2>2. WithoutTop = <<>> BY <2>1, TopAsked
    <2>3. Top.action = session
        BY <1>0, <2>1, TopGoes DEF Top, EditorsOf
    <2>4. ~Has(dialogs', "editor") /\ markers' = {session} /\ session' = session
        BY <1>1, <1>12, <2>2, <2>3 DEF EditorAccepts, Changed
    <2>5. QED BY <2>4, NoEditorIsFine
<1>13. CASE Dismiss
    BY <1>3, <1>13, StayMarked DEF Dismiss, OnTop, recording, loading, Current
<1>14. CASE AnswerDiscard BY <1>4, <1>5, <1>14 DEF AnswerDiscard
<1>15. CASE AnswerSave
    <2>1. /\ dialogs # <<>> /\ dialogs' = WithoutTop /\ Top.kind = "guard"
          /\ UNCHANGED <<session, markers, loading>>
        BY <1>15 DEF AnswerSave, OnTop, Changed
    <2>2. CASE export' = export BY <1>3, <2>1, <2>2, StayMarked DEF loading, Current
    <2>3. CASE Top.action = "close" /\ export' = Snapshot(Top.action)
        BY <1>3, <2>1, <2>3 DEF Snapshot, MInv, EditorAlone, loading, Current
    <2>4. CASE Top.action # "close"
        <3>1. WithoutTop = <<>> BY <2>1, <2>4, TopAsked DEF Bottom
        <3>2. QED BY <1>0, <1>1, <2>1, <3>1, NoEditorIsFine
    <2>5. QED BY <1>15, <2>2, <2>3, <2>4 DEF AnswerSave
<1>16. CASE AnswerSaveEmpty BY <1>4, <1>5, <1>16 DEF AnswerSaveEmpty
<1>17. CASE StartExport
    BY <1>0, <1>1, <1>17, NoEditorIsFine DEF StartExport, UserFree, recording
<1>18. CASE CancelLoad
    <2>1. /\ EditorsOf(dialogs', session) /\ (Has(dialogs', "editor") => Has(dialogs, "editor"))
          /\ \A load \in loads' : ~Current(load)'
        BY <1>0, <1>18, CancelKeepsDialogs, WithoutProgressKeeps
        DEF CancelLoad, CancelFlightLogLoad
    <2>2. QED BY <1>18, <2>1, StayMarked DEF CancelLoad, recording
<1>19. QED
    BY <1>7, <1>8, <1>9, <1>10, <1>11, <1>12, <1>13, <1>14, <1>15, <1>16, <1>17, <1>18
    DEF UserAction

\* So does every event.
LEMMA EventMarked == ASSUME GInv, MInv, Event PROVE MInv'
<1>0. /\ Stack(dialogs) /\ EditorsOf(dialogs, session) /\ markers \subseteq {session}
    BY DEF GInv, DialogsInv, MInv
<1>1. ASSUME UNCHANGED <<session, markers, dialogs, loading>>, export' \in {export, NoExport}
      PROVE  MInv'
    BY <1>0, <1>1, StayMarked DEF loading, Current
<1>2. CASE SampleArrives \/ Drain \/ DemoTick \/ DemoEnds \/ ExportFails \/ ExportSucceeds
    BY <1>1, <1>2 DEF SampleArrives, Drain, DemoTick, DemoEnds, ExportFails, ExportSucceeds,
                      Finished, Changed, recording
<1>3. CASE WriteTelemetry \/ WriteMetadata
    <2>1. UNCHANGED <<session, markers, dialogs, loading>> /\ Exporting
        BY <1>3 DEF WriteTelemetry, WriteMetadata, recording
    <2>2. export \in Export BY <2>1 DEF GInv, Typed, Exporting
    <2>3. export'.after = export.after
        BY <1>3, <2>2 DEF WriteTelemetry, WriteMetadata, Export
    <2>4. QED BY <1>0, <2>1, <2>3, StayMarked DEF loading, Current
<1>4. CASE ExportThenChange
    <2>1. Exporting /\ export' = NoExport BY <1>4 DEF ExportThenChange, Finished
    <2>2. CASE Perform(export.after, dialogs, None)
        <3>1. export.after \notin {"nothing", "close"} BY <2>2 DEF Perform
        <3>2. ~Has(dialogs, "editor") BY <2>1, <3>1 DEF MInv, EditorAlone
        <3>3. QED BY <1>0, <2>2, <3>2, PerformMarked
    <2>3. CASE PostClose(AcquisitionActive, dialogs, None)
        BY <1>1, <2>1, <2>3 DEF PostClose
    <2>4. QED BY <1>4, <2>2, <2>3 DEF ExportThenChange
<1>5. CASE StaleLoadEnds
    <2>1. PICK load \in loads : LoadEnds(load) /\ UNCHANGED <<recording, dialogs>>
        BY <1>5 DEF StaleLoadEnds
    <2>2. QED BY <1>0, <2>1, StayMarked DEF LoadEnds, recording, Current
<1>6. ASSUME NEW load, Current(load), LoadEnds(load)
      PROVE  ~Has(WithoutProgress(dialogs), "editor")
    BY <1>0, <1>6, WithoutProgressKeeps DEF MInv, EditorAlone, LoadEnds
<1>7. CASE LoadFails
    <2> DEFINE d == [kind |-> "notice", action |-> "load"]
               rest == WithoutProgress(dialogs)
    <2>1. Stack(rest) /\ ~Has(rest, "editor")
        BY <1>0, <1>6, <1>7, WithoutProgressKeeps DEF LoadFails
    <2>2. d \in Dialog /\ ~Bottom(d) /\ d.kind = "notice" BY DEF Dialog, Bottom
    <2>3. dialogs' = Append(rest, d) /\ UNCHANGED recording BY <1>7 DEF LoadFails
    <2> HIDE DEF d, rest
    <2>4. ~Has(dialogs', "editor") BY <2>1, <2>2, <2>3, OpeningKeeps
    <2>5. QED BY <1>0, <2>3, <2>4, NoEditorIsFine DEF recording
<1>8. CASE LoadSucceeds
    BY <1>6, <1>8, NoEditorIsFine DEF LoadSucceeds, LoadReplaces, NewRecording
<1>9. CASE CloseTimer
    <2>1. CASE Exit BY <1>1, <2>1 DEF Exit, Changed
    <2>2. CASE RequestSessionChange("close")
        <3> DEFINE d == [kind |-> "guard", action |-> "close"]
        <3>1. d \in Dialog /\ d.kind = "guard" /\ ~Bottom(d) BY DEF Dialog, Change, Bottom
        <3>2. dialogs' = Append(dialogs, d) /\ UNCHANGED <<session, markers, export, loading>>
            BY <2>2 DEF RequestSessionChange, recording
        <3> HIDE DEF d
        <3>3. EditorsOf(dialogs', session) /\ (Has(dialogs', "editor") => Has(dialogs, "editor"))
            BY <1>0, <3>1, <3>2, OpeningKeeps
        <3>4. QED BY <3>2, <3>3, StayMarked DEF loading, Current
    <2>3. CASE UNCHANGED <<recording, loading, dialogs, export>>
        BY <1>1, <2>3 DEF recording
    <2>4. QED BY <1>9, <2>1, <2>2, <2>3 DEF CloseTimer
<1>10. QED BY <1>2, <1>3, <1>4, <1>5, <1>7, <1>8, <1>9 DEF Event

\* If no editor is opened while an export runs, the event markers shown, and exported
\* as metadata, were made for the recording there is (setReplaySession clears them,
\* editFlightEvents writes them back).
THEOREM MarkersAreItsOwn ==
    ASSUME ~EditsWhileSaving PROVE Spec => []MarkersStayWithRecording
<1>1. Init => MInv
    BY DEF Init, MInv, EditorsOf, EditorAlone, Has
<1>2. GInv /\ MInv /\ [Next]_vars => (GInv /\ MInv)'
    <2> SUFFICES ASSUME GInv, MInv, [Next]_vars PROVE (GInv /\ MInv)' OBVIOUS
    <2>1. GInv' BY DialogsStep
    <2>2. CASE UserAction BY <2>1, <2>2, UserMarked
    <2>3. CASE Event BY <2>1, <2>3, EventMarked
    <2>4. CASE UNCHANGED vars
        BY <2>1, <2>4
        DEF vars, recording, loading, MInv, EditorAlone, Exporting, Current
    <2>5. QED BY <2>2, <2>3, <2>4 DEF Next
<1>3. MInv => MarkersStayWithRecording BY DEF MInv, MarkersStayWithRecording
<1>4. QED BY <1>1, <1>2, <1>3, DialogsInit, PTL DEF Spec

=============================================================================
