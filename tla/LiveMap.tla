------------------------------ MODULE LiveMap ------------------------------
(***************************************************************************)
(* The map of a page: Map3DWidget on the GUI thread, and the page it loads *)
(* (assets/map/map3d.js), which it tells what to draw through a bridge.    *)
(* The widget keeps a bounded history of the live samples, thins it,       *)
(* counts it from 0 again when the indices run out, and publishes either   *)
(* what is new or all of it; a recorded flight is published once and its   *)
(* trail as it plays.  Nothing is published before the page is ready, or   *)
(* while the widget is hidden.                                             *)
(*                                                                         *)
(* Left out: the theme, the units, the attitude, the recovery record, the  *)
(* camera, and the statistics that come back from the page.  A published   *)
(* message is drawn at once: the bridge keeps the order of its signals.    *)
(***************************************************************************)
EXTENDS GpsTrajectory

CONSTANTS
    Recordings,          \* function: a recorded flight and its samples
    NoSession,
    kMap2DPointBudget, kMap3DPointBudget,
    kMaxMapSampleCount,  \* indices count up to it
    Sky                  \* what each live sample of a flight may report: a sequence of
                         \* sets of places; its length bounds the samples of a flight

kLiveHistoryCompactTarget == kMap3DPointBudget
kLive3DCompactTarget == kMap3DPointBudget \div 2

ASSUME MapAssumption ==
    /\ kMap2DPointBudget \in Nat /\ kMap3DPointBudget \in Nat /\ kMaxMapSampleCount \in Nat
    /\ 2 <= kMap3DPointBudget /\ kMap3DPointBudget <= kMap2DPointBudget
    /\ kMap2DPointBudget <= kMaxMapSampleCount
    /\ NoSession \notin DOMAIN Recordings
    /\ \A f \in DOMAIN Recordings : Recordings[f] \in Seq(Samples) \ {<<>>}
    /\ Sky \in Seq(SUBSET Coordinates)

VARIABLES
    map,       \* the widget's members
    page,      \* the page's script: what it draws
    load       \* the load of the page under way: its events still to come

mapVars == <<map, page, load>>

NoPoint == [idx |-> -1]

cappedSourceIndices(n, budget) ==
    IF n <= budget \/ budget = 1 THEN [k \in 1 .. Min({n, budget}) |-> k]
    ELSE [k \in 1 .. budget |-> ((k - 1) * (n - 1)) \div (budget - 1) + 1]

capped(seq, budget) ==
    [k \in DOMAIN cappedSourceIndices(Len(seq), budget) |->
        seq[cappedSourceIndices(Len(seq), budget)[k]]]

\* isUsableMapPoint
isUsableMapPoint(sample) == valid(sample)

\* mapPointPayload of a usable sample
Point(sample, index, traj) ==
    [idx |-> index, place |-> sample.place, shown |-> coordinateAt(traj, index, sample),
     segment |-> segmentAt(traj, index)]

\* The points of the entries that can be drawn.
Points(entries, traj) ==
    LET usable == AtPlaces(entries, {k \in DOMAIN entries : isUsableMapPoint(entries[k].sample)})
    IN  [k \in DOMAIN usable |-> Point(usable[k].sample, usable[k].sampleIndex, traj)]

Entries(samples) == [k \in DOMAIN samples |-> [sample |-> samples[k], sampleIndex |-> k - 1]]

-----------------------------------------------------------------------------
(* The page: window.addPoints, loadSession, setTrailLength and clearAll *)

Nothing == [path |-> <<>>, path3d |-> <<>>, total |-> 0, trail |-> 0, exact |-> NoPoint]

addPoints(p, batch) ==
    LET kept(seq) == IF batch.replace THEN <<>> ELSE seq
        total == IF batch.replace \/ batch.total > p.total THEN batch.total ELSE p.total
    IN  [p EXCEPT !.path = capped(kept(@) \o batch.path, kMap2DPointBudget),
                  !.path3d = capped(kept(@) \o batch.path3d, kMap3DPointBudget),
                  !.total = total, !.trail = total, !.exact = NoPoint]

loadSession(p, flight) ==
    [p EXCEPT !.path = capped(flight.path, kMap2DPointBudget),
              !.path3d = capped(flight.path3d, kMap3DPointBudget),
              !.total = flight.total, !.trail = flight.total, !.exact = NoPoint]

showTrail(p, length, current) ==
    [p EXCEPT !.trail = Min({length, p.total}), !.exact = current]

clearAll(p) == Nothing

-----------------------------------------------------------------------------
(* The widget *)

Active(m) == m.mapReady /\ m.visible

scheduleMapUpdate(m) == [m EXCEPT !.updateTimer = @ \/ Active(m)]

NoLive(m) ==
    [m EXCEPT !.trajectory = Untravelled, !.samples = <<>>, !.total = 0, !.received = 0,
              !.lastPublished = -1, !.published3D = 0]

\* loadMapPage; the resource of the page is embedded, so that opening it succeeds.
Loading(m) ==
    [m EXCEPT !.watchdog = FALSE, !.mapReady = FALSE, !.attempt = TRUE,
              !.sessionPending = m.session # NoSession,
              !.snapshotPending = m.samples # <<>>,
              !.liveUpdatePending = m.total > 0,
              !.error = FALSE]

showMapLoadError(m) ==
    [m EXCEPT !.watchdog = FALSE, !.mapReady = FALSE, !.attempt = FALSE, !.error = TRUE]

\* A new load begins; the one before may still have its end reported.
StartLoad ==
    load' = [finish |-> TRUE, ready |-> TRUE, stale |-> load.stale \/ load.finish]

rebaseLiveHistoryIndices(m) ==
    LET indices == [k \in DOMAIN m.samples |-> m.samples[k].sampleIndex]
    IN  [m EXCEPT !.trajectory = rebaseIndices(@, indices),
                  !.samples = [k \in DOMAIN @ |-> [m.samples[k] EXCEPT !.sampleIndex = k - 1]],
                  !.total = Len(m.samples), !.lastPublished = -1, !.published3D = 0,
                  !.snapshotPending = TRUE]

compactLiveHistory(m) ==
    LET compacted == capped(m.samples, kLiveHistoryCompactTarget)
    IN  IF Len(m.samples) <= kMap2DPointBudget THEN m
        ELSE [m EXCEPT !.samples = compacted, !.snapshotPending = TRUE,
                       !.trajectory = retainSamples(@, [k \in DOMAIN compacted |->
                                                            compacted[k].sampleIndex])]

\* onLiveSamplesReceived of one sample; a batch is several of them without a flush between.
Received(m0, sample) ==
    LET m == IF m0.total >= kMaxMapSampleCount THEN rebaseLiveHistoryIndices(m0) ELSE m0
        taken == [m EXCEPT !.snapshotPending = @ \/ redraws(m.trajectory, sample, m.total),
                           !.trajectory = append(@, sample, m.total),
                           !.total = @ + 1, !.received = @ + 1,
                           !.samples = IF isUsableMapPoint(sample)
                                          THEN Append(@, [sample |-> sample, sampleIndex |-> m.total])
                                          ELSE @]
    IN  scheduleMapUpdate([compactLiveHistory(taken) EXCEPT !.liveUpdatePending = TRUE])

\* --- flushPendingUpdates: each part takes and gives the widget and the page ---

Cleared(s) ==
    IF ~s.map.clearPending THEN s
    ELSE [map |-> [s.map EXCEPT !.clearPending = FALSE], page |-> clearAll(s.page)]

\* The rows a map of a recorded flight shows, with a preview and without.
PathRows(m, budget) ==
    LET all == Entries(Recordings[m.session])
        placed == AtPlaces(all, {k \in DOMAIN all : /\ InRange(all[k].sample.place)
                                                     /\ all[k].sample.place # [lat |-> 0, lon |-> 0]})
    IN  IF m.preview THEN capped(placed, budget) ELSE capped(all, budget)

RecordedTrack(flight) ==
    LET samples == Recordings[flight]
        track[k \in 0 .. Len(samples)] ==
            IF k = 0 THEN Untravelled ELSE append(track[k - 1], samples[k], k - 1)
    IN  track[Len(samples)]

Trajectory(m) == IF m.preview THEN RecordedTrack(m.session) ELSE m.trajectory

SessionPayload(m) ==
    [path |-> Points(PathRows(m, kMap2DPointBudget), Trajectory(m)),
     path3d |-> Points(PathRows(m, kMap3DPointBudget), Trajectory(m)),
     total |-> Len(Recordings[m.session])]

sendPendingSession(s) ==
    IF ~s.map.sessionPending THEN s
    ELSE [map |-> [s.map EXCEPT !.sessionPending = FALSE],
          page |-> loadSession(s.page, SessionPayload(s.map))]

sendPendingLiveSamples(s) ==
    LET m == s.map
        unsent == AtPlaces(m.samples, {k \in DOMAIN m.samples :
                                           m.samples[k].sampleIndex > m.lastPublished})
        replace == m.snapshotPending \/ m.published3D + Len(unsent) > kMap3DPointBudget
        path == Points(IF replace THEN m.samples ELSE unsent, m.trajectory)
        path3d == Points(IF replace THEN capped(m.samples, kLive3DCompactTarget) ELSE unsent,
                         m.trajectory)
    IN  IF m.session # NoSession \/ ~m.liveUpdatePending THEN s
        ELSE [map |-> [m EXCEPT !.lastPublished = m.total - 1, !.snapshotPending = FALSE,
                                !.published3D = Len(path3d) + (IF replace THEN 0 ELSE @),
                                !.liveUpdatePending = FALSE],
              page |-> addPoints(s.page, [replace |-> replace, total |-> m.total,
                                          path |-> path, path3d |-> path3d])]

\* The sample a trail ends with, if it can be drawn.
TrailPoint(m) ==
    LET sample == Recordings[m.session][m.trail]
    IN  IF m.trail > 0 /\ isUsableMapPoint(sample)
           THEN Point(sample, m.trail - 1, Trajectory(m)) ELSE NoPoint

sendPendingTrailLength(s) ==
    IF s.map.session = NoSession \/ ~s.map.trailPending THEN s
    ELSE [map |-> [s.map EXCEPT !.trailPending = FALSE],
          page |-> showTrail(s.page, s.map.trail, TrailPoint(s.map))]

-----------------------------------------------------------------------------
(* Events *)

MapInit ==
    /\ map = [session |-> NoSession, preview |-> FALSE, trajectory |-> Untravelled,
              samples |-> <<>>, total |-> 0, received |-> 0, lastPublished |-> -1,
              published3D |-> 0, liveUpdatePending |-> FALSE, snapshotPending |-> TRUE,
              sessionPending |-> FALSE, trail |-> 0, trailPending |-> FALSE,
              clearPending |-> FALSE, mapReady |-> FALSE, attempt |-> FALSE, error |-> FALSE,
              visible |-> FALSE, updateTimer |-> FALSE, watchdog |-> FALSE]
    /\ page = Nothing
    /\ load = [finish |-> FALSE, ready |-> FALSE, stale |-> FALSE]

Bug_Shown1WaitsForNews(m) ==
    [m EXCEPT !.snapshotPending = m.samples # <<>>,
              !.liveUpdatePending = @ \/ m.total > 0]

\* showEvent once a load is under way: all of the history is to be published again.
Shown1(m) ==
    LET again == [m EXCEPT !.snapshotPending = m.samples # <<>>,
                           !.liveUpdatePending = @ \/ m.total > 0]
    IN  IF m.mapReady THEN scheduleMapUpdate(again) ELSE again

Bug_showEventLeavesWatchdog ==
    LET m == [map EXCEPT !.visible = TRUE]
    IN  /\ ~map.visible
        /\ IF ~m.mapReady /\ ~m.attempt
              THEN map' = Shown1(Loading(m)) /\ StartLoad /\ page' = Nothing
              ELSE map' = Shown1(m) /\ UNCHANGED <<load, page>>

showEvent ==
    LET m == [map EXCEPT !.visible = TRUE]
    IN  /\ ~map.visible
        /\ IF ~m.mapReady /\ ~m.attempt
              THEN map' = Shown1(Loading(m)) /\ StartLoad /\ page' = Nothing
              ELSE /\ map' = Shown1([m EXCEPT !.watchdog = @ \/ ~m.mapReady])
                   /\ UNCHANGED <<load, page>>

hideEvent ==
    /\ map.visible
    /\ map' = [map EXCEPT !.visible = FALSE, !.updateTimer = FALSE, !.watchdog = FALSE]
    /\ UNCHANGED <<page, load>>

\* The Retry button, which only the message of a failed load shows.
Retry ==
    /\ map.visible /\ map.error
    /\ map' = Loading(map) /\ StartLoad /\ page' = Nothing

\* onMapLoadFinished: of this load, or of one that it replaced.
onMapLoadFinished(succeeded) ==
    map' = IF ~map.attempt THEN map
           ELSE IF ~succeeded THEN showMapLoadError(map)
           ELSE [map EXCEPT !.watchdog = @ \/ (~map.mapReady /\ map.visible)]

LoadFinishes ==
    /\ load.finish /\ load' = [load EXCEPT !.finish = FALSE]
    /\ \E succeeded \in BOOLEAN : onMapLoadFinished(succeeded)
    /\ UNCHANGED page

OldLoadFinishes ==
    /\ load.stale /\ load' = [load EXCEPT !.stale = FALSE]
    /\ onMapLoadFinished(FALSE)
    /\ UNCHANGED page

\* The page's script has started and connected: onMapReady.
MapReady ==
    /\ load.ready /\ load' = [load EXCEPT !.ready = FALSE]
    /\ map' = LET m == [map EXCEPT !.watchdog = FALSE]
              IN  IF ~map.attempt \/ map.mapReady THEN m
                  ELSE scheduleMapUpdate([m EXCEPT !.attempt = FALSE, !.mapReady = TRUE,
                                                   !.snapshotPending = m.samples # <<>>,
                                                   !.liveUpdatePending = m.total > 0])
    /\ UNCHANGED page

ReadyTimeout ==
    /\ map.watchdog
    /\ map' = showMapLoadError(map)
    /\ UNCHANGED <<page, load>>

\* flushPendingUpdates: its parts in their order
Flush(m) ==
    \E cleared \in {Cleared([map |-> m, page |-> page])} :
    \E told \in {sendPendingSession(cleared)} :
    \E fed \in {sendPendingLiveSamples(told)} :
    \E trailed \in {sendPendingTrailLength(fed)} :
        map' = trailed.map /\ page' = trailed.page

\* The single-shot update timer.
UpdateTimeout ==
    /\ map.updateTimer
    /\ LET stopped == [map EXCEPT !.updateTimer = FALSE]
       IN  IF Active(map) THEN Flush(stopped) ELSE map' = stopped /\ UNCHANGED page
    /\ UNCHANGED load

\* One sample of the connected rocket; its clock ticks with each sample.
onSampleUpdated ==
    /\ map.received < Len(Sky)
    /\ \E place \in Sky[map.received + 1] :
           map' = IF map.session # NoSession THEN map
                  ELSE Received(map, [timestamp |-> map.received + 1, place |-> place, altitude |-> TRUE])
    /\ UNCHANGED <<page, load>>

setReplaySession ==
    /\ \E flight \in DOMAIN Recordings, preview \in BOOLEAN :
           map' = scheduleMapUpdate(
                      [NoLive(map) EXCEPT !.session = flight, !.preview = preview,
                          !.trajectory = IF preview THEN @ ELSE RecordedTrack(flight),
                          !.liveUpdatePending = FALSE, !.snapshotPending = TRUE,
                          !.clearPending = FALSE, !.sessionPending = TRUE,
                          !.trail = Len(Recordings[flight]), !.trailPending = TRUE])
    /\ UNCHANGED <<page, load>>

\* setReplaySession without a session, and onSessionReset.
onSessionReset ==
    /\ map' = scheduleMapUpdate(
                  [NoLive(map) EXCEPT !.session = NoSession, !.preview = FALSE,
                      !.liveUpdatePending = FALSE, !.snapshotPending = TRUE,
                      !.sessionPending = FALSE, !.trailPending = FALSE, !.clearPending = TRUE])
    /\ UNCHANGED <<page, load>>

setReplayTrailLength ==
    /\ map.session # NoSession
    /\ \E length \in 0 .. Len(Recordings[map.session]) :
           map' = scheduleMapUpdate([map EXCEPT !.trail = length, !.trailPending = TRUE])
    /\ UNCHANGED <<page, load>>

MapNext ==
    \/ showEvent \/ hideEvent \/ Retry
    \/ LoadFinishes \/ OldLoadFinishes \/ MapReady \/ ReadyTimeout
    \/ UpdateTimeout \/ onSampleUpdated \/ setReplaySession \/ onSessionReset \/ setReplayTrailLength

\* A load that began ends, and a timer that keeps running fires.  Of the update timer,
\* which always stops when it fires, this says what WF_mapVars(UpdateTimeout) says.
MapSpec ==
    /\ MapInit /\ [][MapNext]_mapVars
    /\ WF_mapVars(LoadFinishes) /\ WF_mapVars(ReadyTimeout) /\ []<>~map.updateTimer

-----------------------------------------------------------------------------

Pending(m) ==
    \/ m.clearPending \/ m.sessionPending
    \/ m.session = NoSession /\ m.liveUpdatePending
    \/ m.session # NoSession /\ m.trailPending

IsSubsequence(few, all) ==
    /\ \A k \in DOMAIN few : \E j \in DOMAIN all : all[j] = few[k]
    /\ \A j, k \in DOMAIN few : j < k => few[j].idx < few[k].idx

\* Map3DWidget and map3d.js: once nothing waits to be published, the page draws the
\* flight the widget has and no other: every kept sample where the trajectory now
\* places it, though only what was new had been sent, and though the history was
\* thinned or counted anew meanwhile; the same for the trail of a recorded flight.
PageShowsTheFlight ==
    map.mapReady /\ ~Pending(map) =>
        IF map.session = NoSession
        THEN LET drawn == Points(map.samples, map.trajectory)
             IN  /\ page.path = drawn
                 /\ page.total >= map.total /\ page.trail = page.total
                 /\ Len(page.path3d) <= kMap3DPointBudget
                 /\ IsSubsequence(page.path3d, drawn)
                 /\ drawn # <<>> => page.path3d # <<>>
                 /\ \A k \in DOMAIN drawn : drawn[k].idx < page.trail
        ELSE /\ page.path = SessionPayload(map).path
             /\ page.path3d = SessionPayload(map).path3d
             /\ page.trail = map.trail /\ page.exact = TrailPoint(map)

Drawn(m, e) == coordinateAt(m.trajectory, e.sampleIndex, e.sample)

\* compactLiveHistory and rebaseLiveHistoryIndices: a sample that was drawn between two
\* measured places stays where it was drawn as the flight goes on, whatever of the
\* history is thinned out and however often it is counted anew.
AlignedSamplesStay ==
    [][map'.received >= map.received =>
           \A i \in DOMAIN map.samples, j \in DOMAIN map'.samples :
               LET old == map.samples[i]
                   new == map'.samples[j]
               IN  old.sample = new.sample /\ Drawn(map, old) # old.sample.place
                       => Drawn(map', new) = Drawn(map, old)]_mapVars

\* scheduleMapUpdate: what waits to be published is published, unless the widget is hidden.
UpdatesArePublished == (Active(map) /\ Pending(map)) ~> (~Pending(map) \/ ~Active(map))

\* loadMapPage, onMapLoadFinished and the watchdog: a load the user looks at ends with a
\* map or with the message that offers to try again.
LoadsEnd == (map.visible /\ map.attempt) ~> (map.mapReady \/ map.error \/ ~map.visible)
=============================================================================
