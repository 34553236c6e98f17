----------------------------- MODULE ReplayView -----------------------------
(***************************************************************************)
(* What the user sees of a replay: ReplayBar, the chart of DashboardPage    *)
(* and the telemetry strip that MainWindow feeds, around one                *)
(* FlightReplayController.  They run on one thread; the interleavings are   *)
(* those of its event loop: the replay timer, the render timer, the strip's *)
(* 50 ms timer, posted calls, and the user.                                 *)
(*                                                                          *)
(* The widgets' state is the record "view".  A slot is an operator from     *)
(* record to record, and a handler delivers the controller's signals, in    *)
(* the order in which the slots are connected, before it goes on.           *)
(***************************************************************************)
EXTENDS ReplayController, SequencesExt

CONSTANTS
    PointBudget,    \* the samples a chart can show without grouping them
    MaxPosted,      \* bound: queued flushes of the chart
    MaxLive         \* bound: live samples that are told apart

ASSUME ViewAssumption ==
    PointBudget \in Nat \ {0} /\ MaxPosted \in Nat \ {0} /\ MaxLive \in Nat \ {0}

VARIABLES
    view,
    cause       \* history: what the last step was to the controller

viewVars == <<replay, view, cause>>

Caused(what) == cause' = [what |-> what, to |-> 0]

CausedTo(what, to) == cause' = [what |-> what, to |-> to]

\* A step that calls no method of the controller.
Untold == Caused("other") /\ UNCHANGED replay

Unbuilt == -1
Blank == [flight |-> NoFlight, trail |-> 0, look |-> 0]
NoSample == <<NoFlight, 0>>     \* emptyDisplayedSample
LiveSample == <<NoFlight, 1>>

replayBucket(f, trail) ==
    LET n == sampleCount(f)
        head == Clamped(trail, 0, n)
        stride == Greater(1, (n + PointBudget - 1) \div PointBudget)
    IN  IF head <= PointBudget THEN head ELSE (head - 1) \div stride

-----------------------------------------------------------------------------
(* DashboardPage: the render scheduler. *)

graphViewIsActive(v) == v.visible /\ v.stack = "graph"

Dirty(v) == IF v.replayMode THEN v.replayDirty ELSE v.liveDirty

scheduleRenderPass(v) == [v EXCEPT !.renderTimer = graphViewIsActive(v) /\ Dirty(v)]

rebuildReplayCharts(v) ==
    LET end == Lesser(v.trail, sampleCount(v.flight)) IN
    IF end <= 0
    THEN [v EXCEPT !.built = 0, !.bucket = 0, !.drawn = Blank]
    ELSE [v EXCEPT !.built = end, !.bucket = replayBucket(v.flight, end),
                   !.drawn = [flight |-> v.flight, trail |-> end, look |-> v.look]]

rebuildLiveSeriesFromHistory(v) ==
    [v EXCEPT !.drawn = IF v.live = 0 THEN Blank
                        ELSE [flight |-> NoFlight, trail |-> v.live, look |-> v.look]]

Rendered(v) ==
    IF v.replayMode THEN rebuildReplayCharts([v EXCEPT !.replayDirty = FALSE])
    ELSE rebuildLiveSeriesFromHistory([v EXCEPT !.liveDirty = FALSE])

processScheduledUpdates(v, due) ==
    IF ~v.visible THEN [v EXCEPT !.renderTimer = FALSE]
    ELSE scheduleRenderPass(IF v.stack = "graph" /\ Dirty(v) /\ due THEN Rendered(v) ELSE v)

Bug_flushReplayChartRebuildIfDirty(v, playing) ==
    IF playing \/ ~v.replayMode \/ ~v.replayDirty
    THEN v
    ELSE processScheduledUpdates([v EXCEPT !.replayDirty = TRUE], TRUE)

flushReplayChartRebuild(v, playing) ==
    IF playing \/ ~v.replayMode \/ (~v.replayDirty /\ v.built = v.trail)
    THEN v
    ELSE processScheduledUpdates([v EXCEPT !.replayDirty = TRUE], TRUE)

scheduleReplayChartRebuild(v) == scheduleRenderPass([v EXCEPT !.replayDirty = TRUE])

applyReplayControllerPosition(v, trail, playing) ==
    LET moved == [v EXCEPT !.trail = trail]
        bucket == replayBucket(v.flight, trail)
        known == v.flight # NoFlight
    IN  CASE playing /\ known /\ bucket = v.bucket ->
                scheduleRenderPass(
                    [moved EXCEPT !.replayDirty = @ \/ ~graphViewIsActive(v)])
          [] playing /\ ~(known /\ bucket = v.bucket) ->
                scheduleReplayChartRebuild(
                    [moved EXCEPT !.bucket = IF known THEN bucket ELSE @])
          [] ~playing /\ ~v.replayMode -> moved
          [] ~playing /\ v.replayMode /\ trail = v.built -> scheduleRenderPass(moved)
          [] ~playing /\ v.replayMode /\ trail # v.built -> scheduleReplayChartRebuild(moved)

-----------------------------------------------------------------------------
(* ReplayBar. *)

syncTransportChrome(v, playing) ==
    [v EXCEPT !.pill =
        IF ~v.replayMode \/ sampleCount(v.flight) = 0 THEN "hidden"
        ELSE IF playing THEN "playing"
        ELSE IF v.activity = "paused" THEN "paused" ELSE "stopped"]

BarPosition(v, trail) == [v EXCEPT !.slider = Clamped(trail, 0, sampleCount(v.flight))]

BarActivity(v, s) == syncTransportChrome([v EXCEPT !.activity = s.what], s.playing)

BarSession(v, f, playing) ==
    syncTransportChrome(
        [v EXCEPT !.flight = f, !.slider = sampleCount(f),
                  !.activity = IF sampleCount(f) > 0 THEN "ready" ELSE "idle"], playing)

-----------------------------------------------------------------------------
(* FlightDataModel and MainWindow's telemetry strip. *)

\* displayedSampleChanged also brings the graph up where there was nothing to show.
setDisplayedSample(v, sample) ==
    LET told == [v EXCEPT !.shown = sample] IN
    IF v.stack = "empty"
    THEN processScheduledUpdates([told EXCEPT !.stack = "graph"], TRUE)
    ELSE told

applyReplayTelemetrySample(v, trail) ==
    IF trail \in 1..sampleCount(v.loaded)
    THEN setDisplayedSample(v, <<v.loaded, trail>>) ELSE v

flushReplayTelemetryStrip(v, index) ==
    LET rested == [v EXCEPT !.stripTimer = FALSE] IN
    IF ~v.visible THEN rested
    ELSE IF index <= 0 THEN setDisplayedSample(rested, NoSample)
    ELSE applyReplayTelemetrySample(rested, index)

onReplayPositionChanged(v, trail, playing) ==
    LET noted == [v EXCEPT !.pending = trail, !.stripTimer = @ /\ trail > 0] IN
    IF ~v.visible THEN noted
    ELSE IF trail <= 0 THEN setDisplayedSample(noted, NoSample)
    ELSE IF trail > sampleCount(v.loaded) THEN noted
    ELSE IF playing THEN [noted EXCEPT !.stripTimer = TRUE]
    ELSE applyReplayTelemetrySample(noted, trail)

\* One signal of the controller, through the bar, the page and the window.
Deliver(v, s) ==
    CASE s.what = "position" ->
            onReplayPositionChanged(
                applyReplayControllerPosition(BarPosition(v, s.index), s.index, s.playing),
                s.index, s.playing)
      [] s.what = "paused" ->
            flushReplayTelemetryStrip(
                [BarActivity(v, s) EXCEPT !.posted = Lesser(@ + 1, MaxPosted)], s.index)
      [] s.what \in {"stopped", "finished"} ->
            flushReplayTelemetryStrip(
                flushReplayChartRebuild(BarActivity(v, s), s.playing), s.index)
      [] s.what \in {"started", "error"} -> BarActivity(v, s)

Told(v, c) == FoldLeft(Deliver, v, c.out)

-----------------------------------------------------------------------------
(* A new session. *)

\* DashboardPage::setReplaySession up to the point where it moves the controller.
PageSession(v, f, playing) ==
    LET n == sampleCount(f) IN
    [BarSession(v, f, playing) EXCEPT
        !.renderTimer = FALSE, !.liveDirty = FALSE, !.replayDirty = TRUE,
        !.stack = IF n > 0 /\ @ = "empty" THEN "graph"
                  ELSE IF n = 0 /\ v.live = 0 THEN "empty" ELSE @,
        !.trail = n, !.built = Unbuilt, !.bucket = Unbuilt]

NoPageSession(v, playing) ==
    processScheduledUpdates(PageSession(v, NoFlight, playing), TRUE)

\* FlightDataModel::resetSession, heard by DashboardPage::onSessionReset.
resetSession(v, playing) ==
    NoPageSession([v EXCEPT !.live = 0, !.drawn = Blank, !.shown = NoSample], playing)

setReplayMode(v, on, playing) ==
    IF v.replayMode = on THEN v
    ELSE syncTransportChrome([v EXCEPT !.replayMode = on], playing)

\* The end of a load of MainWindow::loadFlightLogAsync.
FlightLoaded(f) ==
    LET emptied == setReplayMode(
                       resetSession([view EXCEPT !.loaded = f, !.feeding = FALSE],
                                    replay.playing), TRUE, replay.playing)
        begun == setSession(Quiet(replay), f)
        paged == PageSession(Told(emptied, begun), f, begun.playing)
        ended == setPosition(Quiet(begun), sampleCount(f))
    IN  /\ Caused("load")
        /\ replay' = Quiet(ended)
        /\ view' = processScheduledUpdates(Told(paged, ended), TRUE)

\* The replay part that onClearFlightData and prepareLiveSession share.
EndReplay(feeding) ==
    LET stopped == stop(Quiet(replay))
        closed == setSession(Quiet(stopped), NoFlight)
        quiet == Told([Told(view, stopped) EXCEPT !.loaded = NoFlight], closed)
        reset == resetSession(setReplayMode(quiet, FALSE, closed.playing), closed.playing)
    IN  /\ Caused("load")
        /\ replay' = Quiet(closed)
        /\ view' = NoPageSession([reset EXCEPT !.feeding = feeding], closed.playing)

onClearFlightData == EndReplay(FALSE)
prepareLiveSession == EndReplay(TRUE)

\* A batch of live samples reaches the page, and then the displayed sample.
LiveBatch ==
    /\ view.feeding
    /\ view' = setDisplayedSample(
                   scheduleRenderPass([view EXCEPT !.live = Lesser(@ + 1, MaxLive),
                                                   !.liveDirty = TRUE]), LiveSample)
    /\ Untold

-----------------------------------------------------------------------------
(* The user. *)

ControlsUsable == view.visible /\ view.pill # "hidden" /\ view.posted < MaxPosted

\* The bar's buttons, shortcuts, speed list and slider, and a click on an event.
\* A slider moved by the user stands at its new place already.
UseControls ==
    /\ ControlsUsable
    /\ \/ /\ replay.playing /\ Caused("pause")
          /\ replay' = pause(Quiet(replay)) /\ view' = Told(view, replay')
       \/ /\ ~replay.playing /\ Caused("play")
          /\ replay' = play(Quiet(replay)) /\ view' = Told(view, replay')
       \/ /\ Caused("stop")
          /\ replay' = stop(Quiet(replay)) /\ view' = Told(view, replay')
       \/ \E asked \in AskedSpeeds :
            /\ CausedTo("speed", normalizedSpeed(asked))
            /\ replay' = setSpeed(Quiet(replay), asked) /\ view' = Told(view, replay')
       \/ \E trail \in 0..sampleCount(view.flight) :
            /\ trail # view.slider
            /\ CausedTo("seek", trail)
            /\ replay' = setPosition(Quiet(replay), trail)
            /\ view' = Told([view EXCEPT !.slider = trail], replay')

Bug_OpenDashboardShowsOldSample ==
    /\ view' = processScheduledUpdates([view EXCEPT !.visible = TRUE], TRUE)
    /\ Untold

OpenDashboard ==
    LET opened == IF view.visible THEN view
                  ELSE processScheduledUpdates([view EXCEPT !.visible = TRUE], TRUE)
    IN  /\ view' = (IF ~view.replayMode THEN opened
                    ELSE IF replay.index <= 0 THEN setDisplayedSample(opened, NoSample)
                    ELSE applyReplayTelemetrySample(opened, replay.index))
        /\ Untold

LeaveDashboard ==
    /\ view' = [view EXCEPT !.visible = FALSE, !.stripTimer = FALSE]
    /\ Untold

ChooseView ==
    /\ view.visible
    /\ \E side \in {"graph", "map"} :
        view' = processScheduledUpdates(
                    [view EXCEPT !.stack =
                        IF side = "graph" /\ view.live = 0 /\ view.flight = NoFlight
                        THEN "empty" ELSE side], TRUE)
    /\ Untold

\* Other units or traces are drawn at once (refreshAllSeriesFromData), another
\* zoom when the scheduler comes round to it.
Restyle ==
    LET other == [view EXCEPT !.look = 1 - @]
        marked == IF view.replayMode THEN [other EXCEPT !.replayDirty = TRUE]
                  ELSE [other EXCEPT !.liveDirty = TRUE]
    IN  /\ \/ view' = processScheduledUpdates(marked, TRUE)
           \/ graphViewIsActive(view) /\ view' = scheduleRenderPass(marked)
        /\ Untold

-----------------------------------------------------------------------------
(* The event loop. *)

\* The render timer may fire before the interval is over; it is then started again.
RenderTick(due) ==
    /\ view.renderTimer
    /\ view' = processScheduledUpdates(view, due)
    /\ Untold

applyPendingReplayTelemetryStrip ==
    /\ view.stripTimer
    /\ view' = (IF view.visible
                THEN applyReplayTelemetrySample([view EXCEPT !.stripTimer = FALSE], view.pending)
                ELSE [view EXCEPT !.stripTimer = FALSE])
    /\ Untold

PostedFlush ==
    /\ view.posted > 0
    /\ view' = flushReplayChartRebuild([view EXCEPT !.posted = @ - 1], replay.playing)
    /\ Untold

ReplayTick ==
    /\ onTimerTick
    /\ Caused("tick")
    /\ view' = Told(view, replay')

TimePasses == ClockAdvances /\ Caused("clock") /\ UNCHANGED view

ViewInit ==
    /\ Init
    /\ cause = [what |-> "other", to |-> 0]
    /\ view = [replayMode |-> FALSE, loaded |-> NoFlight, feeding |-> FALSE,
               visible |-> TRUE, stack |-> "empty", flight |-> NoFlight, live |-> 0,
               trail |-> 0, built |-> Unbuilt, bucket |-> Unbuilt, look |-> 0,
               replayDirty |-> FALSE, liveDirty |-> FALSE, renderTimer |-> FALSE,
               drawn |-> Blank, posted |-> 0,
               slider |-> 0, activity |-> "ready", pill |-> "hidden",
               shown |-> NoSample, pending |-> 0, stripTimer |-> FALSE]

ViewNext ==
    \/ \E f \in Flights : FlightLoaded(f)
    \/ onClearFlightData \/ prepareLiveSession \/ LiveBatch
    \/ UseControls \/ OpenDashboard \/ LeaveDashboard \/ ChooseView \/ Restyle
    \/ \E due \in BOOLEAN : RenderTick(due)
    \/ applyPendingReplayTelemetryStrip \/ PostedFlush \/ ReplayTick \/ TimePasses

\* A tick that finds nothing to do.
onTimerTickIdle == synchronizePlayback(Quiet(replay)) = replay

\* Real time passes, and the event loop serves the replay timer.  The second is
\* weak fairness with its guard spelt out, because TLC would work ENABLED out at
\* great length from the handlers.  The user owes nothing.
ViewSpec ==
    /\ ViewInit /\ [][ViewNext]_viewVars
    /\ WF_viewVars(TimePasses)
    /\ []<>(~replay.timer \/ onTimerTickIdle) \/ []<><<ReplayTick>>_replay

-----------------------------------------------------------------------------
Charts == [flight : Flights \union {NoFlight}, trail : Nat, look : {0, 1}]

ViewTypeOK ==
    /\ TypeOK
    /\ cause \in [what : {"clock", "tick", "pause", "speed", "play", "stop", "seek",
                          "load", "other"}, to : Nat]
    /\ view \in [replayMode : BOOLEAN, loaded : Flights \union {NoFlight}, feeding : BOOLEAN,
                 visible : BOOLEAN, stack : {"empty", "graph", "map"},
                 flight : Flights \union {NoFlight}, live : 0..MaxLive,
                 trail : Nat, built : Nat \union {Unbuilt}, bucket : Nat \union {Unbuilt},
                 look : {0, 1}, replayDirty : BOOLEAN, liveDirty : BOOLEAN,
                 renderTimer : BOOLEAN, drawn : Charts, posted : 0..MaxPosted,
                 slider : Nat, pending : Nat, stripTimer : BOOLEAN,
                 activity : {"ready", "idle", "started", "paused", "stopped", "finished", "error"},
                 pill : {"hidden", "playing", "paused", "stopped"},
                 shown : (Flights \union {NoFlight}) \X Nat]

\* The bar and the strip agree with the controller: the slider stands where the
\* trail ends, "playing" is shown exactly while it plays, the strip shows the
\* last sample of the trail or will when its timer fires, and all of them speak
\* of the flight the controller has.
ControlsTellTheTruth ==
    view.replayMode =>
        /\ view.flight = replay.flight /\ view.loaded = replay.flight
        /\ view.slider = replay.index /\ view.trail = replay.index
        /\ view.pill = "playing" <=> replay.playing
        /\ view.visible =>
            \/ view.shown = (IF replay.index = 0 THEN NoSample
                             ELSE <<replay.flight, replay.index>>)
            \/ replay.playing /\ view.stripTimer /\ view.pending = replay.index

\* What should be on the chart.
Due == IF view.replayMode
       THEN [flight |-> replay.flight, trail |-> replay.index, look |-> view.look]
       ELSE [flight |-> NoFlight, trail |-> view.live, look |-> view.look]

Shows(chart, due) == IF due.trail = 0 THEN chart = Blank ELSE chart = due

\* While the graph is in view the chart is right, up to the samples a playing
\* replay groups together, or a redraw is on its way - even though most
\* positions of a replay never redraw it.
NothingStaysStale ==
    graphViewIsActive(view) =>
        \/ Shows(view.drawn, Due)
        \/ view.renderTimer
        \/ ~replay.playing /\ view.replayMode /\ view.posted > 0
        \/ /\ replay.playing
           /\ Shows(view.drawn, [Due EXCEPT !.trail = view.drawn.trail])
           /\ replayBucket(replay.flight, view.drawn.trail)
                = replayBucket(replay.flight, replay.index)

Abstract == INSTANCE Playhead WITH
    head <- playbackTimeAt(replay), marks <- timeline(replay.flight),
    rate <- replay.speed, running <- replay.playing

\* The controller is a playhead: it writes down the time it has reached only when
\* it synchronises, and yet late ticks, pauses, changes of speed and the end of
\* the flight neither lose nor gain time; only the clock moves it on, and a seek, a
\* stop, a start from the end or another flight to the very place that it names.
KeepsTime == Abstract!Spec

\* A replay that nobody pauses comes to its end, at any speed, in spite of the
\* seeks and changes of speed that move its anchor.
PlaybackEnds == replay.playing ~> ~replay.playing
=============================================================================
