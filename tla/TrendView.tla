----------------------------- MODULE TrendView -----------------------------
(* The trend charts of the chart dialog: which part of the loaded range is     *)
(* looked at (zoom, drag, buttons, overview brush), which tiles of detail are  *)
(* fetched for it (telemetry-tiles.ts), what is told to be missing or offline  *)
(* (telemetry-continuity.ts), which points are drawn (chart-parts.tsx) and the *)
(* playback over them (SensorChartModal.tsx).  Time is counted in ticks of a   *)
(* second, the shortest step the code knows; the loaded range and its points   *)
(* are those of ClientChart.                                                   *)
EXTENDS Integers, Sequences, FiniteSets, SequencesExt, FiniteSetsExt, TLC

CONSTANTS
  Histories,    \* what a device may have sent: [readings, bands], readings a function from ticks to values above 0
  Span,         \* the length of the loaded range
  NextReading,  \* ticks from the end of the range to the next live reading
  Bucket,       \* ticks of a bucket of the loaded range, 0 when its points are raw
  MinView,      \* TREND_MIN_VIEW_WINDOW_MS, and ...
  MinViewSteps, \* ... how many steps a view has at least (8 in the code)
  ZoomStep,     \* TREND_ZOOM_STEP
  GapFloor,     \* the least gap that is told: function of the length of the view
  Levels,       \* the levels of detail, finest first: [view, tile]
  TileCap,      \* DETAIL_TILE_MAX_TILES_PER_PASS
  MaxPoints,    \* how many points are drawn, in ...
  PixelTiles,   \* ... how many tiles of pixels
  TrendBudget,  \* bound: gestures, live readings, failures
  NoTrend

VARIABLES
  view,     \* the loaded range and what is looked at
  tiles,    \* the detail tiles
  drawn,    \* the rows that are drawn, and their step
  player,   \* the playback
  tbudget   \* what is left of the budget
tvars == <<view, tiles, drawn, player, tbudget>>

Round(a, b) == (2 * a + b) \div (2 * b)
Ceil(a, b) == (a + b - 1) \div b
Within(t, w) == Max({w.from, Min({t, w.to})})
Extent(w) == w.to - w.from
Crosses(a, b) == Max({a.from, b.from}) < Min({a.to, b.to})

-----------------------------------------------------------------------------
(* Rows: a tick, a value (0 for none) and what the value covers.               *)

Row(t, v, from, to) == [ts |-> t, v |-> v, from |-> from, to |-> to]
Null(t) == Row(t, 0, t, t)
HasValue(row) == row.v # 0
Listed(S, Before(_, _)) == SortSeq(FoldSet(LAMBDA x, seen : Append(seen, x), <<>>, S), Before)
Ordered(rows) == Listed(rows, LAMBDA a, b : a.ts < b.ts)
Steps(rows) == LET s == Ordered(rows) IN [i \in 1 .. Len(s) - 1 |-> s[i + 1].ts - s[i].ts]
Median(steps) == SortSeq(steps, LAMBDA a, b : a < b)[Len(steps) \div 2 + 1]

\* Empty rows mark both edges of the window and of every hole.
StitchDenseRowsWithGaps(rows, w, step, gap) ==
  LET at == {r.ts : r \in rows}
      Before(t) == Max({w.from} \cup {u \in at : u < t})
      holes == {t \in at : t - Before(t) > gap}
      last == Max({w.from} \cup at)
      edges == (UNION {{Before(t) + step, t - step} : t \in holes}) \cup (IF at # {} /\ w.to - last > gap THEN {Min({w.to, last + step})} ELSE {})
  IN  rows \cup {Null(t) : t \in (edges \cup {w.from, w.to}) \ at}

BuildDenseTelemetryRows(points, w) ==
  LET rows == {[p EXCEPT !.ts = Within(@, w)] : p \in {q \in points : q.to >= w.from /\ q.from <= w.to}}
      unique == {r \in rows : \A s \in rows : s.ts = r.ts => s.from <= r.from}
      step == IF Cardinality(unique) > 1 THEN Median(Steps(unique)) ELSE Max({1, Round(Extent(w), 240)})
  IN  StitchDenseRowsWithGaps(unique, w, step, Max({2, 2 * step}))

EstimateGapStep(rows, w) ==
  LET valued == {r \in rows : HasValue(r)}
      most == Max({1, Extent(w) \div 4})
  IN  IF Cardinality(valued) < 2 THEN most ELSE Min({most, Median(Steps(valued))})

\* The rows of a step the user chose: each stands for its bucket at the bucket's start.
BucketDenseTelemetryRows(rows, step, w) ==
  LET seen == {r \in rows : HasValue(r) /\ w.from <= r.ts /\ r.ts <= w.to}
      At(r) == w.from + ((r.ts - w.from) \div step) * step
      Mean(t) == LET b == {r \in seen : At(r) = t} IN Max({1, MapThenSumSet(LAMBDA r : r.v, b) \div Cardinality(b)})
  IN  StitchDenseRowsWithGaps({Row(t, Mean(t), t, t) : t \in {At(r) : r \in seen}}, w, step, 2 * step)

-----------------------------------------------------------------------------
(* Bands: what is told to be missing or offline.                               *)

\* Segments that overlap or lie within the tolerance of each other become one.
MergeSegments(segments, tolerance) ==
  LET apart == {a \in segments : \A b \in segments : b.from < a.from => b.to + tolerance < a.from}
      Next2(a) == {b.from : b \in {c \in apart : c.from > a.from}}
      Group(a) == {b \in segments : b.from >= a.from /\ (Next2(a) = {} \/ b.from < Min(Next2(a)))}
  IN  {[from |-> a.from, to |-> Max({b.to : b \in Group(a)})] : a \in apart}

MissingDataThreshold(w, step) == Max({GapFloor[Extent(w)], 3 * step})
\* Mutant: the rows that mark a hole cover it.
EveryRow(rows) == rows
CoveringRows(rows) == {r \in rows : HasValue(r)}
Coverage(rows, w, tolerance) ==
  MergeSegments({[from |-> Within(r.from, w), to |-> Within(r.to, w)] : r \in {s \in CoveringRows(rows) : s.to >= w.from /\ s.from <= w.to}}, tolerance)
GapsOf(band, coverage, threshold) ==
  LET inside == {[from |-> Within(c.from, band), to |-> Within(c.to, band)] : c \in {d \in coverage : d.to >= band.from /\ d.from <= band.to}}
      Until(t) == Max({band.from} \cup {c.to : c \in {d \in inside : d.from < t}})
      ends == {c.from : c \in inside} \cup {band.to}
  IN  {[from |-> Until(t), to |-> t] : t \in {u \in ends : u - Until(u) > threshold}}
BuildMissingDataBands(rows, bands, step, w) ==
  LET tolerance == Max({1, Round(step, 4)})
      coverage == Coverage(rows, w, tolerance)  threshold == MissingDataThreshold(w, step)
      online == {[from |-> Within(b.from, w), to |-> Within(b.to, w)] : b \in {c \in bands : c.status = "online"}}
  IN  MergeSegments(UNION {GapsOf(b, coverage, threshold) : b \in online}, tolerance)
OfflineBands(bands, step, w) ==
  LET clipped == {[from |-> Within(b.from, w), to |-> Within(b.to, w)] : b \in {c \in bands : c.status = "offline"}}
  IN  MergeSegments({b \in clipped : Extent(b) >= Max({1, step, Round(Extent(w), 200)})}, step)
\* A time the server was down is not told where there are readings.
ConflictChecked(bands, rows) == {b \in bands : b.reason = "server" => \A r \in rows : HasValue(r) => ~(b.from <= r.ts /\ r.ts <= b.to)}

-----------------------------------------------------------------------------
(* What is drawn.                                                              *)

ThinSampleIndices(indices, count) ==
  LET n == Len(indices)
  IN  IF n <= count THEN ToSet(indices)
      ELSE {indices[1], indices[n]} \cup {indices[Round(i * (n - 1), count - 1) + 1] : i \in 1 .. count - 2}
BuildTiledTrendRows(rows) ==
  LET s == Ordered(rows)  n == Len(s)
      size == Ceil(n, Min({PixelTiles, n}))
      Tile(a) == a .. Min({n, a + size - 1})
      Stride(a) == Max({1, Cardinality(Tile(a)) \div Max({3, Ceil(MaxPoints, PixelTiles)})})
      valued == {i \in 1 .. n : HasValue(s[i])}
      Ends(I) == IF I = {} THEN {} ELSE {Min(I), Max(I)}
      Extremes(I) == IF I = {} THEN {} ELSE LET v == {s[i].v : i \in I} IN {Min({i \in I : s[i].v = Min(v)}), Min({i \in I : s[i].v = Max(v)})}
      Selected(a) == Ends(Tile(a)) \cup {i \in Tile(a) : (i - a) % Stride(a) = 0} \cup Extremes(Tile(a) \cap valued) \cup Ends(Tile(a) \ valued)
      critical == {1, n} \cup (IF valued = {} THEN {} ELSE {Max(valued)})
      selected == critical \cup UNION {Selected(a) : a \in {k * size + 1 : k \in 0 .. (n - 1) \div size}}
      kept == critical \cup ThinSampleIndices(Listed(selected, <), MaxPoints)
  IN  IF n <= MaxPoints \/ n <= 2 THEN rows ELSE {s[i] : i \in kept}
\* A line is broken where something offline or missing lies between two points.
Broken(a, b, bands) == \E x \in bands : Crosses(x, [from |-> a.ts, to |-> b.ts])
BuildPlottedTrendSeries(rows, bands) ==
  LET s == Ordered({r \in rows : HasValue(r)})
      starts == {i \in DOMAIN s : i = 1 \/ Broken(s[i - 1], s[i], bands)}
      End(i) == Min({Len(s)} \cup {j - 1 : j \in {k \in starts : k > i}})
  IN  {{s[k].ts : k \in i .. End(i)} : i \in starts}

-----------------------------------------------------------------------------
(* The view of a loaded range.                                                 *)

ClampTrendViewport(asked, bounds, least) ==
  LET length == Min({Extent(bounds), Max({Max({1, Min({Extent(bounds), least})}), Extent(asked)})})
      from == Max({bounds.from, Min({asked.from, bounds.to - length})})
  IN  [from |-> from, to |-> from + length]
Readings(v) == {t \in DOMAIN v.history.readings : v.loaded.from <= t /\ t <= v.loaded.to}
Raw(v, at) == {Row(t, v.history.readings[t], t, t) : t \in at}
TimelinePoints(v) ==
  IF Bucket = 0 THEN Raw(v, Readings(v))
  ELSE {Row(b * Bucket + Bucket \div 2, Max({v.history.readings[t] : t \in {u \in Readings(v) : u \div Bucket = b}}), b * Bucket, (b + 1) * Bucket)
          : b \in {t \div Bucket : t \in Readings(v)}}
\* The rows of the loaded range and their step, kept until the range changes.
Timeline(v) ==
  LET rows == BuildDenseTelemetryRows(TimelinePoints(v), v.loaded) IN [v EXCEPT !.rows = rows, !.gap = EstimateGapStep(rows, v.loaded)]
MinViewWindow(v) == Min({Extent(v.loaded), Max({MinView, v.gap * MinViewSteps})})
Placed(v) == [v EXCEPT !.shown = ClampTrendViewport(IF v.window = NoTrend THEN v.loaded ELSE v.window, v.loaded, MinViewWindow(v))]

-----------------------------------------------------------------------------
(* Tiles of detail.                                                            *)

DetailLevel(shown, loaded) ==
  LET fits == {i \in DOMAIN Levels : Extent(shown) <= Levels[i].view}
      large == Levels[Len(Levels)].view
  IN  IF fits = {} \/ ~(4 * Extent(shown) <= 3 * Extent(loaded) \/ 2 * Extent(loaded) <= large) THEN NoTrend ELSE Min(fits)
DetailMode(v) == DetailLevel(v.shown, v.loaded)
Tile(v, level, from, to) == [range |-> v.range, level |-> level, from |-> from, to |-> to]
BuildTileRequests(v, cached) ==
  LET shown == v.shown  level == DetailMode(v)  size == Levels[level].tile
      ahead == Round(15 * Extent(shown), 100)
      fetch == [from |-> Max({v.loaded.from, shown.from - ahead}), to |-> Min({v.loaded.to, shown.to + ahead})]
      cut == {Tile(v, level, Max({v.loaded.from, k * size}), Min({v.loaded.to, (k + 1) * size})) : k \in (fetch.from \div size) .. (fetch.to \div size)}
      asked == Listed({t \in cut : t.from < t.to /\ t.to > fetch.from /\ t.from < fetch.to} \ cached, LAMBDA a, b : a.from < b.from)
  IN  SubSeq(asked, 1, Min({TileCap, Len(asked)}))

ResetDetailTileCache == [cache |-> {}, flying |-> {}, passes |-> {}, timer |-> <<>>, phase |-> "idle", level |-> NoTrend, lost |-> {}]
Superseded(passes) == {[p EXCEPT !.live = FALSE] : p \in passes}
\* The effect that runs when the view, the range or the panning changed.
FetchTiles(v, t) ==
  IF v.panning THEN [t EXCEPT !.timer = <<>>]
  ELSE IF DetailMode(v) = NoTrend THEN [t EXCEPT !.timer = <<>>, !.phase = "idle", !.level = NoTrend]
  ELSE LET asked == BuildTileRequests(v, t.cache \cup t.flying)
       IN  IF asked = <<>> THEN [t EXCEPT !.timer = <<>>, !.phase = "ready", !.level = DetailMode(v), !.lost = {}]
           ELSE [t EXCEPT !.timer = asked, !.phase = "queued", !.level = DetailMode(v), !.lost = {}, !.passes = Superseded(@)]
Deps(v) == <<v.range, v.loaded, v.panning, v.shown>>

Next1(pass, t) ==
  IF pass.todo = <<>> THEN t
  ELSE [t EXCEPT !.passes = @ \cup {[todo |-> Tail(pass.todo), tile |-> Head(pass.todo), live |-> TRUE]}, !.flying = @ \cup {Head(pass.todo)}]
\* Mutant: a tile that was asked for counts as on its way for ever.
FlightForgotten(p, ok) ==
  LET kept == ok /\ p.live
      landed == [tiles EXCEPT !.passes = @ \ {p}, !.cache = IF kept THEN @ \cup {p.tile} ELSE @, !.lost = IF kept THEN @ \ {p.tile} ELSE @ \cup {p.tile}]
  IN  IF p.live THEN Next1(p, [landed EXCEPT !.phase = IF p.todo = <<>> THEN "ready" ELSE "loading", !.level = p.tile.level]) ELSE landed
Landed(p, ok) ==
  LET kept == ok /\ p.live
      landed == [tiles EXCEPT !.passes = @ \ {p}, !.flying = @ \ {p.tile},
                              !.cache = IF kept THEN @ \cup {p.tile} ELSE @, !.lost = IF kept THEN @ \ {p.tile} ELSE @ \cup {p.tile}]
  IN  IF p.live THEN Next1(p, [landed EXCEPT !.phase = IF p.todo = <<>> THEN "ready" ELSE "loading", !.level = p.tile.level]) ELSE landed

\* The detail layer takes over as soon as one of its tiles has a reading.
DetailReadings(v, t) ==
  LET shown == v.shown
      fit == {c \in t.cache : c.range = v.range /\ c.level = DetailMode(v) /\ Crosses(c, shown)}
  IN  {r \in Readings(v) : Within(r, shown) = r /\ \E c \in fit : c.from <= r /\ r < c.to}
DetailActive(v, t) == DetailMode(v) # NoTrend /\ t.level = DetailMode(v) /\ DetailReadings(v, t) # {}
WithRealtimeTail(v, rows) ==
  LET newest == Max({r.ts : r \in {s \in rows : HasValue(s)}})
      tail == {r \in v.rows : r.ts > newest /\ HasValue(r)}
  IN  {r \in rows : \A s \in tail : s.ts # r.ts} \cup tail
Active(v, t) ==
  IF ~ DetailActive(v, t) THEN [rows |-> v.rows, step |-> v.gap]
  ELSE LET rows == WithRealtimeTail(v, BuildDenseTelemetryRows(Raw(v, DetailReadings(v, t)), v.shown))
       IN  [rows |-> rows, step |-> EstimateGapStep(rows, v.shown)]
DisplayRows(v, d) == IF v.step = 0 THEN d.rows ELSE BucketDenseTelemetryRows(d.rows, v.step, v.shown)
VisibleRows(v, d) == {r \in DisplayRows(v, d) : Within(r.ts, v.shown) = r.ts}
MissingBands(v, d) == BuildMissingDataBands(d.rows, v.history.bands, d.step, v.shown)
ShownOffline(v, d) == OfflineBands(ConflictChecked(v.history.bands, DisplayRows(v, d)), d.step, v.shown)
Lines(v, d) == BuildPlottedTrendSeries(BuildTiledTrendRows(VisibleRows(v, d)), MissingBands(v, d) \cup ShownOffline(v, d))

-----------------------------------------------------------------------------
(* What follows from a change in the same turn: tiles are asked for, a step    *)
(* finer than the rows falls back to automatic, a playback of nothing stops.   *)

PlaybackRows(v, d) == {r.ts : r \in {s \in VisibleRows(v, d) : HasValue(s)}}
StopPlayback(p) == [p EXCEPT !.running = FALSE, !.cursor = NoTrend]
Watched(p) == IF p.running /\ p.rows = {} THEN StopPlayback(p) ELSE p
CheckStep(v, d) == IF v.step # 0 /\ v.step < d.step THEN [v EXCEPT !.step = 0] ELSE v
Settled(v, t, p) ==
  /\ tiles' = t /\ drawn' = Active(v, t)
  /\ view' = CheckStep(v, drawn')
  /\ player' = Watched([p EXCEPT !.rows = PlaybackRows(view', drawn')])
Rendered(v) == \E w \in {Placed(v)} : Settled(w, IF Deps(w) = Deps(view) THEN tiles ELSE FetchTiles(w, tiles), player)
Gesture == tbudget > 0 /\ tbudget' = tbudget - 1

TileTimerFires ==
  /\ tiles.timer # <<>>
  /\ Settled(view, Next1([todo |-> tiles.timer], [tiles EXCEPT !.timer = <<>>, !.phase = "loading"]), player)
  /\ UNCHANGED tbudget
TileAnswered(p) ==
  \/ Settled(view, Landed(p, TRUE), player) /\ UNCHANGED tbudget
  \/ Settled(view, Landed(p, FALSE), player) /\ Gesture

-----------------------------------------------------------------------------
(* Gestures.                                                                   *)

Resized(anchor, out) ==
  LET shown == view.shown  at == Within(anchor, shown)
      length == Max({MinViewWindow(view), Min({Extent(view.loaded), IF out THEN Extent(shown) * ZoomStep ELSE Extent(shown) \div ZoomStep})})
      from == at - ((at - shown.from) * length) \div Extent(shown)
  IN  ClampTrendViewport([from |-> from, to |-> from + length], view.loaded, MinViewWindow(view))
PanChange(v, asked) ==
  LET to == ClampTrendViewport(asked, v.loaded, MinViewWindow(v)) IN IF to = v.shown THEN v ELSE [v EXCEPT !.window = to]
Shift(w, by) == [from |-> w.from + by, to |-> w.to + by]

Zoom(anchor, out) == Resized(anchor, out) # view.shown /\ Gesture /\ Rendered([view EXCEPT !.window = Resized(anchor, out)])
ResetToLatest ==
  Gesture /\ Rendered([view EXCEPT !.window = [from |-> view.loaded.to - Extent(view.shown), to |-> view.loaded.to]])
DragDown == view.drag = NoTrend /\ Gesture /\ Rendered([view EXCEPT !.drag = view.shown, !.panning = TRUE])
\* The drag counts from where it began, whatever the range has become.
DragMove(by) == view.drag # NoTrend /\ Rendered(PanChange(view, Shift(view.drag, by))) /\ UNCHANGED tbudget
DragUp == view.drag # NoTrend /\ Rendered([view EXCEPT !.drag = NoTrend, !.panning = FALSE]) /\ UNCHANGED tbudget

CanPan(dir) ==
  LET edge == Max({1, view.gap})
  IN  IF dir < 0 THEN view.shown.from > view.loaded.from + edge ELSE view.shown.to < view.loaded.to - edge
ButtonDown(dir) ==
  /\ view.button = 0 /\ CanPan(dir) /\ Gesture
  /\ Rendered([PanChange(view, Shift(view.shown, dir * Max({1, Extent(view.shown) \div 8}))) EXCEPT !.button = dir, !.panning = TRUE])
ButtonUp == view.button # 0 /\ Rendered([view EXCEPT !.button = 0, !.panning = FALSE]) /\ UNCHANGED tbudget
ButtonTick(by) ==
  /\ view.button # 0 /\ UNCHANGED tbudget
  /\ IF CanPan(view.button) THEN Rendered(PanChange(view, Shift(view.shown, view.button * by)))
     ELSE Rendered([view EXCEPT !.button = 0, !.panning = FALSE])

\* A range the brush gave last is not given again, even if the view moved since.
Emitted(asked) ==
  IF view.brush.last = asked THEN view ELSE PanChange([view EXCEPT !.brush = [pending |-> NoTrend, last |-> asked]], asked)
BrushMoved(w) ==
  /\ w # view.brush.last /\ Gesture /\ view' = [view EXCEPT !.brush.pending = w] /\ UNCHANGED <<tiles, drawn, player>>
BrushFrame == view.brush.pending # NoTrend /\ Rendered(Emitted(view.brush.pending)) /\ UNCHANGED tbudget
BrushEnd(w) == Gesture /\ Rendered(Emitted(w))
OverviewWheel(anchor, out) == Resized(anchor, out) # view.shown /\ Gesture /\ Rendered(Emitted(Resized(anchor, out)))

PickStep(step) == step # view.step /\ Gesture /\ Rendered([view EXCEPT !.step = step])

-----------------------------------------------------------------------------
(* What the loaded range brings.                                               *)

LiveReading ==
  LET now == view.loaded.to + NextReading IN
  /\ Gesture
  /\ Rendered(Timeline([view EXCEPT !.loaded = Shift(@, NextReading), !.history.readings = @ @@ (now :> 1)]))
NewRange(w) ==
  w # view.range /\ Gesture /\ Rendered(Timeline([view EXCEPT !.range = w, !.loaded = w, !.window = NoTrend]))
SwitchSensor(h) ==
  LET v == Placed(Timeline([view EXCEPT !.history = h, !.window = NoTrend, !.panning = FALSE, !.step = 0])) IN
  h # view.history /\ Gesture /\ Settled(v, FetchTiles(v, ResetDetailTileCache), [player EXCEPT !.open = FALSE, !.running = FALSE, !.cursor = NoTrend])

-----------------------------------------------------------------------------
(* The playback.                                                               *)

Open == ~player.open /\ player' = [player EXCEPT !.open = TRUE] /\ UNCHANGED <<view, tiles, drawn, tbudget>>
Close == player.open /\ player' = StopPlayback([player EXCEPT !.open = FALSE]) /\ UNCHANGED <<view, tiles, drawn, tbudget>>
Start ==
  /\ player.open /\ player.rows # {} /\ Gesture
  /\ player' = [player EXCEPT !.running = TRUE, !.cursor = IF @ \in player.rows /\ @ # Max(player.rows) THEN @ ELSE Min(player.rows)]
  /\ UNCHANGED <<view, tiles, drawn>>
Tick ==
  LET ahead == IF player.cursor \in player.rows THEN {t \in player.rows : t > player.cursor} ELSE player.rows
  IN  /\ player.running
      /\ player' = IF ahead = {} THEN StopPlayback(player) ELSE [player EXCEPT !.cursor = Min(ahead)]
      /\ UNCHANGED <<view, tiles, drawn, tbudget>>

-----------------------------------------------------------------------------
Ranges == {[from |-> 0, to |-> Span], [from |-> Span \div 2, to |-> Span]}
Anchors == {view.shown.from, view.shown.to}
TrendInit ==
  /\ view \in {Placed(Timeline([history |-> h, rows |-> {}, gap |-> 0, range |-> w, loaded |-> w, window |-> NoTrend, shown |-> w, panning |-> FALSE, drag |-> NoTrend, button |-> 0,
                 brush |-> [pending |-> NoTrend, last |-> NoTrend], step |-> 0])) : h \in Histories, w \in Ranges}
  /\ tiles = FetchTiles(view, ResetDetailTileCache) /\ drawn = Active(view, tiles)
  /\ player = [open |-> FALSE, running |-> FALSE, cursor |-> NoTrend, rows |-> PlaybackRows(view, drawn)]
  /\ tbudget = TrendBudget

TrendNext ==
  \/ \E out \in BOOLEAN, a \in Anchors : Zoom(a, out) \/ OverviewWheel(a, out)
  \/ ResetToLatest \/ DragDown \/ DragUp \/ ButtonUp \/ BrushFrame \/ LiveReading \/ Open \/ Close \/ Start \/ Tick \/ TileTimerFires
  \/ \E by \in {-MinView, MinView} : DragMove(by)
  \/ \E dir \in {-1, 1} : ButtonDown(dir)
  \/ \E by \in {1, 2} : ButtonTick(by)
  \/ \E w \in Ranges : BrushMoved(w) \/ BrushEnd(w) \/ NewRange(w)
  \/ \E step \in {0, Bucket, 2 * Bucket} : PickStep(step)
  \/ \E h \in Histories : SwitchSensor(h)
  \/ \E p \in tiles.passes : TileAnswered(p)
TrendFairness == WF_tvars(Tick)
TrendSpec == TrendInit /\ [][TrendNext]_tvars /\ TrendFairness

-----------------------------------------------------------------------------
(* What is told about the readings.                                            *)

\* While the timeline is drawn, or every tile of the view is there: where the
\* device was online, no two readings closer than the told threshold have
\* "no data" told between them, and no line joins two that are further apart
\* than it (but for rows of a step the user chose, which stand for a bucket).
Complete == ~DetailActive(view, tiles)
  \/ \A t \in Readings(view) : Within(t, view.shown) = t /\ t < view.loaded.to =>
       \E c \in tiles.cache : c.range = view.range /\ c.level = DetailMode(view) /\ c.from <= t /\ t < c.to
GapsAreTrue ==
  LET shown == {r \in drawn.rows : HasValue(r) /\ Within(r.ts, view.shown) = r.ts}
      step == drawn.step
      allowed == MissingDataThreshold(view.shown, step)
      near == allowed - 2 * Max({1, Round(step, 4)})
      told == MissingBands(view, drawn)
      lines == Lines(view, drawn)
      Follow(a, b) == a.ts < b.ts /\ \A c \in shown : ~(a.ts < c.ts /\ c.ts < b.ts)
      SameBand(a, b) == \E x \in view.history.bands : x.status = "online" /\ x.from <= a.ts /\ b.ts <= x.to
  IN  Complete /\ view.step = 0 =>
        \A a, b \in shown : Follow(a, b) /\ SameBand(a, b) =>
          /\ b.from - a.to <= near => ~ \E m \in told : Crosses(m, [from |-> a.to, to |-> b.from])
          /\ b.from - a.to > allowed => ~ \E line \in lines : {a.ts, b.ts} \subseteq line

\* A view said to be ready has every tile it shows or will be answered for it,
\* but for those that failed or were overtaken since tiles were last asked for.
Needed == {c \in ToSet(BuildTileRequests(view, {})) : Crosses(c, view.shown)}
ReadyMeansLoaded ==
  tiles.phase = "ready" /\ ~view.panning /\ DetailMode(view) # NoTrend => Needed \subseteq tiles.cache \cup tiles.lost \cup {p.tile : p \in tiles.passes}

=============================================================================
