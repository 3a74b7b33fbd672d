---------------------------- MODULE SpectrumPanel ----------------------------
(* The spectrum under the pointer (SensorChartModal.tsx, chart-parts.tsx):     *)
(* pointing at a row of a trend chart asks the server for the frame taken with *)
(* it, a click keeps it.  Requests carry a sequence number; a newer one, a     *)
(* leave or a release makes the answers of older ones unheard.  A frame is one *)
(* sequence of amplitudes per axis.                                            *)
EXTENDS Integers, Sequences, FiniteSets, FiniteSetsExt

CONSTANTS
  Charts,        \* devices whose chart may be opened
  RowsOf,        \* function from a device to its readings: [ts, uuid, vib]
  FrameOf,       \* function from a device and a time to its frame: [bins, hz, axes], axes from x, y, z to amplitudes
  Drawn,         \* times the pointer may be resolved to
  Shades,        \* bands [from, to] told as offline or missing
  Bars,          \* SPECTRUM_RENDER_BARS
  HoverDelta,    \* SPECTRUM_HOVER_FETCH_MIN_DELTA_MS
  FrameCache,    \* frames kept (160 in the code)
  HoverBudget,   \* bound: gestures
  Bodies,        \* sizes the dialog's body may take: [width, height, wallboard]
  Nothing

VARIABLES
  body,       \* its size and layout
  spectrum,   \* what is pointed at and shown
  frames,     \* the frames kept, oldest first: [key, points]
  fasks,      \* requests in flight: [id, device, key]
  hbudget
hvars == <<body, spectrum, frames, fasks, hbudget>>

Directions == {"x", "y", "z"}
Far(a, b) == IF a < b THEN b - a ELSE a - b

-----------------------------------------------------------------------------
(* How the body of the dialog is shared out: four trend charts, three spectra  *)
(* and the overview below them.                                                *)

HeightClass(h) == CASE h < 720 -> 1 [] h < 820 -> 2 [] h < 960 -> 3 [] h < 1120 -> 4 [] OTHER -> 5
\* What a gap or a padding measures on the wallboard, and in the five classes.
Size(at, wall, classes) == IF at.wallboard THEN wall ELSE classes[HeightClass(at.height)]
Rows(at) == [top |-> IF at.width < 760 THEN 4 ELSE 2, fft |-> IF at.width < 900 THEN 3 ELSE IF at.width < 1280 THEN 2 ELSE 1]
FixedContentHeight(at) ==
  LET n == Rows(at)
      title == Size(at, 10, <<1, 2, 2, 2, 3>>)  section == Size(at, 20, <<3, 4, 4, 4, 6>>)  grid == Size(at, 18, <<4, 5, 5, 5, 5>>)
      chart == Size(at, 46, [c \in 1 .. 5 |-> 18]) + title + Size(at, 32, <<5, 6, 6, 6, 9>>) + 2
      header == Size(at, 52, [c \in 1 .. 5 |-> 22]) + Size(at, 12, <<2, 3, 3, 3, 3>>)
      card == Size(at, 48, [c \in 1 .. 5 |-> 22]) + Size(at, 32, <<6, 7, 7, 7, 9>>) + Size(at, 24, <<5, 6, 6, 6, 6>>) + 2
      overview == Size(at, 48, [c \in 1 .. 5 |-> 22]) + title + Size(at, 34, <<8, 9, 9, 9, 11>>) + 2
  IN  Size(at, 32, <<5, 6, 6, 6, 10>>) + n.top * chart + (n.top - 1) * grid + section + header + n.fft * card + (n.fft - 1) * grid + section + overview
Least(at) == IF at.wallboard THEN [chart |-> 150, spectrum |-> 120, overview |-> 48] ELSE [chart |-> 96, spectrum |-> 80, overview |-> 28]
Percent(x, p) == (2 * x * p + 100) \div 200
Base(at) == [chart |-> <<112, 164, 138, 150, 164>>[HeightClass(at.height)], spectrum |-> <<84, 146, 102, 114, 128>>[HeightClass(at.height)], overview |-> 40]
Preferred(at) ==
  IF at.wallboard
  THEN [chart |-> Max({220, Min({320, Percent(at.height, 16)})}), spectrum |-> Max({160, Min({240, Percent(at.height, 12)})}), overview |-> Max({56, Min({84, Percent(at.height, 4)})})]
  ELSE Base(at)
Share(a, b) == a \div b
GetChartModalLayout(at) ==
  LET n == Rows(at)  least == Least(at)
      room == Max({0, at.height - FixedContentHeight(at)})
      needed == n.top * least.chart + n.fft * least.spectrum + least.overview
      scrolls == at.width < 900 \/ at.height < 640 \/ room < needed
      chart == least.chart + Share((room - needed) * 58, 100 * n.top)
      spectra == least.spectrum + Share((room - needed) * 42, 100 * n.fft)
      parts == IF scrolls THEN Preferred(at) ELSE [chart |-> chart, spectrum |-> spectra, overview |-> room - n.top * chart - n.fft * spectra]
  IN  [scrolls |-> scrolls, parts |-> parts,
       used |-> FixedContentHeight(at) + n.top * parts.chart + n.fft * parts.spectrum + parts.overview]

-----------------------------------------------------------------------------
(* From the pointer to a reading.                                              *)

\* The nearest time, the left one of two.
ResolveNearestTarget(times, t) ==
  LET nearest == {u \in times : \A w \in times : Far(u, t) <= Far(w, t)} IN Min(nearest)
\* Nothing is picked inside a told band.
HandlePointerMove(t) ==
  IF (\E b \in Shades : b.from <= t /\ t <= b.to) \/ Drawn = {} THEN Nothing ELSE ResolveNearestTarget(Drawn, t)
FindNearestTelemetrySnapshot(device, t) ==
  LET rows == RowsOf[device] IN IF rows = {} THEN Nothing ELSE CHOOSE r \in rows : r.ts = ResolveNearestTarget({q.ts : q \in rows}, t)

-----------------------------------------------------------------------------
(* From a frame to its bars.                                                   *)

Empty == [of |-> <<>>, frame |-> Nothing]
\* A frame counts only with all three axes.
ParseSpectrumFramePayload(device, t) ==
  IF t \notin DOMAIN FrameOf[device] \/ \E a \in Directions : FrameOf[device][t].axes[a] = <<>> THEN Empty
  ELSE [of |-> <<device, t>>, frame |-> FrameOf[device][t]]
ToSpectrumChartData(frame, axis) ==
  LET amps == frame.axes[axis]
      n == IF frame.bins > 0 THEN Max({1, Min({Len(amps), frame.bins})}) ELSE Len(amps)
  IN  [i \in 1 .. n |-> [freq |-> frame.hz * i, amp |-> Max({0, amps[i]})]]
FirstPeak(data) == data[Min({i \in DOMAIN data : \A j \in DOMAIN data : data[j].amp <= data[i].amp})]
DownsampleSpectrumChartData(data) ==
  IF Len(data) <= Bars THEN data
  ELSE LET size == (Len(data) + Bars - 1) \div Bars
       IN  [k \in 1 .. (Len(data) + size - 1) \div size |-> FirstPeak(SubSeq(data, (k - 1) * size + 1, Min({Len(data), k * size})))]
\* The height of the axis leaves room above the highest of the three peaks.
SpectrumAutoYAxisMax(frame) == (Max({FirstPeak(ToSpectrumChartData(frame, a)).amp : a \in Directions}) * 118) \div 100 + 1

-----------------------------------------------------------------------------
(* Requests.                                                                   *)

Gesture == hbudget > 0 /\ hbudget' = hbudget - 1
Kept(key) == {frames[i].points : i \in {j \in DOMAIN frames : frames[j].key = key}}
\* A time close to the last asked one is not asked for, but what led here has
\* already taken the earlier request back.
RequestSpectrumFrameAt(s, asks, t, force) ==
  LET key == <<s.device, t>> IN
  IF Kept(key) # {} /\ ~force
  THEN spectrum' = [s EXCEPT !.points = CHOOSE p \in Kept(key) : TRUE, !.loading = FALSE] /\ fasks' = asks
  ELSE IF ~force /\ s.last # Nothing /\ Far(s.last, t) < HoverDelta
  THEN spectrum' = s /\ fasks' = asks
  ELSE spectrum' = [s EXCEPT !.last = t, !.seq = @ + 1, !.loading = TRUE] /\ fasks' = {[id |-> s.seq + 1, device |-> s.device, at |-> t]}

\* What the pointer is on, given as the chart gives it: a row with an id of a
\* reading, or only a time.
Target(t) ==
  LET near == FindNearestTelemetrySnapshot(spectrum.device, t) IN
  IF near = Nothing THEN [at |-> t, vib |-> TRUE] ELSE [at |-> IF near.uuid THEN near.ts ELSE t, vib |-> near.vib]
HandleTelemetryChartHover(t) ==
  LET target == Target(t)
      moved == [spectrum EXCEPT !.target = target.at, !.seq = @ + 1]
  IN  /\ ~spectrum.pinned /\ Gesture /\ UNCHANGED <<body, frames>>
      /\ IF ~target.vib THEN spectrum' = [moved EXCEPT !.points = Empty, !.loading = FALSE] /\ fasks' = {}
         ELSE RequestSpectrumFrameAt([moved EXCEPT !.loading = TRUE], {}, target.at, FALSE)
HandleTelemetryChartPin(t) ==
  LET target == Target(t)
      moved == [spectrum EXCEPT !.target = target.at, !.seq = @ + 1, !.pinned = TRUE, !.points = Empty, !.loading = FALSE]
  IN  /\ Gesture /\ UNCHANGED <<body, frames>>
      /\ IF target.vib THEN RequestSpectrumFrameAt(moved, fasks, target.at, TRUE) ELSE spectrum' = moved /\ UNCHANGED fasks
Cleared(s) == [s EXCEPT !.target = Nothing, !.points = Nothing, !.loading = FALSE, !.last = Nothing, !.pinned = FALSE]
HandleTelemetryChartLeave ==
  /\ ~spectrum.pinned /\ spectrum.target # Nothing
  /\ spectrum' = [Cleared(spectrum) EXCEPT !.seq = @ + 1] /\ UNCHANGED <<body, frames, fasks, hbudget>>
HandleTelemetryChartUnpin ==
  /\ spectrum.pinned
  /\ spectrum' = [Cleared(spectrum) EXCEPT !.seq = @ + 1] /\ UNCHANGED <<body, frames, fasks, hbudget>>
\* Another chart: what is shown is forgotten, what is asked for is not.
SwitchChart(d) ==
  d # spectrum.device /\ Gesture /\ spectrum' = [Cleared(spectrum) EXCEPT !.device = d] /\ UNCHANGED <<body, frames, fasks>>

\* A key that is kept already keeps its place; a new one may take the oldest one's.
Remember(key, points) ==
  LET all == IF Kept(key) # {} THEN [i \in DOMAIN frames |-> IF frames[i].key = key THEN [frames[i] EXCEPT !.points = points] ELSE frames[i]]
             ELSE Append(frames, [key |-> key, points |-> points])
  IN  IF Len(all) > FrameCache THEN Tail(all) ELSE all
\* Mutant: an answer is shown whoever asked for it.
AnyAnswer(a) == TRUE
IsLatest(a) == a.id = spectrum.seq
FrameAnswered(a) ==
  /\ fasks' = fasks \ {a} /\ UNCHANGED body
  /\ IF ~ IsLatest(a) THEN UNCHANGED <<spectrum, frames, hbudget>>
     ELSE \/ LET points == ParseSpectrumFramePayload(a.device, a.at) IN
             /\ spectrum' = [spectrum EXCEPT !.points = points, !.loading = FALSE]
             /\ frames' = Remember(<<a.device, a.at>>, points) /\ UNCHANGED hbudget
          \/ Gesture /\ spectrum' = [spectrum EXCEPT !.points = Empty, !.loading = FALSE] /\ UNCHANGED frames

UpdateLayout(at) == at # body.at /\ Gesture /\ body' = [at |-> at, layout |-> GetChartModalLayout(at)] /\ UNCHANGED <<spectrum, frames, fasks>>

-----------------------------------------------------------------------------
SpectrumInit ==
  /\ spectrum \in {[device |-> d, target |-> Nothing, pinned |-> FALSE, points |-> Nothing, loading |-> FALSE, last |-> Nothing, seq |-> 0] : d \in Charts}
  /\ body \in {[at |-> at, layout |-> GetChartModalLayout(at)] : at \in Bodies}
  /\ frames = <<>> /\ fasks = {} /\ hbudget = HoverBudget
SpectrumNext ==
  \/ \E t \in Drawn : HandlePointerMove(t) # Nothing /\ (HandleTelemetryChartHover(HandlePointerMove(t)) \/ HandleTelemetryChartPin(HandlePointerMove(t)))
  \/ \E t \in Drawn : HandlePointerMove(t) = Nothing /\ HandleTelemetryChartLeave
  \/ HandleTelemetryChartUnpin
  \/ \E d \in Charts : SwitchChart(d)
  \/ \E at \in Bodies : UpdateLayout(at)
  \/ \E a \in fasks : FrameAnswered(a)
SpectrumSpec == SpectrumInit /\ [][SpectrumNext]_hvars

-----------------------------------------------------------------------------
\* What is shown for the row pointed at or clicked, once nothing is loading, is
\* its own frame or none, with the highest amplitude of every axis on a bar
\* that the axis has room for.
Shown == spectrum.target # Nothing /\ ~spectrum.loading /\ spectrum.points # Empty
FrameIsOfTarget == Shown => spectrum.points.of = <<spectrum.device, spectrum.target>>
BinsOf(frame, a) == IF frame.bins > 0 THEN 1 .. Min({frame.bins, Len(frame.axes[a])}) ELSE DOMAIN frame.axes[a]
PeakOf(frame, a) == Max({0} \cup {frame.axes[a][i] : i \in BinsOf(frame, a)})
PeaksDrawn(frame) ==
  \A a \in Directions :
    LET bars == DownsampleSpectrumChartData(ToSpectrumChartData(frame, a))
    IN  Len(bars) <= Bars /\ FirstPeak(bars).amp = PeakOf(frame, a) /\ PeakOf(frame, a) < SpectrumAutoYAxisMax(frame)
PeaksAreDrawn == Shown => PeaksDrawn(spectrum.points.frame)
SpectrumIsOfTarget == FrameIsOfTarget /\ PeaksAreDrawn

\* A body that does not scroll is filled to the last pixel and every part of it
\* has at least its smallest height.
LayoutFits ==
  LET l == body.layout IN
  ~l.scrolls => /\ l.used = body.at.height
                /\ \A part \in {"chart", "spectrum", "overview"} : l.parts[part] >= Least(body.at)[part]
=============================================================================
