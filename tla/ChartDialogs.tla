---------------------------- MODULE ChartDialogs ----------------------------
(* The dialogs of the chart panel (SensorChartModal.tsx): where the sensor     *)
(* sits on the motor and what its axes are called, set points, the summary of  *)
(* stored data, clearing it and the calendar of days with data.  The panel     *)
(* lies beside the cards and shows another device as soon as another card is   *)
(* clicked; a dialog lies over both, so the device stays while one is open.    *)
(* The time a dialog takes to fade is left out, and so is the panel's own      *)
(* close button: the panel is always pinned there.                             *)
EXTENDS Integers, Sequences

CONSTANTS
  Panels,        \* devices
  AxisNames,     \* names a user may give an axis
  Faces,         \* faces of the motor a placement may be about, of bottom, front and right
  Months,        \* months of the calendar
  Jobs,          \* ids of clear jobs, in the order they are given: 1 .. n
  DialogBudget,  \* bound: what the user does, failures
  NoEntry

VARIABLES
  dlg,      \* the panel and its dialogs (early is history: devices renamed before their placement was known)
  axes,     \* the placement as the panel knows it
  stored,   \* what the server keeps
  dasks,    \* requests in flight: [is, device, arg, answer]
  dbudget
dvars == <<dlg, axes, stored, dasks, dbudget>>

-----------------------------------------------------------------------------
(* Placement: a motor and a sensor, each on a face and turned by 0 or 90       *)
(* degrees.  Angles are counted in quarter turns; an object whose animation    *)
(* was cut off by that of the other stands at no such angle.                   *)

AxisKeys == {"x", "y", "z"}
Physical == [x |-> "Radial H", y |-> "Axial", z |-> "Radial V"]
Identity == [r \in AxisKeys |-> r]
FaceRotation == [bottom |-> <<0, 0, 0>>, front |-> <<1, 0, 2>>, right |-> <<0, 0, 1>>]
TwistedFace == [bottom |-> <<0, 1, 0>>, front |-> <<1, 1, 2>>, right |-> <<1, 0, 1>>]
WithPlacementTwist(face, twist) == IF twist = 0 THEN FaceRotation[face] ELSE TwistedFace[face]
Sin(q) == <<0, 1, 0, -1>>[(q % 4) + 1]
Cos(q) == <<1, 0, -1, 0>>[(q % 4) + 1]
\* Turned about x, then y, then z.
RotatePlacementVector(v, turn) ==
  LET a == <<v[1], v[2] * Cos(turn[1]) - v[3] * Sin(turn[1]), v[2] * Sin(turn[1]) + v[3] * Cos(turn[1])>>
      b == <<a[1] * Cos(turn[2]) + a[3] * Sin(turn[2]), a[2], a[3] * Cos(turn[2]) - a[1] * Sin(turn[2])>>
  IN  <<b[1] * Cos(turn[3]) - b[2] * Sin(turn[3]), b[1] * Sin(turn[3]) + b[2] * Cos(turn[3]), b[3]>>
AxisVector == [x |-> <<1, 0, 0>>, y |-> <<0, 0, 1>>, z |-> <<0, 1, 0>>]
AbsDot(v, w) == LET d == v[1] * w[1] + v[2] * w[2] + v[3] * w[3] IN IF d < 0 THEN -d ELSE d
Parallel(pose, r, m) == AbsDot(RotatePlacementVector(AxisVector[r], pose.sensor), RotatePlacementVector(AxisVector[m], pose.motor))
Permutations3 == {f \in [AxisKeys -> AxisKeys] : \A a, b \in AxisKeys : f[a] = f[b] => a = b}
BestMatches(pose) ==
  LET Score == [f \in Permutations3 |-> Parallel(pose, "x", f["x"]) + Parallel(pose, "y", f["y"]) + Parallel(pose, "z", f["z"])]
  IN  {f \in Permutations3 : \A g \in Permutations3 : Score[g] <= Score[f]}
BuildPlacementAxisMatches(pose) == IF NoEntry \in {pose.motor, pose.sensor} THEN Permutations3 ELSE BestMatches(pose)
\* While the objects are being placed the matches follow them, otherwise they
\* are the stored ones.
PlacementAxisMatches == IF axes.live THEN BuildPlacementAxisMatches(axes.pose) ELSE {axes.mapping}

ChartAxisLabelsFromPlacementMatches(motor, matches) == [r \in AxisKeys |-> motor[matches[r]]]
MotorAxisLabelsFromPlacement(chart, mapping) ==
  [m \in AxisKeys |-> IF \E r \in AxisKeys : mapping[r] = m THEN chart[CHOOSE r \in AxisKeys : mapping[r] = m] ELSE Physical[m]]

Flat == [motor |-> FaceRotation.bottom, sensor |-> FaceRotation.bottom]
DefaultAxes == [chart |-> Physical, motor |-> Physical, mapping |-> Identity, pose |-> Flat, live |-> FALSE, turning |-> NoEntry]
\* A stored configuration as the panel takes it; an older one names no mapping
\* and no axes of the motor.
FromConfig(c) ==
  LET mapping == IF c.mapping = NoEntry THEN Identity ELSE c.mapping
  IN  [chart |-> c.chart, motor |-> IF c.motor = NoEntry THEN MotorAxisLabelsFromPlacement(c.chart, mapping) ELSE c.motor,
       mapping |-> mapping, pose |-> IF c.pose = NoEntry THEN Flat ELSE c.pose, live |-> c.mapping = NoEntry, turning |-> NoEntry]

-----------------------------------------------------------------------------
(* Requests.                                                                   *)

Waiting == [is |-> "waiting"]
Done == [is |-> "done"]
Failed == [is |-> "failed"]
Ask(is, d, arg) == [is |-> is, device |-> d, arg |-> arg, answer |-> Waiting]
User == dbudget > 0 /\ dbudget' = dbudget - 1
Busy == dlg.saving # {}
\* Requests the panel no longer listens to once another device is shown.
Forgotten(a) == a.is \in {"config", "poll"}

JobOf(d) == LET own == {j \in DOMAIN stored.jobs : stored.jobs[j].device = d} IN IF own = {} THEN NoEntry ELSE CHOOSE j \in own : \A k \in own : k <= j
Ended(j) == stored.jobs[j].status \in {"completed", "failed"}
WithJob(new, d) == [j \in DOMAIN stored.jobs \cup {new} |-> IF j = new THEN [device |-> d, status |-> "queued"] ELSE stored.jobs[j]]
Answer(a, x) == dasks' = (dasks \ {a}) \cup {[a EXCEPT !.answer = x]}
\* A clear of the device that is under way is joined.
QueueClear(a) ==
  LET old == JobOf(a.device)  new == Len(stored.jobs) + 1 IN
  IF old # NoEntry /\ ~ Ended(old) THEN Answer(a, [job |-> old, status |-> stored.jobs[old].status]) /\ UNCHANGED stored
  ELSE new \in Jobs /\ Answer(a, [job |-> new, status |-> "queued"]) /\ stored' = [stored EXCEPT !.jobs = WithJob(new, a.device)]
\* What the server does with a request, and what it answers.
Serve(a) ==
  /\ a.answer = Waiting
  /\ CASE a.is \in {"config", "merge"} -> Answer(a, [config |-> stored.config[a.device]]) /\ UNCHANGED stored
       [] a.is \in {"rename", "place"} -> Answer(a, [config |-> a.arg]) /\ stored' = [stored EXCEPT !.config[a.device] = a.arg]
       [] a.is = "labels" -> Answer(a, Done) /\ stored' = [stored EXCEPT !.labels[a.device] = a.arg]
       [] a.is = "setpoints" -> Answer(a, Done) /\ stored' = [stored EXCEPT !.setpoints[a.device] = a.arg]
       [] a.is = "clear" -> QueueClear(a)
       [] a.is = "poll" ->
            LET j == IF a.arg = NoEntry THEN JobOf(a.device) ELSE a.arg IN
            Answer(a, IF j = NoEntry THEN NoEntry ELSE [job |-> j, status |-> stored.jobs[j].status]) /\ UNCHANGED stored
       [] OTHER -> Answer(a, Done) /\ UNCHANGED stored
  /\ UNCHANGED <<dlg, axes, dbudget>>
Refuse(a) == a.answer = Waiting /\ User /\ dasks' = (dasks \ {a}) \cup {[a EXCEPT !.answer = Failed]} /\ UNCHANGED <<dlg, axes, stored>>
JobMoves(j) ==
  /\ ~ Ended(j)
  /\ IF stored.jobs[j].status = "queued" THEN stored' = [stored EXCEPT !.jobs[j].status = "running"]
     ELSE \E end \in {"completed", "failed"} : stored' = [stored EXCEPT !.jobs[j].status = end]
  /\ UNCHANGED <<dlg, axes, dasks, dbudget>>

-----------------------------------------------------------------------------
(* The panel.                                                                  *)

Panel(d) ==
  [device |-> d, over |-> {}, saving |-> {}, axis |-> NoEntry, error |-> FALSE, summary |-> NoEntry, loading |-> FALSE,
   early |-> {}, job |-> NoEntry, notified |-> NoEntry, told |-> {}, open |-> FALSE, month |-> CHOOSE m \in Months : TRUE, months |-> {}, fetching |-> NoEntry]
\* Another card is clicked: all that is shown starts over.
SwitchPanel(d) ==
  /\ d # dlg.device /\ dlg.over = {} /\ User
  /\ dlg' = [Panel(d) EXCEPT !.notified = dlg.notified, !.told = dlg.told, !.early = dlg.early]
  /\ axes' = DefaultAxes
  /\ dasks' = {a \in dasks : ~ Forgotten(a)} \cup {Ask("config", d, NoEntry), Ask("poll", d, NoEntry)}
  /\ UNCHANGED stored
Shows(a) == a.device = dlg.device
ConfigAnswered(a) ==
  LET c == IF a.answer = Failed THEN NoEntry ELSE a.answer.config
      differs == c # NoEntry /\ stored.labels[dlg.device] # c.chart
  IN  /\ a.is = "config" /\ a.answer # Waiting
      /\ axes' = IF c = NoEntry THEN axes ELSE FromConfig(c)
      /\ dasks' = (dasks \ {a}) \cup (IF differs THEN {Ask("labels", a.device, c.chart)} ELSE {})
      /\ UNCHANGED <<dlg, stored, dbudget>>

Opens(is, e) == dlg' = [e EXCEPT !.over = @ \cup {is}]
OpenAxisRenameModal(r) ==
  dlg.over = {} /\ User /\ Opens("rename", [dlg EXCEPT !.axis = r, !.open = FALSE]) /\ UNCHANGED <<axes, stored, dasks>>
\* Mutant: a dialog may be left while it saves.
NeverHeld(is) == FALSE
Held(is) == dlg.saving \cap {is, IF is = "settings" THEN "confirm" ELSE is} # {}
\* A dialog that saves cannot be left, nor the settings while data is cleared.
CloseDialog(is) ==
  /\ is \in dlg.over /\ ~ Held(is)
  /\ dlg' = [dlg EXCEPT !.over = @ \ {is}, !.axis = IF is = "rename" THEN NoEntry ELSE @] /\ UNCHANGED <<axes, stored, dasks, dbudget>>
Escape == dlg.over = {"place"} /\ CloseDialog("place")

\* Mutant: the motor's axis of the same letter takes the name.
RenamedByLetter(r, name) == [axes EXCEPT !.chart[r] = name, !.motor[r] = name]
Renamed(r, name) == [axes EXCEPT !.chart[r] = name, !.motor[axes.mapping[r]] = name]
\* The names as they are known now go to the server with the configuration it
\* keeps, which is read first; an answer that it has none counts as empty.
SaveAxisRename(name) ==
  LET new == Renamed(dlg.axis, name) IN
  /\ "rename" \in dlg.over /\ ~ Busy /\ User
  /\ dlg' = [dlg EXCEPT !.saving = {"rename"}, !.error = FALSE, !.early = @ \cup {a.device : a \in {b \in dasks : b.is = "config"}}]
  /\ dasks' = dasks \cup {Ask("merge", dlg.device, [chart |-> new.chart, motor |-> new.motor, mapping |-> new.mapping])}
  /\ UNCHANGED <<axes, stored>>
MergeAnswered(a) ==
  /\ a.is = "merge" /\ a.answer # Waiting /\ UNCHANGED <<dlg, axes, stored, dbudget>>
  /\ LET pose == IF a.answer = Failed \/ a.answer.config = NoEntry THEN NoEntry ELSE a.answer.config.pose IN
     dasks' = (dasks \ {a}) \cup {Ask("rename", a.device, [chart |-> a.arg.chart, motor |-> a.arg.motor, mapping |-> a.arg.mapping, pose |-> pose])}
MergeLost(a) ==
  a.is = "merge" /\ a.answer = Failed /\ dasks' = dasks \ {a} /\ dlg' = [dlg EXCEPT !.saving = {}, !.error = TRUE] /\ UNCHANGED <<axes, stored, dbudget>>
RenameAnswered(a) ==
  /\ a.is = "rename" /\ a.answer # Waiting /\ dasks' = dasks \ {a} /\ UNCHANGED <<stored, dbudget>>
  /\ IF a.answer = Failed THEN dlg' = [dlg EXCEPT !.saving = {}, !.error = TRUE] /\ UNCHANGED axes
     ELSE /\ dlg' = [dlg EXCEPT !.saving = {}, !.over = @ \ {"rename"}, !.axis = NoEntry]
          /\ axes' = [axes EXCEPT !.chart = a.arg.chart, !.motor = a.arg.motor]

OpenPlacement == dlg.over = {} /\ User /\ Opens("place", dlg) /\ UNCHANGED <<axes, stored, dasks>>
\* One animation at a time: that of the other object stops where it is.
AnimatePlacementRotation(object, face, twist) ==
  LET cut == axes.turning # NoEntry /\ axes.turning.object # object IN
  /\ "place" \in dlg.over /\ ~ Busy /\ User
  /\ axes' = [axes EXCEPT !.live = TRUE, !.turning = [object |-> object, to |-> WithPlacementTwist(face, twist)],
                          !.pose = IF cut THEN [@ EXCEPT ![axes.turning.object] = NoEntry] ELSE @]
  /\ UNCHANGED <<dlg, stored, dasks>>
RotationEnds ==
  /\ axes.turning # NoEntry
  /\ axes' = [axes EXCEPT !.turning = NoEntry, !.pose[axes.turning.object] = axes.turning.to]
  /\ UNCHANGED <<dlg, stored, dasks, dbudget>>
SavePositionConfig(names) ==
  /\ "place" \in dlg.over /\ ~ Busy /\ User
  /\ \E matches \in PlacementAxisMatches :
       dasks' = dasks \cup {Ask("place", dlg.device, [chart |-> ChartAxisLabelsFromPlacementMatches(names, matches), motor |-> names, mapping |-> matches, pose |-> axes.pose])}
  /\ dlg' = [dlg EXCEPT !.saving = {"place"}, !.error = FALSE] /\ UNCHANGED <<axes, stored>>
PlaceAnswered(a) ==
  /\ a.is = "place" /\ a.answer # Waiting /\ dasks' = dasks \ {a} /\ UNCHANGED <<stored, dbudget>>
  /\ IF a.answer = Failed THEN dlg' = [dlg EXCEPT !.saving = {}, !.error = TRUE] /\ UNCHANGED axes
     ELSE /\ dlg' = [dlg EXCEPT !.saving = {}, !.over = @ \ {"place"}]
          /\ axes' = [axes EXCEPT !.chart = a.arg.chart, !.motor = a.arg.motor, !.mapping = a.arg.mapping, !.live = FALSE]

-----------------------------------------------------------------------------
(* Stored data: set points, summary, clearing.                                 *)

\* The summary is fetched when the settings open, unless one is at hand.
LoadDeviceDataSummary(e) == e.device \in Panels /\ dasks' = dasks \cup {Ask("summary", e.device, NoEntry)}
OpenDataSettings ==
  /\ dlg.over = {} /\ User
  /\ IF dlg.summary # NoEntry THEN Opens("settings", dlg) /\ UNCHANGED dasks
     ELSE Opens("settings", [dlg EXCEPT !.loading = TRUE]) /\ LoadDeviceDataSummary(dlg)
  /\ UNCHANGED <<axes, stored>>
SummaryAnswered(a) ==
  /\ a.is = "summary" /\ a.answer # Waiting /\ dasks' = dasks \ {a}
  /\ dlg' = [dlg EXCEPT !.summary = IF a.answer = Failed THEN NoEntry ELSE a.device, !.loading = FALSE]
  /\ UNCHANGED <<axes, stored, dbudget>>
SaveSetpoints(value) ==
  /\ "settings" \in dlg.over /\ ~ Busy /\ User /\ UNCHANGED <<axes, stored>>
  /\ IF value <= 0 THEN dlg' = [dlg EXCEPT !.error = TRUE] /\ UNCHANGED dasks
     ELSE dlg' = [dlg EXCEPT !.saving = {"settings"}, !.error = FALSE] /\ dasks' = dasks \cup {Ask("setpoints", dlg.device, value)}
SetpointsAnswered(a) ==
  /\ a.is = "setpoints" /\ a.answer # Waiting /\ dasks' = dasks \ {a}
  /\ dlg' = [dlg EXCEPT !.saving = {}, !.error = a.answer = Failed] /\ UNCHANGED <<axes, stored, dbudget>>
OpenClearDataConfirm ==
  "settings" \in dlg.over /\ "confirm" \notin dlg.over /\ ~ Busy /\ Opens("confirm", dlg) /\ UNCHANGED <<axes, stored, dasks, dbudget>>
ClearDeviceData ==
  /\ "confirm" \in dlg.over /\ ~ Busy /\ User
  /\ dlg' = [dlg EXCEPT !.saving = {"confirm"}] /\ dasks' = dasks \cup {Ask("clear", dlg.device, NoEntry)} /\ UNCHANGED <<axes, stored>>
\* A job that is known by its id is polled by it from now on.
ClearAnswered(a) ==
  /\ a.is = "clear" /\ a.answer # Waiting
  /\ dlg' = [dlg EXCEPT !.saving = {}, !.job = IF a.answer = Failed THEN @ ELSE a.answer.job]
  /\ dasks' = {b \in dasks \ {a} : a.answer = Failed \/ b.is # "poll"} /\ UNCHANGED <<axes, stored, dbudget>>
\* Mutant: a job is followed only once it is known.
PollKnownJob == dlg.job # NoEntry /\ (\A a \in dasks : a.is # "poll") /\ dasks' = dasks \cup {Ask("poll", dlg.device, dlg.job)} /\ UNCHANGED <<dlg, axes, stored, dbudget>>
Poll == dlg.device \in Panels /\ (\A a \in dasks : a.is # "poll") /\ dasks' = dasks \cup {Ask("poll", dlg.device, dlg.job)} /\ UNCHANGED <<dlg, axes, stored, dbudget>>
\* An ended job is told once, and its data are taken off the chart.
PollAnswered(a) ==
  LET j == a.answer
      heard == j \notin {Failed, NoEntry}
      ended == heard /\ j.status \in {"completed", "failed"} /\ dlg.notified # j.job
      cleared == ended /\ j.status = "completed"
  IN  /\ a.is = "poll" /\ j # Waiting
      /\ dlg' = [dlg EXCEPT !.job = IF heard THEN j.job ELSE @, !.notified = IF ended THEN j.job ELSE @,
                            !.told = IF cleared THEN @ \cup {<<dlg.device, j.job>>} ELSE @]
      /\ dasks' = (dasks \ {a}) \cup (IF cleared THEN {Ask("summary", dlg.device, NoEntry)} ELSE {})
      /\ UNCHANGED <<axes, stored, dbudget>>

-----------------------------------------------------------------------------
(* The calendar.                                                               *)

LoadCalendarMonthAvailability(e) ==
  IF ~ e.open \/ e.month \in e.months THEN dlg' = e /\ UNCHANGED dasks
  ELSE dlg' = [e EXCEPT !.fetching = e.month] /\ dasks' = dasks \cup {Ask("month", e.device, e.month)}
HandleToggleCalendarPopover ==
  dlg.over = {} /\ User /\ LoadCalendarMonthAvailability([dlg EXCEPT !.open = ~ @]) /\ UNCHANGED <<axes, stored>>
HandleCalendarMonthShift(m) ==
  dlg.open /\ m # dlg.month /\ User /\ LoadCalendarMonthAvailability([dlg EXCEPT !.month = m]) /\ UNCHANGED <<axes, stored>>
MonthAnswered(a) ==
  /\ a.is = "month" /\ a.answer # Waiting /\ dasks' = dasks \ {a}
  /\ dlg' = [dlg EXCEPT !.fetching = IF @ = a.arg THEN NoEntry ELSE @, !.months = IF a.answer = Failed THEN @ ELSE @ \cup {a.arg}]
  /\ UNCHANGED <<axes, stored, dbudget>>

LabelsAnswered(a) == a.is = "labels" /\ a.answer # Waiting /\ dasks' = dasks \ {a} /\ UNCHANGED <<dlg, axes, stored, dbudget>>

-----------------------------------------------------------------------------
Older == [chart |-> [Physical EXCEPT !["x"] = "Axial", !["y"] = "Radial H"], motor |-> NoEntry, mapping |-> NoEntry, pose |-> NoEntry]
Turned == LET pose == [motor |-> FaceRotation.bottom, sensor |-> TwistedFace.bottom]  mapping == CHOOSE f \in BuildPlacementAxisMatches(pose) : TRUE
          IN  [chart |-> ChartAxisLabelsFromPlacementMatches(Physical, mapping), motor |-> Physical, mapping |-> mapping, pose |-> pose]
\* The panel is new, perhaps with a clear of its data under way, or the placement has just been opened on it.
DialogsInit ==
  /\ \E start \in {<<NoEntry, <<>>, {}>>, <<Older, <<>>, {}>>, <<NoEntry, <<"running">>, {}>>, <<Turned, <<>>, {"place"}>>} :
       LET d == CHOOSE d \in Panels : TRUE IN
       /\ dlg = [Panel(d) EXCEPT !.over = start[3]]
       /\ dasks = {Ask("config", d, NoEntry), Ask("poll", d, NoEntry)}
       /\ stored = [config |-> [p \in Panels |-> start[1]], labels |-> [p \in Panels |-> Physical], setpoints |-> [p \in Panels |-> 1],
                    jobs |-> [j \in DOMAIN start[2] |-> [device |-> d, status |-> start[2][j]]]]
  /\ axes = DefaultAxes /\ dbudget = DialogBudget
Answered(a) ==
  \/ ConfigAnswered(a) \/ MergeAnswered(a) \/ MergeLost(a) \/ RenameAnswered(a) \/ PlaceAnswered(a) \/ SummaryAnswered(a)
  \/ SetpointsAnswered(a) \/ ClearAnswered(a) \/ PollAnswered(a) \/ MonthAnswered(a) \/ LabelsAnswered(a)
DialogsNext ==
  \/ \E d \in Panels : SwitchPanel(d)
  \/ \E r \in AxisKeys : OpenAxisRenameModal(r)
  \/ \E is \in {"rename", "place", "settings", "confirm"} : CloseDialog(is)
  \/ Escape \/ OpenPlacement \/ RotationEnds \/ OpenDataSettings \/ OpenClearDataConfirm \/ ClearDeviceData \/ Poll \/ HandleToggleCalendarPopover
  \/ \E name \in AxisNames : SaveAxisRename(name) \/ SavePositionConfig([axes.motor EXCEPT !["x"] = name])
  \/ \E o \in {"motor", "sensor"}, f \in Faces, t \in {0, 90} : AnimatePlacementRotation(o, f, t)
  \/ \E v \in {0, 2} : SaveSetpoints(v)
  \/ \E m \in Months : HandleCalendarMonthShift(m)
  \/ \E a \in dasks : Serve(a) \/ Refuse(a) \/ Answered(a)
  \/ \E j \in DOMAIN stored.jobs : JobMoves(j)
DialogsFairness ==
  /\ WF_dvars(Poll) /\ WF_dvars(\E a \in dasks : a.is = "poll" /\ Serve(a)) /\ WF_dvars(\E a \in dasks : PollAnswered(a))
DialogsSpec == DialogsInit /\ [][DialogsNext]_dvars /\ DialogsFairness

-----------------------------------------------------------------------------
\* A change a dialog has asked for is one of the device shown until it is
\* answered, and a clear that is followed or told is one of that device.
DialogsKeepTheirDevice ==
  /\ \A a \in dasks : a.is \in {"merge", "rename", "place", "setpoints", "clear", "poll", "config"} => Shows(a)
  /\ dlg.job # NoEntry => stored.jobs[dlg.job].device = dlg.device
  /\ \A t \in dlg.told : stored.jobs[t[2]] = [device |-> t[1], status |-> "completed"]

\* Every axis of the chart bears the name of the motor's axis it is matched
\* with, and the matches are one to one, unless an axis of the device was ever
\* renamed while its placement was still being fetched (what was saved then
\* comes back with every later configuration of the device).
NamesFollowPlacement ==
  dlg.device \in dlg.early \/
  /\ \A r \in AxisKeys : axes.chart[r] = axes.motor[axes.mapping[r]]
  /\ \A f \in PlacementAxisMatches : \A m \in AxisKeys : \E r \in AxisKeys : f[r] = m

\* A clear has ended and its end is still to be told, while its device is shown.
ClearOwed ==
  LET j == JobOf(dlg.device) IN j # NoEntry /\ j \in DOMAIN stored.jobs /\ Ended(j) /\ dlg.notified # j
=============================================================================
