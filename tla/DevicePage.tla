------------------------------ MODULE DevicePage ------------------------------
(* The page with the cards of the devices (DeviceManagement.tsx): which cards  *)
(* are shown, in which order and on which page, the chart beside them, and the *)
(* dialog that edits or removes a device (DeviceInfoModal.tsx).  Every open    *)
(* dialog hears the Escape key; one that is closed still hears the answer to   *)
(* what it saved.  A device, a name, a zone and a search are small numbers.    *)
EXTENDS Integers, FiniteSets, FiniteSetsExt

CONSTANTS
  Park,        \* devices, in the order they are listed
  FirstPark,   \* what is listed at first: device -> [online, abnormal, name, zone, peak]
  PageSizes,   \* 10, 20, 50, 100, 200 in the code
  Viewports,   \* widths the window may have, in pixels
  ParkBudget,  \* bound: gestures, changes of the list, failures
  NoDevice

VARIABLES
  park,    \* the devices the page is given
  dpage,   \* the state of the page and its dialog
  pasked,  \* requests under way
  pleft
pvars == <<park, dpage, pasked, pleft>>

-----------------------------------------------------------------------------
(* The chart beside the cards. *)

MinWidth(viewport) == IF viewport < 1200 THEN 360 ELSE 480
MaxWidth(viewport) == Max({MinWidth(viewport), Min({(viewport * 8) \div 10, viewport - 320})})
ClampChartSidebarWidth(width, viewport) == Max({MinWidth(viewport), Min({MaxWidth(viewport), width})})
FirstWidth(stored, viewport) == ClampChartSidebarWidth((viewport * Min({80, Max({25, stored})})) \div 100, viewport)

-----------------------------------------------------------------------------
(* The cards. *)

VisibleSensors(v) == DOMAIN park \ v.hidden
HighestVibration(list, v) ==
  LET seen == DOMAIN list \ v.hidden
      heard == {d \in seen : list[d].peak > 0}
  IN  IF seen = {} THEN NoDevice
      ELSE IF heard = {} THEN Min(seen)
      ELSE Min({d \in heard : \A e \in heard : list[e].peak <= list[d].peak})
FilterDashboardDevices(v) ==
  {d \in VisibleSensors(v) :
     LET s == park[d] IN
     /\ v.search = 0 \/ v.search \in {d, s.name, s.zone}
     /\ v.filter = "all" \/ (v.filter = "online" /\ s.online) \/ (v.filter = "offline" /\ ~s.online) \/ (v.filter = "abnormal" /\ s.abnormal)
     /\ v.zone = 0 \/ s.zone = v.zone}
StatusRank(s) == IF ~s.online THEN 2 ELSE IF s.abnormal THEN 0 ELSE 1
SortKey(v, d) == CASE v.sort = "status" -> StatusRank(park[d]) [] v.sort = "name-az" -> park[d].name [] v.sort = "zone" -> park[d].zone [] OTHER -> d
Before(v, d, e) == SortKey(v, d) < SortKey(v, e) \/ (SortKey(v, d) = SortKey(v, e) /\ d < e)
\* The place of a card in the order chosen; those that compare alike stay as they are listed.
Displayed(v, d) == 1 + Cardinality({e \in FilterDashboardDevices(v) : Before(v, e, d)})
TotalPages(v) == Max({1, (Cardinality(FilterDashboardDevices(v)) + v.size - 1) \div v.size})
PagedDevices(v) == {d \in FilterDashboardDevices(v) : (v.page - 1) * v.size < Displayed(v, d) /\ Displayed(v, d) <= v.page * v.size}
GroupSensorsByZone(cards) ==
  [z \in {park[d].zone : d \in cards} |->
     LET of == {d \in cards : park[d].zone = z} IN
     [devices |-> of, total |-> Cardinality(of), online |-> Cardinality({d \in of : park[d].online}), abnormal |-> Cardinality({d \in of : park[d].abnormal})]]
ZoneOptions(v) == {0} \cup {park[d].zone : d \in VisibleSensors(v)}

\* What follows from a change in the same turn: cards of devices that are no
\* longer listed are forgotten, the page is one there is, the chart shows a device.
Reconciled(v, list) == [v EXCEPT !.hidden = @ \cap DOMAIN list, !.exiting = @ \cap DOMAIN list,
                                 !.chart = IF @ = NoDevice THEN HighestVibration(list, v) ELSE @]
PageClamped(v) == [v EXCEPT !.page = Min({@, TotalPages(v)}), !.stored = Min({v.page, TotalPages(v)})]
Use(v) == pleft > 0 /\ pleft' = pleft - 1 /\ dpage' = PageClamped(v) /\ UNCHANGED <<park, pasked>>
Freely(v) == dpage' = v /\ UNCHANGED <<park, pasked, pleft>>

NoOverlay == dpage.selected = NoDevice /\ dpage.menu = NoDevice
ChangeQuery(v) == NoOverlay /\ v # dpage /\ Use([v EXCEPT !.page = 1])
GoToPage(n) == NoOverlay /\ n # dpage.page /\ Use([dpage EXCEPT !.page = Min({TotalPages(dpage), Max({1, n})})])
Inventory(list) ==
  /\ pleft > 0 /\ pleft' = pleft - 1 /\ list # park
  /\ park' = list /\ dpage' = Reconciled(dpage, list) /\ UNCHANGED pasked
\* The list has settled: the page number follows.
PageSettles == dpage # PageClamped(dpage) /\ dpage' = PageClamped(dpage) /\ UNCHANGED <<park, pasked, pleft>>
\* The page was left and comes back: only what is stored is kept.
Fresh(v) == [v EXCEPT !.hidden = {}, !.exiting = {}, !.search = 0, !.filter = "all", !.zone = 0, !.sort = "status", !.page = v.stored, !.menu = NoDevice,
                      !.selected = NoDevice, !.mode = "view", !.edit = FALSE, !.removing = FALSE, !.inst = @ + 1, !.chart = NoDevice, !.collapsed = v.viewport < 1200]
Remount ==
  /\ NoOverlay /\ pleft > 0 /\ pleft' = pleft - 1
  /\ dpage' = PageClamped(Reconciled(Fresh(dpage), park)) /\ pasked' = {} /\ UNCHANGED park

-----------------------------------------------------------------------------
(* The dialog of a device. *)

Asked(kind, v) == [kind |-> kind, device |-> v.selected, inst |-> v.inst, seen |-> v.impact, name |-> 0]
Aborted(asks) == {a \in asks : a.kind # "impact"}
\* The removal is asked about whenever its question opens or its device changes.
Turned(v, asks) ==
  IF v.removing /\ v.selected # NoDevice
  THEN dpage' = [v EXCEPT !.impact = NoDevice, !.checking = TRUE, !.failed = FALSE] /\ pasked' = Aborted(asks) \cup {Asked("impact", v)}
  ELSE dpage' = v /\ pasked' = Aborted(asks)
Showing(v, d, mode) ==
  LET to == IF v.selected = NoDevice THEN [v EXCEPT !.inst = @ + 1, !.deleting = FALSE, !.saving = FALSE, !.checking = FALSE] ELSE v
  IN  [to EXCEPT !.selected = d, !.mode = mode, !.edit = (mode = "edit"), !.removing = (mode = "delete"), !.impact = NoDevice, !.failed = FALSE]
Dismissed(v) == [v EXCEPT !.selected = NoDevice, !.mode = "view", !.edit = FALSE, !.removing = FALSE]

OpenMenu(d) == dpage.selected = NoDevice /\ dpage.menu # d /\ Freely([dpage EXCEPT !.menu = d])
OpenDeviceInfo(d, mode) ==
  /\ dpage.selected = NoDevice /\ (mode = "view" \/ dpage.menu = d) /\ pleft > 0 /\ pleft' = pleft - 1
  /\ Turned(Showing([dpage EXCEPT !.menu = NoDevice], d, mode), pasked) /\ UNCHANGED park
OpenCardChart(d) == dpage.selected = NoDevice /\ dpage.chart # d /\ Use([dpage EXCEPT !.chart = d, !.collapsed = FALSE, !.menu = NoDevice])
OpenEdit ==
  dpage.selected # NoDevice /\ dpage.mode = "view" /\ ~dpage.edit /\ ~dpage.removing /\ ~dpage.deleting /\ Freely([dpage EXCEPT !.edit = TRUE])
OpenDelete ==
  /\ dpage.selected # NoDevice /\ dpage.mode = "view" /\ ~dpage.edit /\ ~dpage.removing /\ ~dpage.deleting
  /\ Turned([dpage EXCEPT !.removing = TRUE], pasked) /\ UNCHANGED <<park, pleft>>
\* Escape reaches every layer: only the one that is busy holds, and the dialog
\* below a form that is being saved does not know of it.
Escape ==
  LET plain == [dpage EXCEPT !.menu = NoDevice, !.collapsed = @ \/ dpage.chart # NoDevice]
      noEdit == IF plain.edit /\ ~plain.saving THEN [plain EXCEPT !.edit = FALSE] ELSE plain
      noDelete == IF noEdit.removing /\ ~noEdit.deleting THEN [noEdit EXCEPT !.removing = FALSE, !.impact = NoDevice, !.failed = FALSE] ELSE noEdit
      quick == \/ dpage.mode = "edit" /\ dpage.edit /\ ~dpage.saving
               \/ dpage.mode = "delete" /\ dpage.removing /\ ~dpage.deleting
      main == dpage.mode = "view" /\ ~dpage.deleting
  IN  /\ UNCHANGED <<park, pleft>>
      /\ LET v == IF dpage.selected # NoDevice /\ (quick \/ main) THEN Dismissed(noDelete) ELSE noDelete
         IN  dpage' = v /\ pasked' = IF v.removing THEN pasked ELSE Aborted(pasked)

SaveDeviceInfo(name) ==
  /\ dpage.selected # NoDevice /\ dpage.edit /\ ~dpage.saving /\ pleft > 0 /\ pleft' = pleft - 1
  /\ dpage' = [dpage EXCEPT !.saving = TRUE] /\ pasked' = pasked \cup {[Asked("save", dpage) EXCEPT !.name = name]} /\ UNCHANGED park
HandleDeleteDevice ==
  /\ dpage.selected # NoDevice /\ dpage.removing /\ ~dpage.deleting /\ ~dpage.checking /\ ~dpage.failed /\ dpage.impact # NoDevice
  /\ pleft > 0 /\ pleft' = pleft - 1
  /\ dpage' = [dpage EXCEPT !.deleting = TRUE] /\ pasked' = pasked \cup {Asked("delete", dpage)} /\ UNCHANGED park

ImpactAnswered(a, ok) ==
  /\ pasked' = pasked \ {a} /\ UNCHANGED park
  /\ dpage' = [dpage EXCEPT !.checking = FALSE, !.failed = ~ok, !.impact = IF ok THEN a.device ELSE @]
\* A saved device becomes the selected one, even if its dialog was closed since
\* or another device's is open: that dialog now is about the saved device.
SaveAnswered(a, ok) ==
  LET same == a.inst = dpage.inst /\ dpage.selected # NoDevice
      told == IF dpage.selected = a.device THEN dpage ELSE Showing(dpage, a.device, dpage.mode)
      over == IF same THEN [told EXCEPT !.saving = FALSE, !.edit = FALSE] ELSE told
      quiet == IF same THEN [dpage EXCEPT !.saving = FALSE] ELSE dpage
  IN  /\ park' = IF ok /\ a.device \in DOMAIN park THEN [park EXCEPT ![a.device].name = a.name] ELSE park
      /\ IF ~ok THEN dpage' = quiet /\ pasked' = pasked \ {a}
         ELSE IF same /\ dpage.mode = "edit" THEN dpage' = Dismissed(over) /\ pasked' = Aborted(pasked \ {a})
         ELSE IF dpage.selected = a.device THEN dpage' = over /\ pasked' = pasked \ {a}
         ELSE Turned(over, pasked \ {a})
MarkDeviceExiting(v, d) == [v EXCEPT !.exiting = @ \cup {d}]
DeleteAnswered(a, ok) ==
  /\ UNCHANGED park
  /\ IF ok THEN dpage' = MarkDeviceExiting([Dismissed(dpage) EXCEPT !.deleting = FALSE, !.impact = NoDevice], a.device) /\ pasked' = Aborted(pasked \ {a})
     ELSE dpage' = [dpage EXCEPT !.deleting = FALSE] /\ pasked' = pasked \ {a}
\* The card has faded.
ExitTimer(d) ==
  /\ dpage' = PageClamped([dpage EXCEPT !.exiting = @ \ {d}, !.hidden = @ \cup {d}]) /\ UNCHANGED <<park, pasked, pleft>>

HandleResize(w) == w # dpage.viewport /\ Use([dpage EXCEPT !.viewport = w, !.width = ClampChartSidebarWidth((@ * w) \div dpage.viewport, w)])
HandleMouseMove(by) ==
  LET to == ClampChartSidebarWidth(dpage.width + by, dpage.viewport) IN to # dpage.width /\ Use([dpage EXCEPT !.width = to])

-----------------------------------------------------------------------------
DeviceInit ==
  /\ park = FirstPark /\ pasked = {} /\ pleft = ParkBudget
  /\ dpage = LET w == Max(Viewports)
                 v == [hidden |-> {}, exiting |-> {}, search |-> 0, filter |-> "all", zone |-> 0, sort |-> "status", page |-> 1, stored |-> 1, size |-> Min(PageSizes),
                       selected |-> NoDevice, mode |-> "view", edit |-> FALSE, saving |-> FALSE, removing |-> FALSE, checking |-> FALSE, deleting |-> FALSE,
                       failed |-> FALSE, impact |-> NoDevice, inst |-> 0, menu |-> NoDevice, chart |-> NoDevice, collapsed |-> w < 1200,
                       viewport |-> w, width |-> FirstWidth(80, w)]
             IN Reconciled(v, FirstPark)
Changed(d) == {[park EXCEPT ![d] = s] : s \in {[park[d] EXCEPT !.online = ~@], [park[d] EXCEPT !.abnormal = ~@], [park[d] EXCEPT !.peak = @ + 1]}}
Lists == {[e \in DOMAIN park \ {d} |-> park[e]] : d \in DOMAIN park} \cup (UNION {Changed(d) : d \in DOMAIN park})
         \cup {[e \in DOMAIN park \cup {d} |-> IF e = d THEN FirstPark[d] ELSE park[e]] : d \in Park \ DOMAIN park}
Answered(a, ok) ==
  \/ a.kind = "impact" /\ ImpactAnswered(a, ok)
  \/ a.kind = "save" /\ SaveAnswered(a, ok)
  \/ a.kind = "delete" /\ DeleteAnswered(a, ok)
DeviceNext ==
  \/ \E z \in ZoneOptions(dpage) : ChangeQuery([dpage EXCEPT !.zone = z])
  \/ \E q \in {0, 1} : ChangeQuery([dpage EXCEPT !.search = q])
  \/ \E f \in {"all", "online", "abnormal"} : ChangeQuery([dpage EXCEPT !.filter = f])
  \/ \E s \in {"status", "name-az", "zone", "device-id"} : ChangeQuery([dpage EXCEPT !.sort = s])
  \/ \E n \in PageSizes : ChangeQuery([dpage EXCEPT !.size = n])
  \/ \E n \in {dpage.page - 1, dpage.page + 1} : GoToPage(n)
  \/ \E list \in Lists : Inventory(list)
  \/ PageSettles \/ Remount \/ OpenEdit \/ OpenDelete \/ Escape \/ HandleDeleteDevice
  \/ \E name \in {1, 2} : SaveDeviceInfo(name)
  \/ \E d \in PagedDevices(dpage) \ dpage.exiting :
       OpenMenu(d) \/ OpenCardChart(d) \/ \E mode \in {"view", "edit", "delete"} : OpenDeviceInfo(d, mode)
  \/ \E a \in pasked : Answered(a, TRUE) /\ UNCHANGED pleft
  \/ \E a \in pasked : Answered(a, FALSE) /\ pleft > 0 /\ pleft' = pleft - 1
  \/ \E d \in dpage.exiting : ExitTimer(d)
  \/ \E w \in Viewports : HandleResize(w)
  \/ \E by \in {-200, 200} : HandleMouseMove(by)
DeviceSpec == DeviceInit /\ [][DeviceNext]_pvars

-----------------------------------------------------------------------------
\* A device is removed only when what its removal takes was shown for that very
\* device (DeviceInfoModal.tsx): the dialog turns to another device when a save is
\* answered, whatever it was asking about then.
RemovalIsOfShown == \A a \in pasked : a.kind = "delete" => a.seen = a.device

\* Every card stands on one page and in one group of it: the pages show each
\* device that passes the filter once, and all of them but the last are full.
PageOf(n) == PagedDevices([dpage EXCEPT !.page = n])
CardsStandOnce ==
  /\ \A d \in FilterDashboardDevices(dpage) :
       \E n \in 1 .. TotalPages(dpage) : \A m \in 1 .. TotalPages(dpage) : d \in PageOf(m) <=> m = n
  /\ \A n \in 1 .. TotalPages(dpage) :
       LET cards == PageOf(n)  groups == GroupSensorsByZone(cards) IN
       /\ Cardinality(cards) <= dpage.size /\ (n < TotalPages(dpage) => Cardinality(cards) = dpage.size)
       /\ \A d \in cards : {z \in DOMAIN groups : d \in groups[z].devices} = {park[d].zone}
=============================================================================
