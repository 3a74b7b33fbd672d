----------------------------- MODULE ClientPages -----------------------------
(* The pages of one session of the client: the application mounts one page at  *)
(* a time, so a behaviour visits one of them, chosen at its start, and the     *)
(* others stay as they are when nobody has opened them.  "dashboard" is what   *)
(* App.tsx itself keeps up while the device page is looked at.                 *)
EXTENDS Dashboard

\* What the modules of the pages say of each.
CONSTANTS ZoneIds, FirstZones, ZonePageSize, ZoneBudget,
          Boards, Binaries, MaxLookups, OtaBudget,
          Machines, Archive, SampleRuns, BinSteps, BatchSize, JobLimit, AnalysisBudget,
          Packages, PanelBudget,
          Retries, Builds, KioskBudget,
          Park, FirstPark, PageSizes, Viewports, ParkBudget,
          Panels, AxisNames, Faces, Months, Jobs, DialogBudget,
          Charts, RowsOf, FrameOf, Drawn, Shades, Bars, HoverDelta, FrameCache, Bodies, HoverBudget

VARIABLES visited,
          zones, zpage, zasks, fleet, opage, oasks, present, analyses, storedJob, apage, aasks, jobs, kept, panel, pasks,
          display, pictures, served, gallery, kleft, park, dpage, pasked, pleft, dlg, axes, stored, dasks, dbudget,
          body, spectrum, frames, fasks, hbudget

ZP == INSTANCE ZonePage WITH ZoneNone <- None
OP == INSTANCE OtaPage WITH OtaNone <- None
TA == INSTANCE ThresholdAnalysis WITH Nobody <- None
JP == INSTANCE JobPanels WITH NoFile <- None
KI == INSTANCE Kiosk
DP == INSTANCE DevicePage WITH NoDevice <- None
CD == INSTANCE ChartDialogs WITH NoEntry <- None
SP == INSTANCE SpectrumPanel WITH Nothing <- None
\* Nothing is no zone and no matching of axes, and the panel of the chart shows a device.
ASSUME PagesAssumption == None \notin ZoneIds /\ None \notin CD!Permutations3 /\ Panels # {}
\* There is a bar to draw, frames hold numbers, the dialog's body has a size.
ASSUME SpectrumAssumption ==
  /\ Bars \in Nat \ {0} /\ Bodies \subseteq [width : Nat, height : Nat, wallboard : BOOLEAN]
  /\ \A c \in Charts : \A t \in DOMAIN FrameOf[c] : FrameOf[c][t].bins \in Int /\ FrameOf[c][t].axes \in [SP!Directions -> Seq(Int)]
\* Samples are magnitudes, in steps of a bin.
ASSUME SamplesAssumption == SampleRuns \subseteq Seq(Nat) /\ BinSteps \in Nat \ {0}
\* Devices, names and zones are numbered in their order; a page has room for a card.
ASSUME CardsAssumption ==
  /\ IsFiniteSet(Park) /\ Park \subseteq Nat /\ PageSizes \subseteq Nat \ {0} /\ PageSizes # {}
  /\ FirstPark \in [Park -> [online : BOOLEAN, abnormal : BOOLEAN, name : Nat, zone : Nat, peak : Nat]]

ZoneVars == <<zones, zpage, zasks>>
OtaVars == <<fleet, opage, oasks>>
AnalysisVars == <<present, analyses, storedJob, apage, aasks>>
PanelVars == <<jobs, kept, panel, pasks>>
KioskVars == <<display, pictures, served, gallery, kleft>>
ParkVars == <<park, dpage, pasked, pleft>>
DialogVars == <<dlg, axes, stored, dasks, dbudget>>
SpectrumVars == <<body, spectrum, frames, fasks, hbudget>>

-----------------------------------------------------------------------------
Pages == {"dashboard", "zones", "ota", "analysis", "jobs", "kiosk", "devices", "dialogs", "spectrum"}
\* The dashboard is connected and nothing happens.
Rest == [opening |-> FALSE, polls |-> FALSE, changes |-> {}, most |-> [k \in {"change", "alerts", "history", "check"} |-> 0]]
\* The parts a behaviour does not visit begin in one state only.
Plain(part) == visited # part
PagesInit ==
  /\ visited \in Pages /\ Init /\ (Plain("dashboard") <=> server.scenario = Rest)
  /\ ZP!ZoneInit /\ OP!OtaInit /\ TA!AnalysisInit /\ JP!PanelInit /\ KI!KioskInit /\ DP!DeviceInit
  /\ CD!DialogsInit /\ (Plain("dialogs") => dlg.over = {} /\ (\A p \in Panels : stored.config[p] = None) /\ stored.jobs = <<>>)
  /\ SP!SpectrumInit /\ (Plain("spectrum") => spectrum.device = (CHOOSE c \in Charts : TRUE) /\ body.at = CHOOSE at \in Bodies : TRUE)

Others(part) ==
  /\ visited = part /\ UNCHANGED visited
  /\ IF part = "dashboard" THEN TRUE ELSE UNCHANGED vars
  /\ IF part = "zones" THEN TRUE ELSE UNCHANGED ZoneVars
  /\ IF part = "ota" THEN TRUE ELSE UNCHANGED OtaVars
  /\ IF part = "analysis" THEN TRUE ELSE UNCHANGED AnalysisVars
  /\ IF part = "jobs" THEN TRUE ELSE UNCHANGED PanelVars
  /\ IF part = "kiosk" THEN TRUE ELSE UNCHANGED KioskVars
  /\ IF part = "devices" THEN TRUE ELSE UNCHANGED ParkVars
  /\ IF part = "dialogs" THEN TRUE ELSE UNCHANGED DialogVars
  /\ IF part = "spectrum" THEN TRUE ELSE UNCHANGED SpectrumVars
PagesNext ==
  \/ visited = "dashboard" /\ Next /\ Others("dashboard")
  \/ visited = "zones" /\ ZP!ZoneNext /\ Others("zones")
  \/ visited = "ota" /\ OP!OtaNext /\ Others("ota")
  \/ visited = "analysis" /\ TA!AnalysisNext /\ Others("analysis")
  \/ visited = "jobs" /\ JP!PanelNext /\ Others("jobs")
  \/ visited = "kiosk" /\ KI!KioskNext /\ Others("kiosk")
  \/ visited = "devices" /\ DP!DeviceNext /\ Others("devices")
  \/ visited = "dialogs" /\ CD!DialogsNext /\ Others("dialogs")
  \/ visited = "spectrum" /\ SP!SpectrumNext /\ Others("spectrum")
\* What a page that is not visited could do next is not owed.
VisitedFairness ==
  /\ SF_vars(visited = "dashboard" /\ Serve) /\ WF_vars(visited = "dashboard" /\ Receive) /\ WF_vars(visited = "dashboard" /\ FlushDue)
  /\ WF_vars(visited = "dashboard" /\ LoadDeviceInventory) /\ WF_vars(visited = "dashboard" /\ \E kind \in Requests : Arrive(kind))
  /\ SF_vars(visited = "dashboard" /\ Listed)
  /\ WF_OtaVars(visited = "ota" /\ \E a \in oasks : OP!OtaServe(a)) /\ WF_OtaVars(visited = "ota" /\ \E a \in oasks : OP!OtaAnswered(a))
  /\ WF_OtaVars(visited = "ota" /\ OP!RefreshProgress) /\ WF_OtaVars(visited = "ota" /\ OP!DispatchNext) /\ WF_OtaVars(visited = "ota" /\ OP!DispatchEnd)
  /\ WF_AnalysisVars(visited = "analysis" /\ TA!Poll) /\ WF_AnalysisVars(visited = "analysis" /\ \E a \in aasks : TA!AnalysisServe(a))
  /\ WF_AnalysisVars(visited = "analysis" /\ \E a \in aasks : TA!AnalysisAnswered(a))
  /\ WF_KioskVars(visited = "kiosk" /\ KI!CheckDue) /\ WF_KioskVars(visited = "kiosk" /\ KI!Checked) /\ WF_KioskVars(visited = "kiosk" /\ KI!Reload)
  /\ WF_DialogVars(visited = "dialogs" /\ CD!Poll) /\ WF_DialogVars(visited = "dialogs" /\ \E a \in dasks : a.is = "poll" /\ CD!Serve(a))
  /\ WF_DialogVars(visited = "dialogs" /\ \E a \in dasks : CD!PollAnswered(a))
PagesSpec ==
  /\ PagesInit /\ [][PagesNext]_<<visited, vars, ZoneVars, OtaVars, AnalysisVars, PanelVars, KioskVars, ParkVars, DialogVars, SpectrumVars>>
  /\ VisitedFairness

-----------------------------------------------------------------------------
\* An answer finds the page, dialog or panel that asked for it: a zone or a
\* device is removed only after what goes with it was shown for that very one, a
\* firmware or an import is started with the file that is named, and what a
\* dialog of the chart saves belongs to the device it was opened for.
AnswersFindTheirPage ==
  CASE visited = "zones" -> ZP!DialogsKeepTheirZone
    [] visited = "ota" -> OP!FirmwareIsShown
    [] visited = "jobs" -> JP!UploadIsOfChosenFile
    [] visited = "devices" -> DP!RemovalIsOfShown
    [] visited = "dialogs" -> CD!DialogsKeepTheirDevice
    [] OTHER -> TRUE

\* What a page follows comes to its end on the screen too: the progress of an
\* update, an analysis, a data clear, a new build of the client.
EndOwed ==
  \/ visited = "ota" /\ OP!ProgressOwed
  \/ visited = "analysis" /\ TA!ShowsEndedAsRunning
  \/ visited = "kiosk" /\ KI!BuildOwed
  \/ visited = "dialogs" /\ CD!ClearOwed
EndsAreShown == EndOwed ~> ~EndOwed

\* What was begun is accounted for: a card that is said to be loading has a
\* request under way, a completed analysis has a row or an error for each device it
\* was asked about (and suggests no threshold below what the machine usually
\* does), a picture that was not sent is on its way while it can be, and every
\* device that passes the filter has its card on one page of the list.
SuggestionsAreSane == TA!AboveUsual
WorkIsAccountedFor ==
  CASE visited = "dashboard" -> LoadingMeansAsking
    [] visited = "analysis" -> SuggestionsAreSane /\ TA!CompletedTellsAll
    [] visited = "kiosk" -> KI!PictureIsOnItsWay
    [] visited = "devices" -> DP!CardsStandOnce
    [] OTHER -> TRUE

\* The names of the axes are those the placement of the sensor gives them.
NamesFollowPlacement == visited = "dialogs" => CD!NamesFollowPlacement

\* The spectrum shown belongs to the row pointed at, whole, and the dialog's body
\* is shared out to the last pixel.
SpectrumIsOfTarget == visited = "spectrum" => SP!SpectrumIsOfTarget /\ SP!LayoutFits
=============================================================================
