--------------------------- MODULE ClientPagesProofs ---------------------------
(* Proofs about the pages of the client: each page keeps an invariant of its    *)
(* own, step by step, whatever its constants are; a behaviour of the client     *)
(* visits one page, and the other ones stay as they are.                        *)
EXTENDS ClientPages, FiniteSetTheorems, SequenceTheorems, WellFoundedInduction, TLAPS

-----------------------------------------------------------------------------
(* Firmware: the uploaded file is the one the page names.                       *)

OtaInv ==
  /\ opage = [mount |-> opage.mount, file |-> opage.file, bin |-> opage.bin, uploading |-> opage.uploading, online |-> opage.online,
              selected |-> opage.selected, loading |-> opage.loading, dispatching |-> opage.dispatching, run |-> opage.run,
              rows |-> opage.rows, left |-> opage.left]
  /\ OP!FirmwareIsShown

LEMMA OtaStarts == OP!OtaInit => OtaInv
BY DEF OP!OtaInit, OP!Closed, OtaInv, OP!FirmwareIsShown

LEMMA OtaSteps == OtaInv /\ OP!OtaNext => OtaInv'
<1> SUFFICES ASSUME OtaInv, OP!OtaNext PROVE OtaInv'
    OBVIOUS
<1> USE DEF OtaInv, OP!FirmwareIsShown
<1>1. CASE OP!MountOtaPage \/ OP!LeaveOtaPage
  BY <1>1 DEF OP!MountOtaPage, OP!LeaveOtaPage, OP!Closed
<1>2. CASE OP!LoadDevices \/ OP!UploadBin \/ OP!ForgetFile \/ OP!StartOta
  BY <1>2 DEF OP!LoadDevices, OP!UploadBin, OP!ForgetFile, OP!StartOta, OP!User
<1>3. CASE OP!RefreshProgress \/ OP!DispatchNext \/ OP!DispatchEnd
  BY <1>3 DEF OP!RefreshProgress, OP!DispatchNext, OP!DispatchEnd
<1>4. ASSUME NEW f \in Binaries, OP!HandlePickedFile(f) PROVE OtaInv'
  BY <1>4 DEF OP!HandlePickedFile, OP!User
<1>5. ASSUME NEW d \in opage.online, OP!ToggleDevice(d) PROVE OtaInv'
  BY <1>5 DEF OP!ToggleDevice, OP!User
<1>6. ASSUME NEW ds \in {{}, opage.online}, OP!SelectShown(ds) PROVE OtaInv'
  BY <1>6 DEF OP!SelectShown, OP!User
<1>7. ASSUME NEW d \in Boards, OP!Connects(d) PROVE OtaInv'
  BY <1>7 DEF OP!Connects
<1>8. ASSUME NEW id \in DOMAIN fleet.commands, OP!Report(id) PROVE OtaInv'
  BY <1>8 DEF OP!Report
<1>9. ASSUME NEW a \in oasks, OP!OtaServe(a) \/ OP!OtaLost(a) PROVE OtaInv'
  BY <1>9 DEF OP!OtaServe, OP!OtaLost
<1>10. ASSUME NEW a \in oasks, OP!OtaAnswered(a) PROVE OtaInv'
  <2>1. CASE UNCHANGED opage
    BY <2>1
  <2>2. CASE OP!DevicesAnswered(a)
    BY <2>2 DEF OP!DevicesAnswered
  <2>3. CASE OP!UploadAnswered(a)
    BY <2>3 DEF OP!UploadAnswered
  <2>4. CASE OP!DispatchAnswered(a)
    BY <2>4 DEF OP!DispatchAnswered
  <2>5. CASE OP!LookupAnswered(a)
    BY <2>5 DEF OP!LookupAnswered
  <2> QED BY <1>10, <2>1, <2>2, <2>3, <2>4, <2>5 DEF OP!OtaAnswered
<1> QED BY <1>1, <1>2, <1>3, <1>4, <1>5, <1>6, <1>7, <1>8, <1>9, <1>10 DEF OP!OtaNext

-----------------------------------------------------------------------------
(* Removal of a device: what the dialog shows was looked up for the device it   *)
(* is about, because the lookup is thrown away when the dialog turns to another *)
(* one, and what was shown goes with the question.                              *)

DialogFields == {"selected", "mode", "edit", "saving", "removing", "checking", "deleting", "failed", "impact", "inst"}

\* What may be said of a dialog apart from its requests.
Fit(v) ==
  /\ DialogFields \subseteq DOMAIN v
  /\ v.removing \in BOOLEAN /\ (v.removing => v.mode # "edit")
  /\ v.impact # None => v.removing /\ v.impact = v.selected

DeviceInv ==
  /\ Fit(dpage)
  /\ \A a \in pasked : a.kind = "impact" => dpage.removing /\ a.device = dpage.selected
  /\ DP!RemovalIsOfShown

\* A change of the cards leaves the dialog as it is.
SameDialog(v, w) == (DialogFields \subseteq DOMAIN v <=> DialogFields \subseteq DOMAIN w) /\ \A f \in DialogFields : v[f] = w[f]

LEMMA CardsAlone ==
  ASSUME DeviceInv, UNCHANGED pasked, SameDialog(dpage', dpage)
  PROVE  DeviceInv'
BY DEF DeviceInv, Fit, DP!RemovalIsOfShown, SameDialog, DialogFields

LEMMA SameClamped == ASSUME NEW v PROVE SameDialog(DP!PageClamped(v), v)
BY DEF DP!PageClamped, SameDialog, DialogFields

LEMMA SameReconciled == ASSUME NEW v, NEW list PROVE SameDialog(DP!Reconciled(v, list), v)
BY DEF DP!Reconciled, SameDialog, DialogFields

LEMMA DeviceStarts == DP!DeviceInit => DeviceInv
<1> SUFFICES ASSUME DP!DeviceInit PROVE DeviceInv
    OBVIOUS
<1>1. /\ DialogFields \subseteq DOMAIN dpage /\ dpage.removing = FALSE /\ dpage.impact = None
  BY SMTT(60) DEF DP!DeviceInit, DP!Reconciled, DialogFields
<1> QED BY <1>1 DEF DP!DeviceInit, DeviceInv, Fit, DP!RemovalIsOfShown

LEMMA TurnedFits ==
  ASSUME NEW v, NEW under, Fit(v), DP!Turned(v, under), \A a \in under : a.kind = "delete" => a.seen = a.device
  PROVE  DeviceInv'
<1> USE DEF Fit, DialogFields, DP!RemovalIsOfShown, DP!Aborted
<1>1. CASE v.removing /\ v.selected # None
  <2>1. /\ dpage' = [v EXCEPT !.impact = None, !.checking = TRUE, !.failed = FALSE]
        /\ pasked' = DP!Aborted(under) \cup {DP!Asked("impact", v)}
    BY <1>1 DEF DP!Turned
  <2>2. DP!Asked("impact", v).kind = "impact" /\ DP!Asked("impact", v).device = v.selected
    BY DEF DP!Asked
  <2>3. DialogFields \subseteq DOMAIN v /\ v.removing \in BOOLEAN /\ v.mode # "edit"
    BY <1>1
  <2> HIDE DEF Fit
  <2>4. DialogFields \subseteq DOMAIN dpage' /\ dpage'.removing = TRUE /\ dpage'.impact = None /\ dpage'.selected = v.selected /\ dpage'.mode = v.mode
    BY <2>1, <2>3, <1>1
  <2> QED BY <2>1, <2>2, <2>3, <2>4, <1>1 DEF DeviceInv, Fit
<1>2. CASE ~(v.removing /\ v.selected # None)
  BY <1>2 DEF DP!Turned, DeviceInv
<1> QED BY <1>1, <1>2

LEMMA ShownFits ==
  ASSUME NEW v, NEW d, NEW mode, Fit(v)
  PROVE  Fit(DP!Showing(v, d, mode)) /\ DP!Showing(v, d, mode).selected = d
BY DEF DP!Showing, Fit, DialogFields

LEMMA DismissedFits ==
  ASSUME NEW v, DialogFields \subseteq DOMAIN v, v.impact = None
  PROVE  Fit(DP!Dismissed(v))
BY DEF DP!Dismissed, Fit, DialogFields

LEMMA SameAgain == ASSUME NEW u, NEW v, NEW w, SameDialog(u, v), SameDialog(v, w) PROVE SameDialog(u, w)
BY DEF SameDialog

LEMMA UsedFits ==
  ASSUME DeviceInv, NEW v, SameDialog(v, dpage), DP!Use(v)
  PROVE  DeviceInv'
BY SameClamped, SameAgain, CardsAlone DEF DP!Use

LEMMA DeviceSteps == DeviceInv /\ DP!DeviceNext => DeviceInv'
<1> SUFFICES ASSUME DeviceInv, DP!DeviceNext PROVE DeviceInv'
    OBVIOUS
<1>0. DialogFields \subseteq DOMAIN dpage
  BY DEF DeviceInv, Fit
<1>1. ASSUME NEW v, SameDialog(v, dpage), DP!ChangeQuery(v) PROVE DeviceInv'
  <2>1. SameDialog([v EXCEPT !.page = 1], v)
    BY DEF SameDialog, DialogFields
  <2> QED BY <1>1, <2>1, SameAgain, UsedFits DEF DP!ChangeQuery
<1>2. ASSUME NEW q PROVE /\ SameDialog([dpage EXCEPT !.zone = q], dpage) /\ SameDialog([dpage EXCEPT !.search = q], dpage)
                         /\ SameDialog([dpage EXCEPT !.filter = q], dpage) /\ SameDialog([dpage EXCEPT !.sort = q], dpage)
                         /\ SameDialog([dpage EXCEPT !.size = q], dpage)
  BY DEF SameDialog, DialogFields
<1>3. ASSUME NEW n, DP!GoToPage(n) PROVE DeviceInv'
  <2>1. SameDialog([dpage EXCEPT !.page = DP!Min({DP!TotalPages(dpage), DP!Max({1, n})})], dpage)
    BY DEF SameDialog, DialogFields
  <2> QED BY <1>3, <2>1, UsedFits DEF DP!GoToPage
<1>4. ASSUME NEW list, DP!Inventory(list) PROVE DeviceInv'
  BY <1>4, SameReconciled, CardsAlone DEF DP!Inventory
<1>5. CASE DP!PageSettles
  BY <1>5, SameClamped, CardsAlone DEF DP!PageSettles
<1>6. CASE DP!Remount
  <2>1. dpage.impact = None
    BY <1>6 DEF DP!Remount, DP!NoOverlay, DeviceInv, Fit
  <2>2. Fit(DP!Fresh(dpage))
    <3>1. DialogFields \subseteq DOMAIN DP!Fresh(dpage)
      <4>1. DOMAIN DP!Fresh(dpage) = DOMAIN dpage
        BY Zenon DEF DP!Fresh
      <4> QED BY <4>1, <1>0
    <3>2. DP!Fresh(dpage).removing = FALSE
      BY <1>0, SMTT(30) DEF DP!Fresh, DialogFields
    <3>3. DP!Fresh(dpage).impact = dpage.impact
      BY <1>0, SMTT(30) DEF DP!Fresh, DialogFields
    <3> QED BY <2>1, <3>1, <3>2, <3>3 DEF Fit
  <2>3. SameDialog(dpage', DP!Fresh(dpage))
    BY <1>6, SameClamped, SameReconciled, SameAgain DEF DP!Remount
  <2>4. Fit(dpage')
    BY <2>2, <2>3 DEF SameDialog, Fit, DialogFields
  <2> QED BY <1>6, <2>4 DEF DP!Remount, DeviceInv, DP!RemovalIsOfShown
<1>7. CASE DP!OpenEdit
  BY <1>7 DEF DP!OpenEdit, DP!Freely, DeviceInv, Fit, DialogFields, DP!RemovalIsOfShown
<1>8. CASE DP!OpenDelete
  <2>1. Fit([dpage EXCEPT !.removing = TRUE])
    BY <1>8 DEF DP!OpenDelete, DeviceInv, Fit, DialogFields
  <2> QED BY <1>8, <2>1, TurnedFits DEF DP!OpenDelete, DeviceInv, DP!RemovalIsOfShown
<1>9. CASE DP!Escape
  <2> DEFINE plain == [dpage EXCEPT !.menu = None, !.collapsed = @ \/ dpage.chart # None]
             noEdit == IF plain.edit /\ ~plain.saving THEN [plain EXCEPT !.edit = FALSE] ELSE plain
             noDelete == IF noEdit.removing /\ ~noEdit.deleting THEN [noEdit EXCEPT !.removing = FALSE, !.impact = None, !.failed = FALSE] ELSE noEdit
             quick == \/ dpage.mode = "edit" /\ dpage.edit /\ ~dpage.saving
                      \/ dpage.mode = "delete" /\ dpage.removing /\ ~dpage.deleting
             main == dpage.mode = "view" /\ ~dpage.deleting
  <2>1. Fit(noEdit) /\ (\A f \in DialogFields : f # "edit" => noEdit[f] = dpage[f])
    BY DEF DeviceInv, Fit, DialogFields
  <2>2. Fit(noDelete) /\ noDelete.selected = dpage.selected
    BY <2>1 DEF Fit, DialogFields
  <2>3. noDelete.removing => dpage.removing /\ dpage.deleting /\ dpage.mode # "edit"
    BY <2>1 DEF Fit, DialogFields, DeviceInv
  <2>4. ASSUME quick \/ main PROVE Fit(DP!Dismissed(noDelete))
    <3>1. ~noDelete.removing /\ noDelete.impact = None
      BY <2>4, <2>2, <2>3 DEF Fit, DialogFields
    <3> QED BY <3>1, <2>2, DismissedFits DEF Fit
  <2> DEFINE v == IF dpage.selected # None /\ (quick \/ main) THEN DP!Dismissed(noDelete) ELSE noDelete
  <2>5. Fit(v)
    BY <2>2, <2>4
  <2>6. dpage' = v /\ pasked' = IF v.removing THEN pasked ELSE DP!Aborted(pasked)
    BY <1>9 DEF DP!Escape
  <2>7. v.removing => v = noDelete
    BY <2>2 DEF DP!Dismissed, Fit, DialogFields
  <2> HIDE DEF v, noDelete
  <2>8. v.removing => v.selected = dpage.selected
    BY <2>7, <2>2
  <2> QED BY <2>5, <2>6, <2>8 DEF DeviceInv, DP!Aborted, DP!RemovalIsOfShown
<1>10. CASE DP!HandleDeleteDevice
  <2>1. pasked' = pasked \cup {DP!Asked("delete", dpage)} /\ dpage' = [dpage EXCEPT !.deleting = TRUE]
    BY <1>10 DEF DP!HandleDeleteDevice
  <2>2. dpage.impact = dpage.selected
    BY <1>10 DEF DP!HandleDeleteDevice, DeviceInv, Fit
  <2>3. LET a == DP!Asked("delete", dpage) IN a.kind = "delete" /\ a.seen = a.device
    BY <2>2 DEF DP!Asked
  <2> QED BY <2>1, <2>3 DEF DeviceInv, Fit, DialogFields, DP!RemovalIsOfShown
<1>11. ASSUME NEW name \in {1, 2}, DP!SaveDeviceInfo(name) PROVE DeviceInv'
  BY <1>11 DEF DP!SaveDeviceInfo, DP!Asked, DeviceInv, Fit, DialogFields, DP!RemovalIsOfShown
<1>12. ASSUME NEW d, DP!OpenMenu(d) \/ DP!OpenCardChart(d) PROVE DeviceInv'
  <2>1. SameDialog([dpage EXCEPT !.menu = d], dpage) /\ SameDialog([dpage EXCEPT !.chart = d, !.collapsed = FALSE, !.menu = None], dpage)
    BY DEF SameDialog, DialogFields
  <2>2. CASE DP!OpenMenu(d)
    BY <2>1, <2>2, CardsAlone DEF DP!OpenMenu, DP!Freely
  <2> QED BY <1>12, <2>1, <2>2, UsedFits DEF DP!OpenCardChart
<1>13. ASSUME NEW d, NEW mode, DP!OpenDeviceInfo(d, mode) PROVE DeviceInv'
  <2>1. Fit([dpage EXCEPT !.menu = None])
    BY DEF DeviceInv, Fit, DialogFields
  <2>2. Fit(DP!Showing([dpage EXCEPT !.menu = None], d, mode))
    BY <2>1, ShownFits
  <2> QED BY <1>13, <2>2, TurnedFits DEF DP!OpenDeviceInfo, DeviceInv, DP!RemovalIsOfShown
<1>14. ASSUME NEW a \in pasked, NEW ok \in BOOLEAN, DP!Answered(a, ok) PROVE DeviceInv'
  <2>1. CASE a.kind = "impact" /\ DP!ImpactAnswered(a, ok)
    <3>1. /\ dpage' = [dpage EXCEPT !.checking = FALSE, !.failed = ~ok, !.impact = IF ok THEN a.device ELSE @]
          /\ pasked' = pasked \ {a} /\ dpage.removing /\ a.device = dpage.selected
      BY <2>1 DEF DP!ImpactAnswered, DeviceInv
    <3>2. Fit(dpage')
      BY <3>1 DEF DeviceInv, Fit, DialogFields
    <3> QED BY <3>1, <3>2, <1>0 DEF DeviceInv, DialogFields, DP!RemovalIsOfShown
  <2>2. CASE a.kind = "save" /\ DP!SaveAnswered(a, ok)
    <3> DEFINE same == a.inst = dpage.inst /\ dpage.selected # None
               told == IF dpage.selected = a.device THEN dpage ELSE DP!Showing(dpage, a.device, dpage.mode)
               over == IF same THEN [told EXCEPT !.saving = FALSE, !.edit = FALSE] ELSE told
               quiet == IF same THEN [dpage EXCEPT !.saving = FALSE] ELSE dpage
    <3>1. Fit(told) /\ (dpage.selected = a.device => told = dpage)
      BY ShownFits DEF DeviceInv
    <3>2. Fit(over) /\ over.removing = told.removing /\ over.selected = told.selected /\ over.mode = told.mode /\ over.impact = told.impact
      BY <3>1 DEF Fit, DialogFields
    <3>3. Fit(quiet) /\ quiet.removing = dpage.removing /\ quiet.selected = dpage.selected
      BY DEF DeviceInv, Fit, DialogFields
    <3>4. /\ ~ok => dpage' = quiet /\ pasked' = pasked \ {a}
          /\ ok /\ same /\ dpage.mode = "edit" => dpage' = DP!Dismissed(over) /\ pasked' = DP!Aborted(pasked \ {a})
          /\ ok /\ ~(same /\ dpage.mode = "edit") /\ dpage.selected = a.device => dpage' = over /\ pasked' = pasked \ {a}
          /\ ok /\ ~(same /\ dpage.mode = "edit") /\ dpage.selected # a.device => DP!Turned(over, pasked \ {a})
      BY <2>2 DEF DP!SaveAnswered
    <3>5. told.mode = dpage.mode
      BY DEF DP!Showing, DeviceInv, Fit, DialogFields
    <3> HIDE DEF told, over, quiet
    <3>6. ASSUME ok, same, dpage.mode = "edit" PROVE Fit(DP!Dismissed(over))
      <4>1. ~over.removing /\ over.impact = None
        BY <3>2, <3>5, <3>6 DEF Fit
      <4> QED BY <4>1, <3>2, DismissedFits DEF Fit
    <3>7. CASE ~ok
      BY <3>7, <3>3, <3>4 DEF DeviceInv, DP!RemovalIsOfShown
    <3>8. CASE ok /\ same /\ dpage.mode = "edit"
      BY <3>8, <3>6, <3>4 DEF DeviceInv, DP!Aborted, DP!RemovalIsOfShown
    <3>9. CASE ok /\ ~(same /\ dpage.mode = "edit") /\ dpage.selected = a.device
      BY <3>9, <3>1, <3>2, <3>4 DEF DeviceInv, DP!RemovalIsOfShown
    <3>10. CASE ok /\ ~(same /\ dpage.mode = "edit") /\ dpage.selected # a.device
      BY <3>10, <3>2, <3>4, TurnedFits DEF DeviceInv, DP!RemovalIsOfShown
    <3> QED BY <3>7, <3>8, <3>9, <3>10
  <2>3. CASE a.kind = "delete" /\ DP!DeleteAnswered(a, ok)
    <3>1. CASE ok
      <4>1. Fit([DP!Dismissed(dpage) EXCEPT !.deleting = FALSE, !.impact = None])
        BY <1>0 DEF DP!Dismissed, Fit, DialogFields
      <4>2. Fit(dpage') /\ pasked' = DP!Aborted(pasked \ {a})
        BY <2>3, <3>1, <4>1 DEF DP!DeleteAnswered, DP!MarkDeviceExiting, Fit, DialogFields
      <4> QED BY <4>2 DEF DeviceInv, DP!Aborted, DP!RemovalIsOfShown
    <3>2. CASE ~ok
      BY <2>3, <3>2 DEF DP!DeleteAnswered, DeviceInv, Fit, DialogFields, DP!RemovalIsOfShown
    <3> QED BY <3>1, <3>2
  <2> QED BY <1>14, <2>1, <2>2, <2>3 DEF DP!Answered
<1>15. ASSUME NEW d, DP!ExitTimer(d) PROVE DeviceInv'
  <2>1. SameDialog([dpage EXCEPT !.exiting = @ \ {d}, !.hidden = @ \cup {d}], dpage)
    BY DEF SameDialog, DialogFields
  <2> QED BY <1>15, <2>1, SameClamped, SameAgain, CardsAlone DEF DP!ExitTimer
<1>16. ASSUME NEW w, DP!HandleResize(w) PROVE DeviceInv'
  <2>1. SameDialog([dpage EXCEPT !.viewport = w, !.width = DP!ClampChartSidebarWidth((@ * w) \div dpage.viewport, w)], dpage)
    BY DEF SameDialog, DialogFields
  <2> QED BY <1>16, <2>1, UsedFits DEF DP!HandleResize
<1>17. ASSUME NEW by, DP!HandleMouseMove(by) PROVE DeviceInv'
  <2>1. SameDialog([dpage EXCEPT !.width = DP!ClampChartSidebarWidth(dpage.width + by, dpage.viewport)], dpage)
    BY DEF SameDialog, DialogFields
  <2> QED BY <1>17, <2>1, UsedFits DEF DP!HandleMouseMove
<1> QED BY <1>1, <1>2, <1>3, <1>4, <1>5, <1>6, <1>7, <1>8, <1>9, <1>10, <1>11, <1>12, <1>13, <1>14, <1>15, <1>16, <1>17 DEF DP!DeviceNext

-----------------------------------------------------------------------------
(* Import of a file: every upload under way is of the file chosen last, since   *)
(* choosing another one aborts it, and what the server stored keeps its file.   *)

PanelFields == {"mount", "mode", "shows", "file", "upload", "merge", "submitting", "hook", "downloaded", "left"}

\* The import job of an id, if there is one, was stored with the file.
StoredWith(id, file) == id \in DOMAIN jobs /\ jobs[id].file = file

Statuses == {"stored", "queued", "running", "completed", "failed"}
JobRecord == [kind : {"import", "export"}, status : Statuses, file : Packages \cup {None}]

PanelInv ==
  /\ PanelFields \subseteq DOMAIN panel
  /\ jobs \in Seq(JobRecord)
  /\ \A a \in pasks : {"name", "kind", "file", "reply", "id", "owner"} \subseteq DOMAIN a
  /\ panel.upload # None => StoredWith(panel.upload, panel.file)
  /\ \A a \in pasks : a.name = "upload" =>
       /\ a.file = panel.file /\ a.file \in Packages
       /\ a.reply.is = "done" => StoredWith(a.reply.job.id, a.file)
  /\ ~JP!Shown => \A a \in pasks : a.name # "upload"

LEMMA PanelStarts == JP!PanelInit => PanelInv
BY DEF JP!PanelInit, JP!Gone, PanelInv, PanelFields

LEMMA UploadKept == PanelInv => JP!UploadIsOfChosenFile
BY DEF PanelInv, StoredWith, JP!UploadIsOfChosenFile

\* Jobs are added and move on; none changes its file.
JobsGoOn == jobs' \in Seq(JobRecord) /\ \A id \in DOMAIN jobs : id \in DOMAIN jobs' /\ jobs'[id].file = jobs[id].file

LEMMA MovedOn ==
  ASSUME NEW i, NEW s \in Statuses, jobs \in Seq(JobRecord), jobs' = [jobs EXCEPT ![i].status = s]
  PROVE  JobsGoOn
<1>1. CASE i \in DOMAIN jobs
  <2> DEFINE j == [jobs[i] EXCEPT !.status = s]
  <2>1. i \in 1 .. Len(jobs) /\ jobs[i] \in JobRecord
    BY <1>1
  <2>2. j \in JobRecord /\ j.file = jobs[i].file
    BY <2>1 DEF JobRecord
  <2>3. jobs' = [jobs EXCEPT ![i] = j]
    OBVIOUS
  <2> HIDE DEF j
  <2>4. jobs' \in Seq(JobRecord) /\ DOMAIN jobs' = DOMAIN jobs
    BY <2>1, <2>2, <2>3, ExceptSeq
  <2>5. \A id \in DOMAIN jobs : jobs'[id] = IF id = i THEN j ELSE jobs[id]
    BY <2>3
  <2> QED BY <2>2, <2>4, <2>5 DEF JobsGoOn
<1>2. CASE i \notin DOMAIN jobs
  <2>1. jobs \in [1 .. Len(jobs) -> JobRecord] /\ DOMAIN jobs = 1 .. Len(jobs)
    OBVIOUS
  <2>2. jobs' = jobs
    BY <2>1, <1>2
  <2> QED BY <2>2 DEF JobsGoOn
<1> QED BY <1>1, <1>2

LEMMA Added ==
  ASSUME NEW j \in JobRecord, jobs \in Seq(JobRecord), jobs' = Append(jobs, j)
  PROVE  JobsGoOn /\ Len(jobs) + 1 \in DOMAIN jobs' /\ jobs'[Len(jobs) + 1] = j
BY DEF JobsGoOn

\* The server answers a request: a stored file is that of its upload.
LEMMA RespondKeeps ==
  ASSUME PanelInv, JobsGoOn, UNCHANGED panel, NEW a \in pasks, NEW r,
         JP!Respond(a, r), a.name = "upload" /\ r.is = "done" => StoredWith(r.job.id, a.file)'
  PROVE  PanelInv'
<1>1. \A id, file : StoredWith(id, file) => StoredWith(id, file)'
  BY DEF StoredWith, JobsGoOn
<1>2. LET b == [a EXCEPT !.reply = r]
      IN  DOMAIN b = DOMAIN a /\ b.name = a.name /\ b.file = a.file /\ b.reply = r
  BY DEF PanelInv
<1> QED BY <1>1, <1>2 DEF PanelInv, JP!Respond, JobsGoOn, PanelFields, JP!Shown

LEMMA PanelServes == ASSUME PanelInv, NEW a \in pasks, JP!PanelServe(a) \/ JP!PanelLost(a) PROVE PanelInv'
<1> USE DEF PanelInv
<1>1. JobsGoOn => \A id, file : StoredWith(id, file) => StoredWith(id, file)'
  BY DEF StoredWith, JobsGoOn
<1>2. UNCHANGED jobs => JobsGoOn
  BY DEF JobsGoOn
<1>3. CASE JP!PanelLost(a)
  <2>1. JP!Respond(a, JP!Reject) /\ UNCHANGED jobs /\ panel' = [panel EXCEPT !.left = @ - 1]
    BY <1>3 DEF JP!PanelLost
  <2>2. LET b == [a EXCEPT !.reply = JP!Reject]
        IN  DOMAIN b = DOMAIN a /\ b.name = a.name /\ b.file = a.file /\ b.reply.is # "done"
    BY DEF JP!Reject
  <2>3. PanelFields \subseteq DOMAIN panel' /\ panel'.upload = panel.upload /\ panel'.file = panel.file /\ panel'.mount = panel.mount
    BY <2>1 DEF PanelFields
  <2> QED BY <1>1, <1>2, <2>1, <2>2, <2>3 DEF JP!Respond, JP!Shown
<1>4. CASE JP!PanelServe(a)
  <2> USE DEF JP!Reject
  <2>1. CASE a.name = "upload" /\ JP!PostUpload(a)
    <3>1. CASE JP!Respond(a, JP!Reject) /\ UNCHANGED jobs
      BY <1>2, <1>4, <3>1, RespondKeeps DEF JP!PanelServe
    <3>2. CASE /\ jobs' = Append(jobs, [kind |-> "import", status |-> "stored", file |-> a.file])
               /\ JP!Respond(a, JP!ImportJobDetail(Len(jobs) + 1, "stored"))
      <4>1. [kind |-> "import", status |-> "stored", file |-> a.file] \in JobRecord
        BY <2>1 DEF JobRecord, Statuses
      <4>2. PICK n : n = Len(jobs) + 1
        OBVIOUS
      <4>3. JobsGoOn /\ n \in DOMAIN jobs' /\ jobs'[n] = [kind |-> "import", status |-> "stored", file |-> a.file]
        BY <4>1, <4>2, <3>2, Added
      <4>4. StoredWith(n, a.file)'
        BY <4>3 DEF StoredWith
      <4>5. PICK r : r = JP!ImportJobDetail(n, "stored")
        OBVIOUS
      <4>6. r.job.id = n /\ JP!Respond(a, r)
        BY <4>2, <4>5, <3>2 DEF JP!ImportJobDetail
      <4> QED BY <1>4, <4>3, <4>4, <4>6, RespondKeeps DEF JP!PanelServe
    <3> QED BY <2>1, <3>1, <3>2 DEF JP!PostUpload
  <2>2. CASE a.name = "start" /\ JP!PostImportJob(a)
    <3>1. PICK r : JP!Respond(a, r)
      BY <2>2 DEF JP!PostImportJob
    <3>2. JobsGoOn
      BY <1>2, <2>2, MovedOn DEF JP!PostImportJob, Statuses
    <3> QED BY <1>4, <2>2, <3>1, <3>2, RespondKeeps DEF JP!PanelServe
  <2>3. CASE a.name = "start" /\ JP!PostExportJob(a)
    <3>1. [kind |-> "export", status |-> "queued", file |-> None] \in JobRecord
      BY DEF JobRecord, Statuses
    <3>2. JobsGoOn
      BY <2>3, <3>1, Added DEF JP!PostExportJob
    <3> QED BY <1>4, <2>3, <3>2, RespondKeeps DEF JP!PanelServe, JP!PostExportJob
  <2>4. CASE a.name # "upload" /\ (JP!GetImportJob(a) \/ JP!GetExportJob(a) \/ JP!ListJobs(a))
    <3>1. PICK r : JP!Respond(a, r)
      BY <2>4 DEF JP!GetImportJob, JP!GetExportJob, JP!ListJobs
    <3> QED BY <1>2, <1>4, <2>4, <3>1, RespondKeeps DEF JP!PanelServe, JP!GetImportJob, JP!GetExportJob, JP!ListJobs
  <2> QED BY <1>4, <2>1, <2>2, <2>3, <2>4 DEF JP!PanelServe
<1> QED BY <1>3, <1>4

\* What else happens in the panel leaves its file and its uploads, or drops them.
SamePanel(v) == PanelFields \subseteq DOMAIN v /\ v.upload = panel.upload /\ v.file = panel.file /\ v.mount = panel.mount
Uploads(under) == {a \in under : a.name = "upload"}
AskShape == {"name", "kind", "file", "reply", "id", "owner"}

LEMMA PanelElsewhere ==
  ASSUME PanelInv, UNCHANGED jobs, SamePanel(panel'), Uploads(pasks') \subseteq Uploads(pasks), \A a \in pasks' : AskShape \subseteq DOMAIN a
  PROVE  PanelInv'
BY DEF PanelInv, SamePanel, Uploads, StoredWith, AskShape, JP!Shown

LEMMA PanelDropped ==
  ASSUME PanelInv, UNCHANGED jobs, PanelFields \subseteq DOMAIN panel', panel'.upload = None, Uploads(pasks') = {},
         \A a \in pasks' : AskShape \subseteq DOMAIN a
  PROVE  PanelInv'
BY DEF PanelInv, Uploads, AskShape

LEMMA TookSame == ASSUME PanelInv, NEW a PROVE SamePanel(JP!Took(a))
<1> DEFINE v == [panel EXCEPT !.hook[a.kind] = JP!Track(@, a.reply.job)]
<1>1. SamePanel(v)
  BY DEF PanelInv, SamePanel, PanelFields
<1> HIDE DEF v
<1>2. SamePanel(JP!Downloads(v, a.reply.job))
  BY <1>1 DEF JP!Downloads, SamePanel, PanelFields
<1> QED BY <1>2 DEF JP!Took, v

LEMMA PanelAnswers == ASSUME PanelInv, NEW a \in pasks, JP!PanelAnswered(a) PROVE PanelInv'
<1>0. SamePanel(panel)
  BY DEF PanelInv, SamePanel
<1>1. /\ UNCHANGED jobs
      /\ pasks' \subseteq pasks \cup JP!Relist(a) /\ (\A b \in JP!Relist(a) : b.name = "list" /\ AskShape \subseteq DOMAIN b)
  BY DEF JP!PanelAnswered, JP!Relist, JP!Listing, JP!Call, AskShape
<1>2. Uploads(pasks') \subseteq Uploads(pasks) /\ \A b \in pasks' : AskShape \subseteq DOMAIN b
  BY <1>1 DEF Uploads, PanelInv, AskShape
<1>3. CASE a.name = "upload" /\ JP!UploadAnswered(a)
  <2>1. CASE JP!Ok(a)
    <3>1. StoredWith(a.reply.job.id, panel.file)
      BY <1>3, <2>1 DEF PanelInv, JP!Ok
    <3>2. PanelFields \subseteq DOMAIN panel' /\ panel'.upload = a.reply.job.id /\ panel'.file = panel.file /\ panel'.mount = panel.mount
      BY <1>3, <2>1 DEF JP!UploadAnswered, PanelInv, PanelFields
    <3> QED BY <1>1, <1>2, <3>1, <3>2 DEF PanelInv, StoredWith, Uploads, AskShape, JP!Shown
  <2>2. CASE ~JP!Ok(a)
    BY <1>0, <1>1, <1>2, <1>3, <2>2, PanelElsewhere DEF JP!UploadAnswered
  <2> QED BY <2>1, <2>2
<1>4. CASE UNCHANGED panel
  BY <1>0, <1>1, <1>2, <1>4, PanelElsewhere
<1>5. CASE JP!StartAnswered(a)
  <2>1. SamePanel(panel')
    BY <1>5, TookSame DEF JP!StartAnswered, SamePanel, PanelInv, PanelFields
  <2> QED BY <1>1, <1>2, <2>1, PanelElsewhere
<1>6. CASE JP!RestoreAnswered(a)
  BY <1>0, <1>1, <1>2, <1>6, TookSame, PanelElsewhere DEF JP!RestoreAnswered, SamePanel
<1>7. CASE JP!PollAnswered(a)
  <2>1. SamePanel(panel')
    BY <1>7, TookSame DEF JP!PollAnswered, SamePanel, PanelInv, PanelFields
  <2> QED BY <1>1, <1>2, <2>1, PanelElsewhere
<1>8. CASE panel' = [panel EXCEPT !.hook[a.kind].history = a.reply.jobs]
  <2>1. SamePanel(panel')
    BY <1>8 DEF SamePanel, PanelInv, PanelFields
  <2> QED BY <1>1, <1>2, <2>1, PanelElsewhere
<1> QED BY <1>3, <1>4, <1>5, <1>6, <1>7, <1>8 DEF JP!PanelAnswered, JP!Missed

LEMMA PanelSteps == PanelInv /\ JP!PanelNext => PanelInv'
<1> SUFFICES ASSUME PanelInv, JP!PanelNext PROVE PanelInv'
    OBVIOUS
<1>0. PanelFields \subseteq DOMAIN panel /\ \A a \in pasks : AskShape \subseteq DOMAIN a
  BY DEF PanelInv, AskShape
<1>1. CASE JP!MountPanels
  <2>1. panel' = [JP!Gone EXCEPT !.mount = panel.mount + 1, !.shows = panel.shows, !.left = panel.left - 1]
    BY <1>1 DEF JP!MountPanels
  <2>2. PanelFields \subseteq DOMAIN panel' /\ panel'.upload = None
    BY <2>1 DEF JP!Gone, PanelFields
  <2>3. PICK o : o = panel.mount + 1
    OBVIOUS
  <2>4. JP!OnMount("import", o).name # "upload" /\ AskShape \subseteq DOMAIN JP!OnMount("import", o)
    BY DEF JP!OnMount, AskShape
  <2>5. Uploads(pasks') = {} /\ \A a \in pasks' : AskShape \subseteq DOMAIN a
    BY <1>0, <1>1, <2>3, <2>4 DEF JP!MountPanels, JP!Issue, Uploads, PanelInv
  <2> QED BY <1>1, <2>2, <2>5, PanelDropped DEF JP!MountPanels
<1>2. CASE JP!LeavePanels
  <2>1. PanelFields \subseteq DOMAIN panel' /\ panel'.upload = None
    BY <1>2 DEF JP!LeavePanels, JP!Gone, PanelFields
  <2> QED BY <1>0, <1>2, <2>1, PanelDropped DEF JP!LeavePanels, JP!Unsent, Uploads
<1>3. CASE JP!SwitchMode
  <2>1. PanelFields \subseteq DOMAIN panel' /\ panel'.upload = None
    BY <1>0, <1>3 DEF JP!SwitchMode, JP!Click, PanelFields
  <2>2. \A o : JP!OnMount("export", o).name # "upload" /\ AskShape \subseteq DOMAIN JP!OnMount("export", o)
    BY DEF JP!OnMount, AskShape
  <2> QED BY <1>0, <1>3, <2>1, <2>2, PanelDropped DEF JP!SwitchMode, Uploads
<1>4. CASE JP!StartImport \/ JP!CreateJob
  <2>1. SamePanel(panel') /\ UNCHANGED jobs
    BY <1>0, <1>4 DEF JP!StartImport, JP!CreateJob, JP!Click, SamePanel, PanelFields
  <2>2. \A k, i, f : JP!Call("start", k, i, f).name = "start" /\ AskShape \subseteq DOMAIN JP!Call("start", k, i, f)
    BY DEF JP!Call, AskShape
  <2> QED BY <1>0, <1>4, <2>1, <2>2, PanelElsewhere DEF JP!StartImport, JP!CreateJob, JP!Issue, Uploads
<1>5. CASE JP!ChooseReplace
  <2>1. SamePanel(panel')
    BY <1>0, <1>5 DEF JP!ChooseReplace, JP!Click, SamePanel, PanelFields
  <2> QED BY <1>0, <1>5, <2>1, PanelElsewhere DEF JP!ChooseReplace
<1>6. ASSUME NEW f \in Packages \cup {None}, JP!ChooseFile(f) PROVE PanelInv'
  <2>1. PanelFields \subseteq DOMAIN panel' /\ panel'.upload = None /\ panel'.file = f /\ UNCHANGED jobs /\ JP!Shown /\ panel'.mount = panel.mount
    BY <1>0, <1>6 DEF JP!ChooseFile, JP!Click, PanelFields
  <2>2. CASE f = None
    BY <1>0, <1>6, <2>1, <2>2, PanelDropped DEF JP!ChooseFile, JP!Aborted, Uploads
  <2>3. CASE f # None
    <3>1. PICK b : b = JP!Call("upload", "import", None, f)
      OBVIOUS
    <3>2. b.file = f /\ b.reply.is = "pending" /\ AskShape \subseteq DOMAIN b
      BY <3>1 DEF JP!Call, AskShape
    <3>3. pasks' = JP!Aborted \cup {b}
      BY <1>6, <2>3, <3>1 DEF JP!ChooseFile
    <3>4. f \in Packages
      BY <2>3
    <3> QED BY <1>0, <2>1, <3>2, <3>3, <3>4 DEF PanelInv, JP!Aborted, AskShape, JP!Shown
  <2> QED BY <2>2, <2>3
<1>7. ASSUME NEW k \in JP!Kinds, JP!PollJob(k) PROVE PanelInv'
  <2>1. SamePanel(panel')
    BY <1>0, <1>7 DEF JP!PollJob, SamePanel, PanelFields
  <2>2. PICK b : b = JP!Call("poll", k, panel.hook[k].job.id, None)
    OBVIOUS
  <2>3. b.name = "poll" /\ AskShape \subseteq DOMAIN b
    BY <2>2 DEF JP!Call, AskShape
  <2> QED BY <1>0, <1>7, <2>1, <2>2, <2>3, PanelElsewhere DEF JP!PollJob, JP!Issue, Uploads
<1>8. ASSUME NEW i \in DOMAIN jobs, JP!JobMoves(i) PROVE PanelInv'
  <2>1. PICK s \in Statuses : jobs' = [jobs EXCEPT ![i].status = s]
    BY <1>8 DEF JP!JobMoves, Statuses
  <2>2. JobsGoOn
    BY <2>1, MovedOn DEF PanelInv
  <2> QED BY <1>8, <2>2 DEF JP!JobMoves, JobsGoOn, PanelInv, StoredWith, JP!Shown
<1>9. ASSUME NEW a \in pasks, JP!PanelServe(a) \/ JP!PanelLost(a) \/ JP!PanelAnswered(a) PROVE PanelInv'
  BY <1>9, PanelServes, PanelAnswers
<1> QED BY <1>1, <1>2, <1>3, <1>4, <1>5, <1>6, <1>7, <1>8, <1>9 DEF JP!PanelNext

-----------------------------------------------------------------------------
(* Zones: the page compares no zone when an answer arrives.  The dialog waits   *)
(* for its lookup, one removal and one save are under way at a time, and an     *)
(* earlier mount hears of nothing.                                              *)

ZoneFields == {"mount", "shown", "query", "totalPages", "loading", "refreshing", "form", "saving", "candidate", "impact",
               "checking", "deleting", "left"}
ZoneAskFields == {"kind", "mount", "query", "zone", "full", "force", "seen", "then", "reply"}

\* The requests the mounted page waits for, by what they are about.
OfMount(a) == a.mount = zpage.mount
Saves(a)   == OfMount(a) /\ (a.kind = "save" \/ (a.kind = "load" /\ a.then = "save"))
Deletes(a) == OfMount(a) /\ (a.kind = "delete" \/ (a.kind = "load" /\ a.then = "delete"))
Looks(a)   == OfMount(a) /\ a.kind = "impact"

ZoneDialogs ==
  /\ ZoneFields \subseteq DOMAIN zpage /\ zpage.mount \in Nat
  /\ zpage.saving \in BOOLEAN /\ zpage.checking \in BOOLEAN /\ zpage.deleting \in BOOLEAN
  /\ zpage.form # None => zpage.form = [zone |-> zpage.form.zone]
  /\ zpage.checking => zpage.candidate # None
  /\ zpage.impact # None => zpage.impact.zone = zpage.candidate

ZoneAsked(a) ==
  /\ ZoneAskFields \subseteq DOMAIN a /\ "is" \in DOMAIN a.reply /\ a.reply.is \in {"pending", "done", "refused"}
  /\ a.mount \in Nat /\ a.mount <= zpage.mount
  /\ a.then \in {"save", "delete", "nothing"}
  /\ a.kind = "delete" /\ a.force => a.seen = a.zone
  /\ a.kind = "impact" /\ a.reply.is = "done" => a.reply.zone = a.zone
  /\ Saves(a) => zpage.saving
  /\ Saves(a) /\ a.kind = "save" => zpage.form # None /\ zpage.form = [zone |-> a.zone]
  /\ Deletes(a) => zpage.deleting
  /\ Deletes(a) /\ a.kind = "delete" => zpage.candidate # None /\ ~zpage.checking
  /\ Looks(a) => zpage.checking /\ a.zone = zpage.candidate

ZoneOnce ==
  \A a, b \in zasks : (Saves(a) /\ Saves(b)) \/ (Deletes(a) /\ Deletes(b)) \/ (Looks(a) /\ Looks(b)) => a = b

ZoneInv == ZoneDialogs /\ (\A a \in zasks : ZoneAsked(a)) /\ ZoneOnce

LEMMA ZoneStarts == ZP!ZoneInit => ZoneInv
<1> SUFFICES ASSUME ZP!ZoneInit PROVE ZoneInv
    OBVIOUS
<1>1. ZoneDialogs
  BY DEF ZP!ZoneInit, ZP!Unmounted, ZoneDialogs, ZoneFields
<1> QED BY <1>1 DEF ZP!ZoneInit, ZoneInv, ZoneOnce

LEMMA ZoneDialogsKept == ZoneInv => ZP!DialogsKeepTheirZone
BY DEF ZoneInv, ZoneDialogs, ZoneAsked, Saves, OfMount, ZP!DialogsKeepTheirZone

\* A request whose reply changes stays what it is.
Replied(a, b) ==
  /\ DOMAIN b = DOMAIN a /\ "is" \in DOMAIN b.reply /\ b.reply.is \in {"pending", "done", "refused"}
  /\ \A f \in ZoneAskFields \ {"reply"} : b[f] = a[f]
  /\ b.kind = "impact" /\ b.reply.is = "done" => b.reply.zone = b.zone

LEMMA ReplyKeeps ==
  ASSUME ZoneInv, NEW a \in zasks, NEW b, Replied(a, b), zasks' = (zasks \ {a}) \cup {b},
         \/ UNCHANGED zpage
         \/ zpage' = [zpage EXCEPT !.left = @ - 1]
  PROVE  ZoneInv'
<1>1. \A f \in ZoneFields \ {"left"} : zpage'[f] = zpage[f]
  BY DEF ZoneInv, ZoneDialogs, ZoneFields
<1>2. ZoneDialogs'
  BY <1>1 DEF ZoneInv, ZoneDialogs, ZoneFields
<1>3. zpage'.mount = zpage.mount /\ zpage'.saving = zpage.saving /\ zpage'.form = zpage.form /\ zpage'.deleting = zpage.deleting
      /\ zpage'.candidate = zpage.candidate /\ zpage'.checking = zpage.checking
  BY <1>1 DEF ZoneFields
<1>4. \A c : ZoneAsked(c) => ZoneAsked(c)'
  BY <1>3 DEF ZoneAsked, Saves, Deletes, Looks, OfMount
<1>5. b.kind = a.kind /\ b.mount = a.mount /\ b.zone = a.zone /\ b.force = a.force /\ b.seen = a.seen /\ b.then = a.then
  BY DEF Replied, ZoneAskFields
<1>6. ZoneAsked(b)
  BY <1>5 DEF ZoneInv, ZoneAsked, Replied, Saves, Deletes, Looks, OfMount
<1>7. \A c : (Saves(c)' <=> Saves(c)) /\ (Deletes(c)' <=> Deletes(c)) /\ (Looks(c)' <=> Looks(c))
  BY <1>3 DEF Saves, Deletes, Looks, OfMount
<1>8. (Saves(b) <=> Saves(a)) /\ (Deletes(b) <=> Deletes(a)) /\ (Looks(b) <=> Looks(a))
  BY <1>5 DEF Saves, Deletes, Looks, OfMount
<1>9. ZoneOnce'
  BY <1>7, <1>8 DEF ZoneInv, ZoneOnce
<1> QED BY <1>2, <1>4, <1>6, <1>9 DEF ZoneInv

LEMMA ZoneServes == ASSUME ZoneInv, NEW a \in zasks, ZP!Serve(a) \/ ZP!Lost(a) PROVE ZoneInv'
<1>0. ZoneAskFields \subseteq DOMAIN a /\ "is" \in DOMAIN a.reply
  BY DEF ZoneInv, ZoneAsked
<1>1. ASSUME NEW r, "is" \in DOMAIN r, r.is \in {"done", "refused"}, a.kind = "impact" /\ r.is = "done" => r.zone = a.zone
      PROVE  Replied(a, [a EXCEPT !.reply = r])
  BY <1>0, <1>1 DEF Replied, ZoneAskFields
<1>2. ASSUME NEW w \in {"done", "refused"}, a.kind = "impact" => w # "done"
      PROVE  Replied(a, [a EXCEPT !.reply.is = w])
  BY <1>0, <1>2 DEF Replied, ZoneAskFields
<1>3. CASE ZP!Lost(a)
  BY <1>2, <1>3, ReplyKeeps DEF ZP!Lost
<1>4. CASE ZP!Serve(a)
  <2>1. CASE a.kind = "load" /\ zasks' = (zasks \ {a}) \cup {ZP!ListServed(a)}
    <3>1. PICK r : r = [ZP!ListPage(a.query) EXCEPT !.items = ZP!ParseZones(@)]
      OBVIOUS
    <3>2. "is" \in DOMAIN r /\ r.is = "done"
      BY <3>1 DEF ZP!ListPage
    <3>3. ZP!ListServed(a) = [a EXCEPT !.reply = r]
      BY <3>1, Zenon DEF ZP!ListServed
    <3> QED BY <1>1, <1>4, <2>1, <3>2, <3>3, ReplyKeeps DEF ZP!Serve
  <2>2. CASE a.kind = "impact" /\ zasks' = (zasks \ {a}) \cup {ZP!ImpactServed(a)}
    <3>1. PICK r : r = IF a.zone \in DOMAIN zones THEN [is |-> "done", zone |-> a.zone, devices |-> zones[a.zone].devices] ELSE [is |-> "refused"]
      OBVIOUS
    <3>2. "is" \in DOMAIN r /\ r.is \in {"done", "refused"} /\ (r.is = "done" => r.zone = a.zone)
      BY <3>1
    <3>3. ZP!ImpactServed(a) = [a EXCEPT !.reply = r]
      BY <3>1, Zenon DEF ZP!ImpactServed
    <3> QED BY <1>1, <1>4, <2>2, <3>2, <3>3, ReplyKeeps DEF ZP!Serve
  <2>3. CASE a.kind = "save" /\ (ZP!Create(a) \/ ZP!Rename(a))
    BY <1>2, <1>4, <2>3, ReplyKeeps DEF ZP!Serve, ZP!Create, ZP!Rename
  <2>4. CASE a.kind = "delete" /\ ZP!DeleteZone(a)
    BY <1>2, <1>4, <2>4, ReplyKeeps DEF ZP!Serve, ZP!DeleteZone
  <2> QED BY <1>4, <2>1, <2>2, <2>3, <2>4 DEF ZP!Serve
<1> QED BY <1>3, <1>4

\* A list is asked for, or nothing is: what the dialogs wait for stays.
SameDialogs(v) ==
  /\ ZoneFields \subseteq DOMAIN v
  /\ v.mount = zpage.mount /\ v.form = zpage.form /\ v.saving = zpage.saving /\ v.candidate = zpage.candidate
  /\ v.impact = zpage.impact /\ v.checking = zpage.checking /\ v.deleting = zpage.deleting

PlainList(b) ==
  ZoneAskFields \subseteq DOMAIN b /\ "is" \in DOMAIN b.reply /\ b.reply.is = "pending" /\ b.kind = "load" /\ b.then = "nothing" /\ b.mount = zpage.mount

LEMMA ListKeeps ==
  ASSUME ZoneInv, SameDialogs(zpage'), \A b \in zasks' : b \in zasks \/ PlainList(b)
  PROVE  ZoneInv'
<1>1. ZoneDialogs'
  BY DEF ZoneInv, ZoneDialogs, SameDialogs
<1>2. \A c : ZoneAsked(c) => ZoneAsked(c)'
  BY DEF SameDialogs, ZoneAsked, Saves, Deletes, Looks, OfMount
<1>3. \A c : PlainList(c) => ZoneAsked(c) /\ ~Saves(c) /\ ~Deletes(c) /\ ~Looks(c)
  BY DEF PlainList, ZoneAsked, Saves, Deletes, Looks, ZoneInv, ZoneDialogs
<1>4. \A c : (Saves(c)' <=> Saves(c)) /\ (Deletes(c)' <=> Deletes(c)) /\ (Looks(c)' <=> Looks(c))
  BY DEF SameDialogs, Saves, Deletes, Looks, OfMount
<1>5. ZoneOnce'
  BY <1>3, <1>4 DEF ZoneInv, ZoneOnce
<1> QED BY <1>1, <1>2, <1>3, <1>5 DEF ZoneInv

LEMMA RequestPlain == ASSUME NEW q PROVE PlainList(ZP!Request) /\ PlainList([ZP!Request EXCEPT !.query = q])
BY DEF ZP!Request, PlainList, ZoneAskFields

\* The page is left or entered: it waits for nothing of before.
LEMMA MountChanges ==
  ASSUME ZoneInv, ZoneDialogs', zpage'.mount = zpage.mount + 1,
         \A b \in zasks' : b \in zasks \/ PlainList(b)'
  PROVE  ZoneInv'
<1>1. \A c \in zasks : ZoneAsked(c)' /\ ~OfMount(c)'
  <2> TAKE c \in zasks
  <2>1. ZoneAsked(c) /\ zpage.mount \in Nat
    BY DEF ZoneInv, ZoneDialogs
  <2>2. ~OfMount(c)' /\ c.mount <= zpage'.mount
    BY <2>1 DEF ZoneAsked, OfMount
  <2> QED BY <2>1, <2>2 DEF ZoneAsked, Saves, Deletes, Looks
<1>2. \A c : PlainList(c)' => ZoneAsked(c)' /\ ~Saves(c)' /\ ~Deletes(c)' /\ ~Looks(c)'
  BY DEF PlainList, ZoneAsked, Saves, Deletes, Looks, ZoneDialogs
<1>3. ZoneOnce'
  BY <1>1, <1>2 DEF ZoneOnce, Saves, Deletes, Looks
<1> QED BY <1>1, <1>2, <1>3 DEF ZoneInv

\* One more request of the page, of a kind it does not wait for yet.
LEMMA AskKeeps ==
  ASSUME ZoneInv, ZoneDialogs', zpage'.mount = zpage.mount, NEW b, zasks' = zasks \cup {b}, ZoneAsked(b)',
         \A c \in zasks : ZoneAsked(c)',
         \A c \in zasks : ~(Saves(b) /\ Saves(c)) /\ ~(Deletes(b) /\ Deletes(c)) /\ ~(Looks(b) /\ Looks(c))
  PROVE  ZoneInv'
<1>1. \A c : (Saves(c)' <=> Saves(c)) /\ (Deletes(c)' <=> Deletes(c)) /\ (Looks(c)' <=> Looks(c))
  BY DEF Saves, Deletes, Looks, OfMount
<1>2. ZoneOnce'
  BY <1>1 DEF ZoneInv, ZoneOnce
<1> QED BY <1>2 DEF ZoneInv

LEMMA ZoneClicks ==
  ASSUME ZoneInv,
         \/ ZP!MountZonePage \/ ZP!LeaveZonePage \/ ZP!Refresh \/ ZP!CloseFormModal \/ ZP!SubmitForm \/ ZP!CloseDeleteModal \/ ZP!ConfirmDelete
         \/ \E q \in ZP!ZoneQueries : ZP!ChangeQuery(q)
         \/ \E z : ZP!OpenForm(z)
         \/ \E z \in ZoneIds : ZP!OpenDeleteModal(z)
  PROVE  ZoneInv'
<1>0. ZoneFields \subseteq DOMAIN zpage
  BY DEF ZoneInv, ZoneDialogs
<1>1. CASE ZP!MountZonePage
  <2>1. /\ ZoneDialogs' /\ zpage'.mount = zpage.mount + 1
    BY <1>1 DEF ZP!MountZonePage, ZP!Unmounted, ZoneInv, ZoneDialogs, ZoneFields
  <2>2. PICK b : /\ b = [ZP!Request EXCEPT !.mount = zpage.mount + 1, !.query = zpage'.query, !.full = TRUE]
                 /\ zasks' = zasks \cup {b}
    BY <1>1 DEF ZP!MountZonePage, ZP!Ask, ZP!Unmounted
  <2>3. PlainList(b)'
    BY <2>1, <2>2 DEF PlainList, ZP!Request, ZoneAskFields
  <2> QED BY <2>1, <2>2, <2>3, MountChanges
<1>2. CASE ZP!LeaveZonePage
  <2>1. ZoneDialogs' /\ zpage'.mount = zpage.mount + 1
    BY <1>2 DEF ZP!LeaveZonePage, ZP!Unmounted, ZoneInv, ZoneDialogs, ZoneFields
  <2> QED BY <1>2, <2>1, MountChanges DEF ZP!LeaveZonePage
<1>3. CASE ZP!Refresh
  <2>1. SameDialogs(zpage')
    BY <1>0, <1>3 DEF ZP!Refresh, ZP!Act, SameDialogs, ZoneFields
  <2> QED BY <1>3, <2>1, ListKeeps, RequestPlain DEF ZP!Refresh, ZP!Ask
<1>4. ASSUME NEW q, ZP!ChangeQuery(q) PROVE ZoneInv'
  <2>1. SameDialogs(zpage')
    BY <1>0, <1>4 DEF ZP!ChangeQuery, ZP!Act, SameDialogs, ZoneFields
  <2> QED BY <1>4, <2>1, ListKeeps, RequestPlain DEF ZP!ChangeQuery, ZP!Ask
<1>5. CASE ZP!CloseFormModal
  <2>1. /\ ~zpage.saving /\ UNCHANGED zasks /\ zpage' = [zpage EXCEPT !.form = None]
    BY <1>5 DEF ZP!CloseFormModal
  <2>2. ZoneDialogs' /\ zpage'.mount = zpage.mount /\ zpage'.saving = zpage.saving /\ zpage'.deleting = zpage.deleting
        /\ zpage'.candidate = zpage.candidate /\ zpage'.checking = zpage.checking
    BY <2>1 DEF ZoneInv, ZoneDialogs, ZoneFields
  <2>3. \A c \in zasks : ZoneAsked(c)'
    BY <2>1, <2>2 DEF ZoneInv, ZoneAsked, Saves, Deletes, Looks, OfMount
  <2> QED BY <2>1, <2>2, <2>3 DEF ZoneInv, ZoneOnce, Saves, Deletes, Looks, OfMount
<1>6. ASSUME NEW z, ZP!OpenForm(z) PROVE ZoneInv'
  <2>1. /\ zpage.form = None /\ UNCHANGED zasks /\ zpage' = [[zpage EXCEPT !.form = [zone |-> z]] EXCEPT !.left = @ - 1]
    BY <1>6 DEF ZP!OpenForm, ZP!Act, ZP!NoDialog
  <2>2. ZoneDialogs' /\ zpage'.mount = zpage.mount /\ zpage'.saving = zpage.saving /\ zpage'.deleting = zpage.deleting
        /\ zpage'.candidate = zpage.candidate /\ zpage'.checking = zpage.checking
    BY <2>1 DEF ZoneInv, ZoneDialogs, ZoneFields
  <2>3. \A c \in zasks : ZoneAsked(c)'
    BY <2>1, <2>2 DEF ZoneInv, ZoneAsked, Saves, Deletes, Looks, OfMount
  <2> QED BY <2>1, <2>2, <2>3 DEF ZoneInv, ZoneOnce, Saves, Deletes, Looks, OfMount
<1>7. CASE ZP!SubmitForm
  <2>1. /\ zpage.form # None /\ ~zpage.saving
        /\ zpage' = [[zpage EXCEPT !.saving = TRUE] EXCEPT !.left = @ - 1]
    BY <1>7 DEF ZP!SubmitForm, ZP!Act
  <2>2. PICK b : b = [ZP!Request EXCEPT !.kind = "save", !.zone = zpage.form.zone] /\ zasks' = zasks \cup {b}
    BY <1>7 DEF ZP!SubmitForm, ZP!Ask
  <2>3. ZoneDialogs' /\ zpage'.mount = zpage.mount /\ zpage'.saving = TRUE /\ zpage'.deleting = zpage.deleting
        /\ zpage'.candidate = zpage.candidate /\ zpage'.checking = zpage.checking /\ zpage'.form = zpage.form
    BY <2>1 DEF ZoneInv, ZoneDialogs, ZoneFields
  <2>4. /\ ZoneAskFields \subseteq DOMAIN b /\ b.kind = "save" /\ b.zone = zpage.form.zone /\ b.mount = zpage.mount /\ b.then = "nothing"
        /\ "is" \in DOMAIN b.reply /\ b.reply.is = "pending"
    BY <2>2 DEF ZP!Request, ZoneAskFields
  <2>5. \A c \in zasks : ZoneAsked(c)' /\ ~Saves(c)
    BY <2>1, <2>3 DEF ZoneInv, ZoneAsked, Saves, Deletes, Looks, OfMount
  <2>6. ZoneAsked(b)'
    BY <2>1, <2>3, <2>4 DEF ZoneInv, ZoneDialogs, ZoneAsked, Saves, Deletes, Looks, OfMount
  <2> QED BY <2>2, <2>3, <2>4, <2>5, <2>6, AskKeeps DEF Deletes, Looks
<1>8. ASSUME NEW z \in ZoneIds, ZP!OpenDeleteModal(z) PROVE ZoneInv'
  <2>1. /\ zpage.candidate = None /\ z # None
        /\ zpage' = [[zpage EXCEPT !.candidate = z, !.impact = None, !.checking = TRUE] EXCEPT !.left = @ - 1]
    BY <1>8, PagesAssumption DEF ZP!OpenDeleteModal, ZP!NoDialog, ZP!Act
  <2>2. PICK b : b = [ZP!Request EXCEPT !.kind = "impact", !.zone = z] /\ zasks' = zasks \cup {b}
    BY <1>8 DEF ZP!OpenDeleteModal, ZP!LoadDeleteImpact, ZP!Ask
  <2>3. ZoneDialogs' /\ zpage'.mount = zpage.mount /\ zpage'.saving = zpage.saving /\ zpage'.deleting = zpage.deleting
        /\ zpage'.candidate = z /\ zpage'.checking = TRUE /\ zpage'.form = zpage.form
    BY <2>1 DEF ZoneInv, ZoneDialogs, ZoneFields
  <2>4. /\ ZoneAskFields \subseteq DOMAIN b /\ b.kind = "impact" /\ b.zone = z /\ b.mount = zpage.mount /\ b.then = "nothing"
        /\ "is" \in DOMAIN b.reply /\ b.reply.is = "pending"
    BY <2>2 DEF ZP!Request, ZoneAskFields
  <2>5. \A c \in zasks : ZoneAsked(c)' /\ ~Looks(c)
    <3> TAKE c \in zasks
    <3>1. ZoneAsked(c) /\ ~zpage.checking
      BY <2>1 DEF ZoneInv, ZoneDialogs
    <3>2. ~Looks(c) /\ ~(Deletes(c) /\ c.kind = "delete")
      BY <2>1, <3>1 DEF ZoneAsked
    <3> QED BY <2>1, <2>3, <3>1, <3>2 DEF ZoneAsked, Saves, Deletes, Looks, OfMount
  <2>6. ZoneAsked(b)'
    BY <2>1, <2>3, <2>4 DEF ZoneInv, ZoneDialogs, ZoneAsked, Saves, Deletes, Looks, OfMount
  <2> QED BY <2>2, <2>3, <2>4, <2>5, <2>6, AskKeeps DEF Deletes, Saves
<1>9. CASE ZP!CloseDeleteModal
  <2>1. /\ ~zpage.deleting /\ ~zpage.checking /\ UNCHANGED zasks /\ zpage' = [zpage EXCEPT !.candidate = None, !.impact = None]
    BY <1>9 DEF ZP!CloseDeleteModal, ZP!Busy
  <2>2. ZoneDialogs' /\ zpage'.mount = zpage.mount /\ zpage'.saving = zpage.saving /\ zpage'.deleting = zpage.deleting
        /\ zpage'.form = zpage.form /\ zpage'.checking = zpage.checking
    BY <2>1 DEF ZoneInv, ZoneDialogs, ZoneFields
  <2>3. \A c \in zasks : ZoneAsked(c)'
    <3> TAKE c \in zasks
    <3>1. ZoneAsked(c)
      BY DEF ZoneInv
    <3>2. ~Looks(c) /\ ~Deletes(c)
      BY <2>1, <3>1 DEF ZoneAsked
    <3> QED BY <2>1, <2>2, <3>1, <3>2 DEF ZoneAsked, Saves, Deletes, Looks, OfMount
  <2> QED BY <2>1, <2>2, <2>3 DEF ZoneInv, ZoneOnce, Saves, Deletes, Looks, OfMount
<1>10. CASE ZP!ConfirmDelete
  <2>1. /\ zpage.candidate # None /\ ~zpage.deleting /\ ~zpage.checking
        /\ zpage' = [[zpage EXCEPT !.deleting = TRUE] EXCEPT !.left = @ - 1]
    BY <1>10 DEF ZP!ConfirmDelete, ZP!Act, ZP!Busy
  <2>2. PICK b : /\ b = [ZP!Request EXCEPT !.kind = "delete", !.zone = zpage.candidate, !.force = ZP!Affected,
                            !.seen = IF ZP!Affected THEN zpage.impact.zone ELSE None]
                 /\ zasks' = zasks \cup {b}
    BY <1>10 DEF ZP!ConfirmDelete, ZP!Ask
  <2>3. ZoneDialogs' /\ zpage'.mount = zpage.mount /\ zpage'.saving = zpage.saving /\ zpage'.deleting = TRUE
        /\ zpage'.candidate = zpage.candidate /\ zpage'.checking = zpage.checking /\ zpage'.form = zpage.form
    BY <2>1 DEF ZoneInv, ZoneDialogs, ZoneFields
  <2>4. /\ ZoneAskFields \subseteq DOMAIN b /\ b.kind = "delete" /\ b.zone = zpage.candidate /\ b.mount = zpage.mount /\ b.then = "nothing"
        /\ "is" \in DOMAIN b.reply /\ b.reply.is = "pending" /\ (b.force => ZP!Affected) /\ (ZP!Affected => b.seen = zpage.impact.zone)
    BY <2>2 DEF ZP!Request, ZoneAskFields, ZP!Affected
  <2>5. b.force => b.seen = b.zone
    BY <2>4 DEF ZP!Affected, ZoneInv, ZoneDialogs
  <2>6. \A c \in zasks : ZoneAsked(c)' /\ ~Deletes(c)
    <3> TAKE c \in zasks
    <3>1. ZoneAsked(c) /\ ~Deletes(c)
      BY <2>1 DEF ZoneInv, ZoneAsked
    <3> QED BY <2>3, <3>1 DEF ZoneAsked, Saves, Deletes, Looks, OfMount
  <2>7. ZoneAsked(b)'
    BY <2>1, <2>3, <2>4, <2>5 DEF ZoneInv, ZoneDialogs, ZoneAsked, Saves, Deletes, Looks, OfMount
  <2> QED BY <2>2, <2>3, <2>4, <2>6, <2>7, AskKeeps DEF Saves, Looks
<1> QED BY <1>1, <1>2, <1>3, <1>4, <1>5, <1>6, <1>7, <1>8, <1>9, <1>10

\* The page no longer waits for one of the three, and nothing else changes.
LEMMA OthersStay ==
  ASSUME ZoneInv, ZoneDialogs', zpage'.mount = zpage.mount, NEW a \in zasks, \A b \in zasks' : b \in zasks \ {a} \/ PlainList(b),
         (zpage'.saving = zpage.saving /\ zpage'.form = zpage.form) \/ \A c \in zasks \ {a} : ~Saves(c),
         zpage'.deleting = zpage.deleting \/ \A c \in zasks \ {a} : ~Deletes(c),
         zpage'.checking = zpage.checking \/ (zpage'.checking = FALSE /\ \A c \in zasks \ {a} : ~Looks(c)),
         zpage'.candidate = zpage.candidate
  PROVE  ZoneInv'
<1>1. \A c : (Saves(c)' <=> Saves(c)) /\ (Deletes(c)' <=> Deletes(c)) /\ (Looks(c)' <=> Looks(c))
  BY DEF Saves, Deletes, Looks, OfMount
<1>2. \A c \in zasks \ {a} : ZoneAsked(c)'
  <2> TAKE c \in zasks \ {a}
  <2>1. ZoneAsked(c)
    BY DEF ZoneInv
  <2> QED BY <1>1, <2>1 DEF ZoneAsked
<1>3. \A c : PlainList(c) => ZoneAsked(c)' /\ ~Saves(c) /\ ~Deletes(c) /\ ~Looks(c)
  BY <1>1 DEF PlainList, ZoneAsked, Saves, Deletes, Looks, ZoneInv, ZoneDialogs
<1>4. ZoneOnce'
  BY <1>1, <1>3 DEF ZoneInv, ZoneOnce
<1> QED BY <1>2, <1>3, <1>4 DEF ZoneInv

\* The list that a save waits for takes the place of the save.
LEMMA InPlace ==
  ASSUME ZoneInv, ZoneDialogs', SameDialogs(zpage'), NEW a \in zasks, NEW b, zasks' = (zasks \ {a}) \cup {b}, ZoneAsked(b),
         ~Deletes(b), ~Looks(b), \A c \in zasks \ {a} : ~Saves(c)
  PROVE  ZoneInv'
<1>1. \A c : (Saves(c)' <=> Saves(c)) /\ (Deletes(c)' <=> Deletes(c)) /\ (Looks(c)' <=> Looks(c))
  BY DEF SameDialogs, Saves, Deletes, Looks, OfMount
<1>2. \A c : ZoneAsked(c) => ZoneAsked(c)'
  BY <1>1 DEF SameDialogs, ZoneAsked
<1>3. ZoneOnce'
  BY <1>1 DEF ZoneInv, ZoneOnce
<1> QED BY <1>2, <1>3 DEF ZoneInv

\* An answer takes its request away, and lets go of what the page waits for with it.
LEMMA ZoneAnswers == ASSUME ZoneInv, NEW a \in zasks, ZP!Answered(a) PROVE ZoneInv'
<1>0. ZoneFields \subseteq DOMAIN zpage /\ ZoneAsked(a) /\ SameDialogs(zpage)
  BY DEF ZoneInv, ZoneDialogs, SameDialogs
<1>1. CASE zasks' = zasks \ {a} /\ UNCHANGED zpage
  BY <1>0, <1>1, ListKeeps
<1>2. CASE OfMount(a) /\ a.kind = "load" /\ ZP!LoadAnswered(a)
  <2> DEFINE v == IF a.reply.is = "refused" THEN zpage ELSE ZP!Listed(a)
             u == ZP!Finished(v, a)
  <2>1. zpage' = ZP!Continued(u, a) /\ \A b \in zasks' : b \in zasks \ {a} \/ PlainList(b)
    BY <1>2, RequestPlain DEF ZP!LoadAnswered
  <2>2. SameDialogs(v)
    BY <1>0 DEF ZP!Listed, SameDialogs, ZoneFields
  <2>3. SameDialogs(u)
    BY <2>2 DEF ZP!Finished, SameDialogs, ZoneFields
  <2> HIDE DEF v, u
  <2>4. CASE a.then = "nothing"
    BY <2>1, <2>3, <2>4, ListKeeps DEF ZP!Continued
  <2>5. CASE a.then = "save"
    <3>1. zpage' = [u EXCEPT !.form = None, !.saving = FALSE]
      BY <2>1, <2>5 DEF ZP!Continued
    <3>2. ZoneDialogs' /\ zpage'.mount = zpage.mount /\ zpage'.deleting = zpage.deleting /\ zpage'.candidate = zpage.candidate
          /\ zpage'.checking = zpage.checking
      BY <2>3, <3>1 DEF SameDialogs, ZoneInv, ZoneDialogs, ZoneFields
    <3>3. \A c \in zasks \ {a} : ~Saves(c)
      BY <1>2, <2>5 DEF ZoneInv, ZoneOnce, Saves
    <3> QED BY <2>1, <3>2, <3>3, OthersStay
  <2>6. CASE a.then = "delete"
    <3>1. zpage' = [u EXCEPT !.deleting = FALSE]
      BY <2>1, <2>6 DEF ZP!Continued
    <3>2. ZoneDialogs' /\ zpage'.mount = zpage.mount /\ zpage'.saving = zpage.saving /\ zpage'.form = zpage.form
          /\ zpage'.candidate = zpage.candidate /\ zpage'.checking = zpage.checking
      BY <2>3, <3>1 DEF SameDialogs, ZoneInv, ZoneDialogs, ZoneFields
    <3>3. \A c \in zasks \ {a} : ~Deletes(c)
      BY <1>2, <2>6 DEF ZoneInv, ZoneOnce, Deletes
    <3> QED BY <2>1, <3>2, <3>3, OthersStay
  <2> QED BY <1>0, <2>4, <2>5, <2>6 DEF ZoneAsked
<1>3. CASE OfMount(a) /\ a.kind = "impact" /\ ZP!ImpactAnswered(a)
  <2>1. /\ zpage' = [zpage EXCEPT !.checking = FALSE, !.impact = IF a.reply.is = "refused" THEN [zone |-> a.zone, devices |-> 0]
                                                                 ELSE [zone |-> a.reply.zone, devices |-> a.reply.devices]]
        /\ zasks' = zasks \ {a}
    BY <1>3 DEF ZP!ImpactAnswered
  <2>2. Looks(a) /\ zpage.checking /\ a.zone = zpage.candidate
    BY <1>0, <1>3 DEF ZoneAsked, Looks
  <2>3. a.reply.is \in {"done", "refused"} /\ (a.reply.is = "done" => a.reply.zone = a.zone)
    BY <1>0, <1>3 DEF ZoneAsked, ZP!Answered
  <2>4. zpage'.impact.zone = zpage.candidate /\ zpage'.checking = FALSE
    BY <1>0, <2>1, <2>2, <2>3 DEF ZoneFields
  <2>5. ZoneDialogs' /\ zpage'.mount = zpage.mount /\ zpage'.saving = zpage.saving /\ zpage'.form = zpage.form
        /\ zpage'.candidate = zpage.candidate /\ zpage'.deleting = zpage.deleting
    BY <2>1, <2>4 DEF ZoneInv, ZoneDialogs, ZoneFields
  <2>6. \A c \in zasks \ {a} : ~Looks(c)
    BY <2>2 DEF ZoneInv, ZoneOnce
  <2> QED BY <2>1, <2>4, <2>5, <2>6, OthersStay
<1>4. CASE OfMount(a) /\ a.kind = "save" /\ ZP!SaveAnswered(a)
  <2>0. Saves(a) /\ zpage.saving /\ \A c \in zasks \ {a} : ~Saves(c)
    BY <1>0, <1>4 DEF ZoneInv, ZoneAsked, ZoneOnce, Saves
  <2>1. CASE a.reply.is = "refused"
    <3>1. zpage' = [zpage EXCEPT !.saving = FALSE] /\ zasks' = zasks \ {a}
      BY <1>4, <2>1 DEF ZP!SaveAnswered
    <3>2. ZoneDialogs' /\ zpage'.mount = zpage.mount /\ zpage'.deleting = zpage.deleting
          /\ zpage'.candidate = zpage.candidate /\ zpage'.checking = zpage.checking
      BY <3>1 DEF ZoneInv, ZoneDialogs, ZoneFields
    <3> QED BY <2>0, <3>1, <3>2, OthersStay
  <2>2. CASE a.reply.is # "refused"
    <3>1. PICK b : /\ b = [ZP!Request EXCEPT !.query = a.query, !.then = "save"]
                   /\ zasks' = (zasks \ {a}) \cup {b} /\ zpage' = [zpage EXCEPT !.refreshing = TRUE]
      BY <1>4, <2>2 DEF ZP!SaveAnswered
    <3>2. ZoneDialogs' /\ SameDialogs(zpage')
      BY <1>0, <3>1 DEF ZoneInv, ZoneDialogs, SameDialogs, ZoneFields
    <3>3. /\ ZoneAskFields \subseteq DOMAIN b /\ b.kind = "load" /\ b.mount = zpage.mount /\ b.then = "save"
          /\ "is" \in DOMAIN b.reply /\ b.reply.is = "pending"
      BY <3>1 DEF ZP!Request, ZoneAskFields
    <3>4. ZoneAsked(b) /\ ~Deletes(b) /\ ~Looks(b)
      BY <2>0, <3>3 DEF ZoneInv, ZoneDialogs, ZoneAsked, Saves, Deletes, Looks, OfMount
    <3> QED BY <2>0, <3>1, <3>2, <3>4, InPlace
  <2> QED BY <2>1, <2>2
<1>5. CASE OfMount(a) /\ a.kind = "delete" /\ ZP!DeleteAnswered(a)
  <2>0. /\ Deletes(a) /\ zpage.deleting /\ ~zpage.checking
        /\ \A c \in zasks \ {a} : ~Deletes(c) /\ ~Looks(c)
    BY <1>0, <1>5 DEF ZoneInv, ZoneAsked, ZoneOnce, Deletes
  <2>1. CASE a.reply.is = "refused"
    <3>1. zpage' = [zpage EXCEPT !.deleting = FALSE] /\ zasks' = zasks \ {a}
      BY <1>5, <2>1 DEF ZP!DeleteAnswered
    <3>2. ZoneDialogs' /\ zpage'.mount = zpage.mount /\ zpage'.saving = zpage.saving /\ zpage'.form = zpage.form
          /\ zpage'.candidate = zpage.candidate /\ zpage'.checking = zpage.checking
      BY <3>1 DEF ZoneInv, ZoneDialogs, ZoneFields
    <3> QED BY <2>0, <3>1, <3>2, OthersStay
  <2>2. CASE a.reply.is # "refused"
    <3>1. PICK b : /\ b = [ZP!Request EXCEPT !.query = a.query, !.then = "delete"]
                   /\ zasks' = (zasks \ {a}) \cup {b}
                   /\ zpage' = [zpage EXCEPT !.candidate = None, !.impact = None, !.refreshing = TRUE]
      BY <1>5, <2>2 DEF ZP!DeleteAnswered
    <3>2. ZoneDialogs' /\ zpage'.mount = zpage.mount /\ zpage'.saving = zpage.saving /\ zpage'.form = zpage.form
          /\ zpage'.deleting = zpage.deleting /\ zpage'.checking = zpage.checking
      BY <2>0, <3>1 DEF ZoneInv, ZoneDialogs, ZoneFields
    <3>3. /\ ZoneAskFields \subseteq DOMAIN b /\ b.kind = "load" /\ b.mount = zpage.mount /\ b.then = "delete"
          /\ "is" \in DOMAIN b.reply /\ b.reply.is = "pending"
      BY <3>1 DEF ZP!Request, ZoneAskFields
    <3>4. ZoneAsked(b)'
      BY <2>0, <3>2, <3>3 DEF ZoneInv, ZoneDialogs, ZoneAsked, Saves, Deletes, Looks, OfMount
    <3>5. \A c \in zasks \ {a} : ZoneAsked(c)'
      <4> TAKE c \in zasks \ {a}
      <4>1. ZoneAsked(c) /\ ~Deletes(c) /\ ~Looks(c)
        BY <2>0 DEF ZoneInv
      <4> QED BY <3>2, <4>1 DEF ZoneAsked, Saves, Deletes, Looks, OfMount
    <3>6. ZoneOnce'
      <4>1. \A c : (Saves(c)' <=> Saves(c)) /\ (Deletes(c)' <=> Deletes(c)) /\ (Looks(c)' <=> Looks(c))
        BY <3>2 DEF Saves, Deletes, Looks, OfMount
      <4>2. ~Saves(b) /\ ~Looks(b)
        BY <3>3 DEF Saves, Looks
      <4> QED BY <2>0, <3>1, <4>1, <4>2 DEF ZoneInv, ZoneOnce
    <3> QED BY <3>1, <3>2, <3>4, <3>5, <3>6 DEF ZoneInv
  <2> QED BY <2>1, <2>2
<1> QED BY <1>1, <1>2, <1>3, <1>4, <1>5 DEF ZP!Answered, OfMount

LEMMA ZoneSteps == ZoneInv /\ ZP!ZoneNext => ZoneInv'
<1> SUFFICES ASSUME ZoneInv, ZP!ZoneNext PROVE ZoneInv'
    OBVIOUS
<1>1. ASSUME NEW z \in DOMAIN zones, ZP!Assigned(z) PROVE ZoneInv'
  <2>1. SameDialogs(zpage') /\ UNCHANGED zasks
    BY <1>1 DEF ZP!Assigned, SameDialogs, ZoneInv, ZoneDialogs, ZoneFields
  <2> QED BY <2>1, ListKeeps
<1> QED BY <1>1, ZoneClicks, ZoneServes, ZoneAnswers DEF ZP!ZoneNext

-----------------------------------------------------------------------------
(* Dialogs of the chart: one change is saved at a time and its dialog cannot be *)
(* left, so the panel does not turn to another device; what is asked again and  *)
(* again is dropped when it does.                                               *)

PanelDialogFields == {"device", "over", "saving", "axis", "error", "summary", "loading", "early", "job", "notified", "told", "open",
                      "month", "months", "fetching"}
DialogAskFields == {"is", "device", "arg", "answer"}

Writes == {"merge", "rename", "place", "setpoints", "clear"}
DialogOf(is) == CASE is \in {"merge", "rename"} -> "rename" [] is = "place" -> "place" [] is = "setpoints" -> "settings" [] is = "clear" -> "confirm"

\* The clear jobs: their numbers are given in order, each is of a device.
JobTable(table) ==
  /\ \E n \in Nat : DOMAIN table = 1 .. n
  /\ \A j \in DOMAIN table : table[j] = [device |-> table[j].device, status |-> table[j].status]

JobIsOf(j, d) == j \in DOMAIN stored.jobs /\ stored.jobs[j].device = d

\* What an answer says of a job of the device was so, and is still so if the job had come to its end.
Tells(j, d) == JobIsOf(j.job, d) /\ (j.status = "completed" => stored.jobs[j.job].status = "completed")

DialogState ==
  /\ PanelDialogFields \subseteq DOMAIN dlg /\ {"config", "labels", "setpoints", "jobs"} \subseteq DOMAIN stored
  /\ JobTable(stored.jobs)
  /\ dlg.job # None => JobIsOf(dlg.job, dlg.device)
  /\ \A t \in dlg.told : t[2] \in DOMAIN stored.jobs /\ stored.jobs[t[2]] = [device |-> t[1], status |-> "completed"]

DialogAsked(a) ==
  /\ DialogAskFields \subseteq DOMAIN a
  /\ a.is \in Writes \cup {"poll", "config"} => a.device = dlg.device
  /\ a.is \in Writes => dlg.saving = {DialogOf(a.is)} /\ DialogOf(a.is) \in dlg.over
  /\ a.is = "poll" /\ a.arg # None => JobIsOf(a.arg, a.device)
  /\ a.is = "clear" /\ a.answer \notin {CD!Waiting, CD!Failed} => Tells(a.answer, a.device)
  /\ a.is = "poll" /\ a.answer \notin {CD!Waiting, CD!Failed, None} => Tells(a.answer, a.device)

DialogInv ==
  /\ DialogState
  /\ \A a \in dasks : DialogAsked(a)
  /\ \A a, b \in dasks : a.is \in Writes /\ b.is \in Writes => a = b

LEMMA DialogStarts == CD!DialogsInit => DialogInv
<1> SUFFICES ASSUME CD!DialogsInit PROVE DialogInv
    OBVIOUS
<1> DEFINE d == CHOOSE x \in Panels : TRUE
<1>1. PICK start \in {<<None, <<>>, {}>>, <<CD!Older, <<>>, {}>>, <<None, <<"running">>, {}>>, <<CD!Turned, <<>>, {"place"}>>} :
        /\ dlg = [CD!Panel(d) EXCEPT !.over = start[3]]
        /\ dasks = {CD!Ask("config", d, None), CD!Ask("poll", d, None)}
        /\ stored = [config |-> [p \in Panels |-> start[1]], labels |-> [p \in Panels |-> CD!Physical], setpoints |-> [p \in Panels |-> 1],
                     jobs |-> [j \in DOMAIN start[2] |-> [device |-> d, status |-> start[2][j]]]]
  BY DEF CD!DialogsInit
<1> HIDE DEF d
<1>2. \E n \in Nat : DOMAIN start[2] = 1 .. n
  <2>1. DOMAIN start[2] = 1 .. 0 \/ DOMAIN start[2] = 1 .. 1
    OBVIOUS
  <2> QED BY <2>1
<1>3. JobTable(stored.jobs)
  <2>1. stored.jobs = [j \in DOMAIN start[2] |-> [device |-> d, status |-> start[2][j]]]
    BY <1>1
  <2> QED BY <1>2, <2>1 DEF JobTable
<1>4. DialogState
  BY <1>1, <1>3 DEF DialogState, CD!Panel, PanelDialogFields
<1>5. \A a \in dasks : a.is \in {"config", "poll"} /\ a.device = dlg.device /\ a.arg = None /\ a.answer = CD!Waiting /\ DialogAskFields \subseteq DOMAIN a
  BY <1>1 DEF CD!Ask, CD!Panel, DialogAskFields
<1> QED BY <1>4, <1>5 DEF DialogInv, DialogAsked, Writes

\* The last clear job of a device is one of its own.
LEMMA LastJob ==
  ASSUME JobTable(stored.jobs), NEW d
  PROVE  LET own == {j \in DOMAIN stored.jobs : stored.jobs[j].device = d}
         IN  IF own = {} THEN CD!JobOf(d) = None ELSE CD!JobOf(d) \in own
<1> DEFINE own == {j \in DOMAIN stored.jobs : stored.jobs[j].device = d}
<1>1. CASE own = {}
  BY <1>1 DEF CD!JobOf
<1>2. CASE own # {}
  <2>1. PICK n \in Nat : DOMAIN stored.jobs = 1 .. n
    BY DEF JobTable
  <2> DEFINE left == {n - j : j \in own}
             Less == OpToRel(<, Nat)
  <2>2. left \subseteq Nat /\ left # {}
    BY <1>2, <2>1
  <2>3. PICK k \in left : \A l \in left : ~(<<l, k>> \in Less)
    <3>1. IsWellFoundedOn(Less, Nat)
      BY NatLessThanWellFounded
    <3> HIDE DEF Less, left
    <3> QED BY <2>2, <3>1, WFMin
  <2>4. \A l \in left : ~(l < k)
    BY <2>2, <2>3 DEF OpToRel
  <2>5. PICK m \in own : k = n - m
    OBVIOUS
  <2>6. \A i \in own : i <= m
    <3> TAKE i \in own
    <3>1. n - i \in left /\ i \in 1 .. n /\ m \in 1 .. n
      BY <2>1
    <3> QED BY <2>4, <2>5, <3>1
  <2>7. (CHOOSE j \in own : \A i \in own : i <= j) \in own
    BY <2>6
  <2> QED BY <1>2, <2>7 DEF CD!JobOf
<1> QED BY <1>1, <1>2

\* Jobs are added and come to an end; none changes its device or begins anew.
JobsKept ==
  /\ JobTable(stored.jobs)' /\ {"config", "labels", "setpoints", "jobs"} \subseteq DOMAIN stored'
  /\ \A j \in DOMAIN stored.jobs :
       /\ j \in DOMAIN stored'.jobs /\ stored'.jobs[j].device = stored.jobs[j].device
       /\ stored.jobs[j].status = "completed" => stored'.jobs[j].status = "completed"

LEMMA KeptTells ==
  ASSUME DialogState, JobsKept, UNCHANGED dlg
  PROVE  /\ \A j, d : JobIsOf(j, d) => JobIsOf(j, d)'
         /\ \A j, d : Tells(j, d) => Tells(j, d)'
         /\ DialogState'
<1>1. \A j, d : JobIsOf(j, d) => JobIsOf(j, d)'
  BY DEF JobIsOf, JobsKept
<1>2. \A j, d : Tells(j, d) => Tells(j, d)'
  BY <1>1 DEF Tells, JobIsOf, JobsKept
<1>3. \A t \in dlg.told : t[2] \in DOMAIN stored'.jobs /\ stored'.jobs[t[2]] = [device |-> t[1], status |-> "completed"]
  <2> TAKE t \in dlg.told
  <2>0. t[2] \in DOMAIN stored.jobs /\ stored.jobs[t[2]] = [device |-> t[1], status |-> "completed"]
    BY DEF DialogState
  <2>1. t[2] \in DOMAIN stored.jobs /\ stored.jobs[t[2]].device = t[1] /\ stored.jobs[t[2]].status = "completed"
    BY <2>0
  <2>2. t[2] \in DOMAIN stored'.jobs /\ stored'.jobs[t[2]].device = t[1] /\ stored'.jobs[t[2]].status = "completed"
    BY <2>1 DEF JobsKept
  <2>3. stored'.jobs[t[2]] = [device |-> stored'.jobs[t[2]].device, status |-> stored'.jobs[t[2]].status]
    BY <2>2 DEF JobsKept, JobTable
  <2> QED BY <2>2, <2>3
<1>4. dlg.job # None => JobIsOf(dlg.job, dlg.device)'
  BY <1>1 DEF DialogState
<1>5. DialogState'
  BY <1>3, <1>4 DEF DialogState, JobsKept
<1> QED BY <1>1, <1>2, <1>5

LEMMA AnswerKeeps ==
  ASSUME DialogInv, JobsKept, UNCHANGED dlg, NEW a \in dasks, NEW x, dasks' = (dasks \ {a}) \cup {[a EXCEPT !.answer = x]},
         a.is = "clear" /\ x # CD!Failed => Tells(x, a.device)',
         a.is = "poll" /\ x \notin {CD!Failed, None} => Tells(x, a.device)'
  PROVE  DialogInv'
<1>1. PICK b : b = [a EXCEPT !.answer = x]
  OBVIOUS
<1>2. DialogAskFields \subseteq DOMAIN b /\ b.is = a.is /\ b.device = a.device /\ b.arg = a.arg /\ b.answer = x
  BY <1>1 DEF DialogInv, DialogAsked, DialogAskFields
<1>3. DialogState' /\ (\A j, d : JobIsOf(j, d) => JobIsOf(j, d)') /\ (\A j, d : Tells(j, d) => Tells(j, d)')
  BY KeptTells DEF DialogInv
<1>4. \A c \in dasks : DialogAsked(c)'
  BY <1>3 DEF DialogInv, DialogAsked
<1>5. DialogAsked(b)'
  BY <1>2, <1>3 DEF DialogInv, DialogAsked
<1> QED BY <1>1, <1>2, <1>3, <1>4, <1>5 DEF DialogInv

LEMMA DialogServes == ASSUME DialogInv, NEW a \in dasks, CD!Serve(a) \/ CD!Refuse(a) PROVE DialogInv'
<1> USE DEF CD!Waiting
<1>0. DialogState /\ DialogAsked(a)
  BY DEF DialogInv
<1>1. UNCHANGED stored.jobs /\ {"config", "labels", "setpoints", "jobs"} \subseteq DOMAIN stored' => JobsKept
  BY <1>0 DEF DialogState, JobsKept
<1>2. CASE CD!Refuse(a)
  BY <1>0, <1>1, <1>2, AnswerKeeps DEF CD!Refuse, DialogState
<1>3. CASE CD!Serve(a) /\ a.is \notin {"clear", "poll"}
  <2>1. PICK x : dasks' = (dasks \ {a}) \cup {[a EXCEPT !.answer = x]}
    BY <1>3 DEF CD!Serve, CD!Answer
  <2>2. UNCHANGED stored.jobs /\ {"config", "labels", "setpoints", "jobs"} \subseteq DOMAIN stored'
    BY <1>0, <1>3 DEF CD!Serve, CD!Answer, DialogState
  <2> QED BY <1>1, <1>3, <2>1, <2>2, AnswerKeeps DEF CD!Serve, CD!Answer
<1>4. CASE CD!Serve(a) /\ a.is = "clear"
  <2> DEFINE old == CD!JobOf(a.device)
             new == Len(stored.jobs) + 1
  <2>1. \/ /\ old # None /\ UNCHANGED <<stored, dlg>>
           /\ dasks' = (dasks \ {a}) \cup {[a EXCEPT !.answer = [job |-> old, status |-> stored.jobs[old].status]]}
        \/ /\ stored' = [stored EXCEPT !.jobs = CD!WithJob(new, a.device)]
           /\ dasks' = (dasks \ {a}) \cup {[a EXCEPT !.answer = [job |-> new, status |-> "queued"]]} /\ UNCHANGED dlg
    <3>1. CD!QueueClear(a) /\ UNCHANGED dlg
      BY <1>4 DEF CD!Serve
    <3>2. CASE old # None /\ ~CD!Ended(old)
      BY <3>1, <3>2 DEF CD!QueueClear, CD!Answer
    <3>3. CASE ~(old # None /\ ~CD!Ended(old))
      <4>1. CD!Answer(a, [job |-> new, status |-> "queued"]) /\ stored' = [stored EXCEPT !.jobs = CD!WithJob(new, a.device)]
        BY <3>1, <3>3, Zenon DEF CD!QueueClear
      <4> QED BY <3>1, <4>1 DEF CD!Answer
    <3> QED BY <3>2, <3>3
  <2>2. ASSUME old # None, UNCHANGED <<stored, dlg>>,
               dasks' = (dasks \ {a}) \cup {[a EXCEPT !.answer = [job |-> old, status |-> stored.jobs[old].status]]}
        PROVE  DialogInv'
    <3>1. JobIsOf(old, a.device)
      BY <2>2, <1>0, LastJob DEF JobIsOf, DialogState
    <3>2. PICK x : x = [job |-> old, status |-> stored.jobs[old].status]
      OBVIOUS
    <3>3. Tells(x, a.device)'
      BY <2>2, <3>1, <3>2 DEF Tells, JobIsOf
    <3> QED BY <1>0, <1>1, <1>4, <2>2, <3>2, <3>3, AnswerKeeps DEF DialogState
  <2>3. ASSUME stored' = [stored EXCEPT !.jobs = CD!WithJob(new, a.device)],
               dasks' = (dasks \ {a}) \cup {[a EXCEPT !.answer = [job |-> new, status |-> "queued"]]}, UNCHANGED dlg
        PROVE  DialogInv'
    <3>1. PICK n \in Nat : DOMAIN stored.jobs = 1 .. n
      BY <1>0 DEF DialogState, JobTable
    <3>2. PICK m : m = new
      OBVIOUS
    <3>3. m = n + 1
      BY <3>1, <3>2
    <3> HIDE DEF new
    <3>4. stored'.jobs = [j \in 1 .. m |-> IF j = m THEN [device |-> a.device, status |-> "queued"] ELSE stored.jobs[j]]
      <4>1. 1 .. n \cup {m} = 1 .. m
        BY <3>3
      <4> QED BY <2>3, <3>1, <3>2, <4>1, <1>0 DEF DialogState, CD!WithJob
    <3>5. JobTable(stored'.jobs)
      BY <3>1, <3>3, <3>4, <1>0 DEF DialogState, JobTable
    <3>6. JobsKept
      BY <2>3, <3>1, <3>3, <3>4, <3>5, <1>0 DEF JobsKept, DialogState
    <3>7. PICK x : x = [job |-> m, status |-> "queued"]
      OBVIOUS
    <3>8. Tells(x, a.device)'
      BY <3>3, <3>4, <3>7 DEF Tells, JobIsOf
    <3> QED BY <1>4, <2>3, <3>2, <3>6, <3>7, <3>8, AnswerKeeps
  <2> QED BY <2>1, <2>2, <2>3
<1>5. CASE CD!Serve(a) /\ a.is = "poll"
  <2> DEFINE j == IF a.arg = None THEN CD!JobOf(a.device) ELSE a.arg
  <2>1. dasks' = (dasks \ {a}) \cup {[a EXCEPT !.answer = IF j = None THEN None ELSE [job |-> j, status |-> stored.jobs[j].status]]}
        /\ UNCHANGED <<stored, dlg>>
    BY <1>5 DEF CD!Serve, CD!Answer
  <2>2. j # None => JobIsOf(j, a.device)
    BY <1>0, <1>5, LastJob DEF JobIsOf, DialogState, DialogAsked
  <2>3. PICK i : i = j
    OBVIOUS
  <2>4. PICK x : x = IF i = None THEN None ELSE [job |-> i, status |-> stored.jobs[i].status]
    OBVIOUS
  <2>5. x # None => Tells(x, a.device)'
    BY <2>1, <2>2, <2>3, <2>4 DEF Tells, JobIsOf
  <2> QED BY <1>0, <1>1, <1>5, <2>1, <2>3, <2>4, <2>5, AnswerKeeps DEF DialogState
<1> QED BY <1>2, <1>3, <1>4, <1>5

\* A request that was there stays fit while the panel shows the same device.
LEMMA AskStays ==
  ASSUME DialogInv, UNCHANGED stored, NEW a \in dasks, dlg'.device = dlg.device,
         a.is \in Writes => dlg'.saving = {DialogOf(a.is)} /\ DialogOf(a.is) \in dlg'.over
  PROVE  DialogAsked(a)'
BY DEF DialogInv, DialogAsked, Tells, JobIsOf

\* Nothing that changes data is asked for or answered.
Asks(a) == DialogAskFields \subseteq DOMAIN a /\ a.answer = CD!Waiting /\ a.is \notin Writes /\ (a.is \in {"poll", "config"} => a.device = dlg'.device)
           /\ (a.is = "poll" => a.arg = None \/ JobIsOf(a.arg, a.device))
LEMMA DialogLooks ==
  ASSUME DialogInv, UNCHANGED stored, PanelDialogFields \subseteq DOMAIN dlg', dlg'.device = dlg.device, dlg'.saving = dlg.saving,
         dlg'.job # None => JobIsOf(dlg'.job, dlg.device),
         \A t \in dlg'.told : t \in dlg.told \/ (t[2] \in DOMAIN stored.jobs /\ stored.jobs[t[2]] = [device |-> t[1], status |-> "completed"]),
         \A a \in dasks : a.is \in Writes => DialogOf(a.is) \in dlg'.over,
         \A a \in dasks' : a \in dasks \/ Asks(a)
  PROVE  DialogInv'
<1>1. DialogState'
  BY DEF DialogInv, DialogState, JobIsOf
<1>2. \A a \in dasks : DialogAsked(a)'
  <2> TAKE a \in dasks
  <2>1. a.is \in Writes => dlg'.saving = {DialogOf(a.is)} /\ DialogOf(a.is) \in dlg'.over
    BY DEF DialogInv, DialogAsked
  <2> QED BY <2>1, AskStays
<1>3. \A a \in dasks' : Asks(a) => DialogAsked(a)'
  BY DEF Asks, DialogAsked, JobIsOf
<1>4. \A a \in dasks' : a.is \in Writes => a \in dasks
  BY DEF Asks
<1> QED BY <1>1, <1>2, <1>3, <1>4 DEF DialogInv

\* A dialog that is open asks for a change, when none is under way.
LEMMA DialogAsksFor ==
  ASSUME DialogInv, UNCHANGED stored, ~CD!Busy, NEW w, dasks' = dasks \cup {w}, DialogAskFields \subseteq DOMAIN w, w.is \in Writes,
         w.device = dlg.device, w.answer = CD!Waiting, PanelDialogFields \subseteq DOMAIN dlg', dlg'.device = dlg.device,
         dlg'.saving = {DialogOf(w.is)}, dlg'.over = dlg.over, DialogOf(w.is) \in dlg.over, dlg'.job = dlg.job, dlg'.told = dlg.told
  PROVE  DialogInv'
<1>1. DialogState'
  BY DEF DialogInv, DialogState, JobIsOf
<1>2. \A a \in dasks : a.is \notin Writes
  BY DEF DialogInv, DialogAsked, CD!Busy
<1>3. \A a \in dasks : DialogAsked(a)'
  BY <1>2, AskStays
<1>4. DialogAsked(w)'
  BY DEF DialogAsked, Writes
<1> QED BY <1>1, <1>2, <1>3, <1>4 DEF DialogInv

\* The change under way is answered: there is no other one.
LEMMA DialogHears ==
  ASSUME DialogInv, UNCHANGED stored, NEW a \in dasks, a.is \in Writes, dasks' \subseteq dasks \ {a},
         PanelDialogFields \subseteq DOMAIN dlg', dlg'.device = dlg.device,
         dlg'.job # None => JobIsOf(dlg'.job, dlg.device), dlg'.told = dlg.told
  PROVE  DialogInv'
<1>1. DialogState'
  BY DEF DialogInv, DialogState, JobIsOf
<1>2. \A b \in dasks' : b \in dasks /\ b.is \notin Writes
  BY DEF DialogInv
<1>3. \A b \in dasks' : DialogAsked(b)'
  BY <1>2, AskStays
<1> QED BY <1>1, <1>2, <1>3 DEF DialogInv

LEMMA DialogOpens ==
  ASSUME DialogInv, \/ \E r \in CD!AxisKeys : CD!OpenAxisRenameModal(r)
                    \/ CD!OpenPlacement \/ CD!OpenDataSettings \/ CD!OpenClearDataConfirm
  PROVE  DialogInv'
<1> DEFINE Kept == /\ PanelDialogFields \subseteq DOMAIN dlg' /\ dlg'.device = dlg.device /\ dlg'.saving = dlg.saving /\ dlg'.job = dlg.job
                   /\ dlg'.told = dlg.told /\ dlg.over \subseteq dlg'.over
<1>0. PanelDialogFields \subseteq DOMAIN dlg /\ (\A a \in dasks : a.is \in Writes => DialogOf(a.is) \in dlg.over)
      /\ (dlg.job # None => JobIsOf(dlg.job, dlg.device))
  BY DEF DialogInv, DialogState, DialogAsked
<1>1. UNCHANGED stored
  BY DEF CD!OpenAxisRenameModal, CD!OpenPlacement, CD!OpenDataSettings, CD!OpenClearDataConfirm
<1>2. \A a \in dasks' : a \in dasks \/ Asks(a)
  <2>1. UNCHANGED dasks \/ dasks' = dasks \cup {CD!Ask("summary", dlg.device, None)} \/ \E x : dasks' = dasks \cup {CD!Ask("summary", x, None)}
    BY DEF CD!OpenAxisRenameModal, CD!OpenPlacement, CD!OpenDataSettings, CD!OpenClearDataConfirm, CD!LoadDeviceDataSummary
  <2>2. \A x : Asks(CD!Ask("summary", x, None))
    BY DEF Asks, CD!Ask, DialogAskFields, Writes
  <2> QED BY <2>1, <2>2
<1>3. ASSUME NEW r \in CD!AxisKeys, CD!OpenAxisRenameModal(r) PROVE Kept
  BY <1>0, <1>3 DEF CD!OpenAxisRenameModal, CD!Opens, PanelDialogFields
<1>4. ASSUME CD!OpenPlacement PROVE Kept
  BY <1>0, <1>4 DEF CD!OpenPlacement, CD!Opens, PanelDialogFields
<1>5. ASSUME CD!OpenDataSettings PROVE Kept
  BY <1>0, <1>5 DEF CD!OpenDataSettings, CD!Opens, PanelDialogFields
<1>6. ASSUME CD!OpenClearDataConfirm PROVE Kept
  BY <1>0, <1>6 DEF CD!OpenClearDataConfirm, CD!Opens, PanelDialogFields
<1>7. Kept
  BY <1>3, <1>4, <1>5, <1>6
<1> QED BY <1>0, <1>1, <1>2, <1>7, DialogLooks

LEMMA DialogCloses == ASSUME DialogInv, NEW is, CD!CloseDialog(is) PROVE DialogInv'
<1>0. PanelDialogFields \subseteq DOMAIN dlg /\ (dlg.job # None => JobIsOf(dlg.job, dlg.device))
  BY DEF DialogInv, DialogState
<1>1. /\ PanelDialogFields \subseteq DOMAIN dlg' /\ dlg'.device = dlg.device /\ dlg'.saving = dlg.saving /\ dlg'.job = dlg.job
      /\ dlg'.told = dlg.told /\ dlg'.over = dlg.over \ {is}
  BY <1>0 DEF CD!CloseDialog, PanelDialogFields
<1>2. \A a \in dasks : a.is \in Writes => DialogOf(a.is) \in dlg.over /\ DialogOf(a.is) # is
  BY DEF CD!CloseDialog, CD!Held, DialogInv, DialogAsked
<1>3. UNCHANGED <<stored, dasks>>
  BY DEF CD!CloseDialog
<1> QED BY <1>0, <1>1, <1>2, <1>3, DialogLooks

LEMMA DialogSaves ==
  ASSUME DialogInv, \/ \E name \in AxisNames : CD!SaveAxisRename(name) \/ CD!SavePositionConfig([axes.motor EXCEPT !["x"] = name])
                    \/ \E v \in {0, 2} : CD!SaveSetpoints(v)
                    \/ CD!ClearDeviceData
  PROVE  DialogInv'
<1>0. PanelDialogFields \subseteq DOMAIN dlg /\ (dlg.job # None => JobIsOf(dlg.job, dlg.device))
      /\ (\A a \in dasks : a.is \in Writes => DialogOf(a.is) \in dlg.over)
  BY DEF DialogInv, DialogState, DialogAsked
<1> DEFINE Saving(is) == /\ PanelDialogFields \subseteq DOMAIN dlg' /\ dlg'.device = dlg.device /\ dlg'.saving = {DialogOf(is)} /\ dlg'.job = dlg.job
                         /\ dlg'.told = dlg.told /\ dlg'.over = dlg.over /\ DialogOf(is) \in dlg.over
<1>1. ASSUME NEW is \in Writes, ~CD!Busy, UNCHANGED stored, Saving(is), \E arg : dasks' = dasks \cup {CD!Ask(is, dlg.device, arg)} PROVE DialogInv'
  <2>1. PICK w : \E arg : w = CD!Ask(is, dlg.device, arg) /\ dasks' = dasks \cup {w}
    BY <1>1
  <2>2. DialogAskFields \subseteq DOMAIN w /\ w.is = is /\ w.device = dlg.device /\ w.answer = CD!Waiting
    BY <2>1 DEF CD!Ask, DialogAskFields
  <2> QED BY <1>1, <2>1, <2>2, DialogAsksFor
<1>2. ASSUME NEW name \in AxisNames, CD!SaveAxisRename(name) PROVE DialogInv'
  <2>1. Saving("merge")
    BY <1>0, <1>2 DEF CD!SaveAxisRename, PanelDialogFields, DialogOf
  <2>2. \E arg : dasks' = dasks \cup {CD!Ask("merge", dlg.device, arg)}
    BY <1>2 DEF CD!SaveAxisRename
  <2> QED BY <1>1, <1>2, <2>1, <2>2 DEF CD!SaveAxisRename, Writes
<1>3. ASSUME NEW names, CD!SavePositionConfig(names) PROVE DialogInv'
  <2>1. Saving("place")
    BY <1>0, <1>3 DEF CD!SavePositionConfig, PanelDialogFields, DialogOf
  <2>2. \E arg : dasks' = dasks \cup {CD!Ask("place", dlg.device, arg)}
    BY <1>3 DEF CD!SavePositionConfig
  <2> QED BY <1>1, <1>3, <2>1, <2>2 DEF CD!SavePositionConfig, Writes
<1>4. ASSUME NEW v \in {0, 2}, CD!SaveSetpoints(v) PROVE DialogInv'
  <2>1. CASE v <= 0
    <3>1. /\ PanelDialogFields \subseteq DOMAIN dlg' /\ dlg'.device = dlg.device /\ dlg'.saving = dlg.saving /\ dlg'.job = dlg.job
          /\ dlg'.told = dlg.told /\ dlg'.over = dlg.over
      BY <1>0, <1>4, <2>1 DEF CD!SaveSetpoints, PanelDialogFields
    <3>2. UNCHANGED <<stored, dasks>>
      BY <1>4, <2>1 DEF CD!SaveSetpoints
    <3> QED BY <1>0, <3>1, <3>2, DialogLooks
  <2>2. CASE ~(v <= 0)
    <3>1. Saving("setpoints")
      BY <1>0, <1>4, <2>2 DEF CD!SaveSetpoints, PanelDialogFields, DialogOf
    <3>2. \E arg : dasks' = dasks \cup {CD!Ask("setpoints", dlg.device, arg)}
      BY <1>4, <2>2 DEF CD!SaveSetpoints
    <3> QED BY <1>1, <1>4, <3>1, <3>2 DEF CD!SaveSetpoints, Writes
  <2> QED BY <2>1, <2>2
<1>5. CASE CD!ClearDeviceData
  <2>1. Saving("clear")
    BY <1>0, <1>5 DEF CD!ClearDeviceData, PanelDialogFields, DialogOf
  <2>2. \E arg : dasks' = dasks \cup {CD!Ask("clear", dlg.device, arg)}
    BY <1>5 DEF CD!ClearDeviceData
  <2> QED BY <1>1, <1>5, <2>1, <2>2 DEF CD!ClearDeviceData, Writes
<1> QED BY <1>2, <1>3, <1>4, <1>5

LEMMA DialogAnswers == ASSUME DialogInv, NEW a \in dasks, CD!Answered(a) PROVE DialogInv'
<1>0. PanelDialogFields \subseteq DOMAIN dlg /\ (dlg.job # None => JobIsOf(dlg.job, dlg.device))
      /\ (\A b \in dasks : b.is \in Writes => DialogOf(b.is) \in dlg.over) /\ DialogAsked(a)
  BY DEF DialogInv, DialogState, DialogAsked
<1> DEFINE Shown == /\ PanelDialogFields \subseteq DOMAIN dlg' /\ dlg'.device = dlg.device /\ dlg'.saving = dlg.saving /\ dlg'.job = dlg.job
                    /\ dlg'.told = dlg.told /\ dlg'.over = dlg.over
           Answered == /\ PanelDialogFields \subseteq DOMAIN dlg' /\ dlg'.device = dlg.device /\ dlg'.job = dlg.job /\ dlg'.told = dlg.told
<1>1. ASSUME Shown, UNCHANGED stored, dasks' \subseteq dasks PROVE DialogInv'
  BY <1>0, <1>1, DialogLooks
<1>2. ASSUME Answered, UNCHANGED stored, a.is \in Writes, dasks' \subseteq dasks \ {a} PROVE DialogInv'
  BY <1>0, <1>2, DialogHears
<1>3. CASE CD!ConfigAnswered(a)
  <2>1. UNCHANGED <<dlg, stored>>
    BY <1>3 DEF CD!ConfigAnswered
  <2>2. \A b \in dasks' : b \in dasks \/ \E c : b = CD!Ask("labels", a.device, c)
    BY <1>3 DEF CD!ConfigAnswered
  <2>3. \A c : Asks(CD!Ask("labels", a.device, c))
    BY DEF Asks, CD!Ask, DialogAskFields, Writes
  <2>4. \A b \in dasks' : b \in dasks \/ Asks(b)
    BY <2>2, <2>3
  <2>5. \A t \in dlg'.told : t \in dlg.told
    BY <2>1
  <2> QED BY <1>0, <2>1, <2>4, <2>5, DialogLooks
<1>4. CASE CD!MergeAnswered(a)
  <2>1. UNCHANGED <<dlg, stored>> /\ a.is = "merge"
    BY <1>4 DEF CD!MergeAnswered
  <2>2. PICK w : (\E c : w = CD!Ask("rename", a.device, c)) /\ dasks' = (dasks \ {a}) \cup {w}
    BY <1>4 DEF CD!MergeAnswered
  <2>3. DialogAskFields \subseteq DOMAIN w /\ w.is = "rename" /\ w.device = a.device /\ w.answer = CD!Waiting
    BY <2>2 DEF CD!Ask, DialogAskFields
  <2>4. \A b \in dasks \ {a} : b.is \notin Writes
    BY <2>1 DEF DialogInv, Writes
  <2>5. DialogAsked(w)'
    BY <1>0, <2>1, <2>3 DEF DialogAsked, Writes, DialogOf
  <2>6. \A b \in dasks : DialogAsked(b)'
    BY <2>1, AskStays DEF DialogInv, DialogAsked
  <2>7. DialogState'
    BY <2>1 DEF DialogInv, DialogState, JobIsOf
  <2> QED BY <2>2, <2>4, <2>5, <2>6, <2>7 DEF DialogInv
<1>5. CASE CD!MergeLost(a)
  <2>1. Answered
    BY <1>0, <1>5 DEF CD!MergeLost, PanelDialogFields
  <2> QED BY <1>2, <1>5, <2>1 DEF CD!MergeLost, Writes
<1>6. CASE CD!RenameAnswered(a)
  <2>1. Answered
    BY <1>0, <1>6 DEF CD!RenameAnswered, PanelDialogFields
  <2> QED BY <1>2, <1>6, <2>1 DEF CD!RenameAnswered, Writes
<1>7. CASE CD!PlaceAnswered(a)
  <2>1. Answered
    BY <1>0, <1>7 DEF CD!PlaceAnswered, PanelDialogFields
  <2> QED BY <1>2, <1>7, <2>1 DEF CD!PlaceAnswered, Writes
<1>8. CASE CD!SetpointsAnswered(a)
  <2>1. Answered
    BY <1>0, <1>8 DEF CD!SetpointsAnswered, PanelDialogFields
  <2> QED BY <1>2, <1>8, <2>1 DEF CD!SetpointsAnswered, Writes
<1>9. CASE CD!ClearAnswered(a)
  <2>1. a.is = "clear" /\ a.answer # CD!Waiting /\ UNCHANGED stored /\ dasks' \subseteq dasks \ {a}
    BY <1>9 DEF CD!ClearAnswered
  <2>2. /\ PanelDialogFields \subseteq DOMAIN dlg' /\ dlg'.device = dlg.device /\ dlg'.told = dlg.told
        /\ dlg'.job = IF a.answer = CD!Failed THEN dlg.job ELSE a.answer.job
    BY <1>0, <1>9 DEF CD!ClearAnswered, PanelDialogFields
  <2>3. a.answer # CD!Failed => JobIsOf(a.answer.job, dlg.device)
    BY <1>0, <2>1 DEF DialogAsked, Tells, Writes
  <2> QED BY <1>0, <2>1, <2>2, <2>3, DialogHears DEF Writes
<1>10. CASE CD!SummaryAnswered(a)
  <2>1. Shown
    BY <1>0, <1>10 DEF CD!SummaryAnswered, PanelDialogFields
  <2> QED BY <1>1, <1>10, <2>1 DEF CD!SummaryAnswered
<1>11. CASE CD!MonthAnswered(a)
  <2>1. Shown
    BY <1>0, <1>11 DEF CD!MonthAnswered, PanelDialogFields
  <2> QED BY <1>1, <1>11, <2>1 DEF CD!MonthAnswered
<1>12. CASE CD!LabelsAnswered(a)
  <2>1. Shown
    BY <1>0, <1>12 DEF CD!LabelsAnswered
  <2> QED BY <1>1, <1>12, <2>1 DEF CD!LabelsAnswered
<1>13. CASE CD!PollAnswered(a)
  <2> DEFINE j == a.answer
             heard == j \notin {CD!Failed, None}
             ended == heard /\ j.status \in {"completed", "failed"} /\ dlg.notified # j.job
             cleared == ended /\ j.status = "completed"
  <2>1. a.is = "poll" /\ j # CD!Waiting /\ UNCHANGED stored
    BY <1>13 DEF CD!PollAnswered
  <2>2. /\ PanelDialogFields \subseteq DOMAIN dlg' /\ dlg'.device = dlg.device /\ dlg'.saving = dlg.saving /\ dlg'.over = dlg.over
        /\ dlg'.job = (IF heard THEN j.job ELSE dlg.job) /\ dlg'.told = IF cleared THEN dlg.told \cup {<<dlg.device, j.job>>} ELSE dlg.told
    BY <1>0, <1>13 DEF CD!PollAnswered, PanelDialogFields
  <2>3. heard => Tells(j, dlg.device)
    BY <1>0, <2>1 DEF DialogAsked
  <2>4. dlg'.job # None => JobIsOf(dlg'.job, dlg.device)
    BY <1>0, <2>2, <2>3 DEF Tells
  <2>5. cleared => j.job \in DOMAIN stored.jobs /\ stored.jobs[j.job] = [device |-> dlg.device, status |-> "completed"]
    <3> SUFFICES ASSUME cleared PROVE j.job \in DOMAIN stored.jobs /\ stored.jobs[j.job] = [device |-> dlg.device, status |-> "completed"]
        OBVIOUS
    <3>1. j.job \in DOMAIN stored.jobs /\ stored.jobs[j.job].device = dlg.device /\ stored.jobs[j.job].status = "completed"
      BY <2>3 DEF Tells, JobIsOf
    <3>2. stored.jobs[j.job] = [device |-> stored.jobs[j.job].device, status |-> stored.jobs[j.job].status]
      BY <3>1 DEF DialogInv, DialogState, JobTable
    <3> QED BY <3>1, <3>2
  <2>6. \A t \in dlg'.told : t \in dlg.told \/ (t[2] \in DOMAIN stored.jobs /\ stored.jobs[t[2]] = [device |-> t[1], status |-> "completed"])
    BY <2>2, <2>5
  <2>7. \A b \in dasks' : b \in dasks \/ b = CD!Ask("summary", dlg.device, None)
    BY <1>13 DEF CD!PollAnswered
  <2>8. Asks(CD!Ask("summary", dlg.device, None))
    BY DEF Asks, CD!Ask, DialogAskFields, Writes
  <2>9. \A b \in dasks' : b \in dasks \/ Asks(b)
    BY <2>7, <2>8
  <2> HIDE DEF cleared, heard
  <2> QED BY <1>0, <2>1, <2>2, <2>4, <2>6, <2>9, DialogLooks
<1> QED BY <1>3, <1>4, <1>5, <1>6, <1>7, <1>8, <1>9, <1>10, <1>11, <1>12, <1>13 DEF CD!Answered

\* Nothing is over the panel, so nothing is saved; what is polled for the old device is forgotten.
LEMMA PanelSwitches == ASSUME DialogInv, NEW d \in Panels, CD!SwitchPanel(d) PROVE DialogInv'
<1>1. /\ PanelDialogFields \subseteq DOMAIN dlg' /\ dlg'.device = d /\ dlg'.job = None /\ dlg'.told = dlg.told
  BY DEF CD!SwitchPanel, CD!Panel, PanelDialogFields
<1>2. DialogState'
  BY <1>1 DEF DialogInv, DialogState, CD!SwitchPanel
<1>3. \A a \in dasks : a.is \notin Writes
  BY DEF DialogInv, DialogAsked, CD!SwitchPanel
<1>4. \A a \in dasks' : \/ a \in dasks /\ a.is \notin {"config", "poll"}
                        \/ a \in {CD!Ask("config", d, None), CD!Ask("poll", d, None)}
  BY DEF CD!SwitchPanel, CD!Forgotten
<1>5. \A a \in {CD!Ask("config", d, None), CD!Ask("poll", d, None)} :
        DialogAskFields \subseteq DOMAIN a /\ a.is \in {"config", "poll"} /\ a.device = d /\ a.arg = None /\ a.answer = CD!Waiting
  BY DEF CD!Ask, DialogAskFields
<1>6. \A a \in dasks' : DialogAskFields \subseteq DOMAIN a
  BY <1>4, <1>5 DEF DialogInv, DialogAsked
<1>7. \A a \in dasks' : a.is \notin Writes /\ (a.is \in {"config", "poll"} => a.device = d /\ a.arg = None /\ a.answer = CD!Waiting)
  BY <1>3, <1>4, <1>5 DEF Writes
<1>8. \A a \in dasks' : DialogAsked(a)'
  BY <1>1, <1>6, <1>7 DEF DialogAsked, Writes
<1> QED BY <1>2, <1>7, <1>8 DEF DialogInv

LEMMA DialogTurns ==
  ASSUME DialogInv, UNCHANGED <<dlg, stored>>, \A a \in dasks' : a \in dasks \/ Asks(a)
  PROVE  DialogInv'
<1>1. PanelDialogFields \subseteq DOMAIN dlg /\ (dlg.job # None => JobIsOf(dlg.job, dlg.device))
      /\ (\A b \in dasks : b.is \in Writes => DialogOf(b.is) \in dlg.over)
  BY DEF DialogInv, DialogState, DialogAsked
<1> QED BY <1>1, DialogLooks

LEMMA CalendarTurns ==
  ASSUME DialogInv, UNCHANGED stored, NEW e, CD!LoadCalendarMonthAvailability(e), PanelDialogFields \subseteq DOMAIN e,
         e.device = dlg.device, e.saving = dlg.saving, e.job = dlg.job, e.told = dlg.told, e.over = dlg.over
  PROVE  DialogInv'
<1>1. PanelDialogFields \subseteq DOMAIN dlg' /\ dlg'.device = dlg.device /\ dlg'.saving = dlg.saving /\ dlg'.job = dlg.job
      /\ dlg'.told = dlg.told /\ dlg'.over = dlg.over
  BY DEF CD!LoadCalendarMonthAvailability, PanelDialogFields
<1>2. \A a \in dasks' : a \in dasks \/ a = CD!Ask("month", e.device, e.month)
  BY DEF CD!LoadCalendarMonthAvailability
<1>3. Asks(CD!Ask("month", e.device, e.month))
  BY DEF Asks, CD!Ask, DialogAskFields, Writes
<1>4. (dlg.job # None => JobIsOf(dlg.job, dlg.device)) /\ (\A b \in dasks : b.is \in Writes => DialogOf(b.is) \in dlg.over)
  BY DEF DialogInv, DialogState, DialogAsked
<1>5. \A a \in dasks' : a \in dasks \/ Asks(a)
  BY <1>2, <1>3
<1> QED BY <1>1, <1>4, <1>5, DialogLooks

LEMMA JobTurns == ASSUME DialogInv, NEW j \in DOMAIN stored.jobs, CD!JobMoves(j) PROVE DialogInv'
<1>0. JobTable(stored.jobs) /\ {"config", "labels", "setpoints", "jobs"} \subseteq DOMAIN stored
  BY DEF DialogInv, DialogState
<1>1. PICK s : stored' = [stored EXCEPT !.jobs[j].status = s]
  BY DEF CD!JobMoves
<1>2. stored'.jobs = [stored.jobs EXCEPT ![j].status = s] /\ {"config", "labels", "setpoints", "jobs"} \subseteq DOMAIN stored'
  BY <1>0, <1>1
<1>3. stored.jobs[j].status # "completed"
  BY DEF CD!JobMoves, CD!Ended
<1>4. DOMAIN stored'.jobs = DOMAIN stored.jobs /\ stored'.jobs[j] = [device |-> stored.jobs[j].device, status |-> s]
      /\ \A k \in DOMAIN stored.jobs : k # j => stored'.jobs[k] = stored.jobs[k]
  BY <1>0, <1>2 DEF JobTable
<1>5. JobTable(stored'.jobs)
  BY <1>0, <1>4 DEF JobTable
<1>6. JobsKept
  BY <1>2, <1>3, <1>4, <1>5 DEF JobsKept
<1>7. DialogState' /\ (\A i, d : JobIsOf(i, d) => JobIsOf(i, d)') /\ (\A i, d : Tells(i, d) => Tells(i, d)')
  BY <1>6, KeptTells DEF DialogInv, CD!JobMoves
<1>8. \A a \in dasks : DialogAsked(a)'
  BY <1>7 DEF DialogInv, DialogAsked, CD!JobMoves
<1> QED BY <1>7, <1>8 DEF DialogInv, CD!JobMoves

LEMMA DialogSteps == DialogInv /\ CD!DialogsNext => DialogInv'
<1> SUFFICES ASSUME DialogInv, CD!DialogsNext PROVE DialogInv'
    OBVIOUS
<1>0. PanelDialogFields \subseteq DOMAIN dlg /\ (dlg.job # None => JobIsOf(dlg.job, dlg.device))
  BY DEF DialogInv, DialogState
<1>1. CASE CD!RotationEnds
  BY <1>1, DialogTurns DEF CD!RotationEnds
<1>2. ASSUME NEW o \in {"motor", "sensor"}, NEW f \in Faces, NEW t \in {0, 90}, CD!AnimatePlacementRotation(o, f, t) PROVE DialogInv'
  BY <1>2, DialogTurns DEF CD!AnimatePlacementRotation
<1>3. CASE CD!Poll
  <2>1. Asks(CD!Ask("poll", dlg.device, dlg.job))
    BY <1>0, <1>3 DEF Asks, CD!Ask, DialogAskFields, Writes, CD!Poll
  <2> QED BY <1>3, <2>1, DialogTurns DEF CD!Poll
<1>4. CASE CD!HandleToggleCalendarPopover
  <2>1. PICK e : e = [dlg EXCEPT !.open = ~ @]
    OBVIOUS
  <2>2. PanelDialogFields \subseteq DOMAIN e /\ e.device = dlg.device /\ e.saving = dlg.saving /\ e.job = dlg.job
        /\ e.told = dlg.told /\ e.over = dlg.over
    BY <1>0, <2>1 DEF PanelDialogFields
  <2> QED BY <1>4, <2>1, <2>2, CalendarTurns DEF CD!HandleToggleCalendarPopover
<1>5. ASSUME NEW m \in Months, CD!HandleCalendarMonthShift(m) PROVE DialogInv'
  <2>1. PICK e : e = [dlg EXCEPT !.month = m]
    OBVIOUS
  <2>2. PanelDialogFields \subseteq DOMAIN e /\ e.device = dlg.device /\ e.saving = dlg.saving /\ e.job = dlg.job
        /\ e.told = dlg.told /\ e.over = dlg.over
    BY <1>0, <2>1 DEF PanelDialogFields
  <2> QED BY <1>5, <2>1, <2>2, CalendarTurns DEF CD!HandleCalendarMonthShift
<1>6. CASE (\E r \in CD!AxisKeys : CD!OpenAxisRenameModal(r)) \/ CD!OpenPlacement \/ CD!OpenDataSettings \/ CD!OpenClearDataConfirm
  BY <1>6, DialogOpens
<1>7. CASE CD!Escape \/ \E is \in {"rename", "place", "settings", "confirm"} : CD!CloseDialog(is)
  BY <1>7, DialogCloses DEF CD!Escape
<1>8. CASE \/ \E name \in AxisNames : CD!SaveAxisRename(name) \/ CD!SavePositionConfig([axes.motor EXCEPT !["x"] = name])
           \/ \E v \in {0, 2} : CD!SaveSetpoints(v)
           \/ CD!ClearDeviceData
  BY <1>8, DialogSaves
<1>9. CASE \E d \in Panels : CD!SwitchPanel(d)
  BY <1>9, PanelSwitches
<1>10. CASE \E a \in dasks : CD!Serve(a) \/ CD!Refuse(a)
  BY <1>10, DialogServes
<1>11. CASE \E a \in dasks : CD!Answered(a)
  BY <1>11, DialogAnswers
<1>12. CASE \E j \in DOMAIN stored.jobs : CD!JobMoves(j)
  BY <1>12, JobTurns
<1> QED BY <1>1, <1>2, <1>3, <1>4, <1>5, <1>6, <1>7, <1>8, <1>9, <1>10, <1>11, <1>12 DEF CD!DialogsNext

LEMMA DialogKeeps == DialogInv => CD!DialogsKeepTheirDevice
BY DEF DialogInv, DialogState, DialogAsked, Writes, CD!DialogsKeepTheirDevice, CD!Shows, JobIsOf

-----------------------------------------------------------------------------
(* One behaviour visits one page.                                               *)

PagesInv == OtaInv /\ DeviceInv /\ PanelInv /\ ZoneInv /\ DialogInv
pageVars == <<visited, vars, ZoneVars, OtaVars, AnalysisVars, PanelVars, KioskVars, ParkVars, DialogVars, SpectrumVars>>

LEMMA PagesStart == PagesInit => PagesInv
BY OtaStarts, DeviceStarts, PanelStarts, ZoneStarts, DialogStarts DEF PagesInit, PagesInv

LEMMA PageRests ==
  /\ OtaInv /\ UNCHANGED OtaVars => OtaInv'
  /\ DeviceInv /\ UNCHANGED ParkVars => DeviceInv'
  /\ PanelInv /\ UNCHANGED PanelVars => PanelInv'
  /\ ZoneInv /\ UNCHANGED ZoneVars => ZoneInv'
  /\ DialogInv /\ UNCHANGED DialogVars => DialogInv'
<1>1. OtaInv /\ UNCHANGED OtaVars => OtaInv'
  BY DEF OtaVars, OtaInv, OP!FirmwareIsShown
<1>2. DeviceInv /\ UNCHANGED ParkVars => DeviceInv'
  BY DEF ParkVars, DeviceInv, DP!RemovalIsOfShown
<1>3. PanelInv /\ UNCHANGED PanelVars => PanelInv'
  BY DEF PanelVars, PanelInv, StoredWith, JP!Shown
<1>4. ZoneInv /\ UNCHANGED ZoneVars => ZoneInv'
  BY DEF ZoneVars, ZoneInv, ZoneDialogs, ZoneAsked, ZoneOnce, Saves, Deletes, Looks, OfMount
<1>5. DialogInv /\ UNCHANGED DialogVars => DialogInv'
  BY DEF DialogVars, DialogInv, DialogState, DialogAsked, Tells, JobIsOf
<1> QED BY <1>1, <1>2, <1>3, <1>4, <1>5

LEMMA PagesStep == PagesInv /\ [PagesNext]_pageVars => PagesInv'
<1> SUFFICES ASSUME PagesInv, [PagesNext]_pageVars PROVE PagesInv'
    OBVIOUS
<1> USE PageRests DEF PagesInv
<1>1. CASE UNCHANGED pageVars
  BY <1>1 DEF pageVars
<1>2. ASSUME NEW part \in {"dashboard", "analysis", "kiosk", "spectrum"}, Others(part) PROVE PagesInv'
  BY <1>2 DEF Others
<1>3. CASE ZP!ZoneNext /\ Others("zones")
  BY <1>3, ZoneSteps DEF Others
<1>4. CASE OP!OtaNext /\ Others("ota")
  BY <1>4, OtaSteps DEF Others
<1>5. CASE JP!PanelNext /\ Others("jobs")
  BY <1>5, PanelSteps DEF Others
<1>6. CASE DP!DeviceNext /\ Others("devices")
  BY <1>6, DeviceSteps DEF Others
<1>7. CASE CD!DialogsNext /\ Others("dialogs")
  BY <1>7, DialogSteps DEF Others
<1> QED BY <1>1, <1>2, <1>3, <1>4, <1>5, <1>6, <1>7 DEF PagesNext

\* An answer finds the page, dialog or panel that asked for it, on every page of
\* the client and whatever the user opens, closes or switches to meanwhile.
THEOREM AnswersFindTheirPageAlways == PagesSpec => []AnswersFindTheirPage
<1>1. PagesInv => AnswersFindTheirPage
  <2>1. OtaInv => OP!FirmwareIsShown
    BY DEF OtaInv
  <2>2. DeviceInv => DP!RemovalIsOfShown
    BY DEF DeviceInv
  <2> QED BY <2>1, <2>2, UploadKept, ZoneDialogsKept, DialogKeeps DEF PagesInv, AnswersFindTheirPage
<1> QED BY <1>1, PagesStart, PagesStep, PTL DEF PagesSpec, pageVars

-----------------------------------------------------------------------------
(* Dashboard: an answer to a request that was made before the data of its       *)
(* device were cleared bears a number the device has gone past.                 *)

RequestFields == {"id", "kind", "device", "seq", "answer", "aborted"}

\* A request for the readings of a device, as it was numbered when it was made.
Numbered(r) ==
  /\ RequestFields \subseteq DOMAIN r
  /\ r.kind \in {"history", "check"} => r.device \in Devices
  /\ r.kind = "history" =>
       /\ r.id \in Nat /\ r.seq \in Nat /\ r.seq <= seq[r.device]
       /\ r.id < barrier[r.device] => r.seq < seq[r.device]

\* A request that brings no reading.
Aside(r) == RequestFields \subseteq DOMAIN r /\ r.kind # "history" /\ (r.kind = "check" => r.device \in Devices)

ClearInv ==
  /\ "history" \in DOMAIN asked /\ asked["history"] \in Nat
  /\ seq \in [Devices -> Nat] /\ barrier \in [Devices -> Nat] /\ source \in [Devices -> Nat]
  /\ \A d \in Devices : barrier[d] <= asked["history"] + 1
  /\ ClearedStaysCleared
  /\ \A r \in asks : Numbered(r)

LEMMA ClearStarts == Init => ClearInv
<1> SUFFICES ASSUME Init PROVE ClearInv
    OBVIOUS
<1>1. "history" \in DOMAIN asked /\ asked["history"] = 0
  BY DEF Init
<1>2. \A r \in asks : RequestFields \subseteq DOMAIN r /\ r.kind \notin {"history", "check"}
  BY DEF Init, RequestFields
<1>3. /\ seq = [d \in Devices |-> 0] /\ barrier = [d \in Devices |-> 0] /\ source = [d \in Devices |-> 0]
  BY DEF Init
<1> QED BY <1>1, <1>2, <1>3 DEF ClearInv, Numbered, ClearedStaysCleared

\* The same request, served or aborted meanwhile.
SameRequest(q, r) ==
  /\ RequestFields \subseteq DOMAIN r => RequestFields \subseteq DOMAIN q
  /\ RequestFields \subseteq DOMAIN r => q.id = r.id /\ q.kind = r.kind /\ q.device = r.device /\ q.seq = r.seq

LEMMA AbortedSame == ASSUME NEW d, NEW under, NEW q \in AbortLast(d, under) PROVE \E r \in under : SameRequest(q, r)
BY DEF AbortLast, SameRequest, RequestFields

\* Nothing is cleared, and no reading is taken from an answer.
LEMMA ClearElsewhere ==
  ASSUME ClearInv, UNCHANGED <<seq, barrier>>, source' \in [Devices -> Nat], \A d \in Devices : source'[d] \in {0, source[d]},
         "history" \in DOMAIN asked', asked'["history"] \in Nat, asked'["history"] >= asked["history"],
         \A q \in asks' : \/ \E r \in asks : SameRequest(q, r)
                          \/ Aside(q)
  PROVE  ClearInv'
<1>1. \A d \in Devices : barrier'[d] <= asked'["history"] + 1
  BY DEF ClearInv
<1>2. ClearedStaysCleared'
  BY DEF ClearInv, ClearedStaysCleared
<1>3. \A q \in asks' : Numbered(q)'
  BY DEF ClearInv, Numbered, SameRequest, Aside
<1> QED BY <1>1, <1>2, <1>3 DEF ClearInv

LEMMA ClearAsks ==
  ASSUME ClearInv, NEW d \in Devices, NEW under \in SUBSET asks, RequestTelemetryHistory(d, under), UNCHANGED <<source, barrier>>
  PROVE  ClearInv'
<1>1. PICK new : new = Ask("history", d, seq[d] + 1)
  OBVIOUS
<1>2. RequestFields \subseteq DOMAIN new /\ new.kind = "history" /\ new.device = d /\ new.id = asked["history"] + 1 /\ new.seq = seq[d] + 1
  BY <1>1 DEF Ask, RequestFields
<1>3. asks' = AbortLast(d, under) \cup {new} /\ asked' = [asked EXCEPT !["history"] = @ + 1]
  BY <1>1, <1>2 DEF RequestTelemetryHistory, RequestJson
<1>4. "history" \in DOMAIN asked' /\ asked'["history"] = asked["history"] + 1 /\ asked'["history"] \in Nat
  BY <1>3 DEF ClearInv
<1>5. seq' \in [Devices -> Nat] /\ seq'[d] = seq[d] + 1 /\ \A e \in Devices : seq'[e] >= seq[e]
  BY DEF ClearInv, RequestTelemetryHistory
<1>6. \A q \in AbortLast(d, under) : \E r \in asks : SameRequest(q, r)
  BY AbortedSame
<1>7. \A q \in AbortLast(d, under) : Numbered(q)'
  <2> TAKE q \in AbortLast(d, under)
  <2>1. PICK r \in asks : SameRequest(q, r)
    BY <1>6
  <2>2. Numbered(r) /\ seq \in [Devices -> Nat] /\ barrier \in [Devices -> Nat]
    BY DEF ClearInv
  <2> QED BY <1>5, <2>1, <2>2 DEF Numbered, SameRequest
<1>8. Numbered(new)'
  BY <1>2, <1>4, <1>5 DEF Numbered, ClearInv
<1>9. \A e \in Devices : barrier'[e] <= asked'["history"] + 1
  BY <1>4 DEF ClearInv
<1> QED BY <1>3, <1>4, <1>5, <1>7, <1>8, <1>9 DEF ClearInv, ClearedStaysCleared

\* An answer that counts was asked for since the data were last cleared.
LEMMA ClearHears ==
  ASSUME ClearInv, NEW r \in asks, NEW out \in Outcomes(r), r.kind = "history", asks' = asks \ {r}, HistoryAnswered(out), UNCHANGED <<asked, barrier>>
  PROVE  ClearInv'
<1>1. Numbered(r) /\ seq \in [Devices -> Nat] /\ barrier \in [Devices -> Nat] /\ source \in [Devices -> Nat]
  BY DEF ClearInv
<1>2. out.id = r.id /\ out.seq = r.seq /\ out.device = r.device
  BY <1>1 DEF Numbered, Outcomes, Failed, RequestFields
<1>3. UNCHANGED seq /\ (source' = source \/ source' = [source EXCEPT ![r.device] = r.id])
  BY <1>2 DEF HistoryAnswered
<1>4. source' # source => seq[r.device] = r.seq
  <2>1. CASE Current(out)
    BY <1>2, <2>1 DEF Current
  <2>2. CASE ~Current(out)
    <3>1. shown' = shown
      BY <2>2 DEF HistoryAnswered
    <3> QED BY <3>1 DEF HistoryAnswered
  <2> QED BY <2>1, <2>2
<1>5. source' # source => r.id >= barrier[r.device]
  BY <1>1, <1>4 DEF Numbered
<1>6. source' \in [Devices -> Nat] /\ ClearedStaysCleared'
  BY <1>1, <1>3, <1>5 DEF ClearInv, ClearedStaysCleared, Numbered
<1>7. \A q \in asks' : Numbered(q)'
  BY <1>3 DEF ClearInv, Numbered
<1> QED BY <1>1, <1>3, <1>6, <1>7 DEF ClearInv

\* Every request under way is of before the clearing, and is left behind.
LEMMA ClearClears == ASSUME ClearInv, NEW d \in Devices, ClearDeviceChartData(d) PROVE ClearInv'
<1>0. seq \in [Devices -> Nat] /\ barrier \in [Devices -> Nat] /\ source \in [Devices -> Nat]
  BY DEF ClearInv
<1>1. asks' = AbortLast(d, asks) /\ UNCHANGED asked
  BY DEF ClearDeviceChartData
<1>2. /\ seq' = [seq EXCEPT ![d] = @ + 1] /\ source' = [source EXCEPT ![d] = 0] /\ barrier' = [barrier EXCEPT ![d] = asked["history"] + 1]
  BY DEF ClearDeviceChartData
<1>3. seq' \in [Devices -> Nat] /\ barrier' \in [Devices -> Nat] /\ source' \in [Devices -> Nat]
  BY <1>0, <1>2 DEF ClearInv
<1>4. ASSUME NEW q \in asks' PROVE Numbered(q)'
  <2>1. PICK r \in asks : SameRequest(q, r)
    BY <1>1, AbortedSame
  <2>2. Numbered(r)
    BY DEF ClearInv
  <2> QED BY <1>0, <1>2, <1>3, <2>1, <2>2 DEF Numbered, SameRequest
<1> QED BY <1>0, <1>1, <1>2, <1>3, <1>4 DEF ClearInv, ClearedStaysCleared

LEMMA AskedOther ==
  ASSUME ClearInv, NEW k \in {"inventory", "alerts", "check"}, NEW d, NEW n, k = "check" => d \in Devices, RequestJson(Ask(k, d, n), asks),
         UNCHANGED <<seq, barrier, source>>
  PROVE  ClearInv'
<1>1. Aside(Ask(k, d, n)) /\ Ask(k, d, n).kind = k
  BY DEF Ask, RequestFields, Aside
<1>2. asks' = asks \cup {Ask(k, d, n)} /\ (asked' = asked \/ asked' = [asked EXCEPT ![k] = @ + 1])
  BY <1>1 DEF RequestJson
<1>3. "history" \in DOMAIN asked' /\ asked'["history"] = asked["history"] /\ asked["history"] \in Nat /\ source \in [Devices -> Nat]
  BY <1>2 DEF ClearInv
<1>4. \A q \in asks' : (\E r \in asks : SameRequest(q, r)) \/ Aside(q)
  BY <1>1, <1>2 DEF SameRequest
<1> QED BY <1>3, <1>4, ClearElsewhere

LEMMA ClearRests == ASSUME ClearInv, UNCHANGED <<seq, barrier, source, asked>>, asks' \subseteq asks PROVE ClearInv'
BY DEF ClearInv, ClearedStaysCleared, Numbered

LEMMA FlushKeepsSource ==
  ASSUME ClearInv, FlushRealtimeUpdates
  PROVE  source' \in [Devices -> Nat] /\ \A d \in Devices : source'[d] \in {0, source[d]}
<1>1. source' = [d \in Devices |-> IF shown'[d] # shown[d] THEN 0 ELSE source[d]]
  BY DEF FlushRealtimeUpdates
<1> QED BY <1>1 DEF ClearInv

LEMMA ClearSteps == ClearInv /\ [Next]_vars => ClearInv'
<1> SUFFICES ASSUME ClearInv, [Next]_vars PROVE ClearInv'
    OBVIOUS
<1>1. CASE UNCHANGED vars
  BY <1>1, ClearRests DEF vars
<1>2. CASE Serve
  <2>1. PICK r \in asks : asks' = (asks \ {r}) \cup {[r EXCEPT !.answer = <<Answer(r)>>]} /\ UNCHANGED <<page, asked>>
    BY <1>2 DEF Serve
  <2>2. PICK b : b = [r EXCEPT !.answer = <<Answer(r)>>]
    OBVIOUS
  <2>3. SameRequest(b, r)
    BY <2>2 DEF SameRequest, RequestFields
  <2>4. \A q \in asks' : \E c \in asks : SameRequest(q, c)
    BY <2>1, <2>2, <2>3 DEF SameRequest
  <2>5. source \in [Devices -> Nat] /\ "history" \in DOMAIN asked /\ asked["history"] \in Nat
    BY DEF ClearInv
  <2> QED BY <2>1, <2>4, <2>5, ClearElsewhere DEF page
<1>3. CASE Receive
  <2>1. UNCHANGED <<seq, barrier, source>>
    BY <1>3 DEF Receive, reading
  <2>2. RequestJson(Ask("alerts", None, 0), asks) \/ UNCHANGED <<asks, asked>>
    BY <1>3 DEF Receive, OnAlert
  <2> QED BY <2>1, <2>2, AskedOther, ClearRests
<1>4. CASE OnDisconnect
  BY <1>4, ClearRests DEF OnDisconnect, page
<1>5. CASE OnConnect
  <2>1. UNCHANGED <<seq, barrier, source>> /\ asked' = [asked EXCEPT !["alerts"] = @ + 1]
    BY <1>5 DEF OnConnect, reading
  <2>2. "history" \in DOMAIN asked' /\ asked'["history"] = asked["history"] /\ asked["history"] \in Nat /\ source \in [Devices -> Nat]
    BY <2>1 DEF ClearInv
  <2>3. \A q \in asks' : q \in asks \/ \E k \in {"alerts", "inventory"} : q = Ask(k, None, 0)
    BY <1>5 DEF OnConnect
  <2>4. \A k \in {"alerts", "inventory"} : Aside(Ask(k, None, 0))
    BY DEF Ask, RequestFields, Aside
  <2>5. \A q \in asks' : (\E r \in asks : SameRequest(q, r)) \/ Aside(q)
    BY <2>3, <2>4 DEF SameRequest
  <2> QED BY <2>1, <2>2, <2>5, ClearElsewhere
<1>6. CASE FlushDue
  <2>1. UNCHANGED <<seq, barrier, asks, asked>> /\ (FlushRealtimeUpdates \/ UNCHANGED source)
    BY <1>6 DEF FlushDue
  <2>2. \A q \in asks' : \E r \in asks : SameRequest(q, r)
    BY <2>1 DEF SameRequest
  <2>3. "history" \in DOMAIN asked /\ asked["history"] \in Nat
    BY DEF ClearInv
  <2> QED BY <2>1, <2>2, <2>3, FlushKeepsSource, ClearElsewhere, ClearRests
<1>7. CASE VisibilityChange
  <2>1. UNCHANGED <<seq, barrier>> /\ (FlushRealtimeUpdates \/ UNCHANGED source) /\ (UNCHANGED <<asks, asked>> \/ RequestJson(Ask("inventory", None, 0), asks))
    BY <1>7 DEF VisibilityChange
  <2>2. Aside(Ask("inventory", None, 0)) /\ Ask("inventory", None, 0).kind = "inventory"
    BY DEF Ask, RequestFields, Aside
  <2>3. asks' \subseteq asks \cup {Ask("inventory", None, 0)} /\ asked' = asked
    BY <2>1, <2>2 DEF RequestJson
  <2>4. \A q \in asks' : (\E r \in asks : SameRequest(q, r)) \/ Aside(q)
    BY <2>2, <2>3 DEF SameRequest
  <2>5. "history" \in DOMAIN asked /\ asked["history"] \in Nat /\ source \in [Devices -> Nat]
    BY DEF ClearInv
  <2>6. source' \in [Devices -> Nat] /\ \A d \in Devices : source'[d] \in {0, source[d]}
    BY <2>1, <2>5, FlushKeepsSource
  <2> QED BY <2>1, <2>3, <2>4, <2>5, <2>6, ClearElsewhere
<1>8. ASSUME NEW kind \in Requests, Arrive(kind) PROVE ClearInv'
  <2>1. PICK r \in asks : \E out \in Outcomes(r) :
           /\ r.kind = kind /\ asks' = asks \ {r} /\ UNCHANGED <<asked, barrier>>
           /\ \/ kind = "inventory" /\ InventoryAnswered(out)
              \/ kind = "alerts" /\ AlertsAnswered(out)
              \/ kind = "history" /\ HistoryAnswered(out)
    BY <1>8 DEF Arrive
  <2>2. CASE kind = "history"
    BY <2>1, <2>2, ClearHears
  <2>3. CASE kind # "history"
    BY <2>1, <2>3, ClearRests DEF InventoryAnswered, AlertsAnswered, reading
  <2> QED BY <2>2, <2>3
<1>9. CASE LoadDeviceInventory
  BY <1>9, AskedOther DEF LoadDeviceInventory, reading
<1>10. CASE ReconcileAnswered
  <2>1. PICK r \in asks : /\ UNCHANGED <<source, barrier>> /\ r.kind = "check"
                          /\ \/ RequestTelemetryHistory(r.device, asks \ {r})
                             \/ asks' = asks \ {r} /\ UNCHANGED <<asked, seq>>
    BY <1>10 DEF ReconcileAnswered
  <2>2. CASE asks' = asks \ {r} /\ UNCHANGED <<asked, seq>>
    BY <2>1, <2>2, ClearRests
  <2>3. CASE RequestTelemetryHistory(r.device, asks \ {r})
    <3>1. r.device \in Devices
      BY <2>1 DEF ClearInv, Numbered
    <3> QED BY <2>1, <2>3, <3>1, ClearAsks
  <2> QED BY <2>1, <2>2, <2>3
<1>11. ASSUME NEW d \in Devices, NEW kind \in Changes, Change(d, kind) PROVE ClearInv'
  BY <1>11, ClearRests DEF Change, page
<1>12. ASSUME NEW d \in Devices, CardEffect(d) PROVE ClearInv'
  BY <1>12, ClearRests DEF CardEffect, reading
<1>13. ASSUME NEW d \in Devices, CardPrefetch(d) PROVE ClearInv'
  BY <1>13, ClearRests, ClearAsks DEF CardPrefetch
<1>14. ASSUME NEW d \in Devices, AttemptPast(d) PROVE ClearInv'
  BY <1>14, ClearRests DEF AttemptPast
<1>15. ASSUME NEW d \in Devices, Reconcile(d) PROVE ClearInv'
  BY <1>15, AskedOther DEF Reconcile, page
<1>16. ASSUME NEW d \in Devices, ClearDeviceChartData(d) PROVE ClearInv'
  BY <1>16, ClearClears
<1>17. ASSUME NEW d \in Devices, UpdateInventoryDeviceFromSensor(d) PROVE ClearInv'
  BY <1>17, ClearRests DEF UpdateInventoryDeviceFromSensor, reading
<1> QED BY <1>1, <1>2, <1>3, <1>4, <1>5, <1>6, <1>7, <1>8, <1>9, <1>10, <1>11, <1>12, <1>13, <1>14, <1>15, <1>16, <1>17 DEF Next

\* A card that is said to be loading counts at least one request, and every request counted is under way; they are told apart by their
\* numbers, which serving or aborting one leaves alone.
RequestIds(d) == {r.id : r \in {q \in asks : q.kind = "history" /\ q.device = d}}

PendingInv ==
  /\ ClearInv
  /\ pending \in [Devices -> Nat] /\ loading \in [Devices -> BOOLEAN]
  /\ \A d \in Devices : loading[d] => pending[d] > 0
  /\ \A d \in Devices : IsFiniteSet(RequestIds(d)) /\ pending[d] <= Cardinality(RequestIds(d))
  /\ \A r \in asks : r.kind = "history" => r.id <= asked["history"]

LEMMA PendingStarts == Init => PendingInv
<1> SUFFICES ASSUME Init PROVE PendingInv
    OBVIOUS
<1>1. \A r \in asks : r.kind # "history"
  BY DEF Init
<1>2. \A d \in Devices : RequestIds(d) = {}
  BY <1>1 DEF RequestIds
<1>3. /\ pending = [d \in Devices |-> 0] /\ loading = [d \in Devices |-> FALSE]
  BY DEF Init
<1>4. \A d \in Devices : IsFiniteSet(RequestIds(d)) /\ pending[d] <= Cardinality(RequestIds(d))
  BY <1>2, <1>3, FS_EmptySet
<1> QED BY <1>1, <1>3, <1>4, ClearStarts DEF PendingInv

\* Nothing is asked for or settled: a card at most stops loading.
LEMMA PendingElsewhere ==
  ASSUME PendingInv, ClearInv', UNCHANGED pending, loading' \in [Devices -> BOOLEAN], \A d \in Devices : loading'[d] => loading[d],
         asked'["history"] >= asked["history"],
         \A q \in asks' : (\E r \in asks : SameRequest(q, r)) \/ Aside(q),
         \A r \in asks : r.kind = "history" => \E q \in asks' : SameRequest(q, r)
  PROVE  PendingInv'
<1>0. \A r \in asks : RequestFields \subseteq DOMAIN r
  BY DEF PendingInv, ClearInv, Numbered
<1>1. ASSUME NEW d \in Devices PROVE RequestIds(d)' = RequestIds(d)
  <2>1. ASSUME NEW i \in RequestIds(d)' PROVE i \in RequestIds(d)
    BY <1>0, <2>1 DEF RequestIds, SameRequest, Aside
  <2>2. ASSUME NEW i \in RequestIds(d) PROVE i \in RequestIds(d)'
    BY <1>0, <2>2 DEF RequestIds, SameRequest
  <2> QED BY <2>1, <2>2
<1>2. \A q \in asks' : q.kind = "history" => q.id <= asked'["history"]
  <2> SUFFICES ASSUME NEW q \in asks', q.kind = "history" PROVE q.id <= asked'["history"]
      OBVIOUS
  <2>1. PICK r \in asks : SameRequest(q, r)
    BY DEF Aside
  <2>2. q.id = r.id /\ r.kind = "history" /\ r.id <= asked["history"] /\ r.id \in Nat /\ asked["history"] \in Nat /\ asked'["history"] \in Nat
    BY <1>0, <2>1 DEF SameRequest, PendingInv, ClearInv, Numbered
  <2> QED BY <2>2
<1> QED BY <1>1, <1>2 DEF PendingInv

LEMMA PendingRests ==
  ASSUME PendingInv, ClearInv', UNCHANGED <<pending, loading, asked>>, asks' \subseteq asks, \A r \in asks \ asks' : r.kind # "history"
  PROVE  PendingInv'
<1>1. \A r \in asks : SameRequest(r, r)
  BY DEF SameRequest
<1>2. \A q \in asks' : \E r \in asks : SameRequest(q, r)
  BY <1>1
<1>3. \A r \in asks : r.kind = "history" => \E q \in asks' : SameRequest(q, r)
  BY <1>1
<1>4. asked'["history"] >= asked["history"]
  BY DEF PendingInv, ClearInv
<1>5. loading' \in [Devices -> BOOLEAN] /\ \A d \in Devices : loading'[d] => loading[d]
  BY DEF PendingInv
<1> QED BY <1>2, <1>3, <1>4, <1>5, PendingElsewhere

LEMMA AbortedAll == ASSUME NEW d, NEW under, NEW r \in under PROVE \E q \in AbortLast(d, under) : SameRequest(q, r)
<1>1. PICK q : q = IF r.kind = "history" /\ r.id = control[d] THEN [r EXCEPT !.aborted = TRUE] ELSE r
  OBVIOUS
<1>2. q \in AbortLast(d, under)
  BY <1>1 DEF AbortLast
<1>3. SameRequest(q, r)
  BY <1>1 DEF SameRequest, RequestFields
<1> QED BY <1>2, <1>3

\* The new request has a number of its own.
LEMMA PendingAsks ==
  ASSUME PendingInv, ClearInv', NEW d \in Devices, NEW under \in SUBSET asks, \A r \in asks \ under : r.kind # "history",
         RequestTelemetryHistory(d, under)
  PROVE  PendingInv'
<1>0. (\A r \in asks : RequestFields \subseteq DOMAIN r) /\ asked["history"] \in Nat /\ "history" \in DOMAIN asked
  BY DEF PendingInv, ClearInv, Numbered
<1>1. PICK new : new = Ask("history", d, seq[d] + 1)
  OBVIOUS
<1>2. RequestFields \subseteq DOMAIN new /\ new.kind = "history" /\ new.device = d /\ new.id = asked["history"] + 1
  BY <1>1 DEF Ask, RequestFields
<1>3. asks' = AbortLast(d, under) \cup {new} /\ asked' = [asked EXCEPT !["history"] = @ + 1]
  BY <1>1, <1>2 DEF RequestTelemetryHistory, RequestJson
<1>4. asked'["history"] = asked["history"] + 1
  BY <1>0, <1>3
<1>5. \A q \in AbortLast(d, under) : \E r \in asks : SameRequest(q, r)
  BY AbortedSame
<1>6. \A r \in asks : r.kind = "history" => \E q \in AbortLast(d, under) : SameRequest(q, r)
  BY AbortedAll
<1>7. ASSUME NEW e \in Devices PROVE RequestIds(e)' = RequestIds(e) \cup (IF e = d THEN {asked["history"] + 1} ELSE {})
  <2>1. ASSUME NEW i \in RequestIds(e)' PROVE i \in RequestIds(e) \cup (IF e = d THEN {asked["history"] + 1} ELSE {})
    <3>1. PICK q \in asks' : q.kind = "history" /\ q.device = e /\ i = q.id
      BY <2>1 DEF RequestIds
    <3>2. CASE q = new
      BY <1>2, <3>1, <3>2
    <3>3. CASE q \in AbortLast(d, under)
      BY <1>0, <1>5, <3>1, <3>3 DEF RequestIds, SameRequest
    <3> QED BY <1>3, <3>1, <3>2, <3>3
  <2>2. ASSUME NEW i \in RequestIds(e) PROVE i \in RequestIds(e)'
    BY <1>0, <1>3, <1>6, <2>2 DEF RequestIds, SameRequest
  <2>3. e = d => asked["history"] + 1 \in RequestIds(e)'
    BY <1>2, <1>3 DEF RequestIds
  <2> QED BY <2>1, <2>2, <2>3
<1>8. \A e \in Devices : asked["history"] + 1 \notin RequestIds(e)
  <2> SUFFICES ASSUME NEW e \in Devices, asked["history"] + 1 \in RequestIds(e) PROVE FALSE
      OBVIOUS
  <2>1. PICK r \in asks : r.kind = "history" /\ r.id = asked["history"] + 1
    BY DEF RequestIds
  <2> QED BY <1>0, <2>1 DEF PendingInv
<1>9. pending' = [pending EXCEPT ![d] = @ + 1] /\ loading' = [loading EXCEPT ![d] = TRUE]
  BY DEF RequestTelemetryHistory
<1>10. \A e \in Devices : IsFiniteSet(RequestIds(e))' /\ pending'[e] <= Cardinality(RequestIds(e)')
  <2> TAKE e \in Devices
  <2>1. IsFiniteSet(RequestIds(e)) /\ pending[e] <= Cardinality(RequestIds(e)) /\ pending[e] \in Nat
    BY DEF PendingInv
  <2>2. Cardinality(RequestIds(e)) \in Nat
    BY <2>1, FS_CardinalityType
  <2>3. CASE e = d
    <3>1. RequestIds(e)' = RequestIds(e) \cup {asked["history"] + 1}
      BY <1>7, <2>3
    <3>2. IsFiniteSet(RequestIds(e)') /\ Cardinality(RequestIds(e)') = Cardinality(RequestIds(e)) + 1
      <4>1. PICK n : n = asked["history"] + 1
        OBVIOUS
      <4>2. n \notin RequestIds(e)
        BY <1>8, <4>1
      <4>3. IsFiniteSet(RequestIds(e) \cup {n}) /\ Cardinality(RequestIds(e) \cup {n}) = Cardinality(RequestIds(e)) + 1
        BY <2>1, <4>2, FS_AddElement
      <4> QED BY <3>1, <4>1, <4>3
    <3>3. pending'[e] = pending[e] + 1
      BY <1>9, <2>3 DEF PendingInv
    <3> QED BY <2>1, <2>2, <3>2, <3>3
  <2>4. CASE e # d
    <3>1. RequestIds(e)' = RequestIds(e)
      BY <1>7, <2>4
    <3>2. pending'[e] = pending[e]
      BY <1>9, <2>4 DEF PendingInv
    <3> QED BY <2>1, <3>1, <3>2
  <2> QED BY <2>3, <2>4
<1>11. \A q \in asks' : q.kind = "history" => q.id <= asked'["history"]
  <2> SUFFICES ASSUME NEW q \in asks', q.kind = "history" PROVE q.id <= asked["history"] + 1
      BY <1>4
  <2>1. CASE q = new
    BY <1>0, <1>2, <2>1
  <2>2. CASE q \in AbortLast(d, under)
    <3>1. PICK r \in asks : SameRequest(q, r)
      BY <1>5, <2>2
    <3>2. q.id = r.id /\ r.kind = "history" /\ r.id <= asked["history"] /\ r.id \in Nat
      BY <1>0, <3>1 DEF SameRequest, PendingInv, ClearInv, Numbered
    <3> QED BY <1>0, <3>2
  <2> QED BY <1>3, <2>1, <2>2
<1>12. pending' \in [Devices -> Nat] /\ loading' \in [Devices -> BOOLEAN] /\ \A e \in Devices : loading'[e] => pending'[e] > 0
  BY <1>9 DEF PendingInv
<1> QED BY <1>10, <1>11, <1>12 DEF PendingInv

LEMMA PendingHears ==
  ASSUME PendingInv, ClearInv', NEW r \in asks, NEW out \in Outcomes(r), r.kind = "history", asks' = asks \ {r}, HistoryAnswered(out), UNCHANGED asked
  PROVE  PendingInv'
<1>1. RequestFields \subseteq DOMAIN r /\ r.device \in Devices
  BY DEF PendingInv, ClearInv, Numbered
<1>2. out.device = r.device
  BY <1>1 DEF Outcomes, Failed, RequestFields
<1> DEFINE d == r.device
<1>3. /\ pending' = [pending EXCEPT ![d] = IF @ <= 1 THEN 0 ELSE @ - 1]
      /\ loading' = [loading EXCEPT ![d] = @ /\ pending[d] > 1]
  BY <1>2 DEF HistoryAnswered, Settled
<1>4. pending' \in [Devices -> Nat] /\ loading' \in [Devices -> BOOLEAN] /\ \A e \in Devices : loading'[e] => pending'[e] > 0
  <2>1. pending' \in [Devices -> Nat]
    BY <1>1, <1>3 DEF PendingInv
  <2>2. loading' \in [Devices -> BOOLEAN]
    <3>1. PICK b \in BOOLEAN : b = (loading[d] /\ pending[d] > 1)
      OBVIOUS
    <3>2. loading' = [loading EXCEPT ![d] = b]
      BY <1>3, <3>1
    <3> QED BY <3>2 DEF PendingInv
  <2>3. ASSUME NEW e \in Devices, e = d, loading'[e] PROVE pending'[e] > 0
    <3>1. loading'[d] = (loading[d] /\ pending[d] > 1) /\ pending'[d] = IF pending[d] <= 1 THEN 0 ELSE pending[d] - 1
      BY <1>1, <1>3 DEF PendingInv
    <3>2. pending[d] \in Nat
      BY <1>1 DEF PendingInv
    <3>3. pending[d] > 1
      BY <2>3, <3>1, Zenon
    <3> QED BY <2>3, <3>1, <3>2, <3>3
  <2>4. ASSUME NEW e \in Devices, e # d, loading'[e] PROVE pending'[e] > 0
    <3>1. loading'[e] = loading[e] /\ pending'[e] = pending[e]
      BY <1>1, <1>3, <2>4 DEF PendingInv
    <3> QED BY <2>4, <3>1 DEF PendingInv
  <2> QED BY <2>1, <2>2, <2>3, <2>4
<1>5. \A e \in Devices : IsFiniteSet(RequestIds(e))' /\ pending'[e] <= Cardinality(RequestIds(e)')
  <2> TAKE e \in Devices
  <2>1. IsFiniteSet(RequestIds(e)) /\ pending[e] <= Cardinality(RequestIds(e)) /\ pending[e] \in Nat
    BY DEF PendingInv
  <2>2. RequestIds(e)' \subseteq RequestIds(e)
    BY DEF RequestIds
  <2>3. IsFiniteSet(RequestIds(e)') /\ Cardinality(RequestIds(e)') \in Nat
    BY <2>1, <2>2, FS_Subset, FS_CardinalityType
  <2>4. CASE e = d
    <3>1. RequestIds(e) \ {r.id} \subseteq RequestIds(e)'
      BY DEF RequestIds
    <3>2. IsFiniteSet(RequestIds(e) \ {r.id}) /\ Cardinality(RequestIds(e) \ {r.id}) <= Cardinality(RequestIds(e)')
      BY <2>3, <3>1, FS_Subset
    <3>3. r.id \in RequestIds(e)
      BY <2>4 DEF RequestIds
    <3>4. Cardinality(RequestIds(e) \ {r.id}) = Cardinality(RequestIds(e)) - 1
      BY <2>1, <3>3, FS_RemoveElement
    <3>5. pending'[e] = IF pending[e] <= 1 THEN 0 ELSE pending[e] - 1
      BY <1>3, <2>4 DEF PendingInv
    <3>6. Cardinality(RequestIds(e)) \in Nat
      BY <2>1, FS_CardinalityType
    <3> QED BY <2>1, <2>3, <3>2, <3>4, <3>5, <3>6
  <2>5. CASE e # d
    <3>1. RequestIds(e)' = RequestIds(e)
      BY <2>5 DEF RequestIds
    <3>2. pending'[e] = pending[e]
      BY <1>3, <2>5 DEF PendingInv
    <3> QED BY <2>1, <3>1, <3>2
  <2> QED BY <2>4, <2>5
<1>6. \A q \in asks' : q.kind = "history" => q.id <= asked'["history"]
  BY DEF PendingInv
<1> QED BY <1>4, <1>5, <1>6 DEF PendingInv

LEMMA PendingClears == ASSUME PendingInv, ClearInv', NEW d \in Devices, ClearDeviceChartData(d) PROVE PendingInv'
<1>0. (\A r \in asks : RequestFields \subseteq DOMAIN r) /\ UNCHANGED asked /\ asks' = AbortLast(d, asks)
  BY DEF PendingInv, ClearInv, Numbered, ClearDeviceChartData
<1>1. (\A q \in asks' : \E r \in asks : SameRequest(q, r)) /\ \A r \in asks : \E q \in asks' : SameRequest(q, r)
  BY <1>0, AbortedSame, AbortedAll
<1>2. ASSUME NEW e \in Devices PROVE RequestIds(e)' = RequestIds(e)
  <2>1. ASSUME NEW i \in RequestIds(e)' PROVE i \in RequestIds(e)
    BY <1>0, <1>1, <2>1 DEF RequestIds, SameRequest
  <2>2. ASSUME NEW i \in RequestIds(e) PROVE i \in RequestIds(e)'
    BY <1>0, <1>1, <2>2 DEF RequestIds, SameRequest
  <2> QED BY <2>1, <2>2
<1>3. pending' = [pending EXCEPT ![d] = 0] /\ loading' = [loading EXCEPT ![d] = FALSE]
  BY DEF ClearDeviceChartData
<1>4. pending' \in [Devices -> Nat] /\ loading' \in [Devices -> BOOLEAN] /\ \A e \in Devices : (loading'[e] => pending'[e] > 0) /\ pending'[e] <= pending[e]
  BY <1>3 DEF PendingInv
<1>5. \A e \in Devices : IsFiniteSet(RequestIds(e))' /\ pending'[e] <= Cardinality(RequestIds(e)')
  <2> TAKE e \in Devices
  <2>1. IsFiniteSet(RequestIds(e)) /\ pending[e] <= Cardinality(RequestIds(e)) /\ pending[e] \in Nat /\ pending'[e] \in Nat
    BY <1>4 DEF PendingInv
  <2>2. Cardinality(RequestIds(e)) \in Nat
    BY <2>1, FS_CardinalityType
  <2> QED BY <1>2, <1>4, <2>1, <2>2
<1>6. \A q \in asks' : q.kind = "history" => q.id <= asked'["history"]
  <2> TAKE q \in asks'
  <2>1. PICK r \in asks : SameRequest(q, r)
    BY <1>1
  <2> QED BY <1>0, <2>1 DEF SameRequest, PendingInv
<1> QED BY <1>4, <1>5, <1>6 DEF PendingInv

LEMMA PendingAskedOther ==
  ASSUME PendingInv, ClearInv', NEW k \in {"inventory", "alerts", "check"}, NEW d, NEW n, k = "check" => d \in Devices, RequestJson(Ask(k, d, n), asks),
         UNCHANGED pending, loading' \in [Devices -> BOOLEAN], \A e \in Devices : loading'[e] => loading[e]
  PROVE  PendingInv'
<1>1. Aside(Ask(k, d, n)) /\ Ask(k, d, n).kind = k
  BY DEF Ask, RequestFields, Aside
<1>2. asks' = asks \cup {Ask(k, d, n)} /\ (asked' = asked \/ asked' = [asked EXCEPT ![k] = @ + 1])
  BY <1>1 DEF RequestJson
<1>3. asked'["history"] = asked["history"] /\ asked["history"] \in Nat
  BY <1>2 DEF PendingInv, ClearInv
<1>4. \A q \in asks' : (\E r \in asks : SameRequest(q, r)) \/ Aside(q)
  BY <1>1, <1>2 DEF SameRequest
<1>5. \A r \in asks : r.kind = "history" => \E q \in asks' : SameRequest(q, r)
  BY <1>2 DEF SameRequest
<1> QED BY <1>3, <1>4, <1>5, PendingElsewhere

LEMMA FlushKeepsLoading ==
  ASSUME PendingInv, FlushRealtimeUpdates
  PROVE  loading' \in [Devices -> BOOLEAN] /\ \A d \in Devices : loading'[d] => loading[d]
<1>1. loading' = [d \in Devices |-> loading[d] /\ queue.points[d] = 0]
  BY DEF FlushRealtimeUpdates
<1>2. \A d \in Devices : (loading[d] /\ queue.points[d] = 0) \in BOOLEAN
  OBVIOUS
<1>3. loading' \in [Devices -> BOOLEAN]
  BY <1>1, <1>2
<1>4. \A d \in Devices : loading'[d] => loading[d]
  BY <1>1
<1> QED BY <1>3, <1>4

LEMMA PendingSteps == PendingInv /\ [Next]_vars => PendingInv'
<1> SUFFICES ASSUME PendingInv, [Next]_vars PROVE PendingInv'
    OBVIOUS
<1>0. ClearInv' /\ ClearInv
  BY ClearSteps DEF PendingInv
<1>a. loading \in [Devices -> BOOLEAN] /\ asked["history"] >= asked["history"]
  BY DEF PendingInv, ClearInv
<1>1. CASE UNCHANGED vars
  BY <1>0, <1>1, PendingRests DEF vars
<1>2. CASE Serve
  <2>1. PICK r \in asks : asks' = (asks \ {r}) \cup {[r EXCEPT !.answer = <<Answer(r)>>]} /\ UNCHANGED <<page, asked>>
    BY <1>2 DEF Serve
  <2>2. PICK b : b = [r EXCEPT !.answer = <<Answer(r)>>]
    OBVIOUS
  <2>3. SameRequest(b, r)
    BY <2>2 DEF SameRequest, RequestFields
  <2>4. \A q \in asks' : \E c \in asks : SameRequest(q, c)
    BY <2>1, <2>2, <2>3 DEF SameRequest
  <2>5. \A c \in asks : \E q \in asks' : SameRequest(q, c)
    BY <2>1, <2>2, <2>3 DEF SameRequest
  <2>6. UNCHANGED <<pending, loading, asked>>
    BY <2>1 DEF page
  <2> QED BY <1>0, <1>a, <2>4, <2>5, <2>6, PendingElsewhere
<1>3. CASE Receive
  <2>1. UNCHANGED <<pending, loading>>
    BY <1>3 DEF Receive, reading
  <2>2. RequestJson(Ask("alerts", None, 0), asks) \/ UNCHANGED <<asks, asked>>
    BY <1>3 DEF Receive, OnAlert
  <2> QED BY <1>0, <1>a, <2>1, <2>2, PendingAskedOther, PendingRests
<1>4. CASE OnDisconnect
  BY <1>0, <1>4, PendingRests DEF OnDisconnect, page
<1>5. CASE OnConnect
  <2>1. UNCHANGED <<pending, loading>> /\ asked' = [asked EXCEPT !["alerts"] = @ + 1]
    BY <1>5 DEF OnConnect, reading
  <2>2. asked'["history"] >= asked["history"]
    BY <1>0, <2>1 DEF ClearInv
  <2>3. (\A q \in asks' : q \in asks \/ \E k \in {"alerts", "inventory"} : q = Ask(k, None, 0)) /\ asks \subseteq asks'
    BY <1>5 DEF OnConnect
  <2>4. \A k \in {"alerts", "inventory"} : Aside(Ask(k, None, 0))
    BY DEF Ask, RequestFields, Aside
  <2>5. (\A q \in asks' : (\E r \in asks : SameRequest(q, r)) \/ Aside(q)) /\ \A r \in asks : \E q \in asks' : SameRequest(q, r)
    BY <2>3, <2>4 DEF SameRequest
  <2> QED BY <1>0, <1>a, <2>1, <2>2, <2>5, PendingElsewhere
<1>6. CASE FlushDue
  <2>1. UNCHANGED <<pending, asks, asked>> /\ (FlushRealtimeUpdates \/ UNCHANGED loading)
    BY <1>6 DEF FlushDue
  <2>2. \A q \in asks : SameRequest(q, q)
    BY DEF SameRequest
  <2>3. loading' \in [Devices -> BOOLEAN] /\ \A d \in Devices : loading'[d] => loading[d]
    BY <1>a, <2>1, FlushKeepsLoading
  <2> QED BY <1>0, <1>a, <2>1, <2>2, <2>3, PendingElsewhere
<1>7. CASE VisibilityChange
  <2>1. UNCHANGED pending /\ (FlushRealtimeUpdates \/ UNCHANGED loading) /\ (UNCHANGED <<asks, asked>> \/ RequestJson(Ask("inventory", None, 0), asks))
    BY <1>7 DEF VisibilityChange
  <2>2. loading' \in [Devices -> BOOLEAN] /\ \A d \in Devices : loading'[d] => loading[d]
    BY <1>a, <2>1, FlushKeepsLoading
  <2>3. \A q \in asks : SameRequest(q, q)
    BY DEF SameRequest
  <2>4. CASE UNCHANGED <<asks, asked>>
    BY <1>0, <1>a, <2>1, <2>2, <2>3, <2>4, PendingElsewhere
  <2>5. CASE RequestJson(Ask("inventory", None, 0), asks)
    BY <1>0, <2>1, <2>2, <2>5, PendingAskedOther
  <2> QED BY <2>1, <2>4, <2>5
<1>8. ASSUME NEW kind \in Requests, Arrive(kind) PROVE PendingInv'
  <2>1. PICK r \in asks : \E out \in Outcomes(r) :
           /\ r.kind = kind /\ asks' = asks \ {r} /\ UNCHANGED <<asked, barrier>>
           /\ \/ kind = "inventory" /\ InventoryAnswered(out)
              \/ kind = "alerts" /\ AlertsAnswered(out)
              \/ kind = "history" /\ HistoryAnswered(out)
    BY <1>8 DEF Arrive
  <2>2. CASE kind = "history"
    BY <1>0, <2>1, <2>2, PendingHears
  <2>3. CASE kind # "history"
    BY <1>0, <2>1, <2>3, PendingRests DEF InventoryAnswered, AlertsAnswered, reading
  <2> QED BY <2>2, <2>3
<1>9. CASE LoadDeviceInventory
  BY <1>0, <1>a, <1>9, PendingAskedOther DEF LoadDeviceInventory, reading
<1>10. CASE ReconcileAnswered
  <2>1. PICK r \in asks : /\ r.kind = "check"
                          /\ \/ RequestTelemetryHistory(r.device, asks \ {r})
                             \/ asks' = asks \ {r} /\ UNCHANGED <<asked, pending, loading>>
    BY <1>10 DEF ReconcileAnswered
  <2>2. CASE asks' = asks \ {r} /\ UNCHANGED <<asked, pending, loading>>
    BY <1>0, <2>1, <2>2, PendingRests
  <2>3. CASE RequestTelemetryHistory(r.device, asks \ {r})
    <3>1. r.device \in Devices
      BY <1>0, <2>1 DEF ClearInv, Numbered
    <3> QED BY <1>0, <2>1, <2>3, <3>1, PendingAsks
  <2> QED BY <2>1, <2>2, <2>3
<1>11. ASSUME NEW d \in Devices, NEW kind \in Changes, Change(d, kind) PROVE PendingInv'
  BY <1>0, <1>11, PendingRests DEF Change, page
<1>12. ASSUME NEW d \in Devices, CardEffect(d) PROVE PendingInv'
  BY <1>0, <1>12, PendingRests DEF CardEffect, reading
<1>13. ASSUME NEW d \in Devices, CardPrefetch(d) PROVE PendingInv'
  BY <1>0, <1>13, PendingRests, PendingAsks DEF CardPrefetch
<1>14. ASSUME NEW d \in Devices, AttemptPast(d) PROVE PendingInv'
  BY <1>0, <1>14, PendingRests DEF AttemptPast
<1>15. ASSUME NEW d \in Devices, Reconcile(d) PROVE PendingInv'
  BY <1>0, <1>a, <1>15, PendingAskedOther DEF Reconcile, page
<1>16. ASSUME NEW d \in Devices, ClearDeviceChartData(d) PROVE PendingInv'
  BY <1>0, <1>16, PendingClears
<1>17. ASSUME NEW d \in Devices, UpdateInventoryDeviceFromSensor(d) PROVE PendingInv'
  BY <1>0, <1>17, PendingRests DEF UpdateInventoryDeviceFromSensor, reading
<1> QED BY <1>1, <1>2, <1>3, <1>4, <1>5, <1>6, <1>7, <1>8, <1>9, <1>10, <1>11, <1>12, <1>13, <1>14, <1>15, <1>16, <1>17 DEF Next

LEMMA PendingAsksSome == PendingInv => LoadingMeansAsking
<1> SUFFICES ASSUME PendingInv, NEW d \in Devices, loading[d] PROVE \E r \in asks : r.kind = "history" /\ r.device = d
    BY DEF LoadingMeansAsking
<1>1. pending[d] > 0 /\ pending[d] \in Nat /\ pending[d] <= Cardinality(RequestIds(d))
  BY DEF PendingInv
<1>2. RequestIds(d) # {}
  <2>1. SUFFICES ASSUME RequestIds(d) = {} PROVE FALSE
        OBVIOUS
  <2> QED BY <1>1, <2>1, FS_EmptySet
<1> QED BY <1>2 DEF RequestIds

-----------------------------------------------------------------------------
(* The names of the axes: what the panel holds and what the server keeps of a   *)
(* device fit together, but for a device whose axis was renamed too early; the  *)
(* placement cannot change while a rename is under way.                         *)

AxisFields == {"chart", "motor", "mapping", "pose", "live", "turning"}
Matching == CD!Permutations3
Named(chart, motor, mapping) == CD!AxisKeys \subseteq DOMAIN chart /\ CD!AxisKeys \subseteq DOMAIN motor /\ mapping \in Matching
Fits(chart, motor, mapping) == \A r \in CD!AxisKeys : chart[r] = motor[mapping[r]]

\* What a dialog saves, and what the server keeps.
Saved(v) == {"chart", "motor", "mapping"} \subseteq DOMAIN v /\ Named(v.chart, v.motor, v.mapping)
Config(c) ==
  /\ {"chart", "motor", "mapping", "pose"} \subseteq DOMAIN c /\ CD!AxisKeys \subseteq DOMAIN c.chart
  /\ (c.motor = None \/ CD!AxisKeys \subseteq DOMAIN c.motor) /\ (c.mapping = None \/ c.mapping \in Matching)
Known(d, c) == c = None \/ (Config(c) /\ (d \notin dlg.early => Fits(CD!FromConfig(c).chart, CD!FromConfig(c).motor, CD!FromConfig(c).mapping)))

AxisState ==
  /\ AxisFields \subseteq DOMAIN axes /\ Named(axes.chart, axes.motor, axes.mapping)
  /\ dlg.device \notin dlg.early => Fits(axes.chart, axes.motor, axes.mapping)
  /\ dlg.device \in Panels /\ DOMAIN stored.config = Panels /\ ("rename" \in dlg.over => dlg.axis \in CD!AxisKeys)
  /\ \A d \in Panels : Known(d, stored.config[d])

AxisAsked(a) ==
  /\ a.is \in {"config", "merge"} /\ a.answer \notin {CD!Waiting, CD!Failed} => Known(a.device, a.answer.config)
  /\ a.is \in {"merge", "rename", "place"} =>
       Saved(a.arg) /\ (a.device \notin dlg.early => Fits(a.arg.chart, a.arg.motor, a.arg.mapping))
  /\ a.is \in {"rename", "place"} => "pose" \in DOMAIN a.arg
  /\ a.is \in {"merge", "rename"} /\ a.device \notin dlg.early => a.arg.mapping = axes.mapping /\ \A b \in dasks : b.is # "config"

AxisInv == DialogInv /\ AxisState /\ \A a \in dasks : AxisAsked(a)

LEMMA MatchingIsOneToOne ==
  ASSUME NEW f \in Matching
  PROVE  /\ DOMAIN f = CD!AxisKeys /\ (\A r \in CD!AxisKeys : f[r] \in CD!AxisKeys) /\ \A r, q \in CD!AxisKeys : f[r] = f[q] => r = q
         /\ \A m \in CD!AxisKeys : \E r \in CD!AxisKeys : f[r] = m
<1>1. DOMAIN f = CD!AxisKeys /\ (\A r \in CD!AxisKeys : f[r] \in CD!AxisKeys) /\ \A r, q \in CD!AxisKeys : f[r] = f[q] => r = q
  BY DEF Matching, CD!Permutations3
<1>2. \A m \in CD!AxisKeys : \E r \in CD!AxisKeys : f[r] = m
  BY <1>1 DEF CD!AxisKeys
<1> QED BY <1>1, <1>2

LEMMA IdentityMatches == CD!Identity \in Matching /\ \A r \in CD!AxisKeys : CD!Identity[r] = r
BY DEF CD!Identity, Matching, CD!Permutations3

\* The names of the motor that follow from those of the chart.
LEMMA DerivedFits ==
  ASSUME NEW chart, NEW f \in Matching
  PROVE  /\ CD!AxisKeys \subseteq DOMAIN CD!MotorAxisLabelsFromPlacement(chart, f)
         /\ Fits(chart, CD!MotorAxisLabelsFromPlacement(chart, f), f)
<1>1. CD!AxisKeys \subseteq DOMAIN CD!MotorAxisLabelsFromPlacement(chart, f)
  BY DEF CD!MotorAxisLabelsFromPlacement
<1>2. ASSUME NEW r \in CD!AxisKeys PROVE chart[r] = CD!MotorAxisLabelsFromPlacement(chart, f)[f[r]]
  <2>1. f[r] \in CD!AxisKeys
    BY MatchingIsOneToOne
  <2> DEFINE q == CHOOSE q \in CD!AxisKeys : f[q] = f[r]
  <2>2. q = r
    <3>1. q \in CD!AxisKeys /\ f[q] = f[r]
      OBVIOUS
    <3> HIDE DEF q
    <3> QED BY <3>1, MatchingIsOneToOne
  <2>3. CD!MotorAxisLabelsFromPlacement(chart, f)[f[r]] = chart[q]
    BY <2>1 DEF CD!MotorAxisLabelsFromPlacement
  <2> QED BY <2>2, <2>3
<1> QED BY <1>1, <1>2 DEF Fits

\* A configuration as the panel takes it.
LEMMA TakenNamed ==
  ASSUME NEW c, Config(c)
  PROVE  LET v == CD!FromConfig(c) IN AxisFields \subseteq DOMAIN v /\ Named(v.chart, v.motor, v.mapping)
<1> DEFINE mapping == IF c.mapping = None THEN CD!Identity ELSE c.mapping
<1>1. mapping \in Matching
  BY IdentityMatches DEF Config
<1>2. CD!FromConfig(c).chart = c.chart /\ CD!FromConfig(c).mapping = mapping
      /\ CD!FromConfig(c).motor = (IF c.motor = None THEN CD!MotorAxisLabelsFromPlacement(c.chart, mapping) ELSE c.motor)
      /\ AxisFields \subseteq DOMAIN CD!FromConfig(c)
  BY DEF CD!FromConfig, AxisFields
<1>3. CD!AxisKeys \subseteq DOMAIN CD!MotorAxisLabelsFromPlacement(c.chart, mapping)
  BY <1>1, DerivedFits
<1> HIDE DEF mapping
<1> QED BY <1>1, <1>2, <1>3 DEF Config, Named

\* What a dialog saves comes back as it was.
LEMMA SavedComesBack ==
  ASSUME NEW v, Saved(v), "pose" \in DOMAIN v
  PROVE  /\ Config(v)
         /\ Fits(v.chart, v.motor, v.mapping) => Fits(CD!FromConfig(v).chart, CD!FromConfig(v).motor, CD!FromConfig(v).mapping)
<1>1. Config(v)
  BY DEF Saved, Named, Config
<1>2. v.mapping # None /\ v.mapping \in Matching
  BY PagesAssumption DEF Saved, Named, Matching
<1>3. CD!FromConfig(v).chart = v.chart /\ CD!FromConfig(v).mapping = v.mapping
      /\ CD!FromConfig(v).motor = (IF v.motor = None THEN CD!MotorAxisLabelsFromPlacement(v.chart, v.mapping) ELSE v.motor)
  BY <1>2 DEF CD!FromConfig
<1>4. Fits(v.chart, CD!MotorAxisLabelsFromPlacement(v.chart, v.mapping), v.mapping)
  BY <1>2, DerivedFits
<1> QED BY <1>1, <1>3, <1>4

LEMMA QuarterTurns == CD!Sin(0) = 0 /\ CD!Sin(1) = 1 /\ CD!Cos(0) = 1 /\ CD!Cos(1) = 0
BY DEF CD!Sin, CD!Cos

LEMMA AxesTurned ==
  ASSUME NEW v \in Int \X Int \X Int
  PROVE  /\ CD!RotatePlacementVector(v, <<0, 0, 0>>) = <<v[1], v[2], v[3]>>
         /\ CD!RotatePlacementVector(v, <<0, 1, 0>>) = <<v[3], v[2], -v[1]>>
<1>1. \A i \in Int : i * 0 = 0 /\ i * 1 = i /\ i - 0 = i /\ 0 + i = i /\ i + 0 = i /\ 0 - i = -i
  OBVIOUS
<1>2. v[1] \in Int /\ v[2] \in Int /\ v[3] \in Int
  OBVIOUS
<1> QED BY <1>1, <1>2, QuarterTurns DEF CD!RotatePlacementVector

\* The placement some devices begin with: the sensor stands turned by 90 degrees.
TurnedPose == [motor |-> CD!FaceRotation.bottom, sensor |-> CD!TwistedFace.bottom]
Crossed == [r \in CD!AxisKeys |-> IF r = "x" THEN "y" ELSE IF r = "y" THEN "x" ELSE "z"]
LEMMA TurnedParallel ==
  \A r, m \in CD!AxisKeys : CD!Parallel(TurnedPose, r, m) = IF Crossed[r] = m THEN 1 ELSE 0
<1>1. TurnedPose.motor = <<0, 0, 0>> /\ TurnedPose.sensor = <<0, 1, 0>>
  BY DEF TurnedPose, CD!FaceRotation, CD!TwistedFace
<1>2. CD!AxisVector["x"] = <<1, 0, 0>> /\ CD!AxisVector["y"] = <<0, 0, 1>> /\ CD!AxisVector["z"] = <<0, 1, 0>>
  BY DEF CD!AxisVector
<1>3. /\ CD!RotatePlacementVector(<<1, 0, 0>>, <<0, 0, 0>>) = <<1, 0, 0>> /\ CD!RotatePlacementVector(<<1, 0, 0>>, <<0, 1, 0>>) = <<0, 0, -1>>
      /\ CD!RotatePlacementVector(<<0, 0, 1>>, <<0, 0, 0>>) = <<0, 0, 1>> /\ CD!RotatePlacementVector(<<0, 0, 1>>, <<0, 1, 0>>) = <<1, 0, 0>>
      /\ CD!RotatePlacementVector(<<0, 1, 0>>, <<0, 0, 0>>) = <<0, 1, 0>> /\ CD!RotatePlacementVector(<<0, 1, 0>>, <<0, 1, 0>>) = <<0, 1, 0>>
  <2>1. <<1, 0, 0>> \in Int \X Int \X Int /\ <<0, 0, 1>> \in Int \X Int \X Int /\ <<0, 1, 0>> \in Int \X Int \X Int
    OBVIOUS
  <2>2. \A v \in Int \X Int \X Int : /\ CD!RotatePlacementVector(v, <<0, 0, 0>>) = <<v[1], v[2], v[3]>>
                                      /\ CD!RotatePlacementVector(v, <<0, 1, 0>>) = <<v[3], v[2], -v[1]>>
    BY AxesTurned
  <2>3. \A i \in Int : (i = 0 => -i = 0) /\ (i = 1 => -i = -1)
    OBVIOUS
  <2> QED BY <2>1, <2>2, <2>3
<1>4. /\ CD!AbsDot(<<0, 0, -1>>, <<1, 0, 0>>) = 0 /\ CD!AbsDot(<<0, 0, -1>>, <<0, 0, 1>>) = 1 /\ CD!AbsDot(<<0, 0, -1>>, <<0, 1, 0>>) = 0
      /\ CD!AbsDot(<<1, 0, 0>>, <<1, 0, 0>>) = 1 /\ CD!AbsDot(<<1, 0, 0>>, <<0, 0, 1>>) = 0 /\ CD!AbsDot(<<1, 0, 0>>, <<0, 1, 0>>) = 0
      /\ CD!AbsDot(<<0, 1, 0>>, <<1, 0, 0>>) = 0 /\ CD!AbsDot(<<0, 1, 0>>, <<0, 0, 1>>) = 0 /\ CD!AbsDot(<<0, 1, 0>>, <<0, 1, 0>>) = 1
  <2>1. \A i \in Int : i * 0 = 0 /\ i * 1 = i /\ 0 + i = i /\ i + 0 = i
    OBVIOUS
  <2>2. -1 \in Int /\ -1 < 0 /\ \A i \in Int : i = -1 => -i = 1
    OBVIOUS
  <2>3. CD!AbsDot(<<0, 0, -1>>, <<1, 0, 0>>) = 0 /\ CD!AbsDot(<<0, 0, -1>>, <<0, 0, 1>>) = 1 /\ CD!AbsDot(<<0, 0, -1>>, <<0, 1, 0>>) = 0
    <3>1. PICK i \in Int : i = -1
      BY <2>2
    <3>2. i * 0 = 0 /\ i * 1 = i /\ 0 + 0 + i = i /\ 0 + 0 = 0
      BY <2>1
    <3>5. i < 0
      BY <3>1, <2>2
    <3>6. -i = 1
      BY <3>1, <2>2
    <3>3. CD!AbsDot(<<0, 0, i>>, <<1, 0, 0>>) = 0 /\ CD!AbsDot(<<0, 0, i>>, <<0, 1, 0>>) = 0
      BY <3>2, <2>1 DEF CD!AbsDot
    <3>4. CD!AbsDot(<<0, 0, i>>, <<0, 0, 1>>) = 1
      BY <3>2, <3>5, <3>6, <2>1 DEF CD!AbsDot
    <3> QED BY <3>1, <3>3, <3>4
  <2>4. CD!AbsDot(<<1, 0, 0>>, <<1, 0, 0>>) = 1 /\ CD!AbsDot(<<1, 0, 0>>, <<0, 0, 1>>) = 0 /\ CD!AbsDot(<<1, 0, 0>>, <<0, 1, 0>>) = 0
    BY <2>1, <2>2 DEF CD!AbsDot
  <2>5. CD!AbsDot(<<0, 1, 0>>, <<1, 0, 0>>) = 0 /\ CD!AbsDot(<<0, 1, 0>>, <<0, 0, 1>>) = 0 /\ CD!AbsDot(<<0, 1, 0>>, <<0, 1, 0>>) = 1
    BY <2>1, <2>2 DEF CD!AbsDot
  <2> QED BY <2>3, <2>4, <2>5
<1>5. Crossed["x"] = "y" /\ Crossed["y"] = "x" /\ Crossed["z"] = "z"
  BY DEF Crossed, CD!AxisKeys
<1> QED BY <1>1, <1>2, <1>3, <1>4, <1>5 DEF CD!Parallel, CD!AxisKeys

LEMMA TurnedMatches == CD!Turned.mapping \in Matching /\ CD!Turned.motor = CD!Physical
                       /\ CD!Turned.chart = CD!ChartAxisLabelsFromPlacementMatches(CD!Physical, CD!Turned.mapping)
                       /\ "pose" \in DOMAIN CD!Turned
<1>1. Crossed \in CD!BestMatches(TurnedPose)
  <2>1. Crossed \in CD!Permutations3
    BY DEF Crossed, CD!Permutations3, CD!AxisKeys
  <2> DEFINE Score == [f \in CD!Permutations3 |-> CD!Parallel(TurnedPose, "x", f["x"]) + CD!Parallel(TurnedPose, "y", f["y"]) + CD!Parallel(TurnedPose, "z", f["z"])]
  <2>2. Score[Crossed] = 3
    BY <2>1, TurnedParallel DEF Crossed, CD!AxisKeys
  <2>3. ASSUME NEW g \in CD!Permutations3 PROVE Score[g] <= 3
    <3>1. g["x"] \in CD!AxisKeys /\ g["y"] \in CD!AxisKeys /\ g["z"] \in CD!AxisKeys
      BY DEF CD!Permutations3, CD!AxisKeys
    <3> QED BY <3>1, TurnedParallel DEF CD!AxisKeys
  <2> QED BY <2>1, <2>2, <2>3 DEF CD!BestMatches
<1>2. CD!BuildPlacementAxisMatches(TurnedPose) \subseteq Matching
  BY DEF CD!BuildPlacementAxisMatches, CD!BestMatches, Matching
<1>3. CD!BuildPlacementAxisMatches(TurnedPose) # {}
  BY <1>1, IdentityMatches DEF CD!BuildPlacementAxisMatches, Matching
<1> DEFINE mapping == CHOOSE f \in CD!BuildPlacementAxisMatches(TurnedPose) : TRUE
<1>4. mapping \in Matching
  BY <1>2, <1>3
<1>5. CD!Turned = [chart |-> CD!ChartAxisLabelsFromPlacementMatches(CD!Physical, mapping), motor |-> CD!Physical, mapping |-> mapping, pose |-> TurnedPose]
  BY DEF CD!Turned, TurnedPose
<1> HIDE DEF mapping
<1> QED BY <1>4, <1>5

LEMMA AxisStarts == CD!DialogsInit => AxisInv
<1> SUFFICES ASSUME CD!DialogsInit PROVE AxisInv
    OBVIOUS
<1> DEFINE d == CHOOSE x \in Panels : TRUE
<1>0. d \in Panels
  BY PagesAssumption
<1>1. PICK start \in {<<None, <<>>, {}>>, <<CD!Older, <<>>, {}>>, <<None, <<"running">>, {}>>, <<CD!Turned, <<>>, {"place"}>>} :
        /\ dlg = [CD!Panel(d) EXCEPT !.over = start[3]]
        /\ dasks = {CD!Ask("config", d, None), CD!Ask("poll", d, None)}
        /\ stored = [config |-> [p \in Panels |-> start[1]], labels |-> [p \in Panels |-> CD!Physical], setpoints |-> [p \in Panels |-> 1],
                     jobs |-> [j \in DOMAIN start[2] |-> [device |-> d, status |-> start[2][j]]]]
  BY DEF CD!DialogsInit
<1>2. axes = CD!DefaultAxes
  BY DEF CD!DialogsInit
<1> HIDE DEF d
<1>3. dlg.device = d /\ dlg.over = start[3] /\ "rename" \notin start[3]
  BY <1>1 DEF CD!Panel
<1>4. DOMAIN CD!Physical = CD!AxisKeys
  BY DEF CD!Physical, CD!AxisKeys
<1>5. AxisFields \subseteq DOMAIN axes /\ Named(axes.chart, axes.motor, axes.mapping) /\ Fits(axes.chart, axes.motor, axes.mapping)
  BY <1>2, <1>4, IdentityMatches DEF CD!DefaultAxes, AxisFields, Named, Fits
<1>6. Config(CD!Older) /\ Fits(CD!FromConfig(CD!Older).chart, CD!FromConfig(CD!Older).motor, CD!FromConfig(CD!Older).mapping)
  <2>1. PICK chart : chart = [CD!Physical EXCEPT !["x"] = "Axial", !["y"] = "Radial H"]
    OBVIOUS
  <2>2. DOMAIN chart = CD!AxisKeys
    BY <1>4, <2>1
  <2>3. CD!Older = [chart |-> chart, motor |-> None, mapping |-> None, pose |-> None]
    BY <2>1 DEF CD!Older
  <2>4. /\ CD!FromConfig(CD!Older).chart = chart /\ CD!FromConfig(CD!Older).mapping = CD!Identity
        /\ CD!FromConfig(CD!Older).motor = CD!MotorAxisLabelsFromPlacement(chart, CD!Identity)
    BY <2>3 DEF CD!FromConfig
  <2>5. Fits(chart, CD!MotorAxisLabelsFromPlacement(chart, CD!Identity), CD!Identity)
    BY IdentityMatches, DerivedFits
  <2> QED BY <2>2, <2>3, <2>4, <2>5 DEF Config
<1>7. Config(CD!Turned) /\ Fits(CD!FromConfig(CD!Turned).chart, CD!FromConfig(CD!Turned).motor, CD!FromConfig(CD!Turned).mapping)
  <2>1. {"chart", "motor", "mapping"} \subseteq DOMAIN CD!Turned
    BY DEF CD!Turned
  <2>2. DOMAIN CD!Turned.chart = CD!AxisKeys /\ \A r \in CD!AxisKeys : CD!Turned.chart[r] = CD!Physical[CD!Turned.mapping[r]]
    BY TurnedMatches DEF CD!ChartAxisLabelsFromPlacementMatches
  <2>3. Saved(CD!Turned) /\ Fits(CD!Turned.chart, CD!Turned.motor, CD!Turned.mapping)
    BY <1>4, <2>1, <2>2, TurnedMatches DEF Saved, Named, Fits
  <2> QED BY <2>3, TurnedMatches, SavedComesBack
<1>8. \A p \in Panels : Known(p, stored.config[p])
  <2>1. start[1] \in {None, CD!Older, CD!Turned}
    OBVIOUS
  <2>2. \A p \in Panels : stored.config[p] = start[1]
    BY <1>1
  <2> QED BY <1>6, <1>7, <2>1, <2>2 DEF Known
<1>9. DOMAIN stored.config = Panels
  BY <1>1
<1>10. AxisState
  BY <1>0, <1>3, <1>5, <1>8, <1>9 DEF AxisState
<1>11. \A a \in dasks : a.is \in {"config", "poll"} /\ a.answer = CD!Waiting
  BY <1>1 DEF CD!Ask
<1>12. \A a \in dasks : AxisAsked(a)
  BY <1>11 DEF AxisAsked
<1> QED BY <1>10, <1>12, DialogStarts DEF AxisInv

AxisKinds == {"config", "merge", "rename", "place"}

\* What leaves the axes and the configurations alone.
LEMMA AxisElsewhere ==
  ASSUME AxisInv, DialogInv', UNCHANGED axes, stored'.config = stored.config, dlg'.device = dlg.device, dlg'.early = dlg.early,
         "rename" \in dlg'.over => dlg'.axis \in CD!AxisKeys,
         \A a \in dasks' : a \in dasks \/ a.is \notin AxisKinds
  PROVE  AxisInv'
<1>1. \A d, c : Known(d, c)' <=> Known(d, c)
  BY DEF Known
<1>2. AxisState'
  BY <1>1 DEF AxisInv, AxisState
<1>3. ASSUME NEW a \in dasks' PROVE AxisAsked(a)'
  <2>1. CASE a \in dasks
    BY <1>1, <2>1 DEF AxisInv, AxisAsked, AxisKinds
  <2>2. CASE a.is \notin AxisKinds
    BY <2>2 DEF AxisAsked, AxisKinds
  <2> QED BY <1>3, <2>1, <2>2
<1> QED BY <1>2, <1>3 DEF AxisInv

\* Turning the motor or the sensor changes no name before it is saved.
LEMMA AxisTurns ==
  ASSUME AxisInv, DialogInv', UNCHANGED <<dlg, stored, dasks>>, AxisFields \subseteq DOMAIN axes',
         axes'.chart = axes.chart, axes'.motor = axes.motor, axes'.mapping = axes.mapping
  PROVE  AxisInv'
<1>1. \A d, c : Known(d, c)' <=> Known(d, c)
  BY DEF Known
<1>2. AxisState'
  BY <1>1 DEF AxisInv, AxisState
<1>3. \A a \in dasks : AxisAsked(a)'
  BY <1>1 DEF AxisInv, AxisAsked
<1> QED BY <1>2, <1>3 DEF AxisInv

\* A request that is answered or refused.
LEMMA AxisServes == ASSUME AxisInv, NEW a \in dasks, CD!Serve(a) \/ CD!Refuse(a) PROVE AxisInv'
<1>0. AxisState /\ DialogInv /\ (\A c \in dasks : AxisAsked(c)) /\ DialogAskFields \subseteq DOMAIN a /\ UNCHANGED <<dlg, axes>>
  BY DEF AxisInv, DialogInv, DialogAsked, CD!Serve, CD!Refuse
<1>1. DialogInv'
  BY <1>0, DialogServes
<1>2. a.is \in AxisKinds => a.device = dlg.device /\ a.device \in Panels
  BY <1>0 DEF AxisKinds, DialogInv, DialogAsked, Writes, AxisState
<1>3. \A d, c : Known(d, c)' <=> Known(d, c)
  BY <1>0 DEF Known
<1>4. ASSUME NEW x, dasks' = (dasks \ {a}) \cup {[a EXCEPT !.answer = x]}, AxisState',
             a.is \in {"config", "merge"} /\ x \notin {CD!Waiting, CD!Failed} => Known(a.device, x.config)
      PROVE  AxisInv'
  <2>1. PICK b : b = [a EXCEPT !.answer = x]
    OBVIOUS
  <2>2. b.is = a.is /\ b.device = a.device /\ b.arg = a.arg /\ b.answer = x
    BY <1>0, <2>1 DEF DialogAskFields
  <2>3. \A c \in dasks' : c \in dasks \/ c = b
    BY <1>4, <2>1
  <2>4. (\A c \in dasks : c.is # "config") => \A c \in dasks' : c.is # "config"
    BY <2>2, <2>3
  <2>5. ASSUME NEW c \in dasks PROVE AxisAsked(c)'
    BY <1>0, <1>3, <2>4 DEF AxisAsked
  <2>6. AxisAsked(b)'
    <3>1. AxisAsked(a)
      BY <1>0
    <3> QED BY <1>0, <1>3, <1>4, <2>2, <2>4, <3>1 DEF AxisAsked
  <2> QED BY <1>1, <1>4, <2>3, <2>5, <2>6 DEF AxisInv
<1>5. stored'.config = stored.config => AxisState'
  BY <1>0, <1>3 DEF AxisState
<1>6. CASE CD!Refuse(a)
  BY <1>4, <1>5, <1>6 DEF CD!Refuse
<1>7. CASE CD!Serve(a) /\ a.is \in {"config", "merge"}
  <2>1. CD!Answer(a, [config |-> stored.config[a.device]]) /\ UNCHANGED stored
    BY <1>7 DEF CD!Serve
  <2>2. Known(a.device, stored.config[a.device])
    BY <1>0, <1>2, <1>7 DEF AxisKinds, AxisState
  <2> QED BY <1>4, <1>5, <2>1, <2>2 DEF CD!Answer
<1>8. CASE CD!Serve(a) /\ a.is \in {"rename", "place"}
  <2>1. CD!Answer(a, [config |-> a.arg]) /\ stored' = [stored EXCEPT !.config[a.device] = a.arg]
    BY <1>8 DEF CD!Serve
  <2>2. a.device \in Panels /\ Saved(a.arg) /\ "pose" \in DOMAIN a.arg /\ (a.device \notin dlg.early => Fits(a.arg.chart, a.arg.motor, a.arg.mapping))
    BY <1>0, <1>2, <1>8 DEF AxisKinds, AxisAsked
  <2>3. Known(a.device, a.arg)
    BY <2>2, SavedComesBack DEF Known
  <2>4. stored'.config = [stored.config EXCEPT ![a.device] = a.arg]
    BY <1>0, <2>1 DEF DialogInv, DialogState
  <2>5. DOMAIN stored'.config = Panels /\ \A d \in Panels : Known(d, stored'.config[d])
    BY <1>0, <2>2, <2>3, <2>4 DEF AxisState
  <2>6. AxisState'
    BY <1>0, <1>3, <2>5 DEF AxisState
  <2> QED BY <1>4, <1>8, <2>1, <2>6 DEF CD!Answer
<1>9. CASE CD!Serve(a) /\ a.is \notin AxisKinds
  <2>1. stored'.config = stored.config
    BY <1>0, <1>9 DEF CD!Serve, CD!QueueClear, AxisKinds, DialogInv, DialogState
  <2>2. \E x : dasks' = (dasks \ {a}) \cup {[a EXCEPT !.answer = x]}
    BY <1>9 DEF CD!Serve, CD!QueueClear, AxisKinds, CD!Answer
  <2> QED BY <1>4, <1>5, <1>9, <2>1, <2>2 DEF AxisKinds
<1> QED BY <1>6, <1>7, <1>8, <1>9 DEF AxisKinds

\* What a dialog saves of the names and the placement.
LEMMA AxisSaves ==
  ASSUME AxisInv, NEW name, CD!SaveAxisRename(name) \/ CD!SavePositionConfig([axes.motor EXCEPT !["x"] = name]), DialogInv'
  PROVE  AxisInv'
<1>0. AxisState /\ DialogInv /\ (\A c \in dasks : AxisAsked(c)) /\ UNCHANGED <<axes, stored>> /\ PanelDialogFields \subseteq DOMAIN dlg
  BY DEF AxisInv, DialogInv, DialogState, CD!SaveAxisRename, CD!SavePositionConfig
<1>1. \A a \in dasks : a.is \notin Writes
  BY <1>0 DEF DialogInv, DialogAsked, CD!SaveAxisRename, CD!SavePositionConfig, CD!Busy
<1>2. CASE CD!SaveAxisRename(name)
  <2> DEFINE under == {a.device : a \in {b \in dasks : b.is = "config"}}
             r == dlg.axis
  <2>1. dlg' = [dlg EXCEPT !.saving = {"rename"}, !.error = FALSE, !.early = @ \cup under]
    BY <1>2 DEF CD!SaveAxisRename
  <2> HIDE DEF under
  <2>2. dlg'.device = dlg.device /\ dlg'.axis = dlg.axis /\ dlg'.over = dlg.over /\ dlg'.early = dlg.early \cup under
    BY <1>0, <2>1 DEF PanelDialogFields
  <2>3. dlg.device \notin dlg'.early => \A b \in dasks : b.is # "config"
    BY <1>0, <2>2 DEF DialogInv, DialogAsked, under
  <2>4. PICK new : new = CD!Renamed(r, name)
    OBVIOUS
  <2>5. new.chart = [axes.chart EXCEPT ![r] = name] /\ new.motor = [axes.motor EXCEPT ![axes.mapping[r]] = name] /\ new.mapping = axes.mapping
    BY <1>0, <2>4 DEF CD!Renamed, AxisState, AxisFields
  <2>6. r \in CD!AxisKeys /\ axes.mapping \in Matching
    BY <1>0, <1>2 DEF AxisState, CD!SaveAxisRename, Named
  <2>7. Named(new.chart, new.motor, new.mapping)
    BY <1>0, <2>5 DEF AxisState, Named
  <2>8. Fits(axes.chart, axes.motor, axes.mapping) => Fits(new.chart, new.motor, new.mapping)
    BY <1>0, <2>5, <2>6, MatchingIsOneToOne DEF AxisState, Named, Fits
  <2>9. PICK arg : arg = [chart |-> new.chart, motor |-> new.motor, mapping |-> new.mapping]
    OBVIOUS
  <2>10. PICK w : w = CD!Ask("merge", dlg.device, arg)
    OBVIOUS
  <2>11. dasks' = dasks \cup {w}
    BY <1>2, <2>4, <2>9, <2>10 DEF CD!SaveAxisRename
  <2>12. w.is = "merge" /\ w.device = dlg.device /\ w.arg = arg /\ w.answer = CD!Waiting
    BY <2>10 DEF CD!Ask
  <2>13. \A d, c : Known(d, c) => Known(d, c)'
    BY <2>2 DEF Known
  <2>14. AxisState'
    BY <1>0, <2>2, <2>13 DEF AxisState
  <2>15. ASSUME NEW a \in dasks PROVE AxisAsked(a)'
    BY <1>0, <1>1, <2>2, <2>13 DEF AxisAsked, Writes
  <2>16. Saved(arg) /\ (dlg.device \notin dlg'.early => Fits(arg.chart, arg.motor, arg.mapping)) /\ arg.mapping = axes.mapping
    BY <1>0, <2>2, <2>5, <2>7, <2>8, <2>9 DEF Saved, AxisState
  <2>17. AxisAsked(w)'
    BY <1>0, <2>2, <2>3, <2>11, <2>12, <2>16 DEF AxisAsked
  <2> QED BY <2>11, <2>14, <2>15, <2>17 DEF AxisInv
<1>3. CASE CD!SavePositionConfig([axes.motor EXCEPT !["x"] = name])
  <2>1. dlg'.device = dlg.device /\ dlg'.axis = dlg.axis /\ dlg'.over = dlg.over /\ dlg'.early = dlg.early
    BY <1>0, <1>3 DEF CD!SavePositionConfig, PanelDialogFields
  <2>2. PICK names : names = [axes.motor EXCEPT !["x"] = name]
    OBVIOUS
  <2>3. PICK matches \in CD!PlacementAxisMatches : dasks' = dasks \cup {CD!Ask("place", dlg.device, 
          [chart |-> CD!ChartAxisLabelsFromPlacementMatches(names, matches), motor |-> names, mapping |-> matches, pose |-> axes.pose])}
    BY <1>3, <2>2 DEF CD!SavePositionConfig
  <2>4. matches \in Matching
    BY <1>0, <2>3 DEF CD!PlacementAxisMatches, CD!BuildPlacementAxisMatches, CD!BestMatches, Matching, AxisState, Named
  <2>5. PICK arg : arg = [chart |-> CD!ChartAxisLabelsFromPlacementMatches(names, matches), motor |-> names, mapping |-> matches, pose |-> axes.pose]
    OBVIOUS
  <2>6. CD!AxisKeys \subseteq DOMAIN names
    BY <1>0, <2>2 DEF AxisState, Named
  <2>7. Saved(arg) /\ Fits(arg.chart, arg.motor, arg.mapping) /\ "pose" \in DOMAIN arg
    BY <2>4, <2>5, <2>6 DEF CD!ChartAxisLabelsFromPlacementMatches, Saved, Named, Fits
  <2>8. PICK w : w = CD!Ask("place", dlg.device, arg)
    OBVIOUS
  <2>9. dasks' = dasks \cup {w}
    BY <2>3, <2>5, <2>8
  <2>10. w.is = "place" /\ w.device = dlg.device /\ w.arg = arg /\ w.answer = CD!Waiting
    BY <2>8 DEF CD!Ask
  <2>11. \A d, c : Known(d, c) => Known(d, c)'
    BY <2>1 DEF Known
  <2>12. AxisState'
    BY <1>0, <2>1, <2>11 DEF AxisState
  <2>13. ASSUME NEW a \in dasks PROVE AxisAsked(a)'
    BY <1>0, <1>1, <2>1, <2>11 DEF AxisAsked, Writes
  <2>14. AxisAsked(w)'
    BY <2>7, <2>10 DEF AxisAsked
  <2> QED BY <2>9, <2>12, <2>13, <2>14 DEF AxisInv
<1> QED BY <1>2, <1>3

\* An answer that is heard.
LEMMA AxisAnswers == ASSUME AxisInv, NEW a \in dasks, CD!Answered(a), DialogInv' PROVE AxisInv'
<1>0. AxisState /\ DialogInv /\ (\A c \in dasks : AxisAsked(c)) /\ AxisAsked(a) /\ PanelDialogFields \subseteq DOMAIN dlg
      /\ (a.is \in AxisKinds => a.device = dlg.device)
  BY DEF AxisInv, DialogInv, DialogState, DialogAsked, AxisKinds, Writes
<1>1. CASE CD!ConfigAnswered(a)
  <2> DEFINE c == IF a.answer = CD!Failed THEN None ELSE a.answer.config
  <2>1. UNCHANGED <<dlg, stored>> /\ a.is = "config" /\ axes' = (IF c = None THEN axes ELSE CD!FromConfig(c))
        /\ (\A b \in dasks' : b \in dasks \/ b = CD!Ask("labels", a.device, c.chart))
    BY <1>1 DEF CD!ConfigAnswered
  <2>2. c # None => Known(dlg.device, c) /\ Config(c)
    BY <1>0, <1>1 DEF CD!ConfigAnswered, AxisAsked, Known, AxisKinds
  <2> HIDE DEF c
  <2>3. \A d, x : Known(d, x)' <=> Known(d, x)
    BY <2>1 DEF Known
  <2>4. AxisState'
    <3>1. CASE c = None
      BY <1>0, <2>1, <2>3, <3>1 DEF AxisState
    <3>2. CASE c # None
      <4>1. AxisFields \subseteq DOMAIN axes' /\ Named(axes'.chart, axes'.motor, axes'.mapping)
        BY <2>1, <2>2, <3>2, TakenNamed
      <4>2. dlg.device \notin dlg.early => Fits(axes'.chart, axes'.motor, axes'.mapping)
        BY <2>1, <2>2, <3>2 DEF Known
      <4> QED BY <1>0, <2>1, <2>3, <4>1, <4>2 DEF AxisState
    <3> QED BY <3>1, <3>2
  <2>5. CD!Ask("labels", a.device, c.chart).is = "labels"
    BY DEF CD!Ask
  <2>6. \A b \in dasks : b.is \in {"merge", "rename"} => b.device \in dlg.early
    BY <1>0, <2>1 DEF AxisAsked
  <2>7. ASSUME NEW b \in dasks PROVE AxisAsked(b)'
    BY <1>0, <2>1, <2>3, <2>6 DEF AxisAsked
  <2>8. ASSUME NEW b, b.is = "labels" PROVE AxisAsked(b)'
    BY <2>8 DEF AxisAsked
  <2> QED BY <2>1, <2>4, <2>5, <2>7, <2>8 DEF AxisInv
<1>2. CASE CD!MergeAnswered(a)
  <2>1. UNCHANGED <<dlg, axes, stored>> /\ a.is = "merge"
    BY <1>2 DEF CD!MergeAnswered
  <2>2. PICK pose : dasks' = (dasks \ {a}) \cup
          {CD!Ask("rename", a.device, [chart |-> a.arg.chart, motor |-> a.arg.motor, mapping |-> a.arg.mapping, pose |-> pose])}
    BY <1>2 DEF CD!MergeAnswered
  <2>3. PICK arg : arg = [chart |-> a.arg.chart, motor |-> a.arg.motor, mapping |-> a.arg.mapping, pose |-> pose]
    OBVIOUS
  <2>4. PICK w : w = CD!Ask("rename", a.device, arg)
    OBVIOUS
  <2>5. w.is = "rename" /\ w.device = a.device /\ w.arg = arg /\ w.answer = CD!Waiting
    BY <2>4 DEF CD!Ask
  <2>6. dasks' = (dasks \ {a}) \cup {w}
    BY <2>2, <2>3, <2>4
  <2>7. arg.chart = a.arg.chart /\ arg.motor = a.arg.motor /\ arg.mapping = a.arg.mapping /\ {"chart", "motor", "mapping", "pose"} \subseteq DOMAIN arg
    BY <2>3
  <2>8. \A d, x : Known(d, x)' <=> Known(d, x)
    BY <2>1 DEF Known
  <2>9. (\A b \in dasks : b.is # "config") => \A b \in dasks' : b.is # "config"
    BY <2>5, <2>6
  <2>10. ASSUME NEW b \in dasks PROVE AxisAsked(b)'
    BY <1>0, <2>1, <2>8, <2>9 DEF AxisAsked
  <2>11. AxisAsked(w)'
    BY <1>0, <2>1, <2>5, <2>7, <2>9 DEF AxisAsked, Saved
  <2>12. AxisState'
    BY <1>0, <2>1, <2>8 DEF AxisState
  <2> QED BY <2>6, <2>10, <2>11, <2>12 DEF AxisInv
<1>3. CASE CD!MergeLost(a)
  <2>1. UNCHANGED <<axes, stored>> /\ dasks' = dasks \ {a}
        /\ dlg'.device = dlg.device /\ dlg'.early = dlg.early /\ dlg'.over = dlg.over /\ dlg'.axis = dlg.axis
    BY <1>0, <1>3 DEF CD!MergeLost, PanelDialogFields
  <2> QED BY <1>0, <2>1, AxisElsewhere DEF AxisState
<1>4. CASE CD!RenameAnswered(a) \/ CD!PlaceAnswered(a)
  <2>1. UNCHANGED stored /\ dasks' = dasks \ {a} /\ a.is \in {"rename", "place"}
        /\ dlg'.device = dlg.device /\ dlg'.early = dlg.early /\ ("rename" \in dlg'.over => "rename" \in dlg.over /\ dlg'.axis = dlg.axis)
    <3>1. CASE CD!RenameAnswered(a)
      BY <1>0, <3>1 DEF CD!RenameAnswered, PanelDialogFields
    <3>2. CASE CD!PlaceAnswered(a)
      BY <1>0, <3>2 DEF CD!PlaceAnswered, PanelDialogFields
    <3> QED BY <1>4, <3>1, <3>2
  <2>2. CASE a.answer = CD!Failed
    <3>1. UNCHANGED axes
      <4>1. CASE CD!RenameAnswered(a)
        BY <2>2, <4>1 DEF CD!RenameAnswered
      <4>2. CASE CD!PlaceAnswered(a)
        BY <2>2, <4>2 DEF CD!PlaceAnswered
      <4> QED BY <1>4, <4>1, <4>2
    <3> QED BY <1>0, <2>1, <3>1, AxisElsewhere DEF AxisState
  <2>3. CASE a.answer # CD!Failed
    <3>1. Saved(a.arg) /\ (dlg.device \notin dlg.early => Fits(a.arg.chart, a.arg.motor, a.arg.mapping))
      BY <1>0, <2>1 DEF AxisAsked, AxisKinds
    <3>2. /\ AxisFields \subseteq DOMAIN axes' /\ axes'.chart = a.arg.chart /\ axes'.motor = a.arg.motor
          /\ axes'.mapping = IF a.is = "rename" THEN axes.mapping ELSE a.arg.mapping
      <4>1. CASE CD!RenameAnswered(a)
        BY <1>0, <2>3, <4>1 DEF CD!RenameAnswered, AxisState, AxisFields
      <4>2. CASE CD!PlaceAnswered(a)
        BY <1>0, <2>3, <4>2 DEF CD!PlaceAnswered, AxisState, AxisFields
      <4> QED BY <1>4, <4>1, <4>2
    <3>3. axes'.mapping \in Matching /\ (dlg.device \notin dlg.early => axes'.mapping = a.arg.mapping)
      BY <1>0, <2>1, <3>1, <3>2 DEF AxisAsked, AxisState, Saved, Named, AxisKinds
    <3>4. \A d, x : Known(d, x)' <=> Known(d, x)
      BY <2>1 DEF Known
    <3>5. AxisState'
      BY <1>0, <2>1, <3>1, <3>2, <3>3, <3>4 DEF AxisState, Saved, Named
    <3>6. \A b \in dasks' : b \in dasks /\ b.is \notin Writes
      BY <1>0, <2>1 DEF DialogInv, Writes
    <3>7. ASSUME NEW b \in dasks' PROVE AxisAsked(b)'
      BY <1>0, <3>4, <3>6 DEF AxisAsked, Writes
    <3> QED BY <3>5, <3>7 DEF AxisInv
  <2> QED BY <2>2, <2>3
<1>5. CASE CD!SummaryAnswered(a) \/ CD!SetpointsAnswered(a) \/ CD!ClearAnswered(a) \/ CD!PollAnswered(a) \/ CD!MonthAnswered(a) \/ CD!LabelsAnswered(a)
  <2>1. UNCHANGED <<axes, stored>>
    BY <1>5 DEF CD!SummaryAnswered, CD!SetpointsAnswered, CD!ClearAnswered, CD!PollAnswered, CD!MonthAnswered, CD!LabelsAnswered
  <2>2. CD!Ask("summary", dlg.device, None).is = "summary"
    BY DEF CD!Ask
  <2>3. \A b \in dasks' : b \in dasks \/ b.is \notin AxisKinds
    BY <1>5, <2>2 DEF CD!SummaryAnswered, CD!SetpointsAnswered, CD!ClearAnswered, CD!PollAnswered, CD!MonthAnswered, CD!LabelsAnswered, AxisKinds
  <2>4. dlg'.device = dlg.device /\ dlg'.early = dlg.early /\ dlg'.over = dlg.over /\ dlg'.axis = dlg.axis
    <3>1. CASE CD!SummaryAnswered(a)
      BY <1>0, <3>1 DEF CD!SummaryAnswered, PanelDialogFields
    <3>2. CASE CD!SetpointsAnswered(a)
      BY <1>0, <3>2 DEF CD!SetpointsAnswered, PanelDialogFields
    <3>3. CASE CD!ClearAnswered(a)
      BY <1>0, <3>3 DEF CD!ClearAnswered, PanelDialogFields
    <3>4. CASE CD!PollAnswered(a)
      BY <1>0, <3>4 DEF CD!PollAnswered, PanelDialogFields
    <3>5. CASE CD!MonthAnswered(a)
      BY <1>0, <3>5 DEF CD!MonthAnswered, PanelDialogFields
    <3>6. CASE CD!LabelsAnswered(a)
      BY <3>6 DEF CD!LabelsAnswered
    <3> QED BY <1>5, <3>1, <3>2, <3>3, <3>4, <3>5, <3>6
  <2> QED BY <1>0, <2>1, <2>3, <2>4, AxisElsewhere DEF AxisState
<1> QED BY <1>1, <1>2, <1>3, <1>4, <1>5 DEF CD!Answered

LEMMA AxisSwitches == ASSUME AxisInv, NEW d \in Panels, CD!SwitchPanel(d), DialogInv' PROVE AxisInv'
<1>0. AxisState /\ DialogInv /\ (\A c \in dasks : AxisAsked(c)) /\ UNCHANGED stored /\ axes' = CD!DefaultAxes
  BY DEF AxisInv, CD!SwitchPanel
<1>1. PanelDialogFields \subseteq DOMAIN dlg' /\ dlg'.device = d /\ dlg'.early = dlg.early /\ dlg'.over = {}
  BY DEF CD!SwitchPanel, CD!Panel, PanelDialogFields
<1>2. \A x, c : Known(x, c)' <=> Known(x, c)
  BY <1>1 DEF Known
<1>3. DOMAIN CD!Physical = CD!AxisKeys
  BY DEF CD!Physical, CD!AxisKeys
<1>4. AxisFields \subseteq DOMAIN axes' /\ Named(axes'.chart, axes'.motor, axes'.mapping) /\ Fits(axes'.chart, axes'.motor, axes'.mapping)
  BY <1>0, <1>3, IdentityMatches DEF CD!DefaultAxes, AxisFields, Named, Fits
<1>5. AxisState'
  BY <1>0, <1>1, <1>2, <1>4 DEF AxisState
<1>6. \A a \in dasks : a.is \notin Writes
  BY <1>0 DEF DialogInv, DialogAsked, CD!SwitchPanel
<1>7. \A a \in dasks' : \/ a \in dasks /\ a.is \notin {"config", "poll"}
                        \/ a \in {CD!Ask("config", d, None), CD!Ask("poll", d, None)}
  BY DEF CD!SwitchPanel, CD!Forgotten
<1>8. \A a \in {CD!Ask("config", d, None), CD!Ask("poll", d, None)} : a.is \in {"config", "poll"} /\ a.answer = CD!Waiting
  BY DEF CD!Ask
<1>9. \A a \in dasks' : a.is \notin Writes /\ (a.is = "config" => a.answer = CD!Waiting)
  BY <1>6, <1>7, <1>8 DEF Writes
<1>10. \A a \in dasks' : AxisAsked(a)'
  BY <1>9 DEF AxisAsked, Writes
<1> QED BY <1>5, <1>10 DEF AxisInv

LEMMA AxisSteps == AxisInv /\ CD!DialogsNext => AxisInv'
<1> SUFFICES ASSUME AxisInv, CD!DialogsNext PROVE AxisInv'
    OBVIOUS
<1>0. DialogInv' /\ AxisState /\ PanelDialogFields \subseteq DOMAIN dlg /\ ("rename" \in dlg.over => dlg.axis \in CD!AxisKeys)
  BY DialogSteps DEF AxisInv, AxisState, DialogInv, DialogState
<1> DEFINE Same(e) == e.device = dlg.device /\ e.early = dlg.early /\ ("rename" \in e.over => e.axis \in CD!AxisKeys)
           NoneNew == \A a \in dasks' : a \in dasks \/ a.is \notin AxisKinds
<1>1. ASSUME UNCHANGED axes, stored'.config = stored.config, Same(dlg'), NoneNew PROVE AxisInv'
  BY <1>0, <1>1, AxisElsewhere
<1>2. ASSUME NEW d, NEW arg, NEW is \in {"summary", "setpoints", "clear", "poll", "month"}
      PROVE  CD!Ask(is, d, arg).is \notin AxisKinds
  BY DEF CD!Ask, AxisKinds
<1>3. CASE CD!RotationEnds
  <2>1. AxisFields \subseteq DOMAIN axes' /\ axes'.chart = axes.chart /\ axes'.motor = axes.motor /\ axes'.mapping = axes.mapping
    BY <1>0, <1>3 DEF CD!RotationEnds, AxisState, AxisFields
  <2> QED BY <1>0, <1>3, <2>1, AxisTurns DEF CD!RotationEnds
<1>4. ASSUME NEW o \in {"motor", "sensor"}, NEW f \in Faces, NEW t \in {0, 90}, CD!AnimatePlacementRotation(o, f, t) PROVE AxisInv'
  <2>1. AxisFields \subseteq DOMAIN axes' /\ axes'.chart = axes.chart /\ axes'.motor = axes.motor /\ axes'.mapping = axes.mapping
    BY <1>0, <1>4 DEF CD!AnimatePlacementRotation, AxisState, AxisFields
  <2> QED BY <1>0, <1>4, <2>1, AxisTurns DEF CD!AnimatePlacementRotation
<1>5. CASE CD!Poll
  BY <1>0, <1>1, <1>2, <1>5 DEF CD!Poll
<1>6. ASSUME NEW e, Same(e), CD!LoadCalendarMonthAvailability(e), PanelDialogFields \subseteq DOMAIN e, UNCHANGED <<axes, stored>> PROVE AxisInv'
  <2>1. Same(dlg')
    BY <1>6 DEF CD!LoadCalendarMonthAvailability, PanelDialogFields
  <2>2. NoneNew
    BY <1>2, <1>6 DEF CD!LoadCalendarMonthAvailability
  <2> QED BY <1>1, <1>6, <2>1, <2>2
<1>7. CASE CD!HandleToggleCalendarPopover
  <2>1. PICK e : e = [dlg EXCEPT !.open = ~ @]
    OBVIOUS
  <2>2. Same(e) /\ PanelDialogFields \subseteq DOMAIN e
    BY <1>0, <2>1 DEF PanelDialogFields
  <2> QED BY <1>6, <1>7, <2>1, <2>2 DEF CD!HandleToggleCalendarPopover
<1>8. ASSUME NEW m \in Months, CD!HandleCalendarMonthShift(m) PROVE AxisInv'
  <2>1. PICK e : e = [dlg EXCEPT !.month = m]
    OBVIOUS
  <2>2. Same(e) /\ PanelDialogFields \subseteq DOMAIN e
    BY <1>0, <2>1 DEF PanelDialogFields
  <2> QED BY <1>6, <1>8, <2>1, <2>2 DEF CD!HandleCalendarMonthShift
<1>9. ASSUME NEW r \in CD!AxisKeys, CD!OpenAxisRenameModal(r) PROVE AxisInv'
  <2>1. Same(dlg')
    BY <1>0, <1>9 DEF CD!OpenAxisRenameModal, CD!Opens, PanelDialogFields
  <2> QED BY <1>1, <1>9, <2>1 DEF CD!OpenAxisRenameModal
<1>10. CASE CD!OpenPlacement \/ CD!OpenClearDataConfirm
  <2>1. Same(dlg')
    BY <1>0, <1>10 DEF CD!OpenPlacement, CD!OpenClearDataConfirm, CD!Opens, PanelDialogFields
  <2> QED BY <1>1, <1>10, <2>1 DEF CD!OpenPlacement, CD!OpenClearDataConfirm
<1>11. CASE CD!OpenDataSettings
  <2>1. Same(dlg')
    <3>1. CASE dlg.summary # None
      BY <1>0, <1>11, <3>1 DEF CD!OpenDataSettings, CD!Opens, PanelDialogFields
    <3>2. CASE dlg.summary = None
      <4>1. PICK e : e = [dlg EXCEPT !.loading = TRUE]
        OBVIOUS
      <4>2. Same(e) /\ PanelDialogFields \subseteq DOMAIN e
        BY <1>0, <4>1 DEF PanelDialogFields
      <4>3. dlg' = [e EXCEPT !.over = @ \cup {"settings"}]
        BY <1>11, <3>2, <4>1 DEF CD!OpenDataSettings, CD!Opens
      <4>4. "rename" \notin {"settings"}
        OBVIOUS
      <4> QED BY <4>2, <4>3, <4>4 DEF PanelDialogFields
    <3> QED BY <3>1, <3>2
  <2>2. NoneNew
    BY <1>2, <1>11 DEF CD!OpenDataSettings, CD!LoadDeviceDataSummary
  <2> QED BY <1>1, <1>11, <2>1, <2>2 DEF CD!OpenDataSettings
<1>12. ASSUME NEW is \in {"rename", "place", "settings", "confirm"}, CD!CloseDialog(is) PROVE AxisInv'
  <2>1. Same(dlg')
    BY <1>0, <1>12 DEF CD!CloseDialog, PanelDialogFields
  <2> QED BY <1>1, <1>12, <2>1 DEF CD!CloseDialog
<1>13. CASE CD!ClearDeviceData
  <2>1. Same(dlg')
    BY <1>0, <1>13 DEF CD!ClearDeviceData, PanelDialogFields
  <2>2. NoneNew
    BY <1>2, <1>13 DEF CD!ClearDeviceData
  <2> QED BY <1>1, <1>13, <2>1, <2>2 DEF CD!ClearDeviceData
<1>14. ASSUME NEW v \in {0, 2}, CD!SaveSetpoints(v) PROVE AxisInv'
  <2>1. Same(dlg')
    BY <1>0, <1>14 DEF CD!SaveSetpoints, PanelDialogFields
  <2>2. NoneNew
    BY <1>2, <1>14 DEF CD!SaveSetpoints
  <2> QED BY <1>1, <1>14, <2>1, <2>2 DEF CD!SaveSetpoints
<1>15. ASSUME NEW j \in DOMAIN stored.jobs, CD!JobMoves(j) PROVE AxisInv'
  <2>1. stored'.config = stored.config
    BY <1>15 DEF CD!JobMoves, AxisInv, DialogInv, DialogState
  <2> QED BY <1>0, <1>1, <1>15, <2>1 DEF CD!JobMoves
<1>16. CASE \E d \in Panels : CD!SwitchPanel(d)
  BY <1>0, <1>16, AxisSwitches
<1>17. CASE \E name \in AxisNames : CD!SaveAxisRename(name) \/ CD!SavePositionConfig([axes.motor EXCEPT !["x"] = name])
  BY <1>0, <1>17, AxisSaves
<1>18. CASE \E a \in dasks : CD!Serve(a) \/ CD!Refuse(a)
  BY <1>18, AxisServes
<1>19. CASE \E a \in dasks : CD!Answered(a)
  BY <1>0, <1>19, AxisAnswers
<1>20. CASE CD!Escape
  BY <1>12, <1>20 DEF CD!Escape
<1> QED BY <1>3, <1>4, <1>5, <1>7, <1>8, <1>9, <1>10, <1>11, <1>12, <1>13, <1>14, <1>15, <1>16, <1>17, <1>18, <1>19, <1>20 DEF CD!DialogsNext

LEMMA AxisKeeps == AxisInv => CD!NamesFollowPlacement
<1> SUFFICES ASSUME AxisInv, dlg.device \notin dlg.early
             PROVE  /\ \A r \in CD!AxisKeys : axes.chart[r] = axes.motor[axes.mapping[r]]
                    /\ \A f \in CD!PlacementAxisMatches : \A m \in CD!AxisKeys : \E r \in CD!AxisKeys : f[r] = m
    BY DEF CD!NamesFollowPlacement
<1>1. \A r \in CD!AxisKeys : axes.chart[r] = axes.motor[axes.mapping[r]]
  BY DEF AxisInv, AxisState, Fits
<1>2. CD!PlacementAxisMatches \subseteq Matching
  BY DEF CD!PlacementAxisMatches, CD!BuildPlacementAxisMatches, CD!BestMatches, Matching, AxisInv, AxisState, Named
<1> QED BY <1>1, <1>2, MatchingIsOneToOne

\* The names of the axes follow the placement of the sensor, and the matches
\* stay one to one, whatever a dialog saves and whenever its answers come.
THEOREM NamesFollowPlacementAlways == PagesSpec => []NamesFollowPlacement
<1>1. PagesInit => AxisInv
  BY AxisStarts DEF PagesInit
<1>2. AxisInv /\ [PagesNext]_pageVars => AxisInv'
  <2> SUFFICES ASSUME AxisInv, [PagesNext]_pageVars PROVE AxisInv'
      OBVIOUS
  <2>1. CASE UNCHANGED DialogVars
    BY <2>1 DEF DialogVars, AxisInv, DialogInv, DialogState, DialogAsked, AxisState, AxisAsked, Known, JobIsOf, Tells
  <2>2. CASE CD!DialogsNext
    BY <2>2, AxisSteps
  <2>3. UNCHANGED DialogVars \/ CD!DialogsNext
    BY DEF PagesNext, Others, pageVars
  <2> QED BY <2>1, <2>2, <2>3
<1>3. AxisInv => NamesFollowPlacement
  BY AxisKeeps DEF NamesFollowPlacement
<1> QED BY <1>1, <1>2, <1>3, PTL DEF PagesSpec, pageVars

\* Away from the dashboard nothing of it moves.
LEMMA DashboardRests == [PagesNext]_pageVars => [Next]_vars
<1> SUFFICES ASSUME [PagesNext]_pageVars PROVE [Next]_vars
    OBVIOUS
<1> QED BY DEF PagesNext, Others, pageVars

\* The readings of a device that were cleared stay away until newer ones come,
\* however late an answer to an earlier request is.
THEOREM ClearedStaysClearedAlways == PagesSpec => []ClearedStaysCleared
<1>1. PagesInit => ClearInv
  BY ClearStarts DEF PagesInit
<1>2. ClearInv /\ [PagesNext]_pageVars => ClearInv'
  BY ClearSteps, DashboardRests
<1>3. ClearInv => ClearedStaysCleared
  BY DEF ClearInv
<1> QED BY <1>1, <1>2, <1>3, PTL DEF PagesSpec, pageVars

\* A card that is said to be loading has a request under way.
THEOREM LoadingAlwaysAsks == PagesSpec => []LoadingMeansAsking
<1>1. PagesInit => PendingInv
  BY PendingStarts DEF PagesInit
<1>2. PendingInv /\ [PagesNext]_pageVars => PendingInv'
  BY PendingSteps, DashboardRests
<1> QED BY <1>1, <1>2, PendingAsksSome, PTL DEF PagesSpec, pageVars

-----------------------------------------------------------------------------
(* Wall displays: a timer is stopped only where an attempt begins, where the    *)
(* page cannot send, or where another one is set.                               *)

DisplayFields == {"build", "visible", "connected", "state", "timer", "tries", "gaveUp", "checking", "reloading"}
KioskInv == DisplayFields \subseteq DOMAIN display /\ KI!PictureIsOnItsWay

\* What the reporter looks at.
SameReport(p, q) ==
  /\ DisplayFields \subseteq DOMAIN p /\ p.visible = q.visible /\ p.connected = q.connected /\ p.state = q.state
  /\ p.timer = q.timer /\ p.gaveUp = q.gaveUp
OnItsWay(p) == p.visible /\ p.connected /\ p.state # "succeeded" /\ ~p.gaveUp => p.timer \/ KI!AttemptInProgress(p)

LEMMA SameIsOnItsWay == ASSUME NEW p, NEW q, SameReport(p, q), OnItsWay(q) PROVE OnItsWay(p)
BY DEF SameReport, OnItsWay, KI!AttemptInProgress

LEMMA ScheduledIsOnItsWay ==
  ASSUME NEW p, DisplayFields \subseteq DOMAIN p
  PROVE  DisplayFields \subseteq DOMAIN KI!Schedule(p) /\ OnItsWay(KI!Schedule(p))
BY DEF KI!Schedule, OnItsWay, KI!AttemptInProgress, DisplayFields

LEMMA ResumedIsOnItsWay ==
  ASSUME NEW p, DisplayFields \subseteq DOMAIN p
  PROVE  DisplayFields \subseteq DOMAIN KI!Resume(p) /\ OnItsWay(KI!Resume(p))
<1>1. PICK q : q = [p EXCEPT !.timer = FALSE]
  OBVIOUS
<1>2. DisplayFields \subseteq DOMAIN q
  BY <1>1 DEF DisplayFields
<1>3. DisplayFields \subseteq DOMAIN KI!Schedule(q) /\ OnItsWay(KI!Schedule(q))
  BY <1>2, ScheduledIsOnItsWay
<1>4. ~p.visible \/ ~p.connected \/ p.state = "succeeded" => OnItsWay(p)
  BY DEF OnItsWay
<1> QED BY <1>1, <1>3, <1>4 DEF KI!Resume

LEMMA CheckedIsOnItsWay ==
  ASSUME NEW p, DisplayFields \subseteq DOMAIN p, OnItsWay(p)
  PROVE  DisplayFields \subseteq DOMAIN KI!CheckVersion(p) /\ OnItsWay(KI!CheckVersion(p))
<1>1. SameReport(KI!CheckVersion(p), p)
  BY DEF KI!CheckVersion, SameReport, DisplayFields
<1> QED BY <1>1, SameIsOnItsWay DEF SameReport

LEMMA AttemptIsOnItsWay ==
  ASSUME NEW p, DisplayFields \subseteq DOMAIN p
  PROVE  DisplayFields \subseteq DOMAIN KI!RunAttempt(p) /\ OnItsWay(KI!RunAttempt(p))
<1>1. CASE p.state = "succeeded" \/ KI!AttemptInProgress(p)
  BY <1>1 DEF KI!RunAttempt, OnItsWay
<1>2. CASE ~(p.state = "succeeded" \/ KI!AttemptInProgress(p)) /\ (~p.visible \/ ~p.connected)
  BY <1>2 DEF KI!RunAttempt, OnItsWay, DisplayFields
<1>3. CASE ~(p.state = "succeeded" \/ KI!AttemptInProgress(p)) /\ ~(~p.visible \/ ~p.connected) /\ p.checking
  <2>1. PICK q : q = [p EXCEPT !.state = "retry-wait"]
    OBVIOUS
  <2>2. DisplayFields \subseteq DOMAIN q
    BY <2>1 DEF DisplayFields
  <2>3. KI!RunAttempt(p) = KI!Schedule(q)
    BY <1>3, <2>1 DEF KI!RunAttempt
  <2> QED BY <2>2, <2>3, ScheduledIsOnItsWay
<1>4. CASE ~(p.state = "succeeded" \/ KI!AttemptInProgress(p)) /\ ~(~p.visible \/ ~p.connected) /\ ~p.checking
  BY <1>4 DEF KI!RunAttempt, OnItsWay, DisplayFields, KI!AttemptInProgress
<1> QED BY <1>1, <1>2, <1>3, <1>4

LEMMA KioskStarts == KI!KioskInit => KioskInv
BY DEF KI!KioskInit, KI!Page, KioskInv, KI!PictureIsOnItsWay, DisplayFields

LEMMA KioskSteps == KioskInv /\ KI!KioskNext => KioskInv'
<1> SUFFICES ASSUME KioskInv, KI!KioskNext PROVE KioskInv'
    OBVIOUS
<1>0. DisplayFields \subseteq DOMAIN display /\ OnItsWay(display)
  BY DEF KioskInv, KI!PictureIsOnItsWay, OnItsWay
<1>1. ASSUME DisplayFields \subseteq DOMAIN display', OnItsWay(display') PROVE KioskInv'
  BY <1>1 DEF KioskInv, KI!PictureIsOnItsWay, OnItsWay, KI!AttemptInProgress
<1>2. ASSUME SameReport(display', display) PROVE KioskInv'
  BY <1>0, <1>1, <1>2, SameIsOnItsWay DEF SameReport
<1>3. ASSUME UNCHANGED display PROVE KioskInv'
  BY <1>0, <1>1, <1>3
<1>4. ASSUME KI!Reloaded PROVE KioskInv'
  <2>1. DisplayFields \subseteq DOMAIN display' /\ display'.timer
    BY <1>4 DEF KI!Reloaded, KI!Page, DisplayFields
  <2> QED BY <1>1, <2>1 DEF OnItsWay
<1>5. ASSUME NEW status, KI!AttemptFailed(status) PROVE KioskInv'
  <2>1. DisplayFields \subseteq DOMAIN display' /\ display'.gaveUp = ~display'.timer
    BY <1>0, <1>5 DEF KI!AttemptFailed, DisplayFields
  <2> QED BY <1>1, <2>1 DEF OnItsWay
<1>6. CASE KI!TimerFires
  <2>1. PICK p : p = [display EXCEPT !.timer = FALSE]
    OBVIOUS
  <2>2. DisplayFields \subseteq DOMAIN p /\ display' = KI!RunAttempt(p)
    BY <1>0, <1>6, <2>1 DEF KI!TimerFires, DisplayFields
  <2> QED BY <1>1, <2>2, AttemptIsOnItsWay
<1>7. CASE KI!Captures
  <2>1. CASE display' = [display EXCEPT !.state = "uploading"]
    BY <1>0, <1>1, <2>1 DEF DisplayFields, OnItsWay, KI!AttemptInProgress
  <2> QED BY <1>5, <1>7, <2>1 DEF KI!Captures
<1>8. CASE KI!CheckDue
  BY <1>0, <1>1, <1>8, CheckedIsOnItsWay DEF KI!CheckDue
<1>9. CASE KI!Checked
  <2>1. PICK ok \in BOOLEAN : display' = KI!CheckOver(ok)
    BY <1>9 DEF KI!Checked
  <2>2. SameReport(display', display)
    BY <1>0, <2>1 DEF KI!CheckOver, SameReport, DisplayFields
  <2> QED BY <1>2, <2>2
<1>10. CASE KI!Reload
  BY <1>4, <1>10 DEF KI!Reload
<1>11. CASE KI!HidePage \/ KI!GoesOffline
  <2>1. DisplayFields \subseteq DOMAIN display' /\ (~display'.visible \/ ~display'.connected)
    BY <1>0, <1>11 DEF KI!HidePage, KI!GoesOffline, DisplayFields
  <2> QED BY <1>1, <2>1 DEF OnItsWay
<1>12. CASE KI!ShowPage
  <2>1. PICK p : p = [display EXCEPT !.visible = TRUE]
    OBVIOUS
  <2>2. DisplayFields \subseteq DOMAIN p /\ display' = KI!CheckVersion(KI!Resume(p))
    BY <1>0, <1>12, <2>1 DEF KI!ShowPage, DisplayFields
  <2> QED BY <1>1, <2>2, ResumedIsOnItsWay, CheckedIsOnItsWay
<1>13. CASE KI!BackOnline
  <2>1. PICK p : p = [display EXCEPT !.connected = TRUE]
    OBVIOUS
  <2>2. DisplayFields \subseteq DOMAIN p /\ display' = KI!CheckVersion(KI!Resume(p))
    BY <1>0, <1>13, <2>1 DEF KI!BackOnline, DisplayFields
  <2> QED BY <1>1, <2>2, ResumedIsOnItsWay, CheckedIsOnItsWay
<1>14. ASSUME NEW u, KI!Uploaded(u) PROVE KioskInv'
  <2>1. DisplayFields \subseteq DOMAIN display' /\ display'.state = "succeeded"
    BY <1>0, <1>14 DEF KI!Uploaded, DisplayFields
  <2> QED BY <1>1, <2>1 DEF OnItsWay
<1>15. ASSUME NEW u, KI!UploadFails(u) PROVE KioskInv'
  BY <1>5, <1>15 DEF KI!UploadFails
<1>16. ASSUME NEW u, KI!StoreImage(u) \/ KI!StoreRecord(u) PROVE KioskInv'
  BY <1>3, <1>16 DEF KI!StoreImage, KI!StoreRecord
<1>17. ASSUME NEW a, KI!ListLatest(a) \/ KI!BroadcastRefresh(a) \/ KI!PanelAnswered(a) PROVE KioskInv'
  BY <1>3, <1>4, <1>17 DEF KI!ListLatest, KI!BroadcastRefresh, KI!PanelAnswered
<1>18. CASE KI!Deployed \/ KI!PanelLoads \/ KI!PanelPolls \/ KI!RequestClientRefresh
  BY <1>3, <1>18 DEF KI!Deployed, KI!PanelLoads, KI!PanelPolls, KI!RequestClientRefresh
<1> QED BY <1>6, <1>7, <1>8, <1>9, <1>10, <1>11, <1>12, <1>13, <1>14, <1>15, <1>16, <1>17, <1>18 DEF KI!KioskNext

-----------------------------------------------------------------------------
(* Analysis: the results of a job tell of the devices it is done with, each     *)
(* once.                                                                        *)

JobFields == {"status", "devices", "read", "results"}
Settles(status) == status \in {"completed", "failed"}
JobTold(j) ==
  /\ JobFields \subseteq DOMAIN j
  /\ \E S : j.results \in Seq(S)
  /\ \A i \in DOMAIN j.results : j.results[i].device \in DOMAIN j.devices /\ Settles(j.devices[j.results[i].device])
  /\ \A d \in DOMAIN j.devices : Settles(j.devices[d]) => \E i \in DOMAIN j.results : j.results[i].device = d
  /\ \A i, k \in DOMAIN j.results : j.results[i].device = j.results[k].device => i = k
  /\ \A d \in DOMAIN j.devices : j.devices[d] \in {"queued", "running"} \/ Settles(j.devices[d])
  /\ j.status = "completed" => ~TA!Unfinished(j)

AnalysisInv == {"next", "jobs"} \subseteq DOMAIN analyses /\ \A id \in TA!Ids : JobTold(analyses.jobs[id])

LEMMA AnalysisStarts == TA!AnalysisInit => AnalysisInv
BY DEF TA!AnalysisInit, AnalysisInv, TA!Ids

\* One job is changed.
LEMMA PatchTells ==
  ASSUME AnalysisInv, NEW id \in TA!Ids, NEW j, JobTold(j), TA!Patch(id, j)
  PROVE  AnalysisInv'
<1>1. analyses'.jobs = [analyses.jobs EXCEPT ![id] = j] /\ {"next", "jobs"} \subseteq DOMAIN analyses'
  BY DEF TA!Patch, AnalysisInv
<1> QED BY <1>1 DEF AnalysisInv, TA!Ids

LEMMA NextIsUnfinished ==
  ASSUME NEW j, TA!Unfinished(j)
  PROVE  TA!NextDevice(j) \in DOMAIN j.devices /\ j.devices[TA!NextDevice(j)] \in {"queued", "running"}
BY DEF TA!Unfinished, TA!NextDevice

LEMMA BegunTells == ASSUME NEW chosen PROVE JobTold(TA!Begun(chosen))
<1>1. PICK q : q = [d \in chosen |-> "queued"]
  OBVIOUS
<1>2. TA!NewJob(chosen) = [status |-> "queued", devices |-> q, read |-> <<>>, results |-> <<>>]
  BY <1>1 DEF TA!NewJob
<1>3. PICK j : j = TA!Begun(chosen)
  OBVIOUS
<1>4. JobFields \subseteq DOMAIN j /\ j.status = "running" /\ j.devices = q /\ j.results = <<>>
  BY <1>2, <1>3 DEF TA!Begun, JobFields
<1>5. <<>> \in Seq({}) /\ DOMAIN <<>> = {}
  OBVIOUS
<1>6. \A d \in chosen : q[d] = "queued"
  BY <1>1
<1>7. DOMAIN j.devices = chosen /\ \A d \in chosen : j.devices[d] = "queued" /\ ~Settles(j.devices[d])
  BY <1>1, <1>4, <1>6 DEF Settles
<1>8. JobTold(j)
  BY <1>4, <1>5, <1>7 DEF JobTold
<1> QED BY <1>3, <1>8

\* A device of a job is read from.
LEMMA ReadTells ==
  ASSUME NEW j, JobTold(j), TA!Unfinished(j), NEW d, d = TA!NextDevice(j), NEW read, NEW k,
         j.status = "running", k = [j EXCEPT !.devices[d] = "running", !.read = read]
  PROVE  JobTold(k)
<1>1. d \in DOMAIN j.devices /\ ~Settles(j.devices[d])
  BY NextIsUnfinished DEF Settles
<1>2. JobFields \subseteq DOMAIN k /\ k.status = "running" /\ k.results = j.results /\ k.devices = [j.devices EXCEPT ![d] = "running"]
  BY DEF JobTold, JobFields
<1>3. DOMAIN k.devices = DOMAIN j.devices /\ k.devices[d] = "running" /\ \A e \in DOMAIN j.devices : e # d => k.devices[e] = j.devices[e]
  BY <1>1, <1>2
<1> QED BY <1>1, <1>2, <1>3 DEF JobTold, Settles

\* A device of a job is done with: read to its end, or given up.
LEMMA DoneTells ==
  ASSUME NEW j, JobTold(j), TA!Unfinished(j), NEW d, d = TA!NextDevice(j), NEW status, Settles(status), NEW x, x.device = d,
         NEW k, JobFields \subseteq DOMAIN k, k.status = "running", k.devices = [j.devices EXCEPT ![d] = status],
         k.results = Append(j.results, x)
  PROVE  JobTold(k)
<1>1. d \in DOMAIN j.devices /\ ~Settles(j.devices[d])
  BY NextIsUnfinished DEF Settles
<1>2. DOMAIN k.devices = DOMAIN j.devices /\ Settles(k.devices[d]) /\ \A e \in DOMAIN j.devices : e # d => k.devices[e] = j.devices[e]
  BY <1>1 DEF Settles
<1>4. PICK S : j.results \in Seq(S)
  BY DEF JobTold
<1>5. PICK n \in Nat : n = Len(j.results) /\ DOMAIN j.results = 1 .. n
  BY <1>4
<1>6. k.results \in Seq(S \cup {x}) /\ DOMAIN k.results = 1 .. n + 1 /\ k.results[n + 1] = x /\ \A i \in 1 .. n : k.results[i] = j.results[i]
  BY <1>4, <1>5
<1>8. \A i \in 1 .. n : j.results[i].device \in DOMAIN j.devices /\ j.results[i].device # d
  BY <1>1, <1>5 DEF JobTold
<1>9. \A i \in 1 .. n + 1 : k.results[i].device \in DOMAIN k.devices /\ Settles(k.devices[k.results[i].device])
  <2> TAKE i \in 1 .. n + 1
  <2>1. CASE i = n + 1
    BY <1>1, <1>2, <1>6, <2>1
  <2>2. CASE i \in 1 .. n
    BY <1>2, <1>5, <1>6, <1>8, <2>2 DEF JobTold
  <2> QED BY <1>5, <2>1, <2>2
<1>10. \A e \in DOMAIN k.devices : Settles(k.devices[e]) => \E i \in 1 .. n + 1 : k.results[i].device = e
  <2> SUFFICES ASSUME NEW e \in DOMAIN j.devices, Settles(k.devices[e]) PROVE \E i \in 1 .. n + 1 : k.results[i].device = e
      BY <1>2
  <2>1. CASE e = d
    BY <1>5, <1>6, <2>1
  <2>2. CASE e # d
    <3>1. PICK i \in 1 .. n : j.results[i].device = e
      BY <1>2, <1>5, <2>2 DEF JobTold
    <3> QED BY <1>5, <1>6, <3>1
  <2> QED BY <2>1, <2>2
<1>11. \A i, m \in 1 .. n + 1 : k.results[i].device = k.results[m].device => i = m
  <2>1. \A i, m \in 1 .. n : j.results[i].device = j.results[m].device => i = m
    BY <1>5 DEF JobTold
  <2>2. \A i \in 1 .. n + 1 : i \in 1 .. n \/ i = n + 1
    BY <1>5
  <2> QED BY <1>6, <1>8, <2>1, <2>2
<1>12. \A e \in DOMAIN k.devices : k.devices[e] \in {"queued", "running"} \/ Settles(k.devices[e])
  BY <1>2 DEF JobTold
<1> QED BY <1>6, <1>9, <1>10, <1>11, <1>12 DEF JobTold

LEMMA AnalysisSteps == AnalysisInv /\ TA!AnalysisNext => AnalysisInv'
<1> SUFFICES ASSUME AnalysisInv, TA!AnalysisNext PROVE AnalysisInv'
    OBVIOUS
<1>0. {"next", "jobs"} \subseteq DOMAIN analyses
  BY DEF AnalysisInv
<1>1. ASSUME UNCHANGED analyses PROVE AnalysisInv'
  BY <1>1 DEF AnalysisInv, TA!Ids
<1>2. ASSUME NEW id \in TA!Ids, TA!ReadBatch(id) PROVE AnalysisInv'
  <2>1. PICK j : j = analyses.jobs[id]
    OBVIOUS
  <2>2. JobTold(j) /\ TA!Unfinished(j) /\ j.status = "running"
    BY <1>2, <2>1 DEF AnalysisInv, TA!ReadBatch
  <2>3. PICK d, read, k : d = TA!NextDevice(j) /\ k = [j EXCEPT !.devices[d] = "running", !.read = read] /\ TA!Patch(id, k)
    BY <1>2, <2>1 DEF TA!ReadBatch
  <2>4. JobTold(k)
    BY <2>2, <2>3, ReadTells
  <2> QED BY <2>3, <2>4, PatchTells
<1>3. ASSUME NEW id \in TA!Ids, TA!FinishDevice(id) PROVE AnalysisInv'
  <2>1. PICK j : j = analyses.jobs[id]
    OBVIOUS
  <2>2. JobTold(j) /\ TA!Unfinished(j) /\ j.status = "running"
    BY <1>3, <2>1 DEF AnalysisInv, TA!FinishDevice
  <2>3. PICK d : d = TA!NextDevice(j)
    OBVIOUS
  <2>4. PICK status, row, k :
          status \in {"completed", "failed"}
          /\ k = [j EXCEPT !.devices[d] = status, !.read = <<>>, !.results = Append(@, [device |-> d, row |-> row])] /\ TA!Patch(id, k)
    BY <1>3, <2>1, <2>3 DEF TA!FinishDevice, TA!ErrorRow
  <2>5. PICK x : x = [device |-> d, row |-> row]
    OBVIOUS
  <2>6. x.device = d /\ Settles(status)
    BY <2>4, <2>5 DEF Settles
  <2>7. JobFields \subseteq DOMAIN k /\ k.status = "running" /\ k.devices = [j.devices EXCEPT ![d] = status]
        /\ k.results = Append(j.results, x)
    BY <2>2, <2>4, <2>5 DEF JobTold, JobFields
  <2>8. JobTold(k)
    BY ONLY <2>2, <2>3, <2>6, <2>7, DoneTells
  <2> QED BY <2>4, <2>8, PatchTells
<1>4. ASSUME NEW id \in TA!Ids, TA!Complete(id) PROVE AnalysisInv'
  <2>1. PICK j : j = analyses.jobs[id]
    OBVIOUS
  <2>2. JobTold(j) /\ ~TA!Unfinished(j)
    BY <1>4, <2>1 DEF AnalysisInv, TA!Complete
  <2>3. PICK k : k = [j EXCEPT !.status = "completed"] /\ TA!Patch(id, k)
    BY <1>4, <2>1 DEF TA!Complete
  <2>4. JobFields \subseteq DOMAIN k /\ k.devices = j.devices /\ k.results = j.results
    BY <2>2, <2>3 DEF JobTold, JobFields
  <2>5. JobTold(k)
    BY <2>2, <2>4 DEF JobTold, TA!Unfinished
  <2> QED BY <2>3, <2>5, PatchTells
<1>5. CASE TA!ServerRestarts
  <2>1. analyses'.jobs = <<>> /\ {"next", "jobs"} \subseteq DOMAIN analyses'
    BY <1>0, <1>5 DEF TA!ServerRestarts
  <2> QED BY <2>1 DEF AnalysisInv, TA!Ids
<1>6. ASSUME NEW a \in aasks, TA!AnalysisServe(a) PROVE AnalysisInv'
  <2>1. CASE UNCHANGED analyses
    BY <1>1, <2>1
  <2>2. CASE ~(UNCHANGED analyses)
    <3> DEFINE chosen == TA!SelectAnalysisDevices(a.devices)  id == analyses.next
               keep == (TA!Ids \ TA!Pruned) \cup {id}
    <3>1. analyses' = [next |-> id + 1, jobs |-> [i \in keep |-> IF i = id THEN TA!Begun(chosen) ELSE analyses.jobs[i]]]
      BY <1>6, <2>2 DEF TA!AnalysisServe, TA!StartServed, TA!GetServed, TA!ApplyServed
    <3>2. \A i \in keep : i = id \/ i \in TA!Ids
      OBVIOUS
    <3>3. JobTold(TA!Begun(chosen))
      BY BegunTells
    <3> HIDE DEF chosen, id, keep
    <3>4. {"next", "jobs"} \subseteq DOMAIN analyses' /\ DOMAIN analyses'.jobs = keep
          /\ \A i \in keep : analyses'.jobs[i] = IF i = id THEN TA!Begun(chosen) ELSE analyses.jobs[i]
      BY <3>1
    <3> QED BY <3>2, <3>3, <3>4 DEF AnalysisInv, TA!Ids
  <2> QED BY <2>1, <2>2
<1>7. ASSUME NEW a, TA!AnalysisLost(a) \/ TA!AnalysisAnswered(a) PROVE AnalysisInv'
  BY <1>1, <1>7 DEF TA!AnalysisLost, TA!AnalysisAnswered
<1>8. ASSUME NEW d, TA!ChooseDevice(d) \/ TA!DeviceRemoved(d) \/ TA!OpenApply(d) PROVE AnalysisInv'
  BY <1>1, <1>8 DEF TA!ChooseDevice, TA!DeviceRemoved, TA!OpenApply
<1>9. CASE TA!MountAnalysisPage \/ TA!LeaveAnalysisPage \/ TA!StartAnalysis \/ TA!Poll \/ TA!CloseApply \/ TA!ApplySuggestedThresholds
  BY <1>1, <1>9 DEF TA!MountAnalysisPage, TA!LeaveAnalysisPage, TA!StartAnalysis, TA!Poll, TA!CloseApply, TA!ApplySuggestedThresholds
<1> QED BY <1>2, <1>3, <1>4, <1>5, <1>6, <1>7, <1>8, <1>9 DEF TA!AnalysisNext

LEMMA AnalysisTells == AnalysisInv => TA!CompletedTellsAll
<1> SUFFICES ASSUME AnalysisInv, NEW id \in TA!Ids, analyses.jobs[id].status = "completed"
             PROVE  LET j == analyses.jobs[id] IN
                      /\ {r.device : r \in TA!Range(j.results)} = DOMAIN j.devices
                      /\ \A i, k \in DOMAIN j.results : j.results[i].device = j.results[k].device => i = k
    BY DEF TA!CompletedTellsAll
<1>1. PICK j : j = analyses.jobs[id]
  OBVIOUS
<1>2. JobTold(j) /\ ~TA!Unfinished(j)
  BY <1>1 DEF AnalysisInv, JobTold
<1>3. \A d \in DOMAIN j.devices : Settles(j.devices[d])
  BY <1>2 DEF JobTold, TA!Unfinished
<1>4. {r.device : r \in TA!Range(j.results)} = DOMAIN j.devices
  BY <1>2, <1>3 DEF JobTold, TA!Range
<1> QED BY <1>1, <1>2, <1>4 DEF JobTold

\* A completed analysis tells of every device it was asked for, once, although
\* devices are removed, their rows cannot be read or the server starts over.
THEOREM CompletedAlwaysTellsAll == PagesSpec => []TA!CompletedTellsAll
<1>1. PagesInit => AnalysisInv
  BY AnalysisStarts DEF PagesInit
<1>2. AnalysisInv /\ [PagesNext]_pageVars => AnalysisInv'
  <2> SUFFICES ASSUME AnalysisInv, [PagesNext]_pageVars PROVE AnalysisInv'
      OBVIOUS
  <2>1. CASE UNCHANGED AnalysisVars
    BY <2>1 DEF AnalysisVars, AnalysisInv, TA!Ids
  <2>2. UNCHANGED AnalysisVars \/ TA!AnalysisNext
    BY DEF PagesNext, Others, pageVars
  <2> QED BY <2>1, <2>2, AnalysisSteps
<1> QED BY <1>1, <1>2, AnalysisTells, PTL DEF PagesSpec, pageVars

\* A picture of a display that was not sent yet is on its way whenever it can be.
THEOREM PicturesAlwaysOnTheirWay == PagesSpec => []KI!PictureIsOnItsWay
<1>1. PagesInit => KioskInv
  BY KioskStarts DEF PagesInit
<1>2. KioskInv /\ [PagesNext]_pageVars => KioskInv'
  <2> SUFFICES ASSUME KioskInv, [PagesNext]_pageVars PROVE KioskInv'
      OBVIOUS
  <2>1. CASE UNCHANGED KioskVars
    BY <2>1 DEF KioskVars, KioskInv, KI!PictureIsOnItsWay, KI!AttemptInProgress
  <2>2. UNCHANGED KioskVars \/ KI!KioskNext
    BY DEF PagesNext, Others, pageVars
  <2> QED BY <2>1, <2>2, KioskSteps
<1>3. KioskInv => KI!PictureIsOnItsWay
  BY DEF KioskInv
<1> QED BY <1>1, <1>2, <1>3, PTL DEF PagesSpec, pageVars

-----------------------------------------------------------------------------
(* The spectrum under the pointer: an answer that is heard is of the row       *)
(* pointed at, and what is kept is kept under its own key.                      *)

SpectrumFields == {"device", "target", "pinned", "points", "loading", "last", "seq"}
FrameOfKey(points, key) ==
  \/ points = SP!Empty
  \/ /\ key[1] \in Charts /\ key[2] \in DOMAIN FrameOf[key[1]]
     /\ points = [of |-> key, frame |-> FrameOf[key[1]][key[2]]]
     /\ \A a \in SP!Directions : points.frame.axes[a] # <<>>
FramesKept(fs) ==
  /\ \E S : fs \in Seq(S)
  /\ \A i \in DOMAIN fs : {"key", "points"} \subseteq DOMAIN fs[i] /\ FrameOfKey(fs[i].points, fs[i].key)
AskedFor(s, reqs) ==
  \A a \in reqs : /\ a.device \in Charts /\ a.id \in Nat /\ a.id <= s.seq
                  /\ a.id = s.seq /\ s.target # None => a.device = s.device /\ a.at = s.target
SpectrumTold(s) ==
  /\ SpectrumFields \subseteq DOMAIN s /\ s.seq \in Nat /\ s.device \in Charts
  /\ s.target # None /\ ~s.loading => FrameOfKey(s.points, <<s.device, s.target>>)
SpectrumInv == SpectrumTold(spectrum) /\ AskedFor(spectrum, fasks) /\ FramesKept(frames)

LEMMA SpectrumStarts == SP!SpectrumInit => SpectrumInv
<1> SUFFICES ASSUME SP!SpectrumInit PROVE SpectrumInv
    OBVIOUS
<1>1. PICK d \in Charts : spectrum = [device |-> d, target |-> None, pinned |-> FALSE, points |-> None, loading |-> FALSE, last |-> None, seq |-> 0]
  BY DEF SP!SpectrumInit
<1>2. SpectrumTold(spectrum)
  BY <1>1 DEF SpectrumTold, SpectrumFields
<1>3. fasks = {} /\ frames = <<>> /\ <<>> \in Seq({}) /\ DOMAIN <<>> = {}
  BY DEF SP!SpectrumInit
<1> QED BY <1>2, <1>3 DEF SpectrumInv, AskedFor, FramesKept

LEMMA KeptIsOfKey == ASSUME FramesKept(frames), NEW key, NEW points \in SP!Kept(key) PROVE FrameOfKey(points, key)
<1>1. PICK i \in DOMAIN frames : frames[i].key = key /\ points = frames[i].points
  BY DEF SP!Kept
<1> QED BY <1>1 DEF FramesKept

\* What a request may make of what is shown, pointed at before.
LEMMA RequestTells ==
  ASSUME SpectrumTold(spectrum), FramesKept(frames), NEW s, NEW reqs, NEW t, NEW force,
         SpectrumFields \subseteq DOMAIN s, s.seq \in Nat, s.device \in Charts, s.target = t,
         force \/ s.loading = TRUE, AskedFor(s, reqs), force = FALSE \/ force = TRUE,
         SP!RequestSpectrumFrameAt(s, reqs, t, force)
  PROVE  SpectrumTold(spectrum') /\ AskedFor(spectrum', fasks')
<1> DEFINE key == <<s.device, t>>
<1>1. CASE SP!Kept(key) # {} /\ ~force
  <2>1. PICK p \in SP!Kept(key) : spectrum' = [s EXCEPT !.points = p, !.loading = FALSE] /\ fasks' = reqs
    BY <1>1 DEF SP!RequestSpectrumFrameAt
  <2>2. FrameOfKey(p, key)
    BY <2>1, KeptIsOfKey
  <2>3. SpectrumFields \subseteq DOMAIN spectrum' /\ spectrum'.seq = s.seq /\ spectrum'.device = s.device
        /\ spectrum'.target = t /\ spectrum'.points = p
    BY <2>1 DEF SpectrumFields
  <2> HIDE DEF key
  <2>4. AskedFor(spectrum', fasks')
    BY <2>1, <2>3 DEF AskedFor
  <2>5. key = <<spectrum'.device, spectrum'.target>>
    BY <2>3 DEF key
  <2> QED BY <2>2, <2>3, <2>4, <2>5 DEF SpectrumTold
<1>2. CASE ~(SP!Kept(key) # {} /\ ~force) /\ ~force /\ s.last # None /\ SP!Far(s.last, t) < HoverDelta
  <2>1. spectrum' = s /\ fasks' = reqs
    BY <1>2 DEF SP!RequestSpectrumFrameAt
  <2> QED BY <1>2, <2>1 DEF SpectrumTold
<1>3. CASE ~(SP!Kept(key) # {} /\ ~force) /\ ~(~force /\ s.last # None /\ SP!Far(s.last, t) < HoverDelta)
  <2>1. spectrum' = [s EXCEPT !.last = t, !.seq = @ + 1, !.loading = TRUE] /\ fasks' = {[id |-> s.seq + 1, device |-> s.device, at |-> t]}
    BY <1>3 DEF SP!RequestSpectrumFrameAt
  <2>2. PICK a : a = [id |-> s.seq + 1, device |-> s.device, at |-> t]
    OBVIOUS
  <2>3. a.id = s.seq + 1 /\ a.device = s.device /\ a.at = t
    BY <2>2
  <2>4. SpectrumFields \subseteq DOMAIN spectrum' /\ spectrum'.seq = s.seq + 1 /\ spectrum'.device = s.device
        /\ spectrum'.target = t /\ spectrum'.loading = TRUE
    BY <2>1 DEF SpectrumFields
  <2>5. AskedFor(spectrum', fasks')
    BY <2>1, <2>2, <2>3, <2>4 DEF AskedFor
  <2> QED BY <2>4, <2>5 DEF SpectrumTold
<1> QED BY <1>1, <1>2, <1>3

\* A new sequence number makes every earlier request unheard.
LEMMA LaterIsUnheard ==
  ASSUME SpectrumTold(spectrum), AskedFor(spectrum, fasks), NEW s, s.seq = spectrum.seq + 1
  PROVE  AskedFor(s, fasks)
BY DEF AskedFor, SpectrumTold

LEMMA RememberKeeps ==
  ASSUME FramesKept(frames), NEW key, NEW points, FrameOfKey(points, key)
  PROVE  FramesKept(SP!Remember(key, points))
<1>1. PICK S : frames \in Seq(S)
  BY DEF FramesKept
<1>2. PICK n \in Nat : n = Len(frames) /\ DOMAIN frames = 1 .. n
  BY <1>1
<1>3. PICK entry : entry = [key |-> key, points |-> points]
  OBVIOUS
<1>4. {"key", "points"} \subseteq DOMAIN entry /\ FrameOfKey(entry.points, entry.key)
  BY <1>3
<1> DEFINE moved == [i \in DOMAIN frames |-> IF frames[i].key = key THEN [frames[i] EXCEPT !.points = points] ELSE frames[i]]
           all == IF SP!Kept(key) # {} THEN moved ELSE Append(frames, entry)
<1>5. FramesKept(moved)
  <2>1. PICK R : R = {moved[i] : i \in DOMAIN frames}
    OBVIOUS
  <2>2. moved \in Seq(R) /\ DOMAIN moved = DOMAIN frames
    BY <1>2, <2>1
  <2>3. ASSUME NEW i \in DOMAIN frames PROVE {"key", "points"} \subseteq DOMAIN moved[i] /\ FrameOfKey(moved[i].points, moved[i].key)
    <3>1. CASE frames[i].key = key
      <4>1. moved[i] = [frames[i] EXCEPT !.points = points]
        BY <3>1
      <4>2. {"key", "points"} \subseteq DOMAIN moved[i] /\ moved[i].points = points /\ moved[i].key = key
        BY <3>1, <4>1 DEF FramesKept
      <4> QED BY <4>2
    <3>2. CASE frames[i].key # key
      BY <3>2 DEF FramesKept
    <3> QED BY <3>1, <3>2
  <2> HIDE DEF moved
  <2> QED BY <2>2, <2>3 DEF FramesKept
<1>6. FramesKept(Append(frames, entry))
  <2>1. PICK f : f = Append(frames, entry)
    OBVIOUS
  <2>2. f \in Seq(S \cup {entry}) /\ DOMAIN f = 1 .. n + 1 /\ f[n + 1] = entry /\ \A i \in 1 .. n : f[i] = frames[i]
    BY <1>1, <1>2, <2>1
  <2>3. \A i \in 1 .. n + 1 : i = n + 1 \/ i \in 1 .. n
    BY <1>2
  <2>4. FramesKept(f)
    BY <1>2, <1>4, <2>2, <2>3 DEF FramesKept
  <2> QED BY <2>1, <2>4
<1>7. FramesKept(all)
  BY <1>5, <1>6
<1>8. ASSUME NEW f, FramesKept(f), Len(f) > FrameCache PROVE FramesKept(Tail(f))
  <2>1. PICK T : f \in Seq(T)
    BY <1>8 DEF FramesKept
  <2>2. CASE f = <<>>
    <3>1. Tail(f) = <<>> /\ <<>> \in Seq({}) /\ DOMAIN <<>> = {}
      BY <2>2
    <3> QED BY <3>1 DEF FramesKept
  <2>3. CASE f # <<>>
    <3>1. Tail(f) \in Seq(T) /\ \A i \in DOMAIN Tail(f) : i + 1 \in DOMAIN f /\ Tail(f)[i] = f[i + 1]
      BY <2>1, <2>3
    <3> QED BY <1>8, <3>1 DEF FramesKept
  <2> QED BY <2>2, <2>3
<1>9. SP!Remember(key, points) = IF Len(all) > FrameCache THEN Tail(all) ELSE all
  BY <1>3 DEF SP!Remember
<1> HIDE DEF all
<1> QED BY <1>7, <1>8, <1>9

LEMMA ParsedIsOfKey ==
  ASSUME NEW d \in Charts, NEW t PROVE FrameOfKey(SP!ParseSpectrumFramePayload(d, t), <<d, t>>)
<1>1. CASE t \notin DOMAIN FrameOf[d] \/ \E a \in SP!Directions : FrameOf[d][t].axes[a] = <<>>
  BY <1>1 DEF SP!ParseSpectrumFramePayload, FrameOfKey
<1>2. CASE ~(t \notin DOMAIN FrameOf[d] \/ \E a \in SP!Directions : FrameOf[d][t].axes[a] = <<>>)
  <2>1. PICK key, p : key = <<d, t>> /\ p = [of |-> key, frame |-> FrameOf[d][t]]
    OBVIOUS
  <2>2. key[1] = d /\ key[2] = t /\ p.frame = FrameOf[d][t] /\ SP!ParseSpectrumFramePayload(d, t) = p
    BY <1>2, <2>1 DEF SP!ParseSpectrumFramePayload
  <2>3. FrameOfKey(p, key)
    BY <1>2, <2>1, <2>2 DEF FrameOfKey
  <2> QED BY <2>1, <2>2, <2>3
<1> QED BY <1>1, <1>2

LEMMA SpectrumSteps == SpectrumInv /\ SP!SpectrumNext => SpectrumInv'
<1> SUFFICES ASSUME SpectrumInv, SP!SpectrumNext PROVE SpectrumInv'
    OBVIOUS
<1>0. SpectrumTold(spectrum) /\ AskedFor(spectrum, fasks) /\ FramesKept(frames)
  BY DEF SpectrumInv
<1>1. ASSUME NEW t, SP!HandleTelemetryChartHover(t) PROVE SpectrumInv'
  <2>1. PICK target, moved : target = SP!Target(t) /\ moved = [spectrum EXCEPT !.target = target.at, !.seq = @ + 1]
    OBVIOUS
  <2>2. frames' = frames /\ IF ~target.vib THEN spectrum' = [moved EXCEPT !.points = SP!Empty, !.loading = FALSE] /\ fasks' = {}
                           ELSE SP!RequestSpectrumFrameAt([moved EXCEPT !.loading = TRUE], {}, target.at, FALSE)
    BY <1>1, <2>1 DEF SP!HandleTelemetryChartHover
  <2>3. SpectrumFields \subseteq DOMAIN moved /\ moved.seq = spectrum.seq + 1 /\ moved.device = spectrum.device /\ moved.target = target.at
    BY <1>0, <2>1 DEF SpectrumTold, SpectrumFields
  <2>4. CASE ~target.vib
    <3>1. SpectrumFields \subseteq DOMAIN spectrum' /\ spectrum'.seq = moved.seq /\ spectrum'.device = moved.device /\ spectrum'.points = SP!Empty
      BY <2>2, <2>3, <2>4 DEF SpectrumFields
    <3>2. SpectrumTold(spectrum')
      BY <1>0, <2>3, <3>1 DEF SpectrumTold, FrameOfKey
    <3> QED BY <1>0, <2>2, <2>4, <3>2 DEF SpectrumInv, AskedFor
  <2>5. CASE target.vib
    <3>1. PICK s : s = [moved EXCEPT !.loading = TRUE]
      OBVIOUS
    <3>2. SpectrumFields \subseteq DOMAIN s /\ s.seq \in Nat /\ s.device \in Charts /\ s.target = target.at /\ s.loading = TRUE
      BY <1>0, <2>3, <3>1 DEF SpectrumFields, SpectrumTold
    <3>3. AskedFor(s, {})
      BY DEF AskedFor
    <3>4. SP!RequestSpectrumFrameAt(s, {}, target.at, FALSE)
      BY <2>2, <2>5, <3>1
    <3>5. SpectrumTold(spectrum') /\ AskedFor(spectrum', fasks')
      BY <1>0, <3>2, <3>3, <3>4, RequestTells
    <3> QED BY <1>0, <2>2, <3>5 DEF SpectrumInv
  <2> QED BY <2>4, <2>5
<1>2. ASSUME NEW t, SP!HandleTelemetryChartPin(t) PROVE SpectrumInv'
  <2>1. PICK target, moved : target = SP!Target(t) /\ moved = [spectrum EXCEPT !.target = target.at, !.seq = @ + 1, !.pinned = TRUE, !.points = SP!Empty, !.loading = FALSE]
    OBVIOUS
  <2>2. frames' = frames /\ IF target.vib THEN SP!RequestSpectrumFrameAt(moved, fasks, target.at, TRUE) ELSE spectrum' = moved /\ UNCHANGED fasks
    BY <1>2, <2>1 DEF SP!HandleTelemetryChartPin
  <2>3. SpectrumFields \subseteq DOMAIN moved /\ moved.seq = spectrum.seq + 1 /\ moved.device = spectrum.device /\ moved.target = target.at
        /\ moved.points = SP!Empty
    BY <1>0, <2>1 DEF SpectrumTold, SpectrumFields
  <2>4. AskedFor(moved, fasks) /\ moved.seq \in Nat /\ moved.device \in Charts
    BY <1>0, <2>3, LaterIsUnheard DEF SpectrumTold
  <2>5. CASE ~target.vib
    BY <1>0, <2>2, <2>3, <2>4, <2>5 DEF SpectrumInv, SpectrumTold, FrameOfKey
  <2>6. CASE target.vib
    <3>1. SpectrumTold(spectrum') /\ AskedFor(spectrum', fasks')
      BY <1>0, <2>2, <2>3, <2>4, <2>6, RequestTells
    <3> QED BY <1>0, <2>2, <3>1 DEF SpectrumInv
  <2> QED BY <2>5, <2>6
\* Nothing is pointed at any more.
<1>3. ASSUME NEW s, SpectrumFields \subseteq DOMAIN s, s.seq = spectrum.seq \/ s.seq = spectrum.seq + 1, s.device \in Charts, s.target = None,
             spectrum' = s, UNCHANGED <<frames, fasks>>
      PROVE  SpectrumInv'
  <2>1. SpectrumTold(s)
    BY <1>0, <1>3 DEF SpectrumTold
  <2>2. AskedFor(s, fasks)
    BY <1>0, <1>3 DEF SpectrumTold, AskedFor
  <2> QED BY <1>0, <1>3, <2>1, <2>2 DEF SpectrumInv
<1>4. CASE SP!HandleTelemetryChartLeave \/ SP!HandleTelemetryChartUnpin
  <2>1. PICK s : s = [SP!Cleared(spectrum) EXCEPT !.seq = @ + 1]
    OBVIOUS
  <2>2. PICK e : e = SP!Cleared(spectrum)
    OBVIOUS
  <2>3. SpectrumFields \subseteq DOMAIN e /\ e.seq = spectrum.seq /\ e.device = spectrum.device /\ e.target = None
    BY <1>0, <2>2 DEF SP!Cleared, SpectrumTold, SpectrumFields
  <2>4. SpectrumFields \subseteq DOMAIN s /\ s.seq = spectrum.seq + 1 /\ s.device = spectrum.device /\ s.target = None
    BY <2>1, <2>2, <2>3 DEF SpectrumFields
  <2>5. spectrum' = s /\ UNCHANGED <<frames, fasks>>
    BY <1>4, <2>1 DEF SP!HandleTelemetryChartLeave, SP!HandleTelemetryChartUnpin
  <2> QED BY <1>0, <1>3, <2>4, <2>5 DEF SpectrumTold
<1>5. ASSUME NEW d \in Charts, SP!SwitchChart(d) PROVE SpectrumInv'
  <2>1. PICK e : e = SP!Cleared(spectrum)
    OBVIOUS
  <2>2. PICK s : s = [e EXCEPT !.device = d]
    OBVIOUS
  <2>3. SpectrumFields \subseteq DOMAIN e /\ e.seq = spectrum.seq /\ e.target = None
    BY <1>0, <2>1 DEF SP!Cleared, SpectrumTold, SpectrumFields
  <2>4. SpectrumFields \subseteq DOMAIN s /\ s.seq = spectrum.seq /\ s.device = d /\ s.target = None
    BY <2>2, <2>3 DEF SpectrumFields
  <2>5. spectrum' = s /\ UNCHANGED <<frames, fasks>>
    BY <1>5, <2>1, <2>2 DEF SP!SwitchChart
  <2> QED BY <1>3, <2>4, <2>5
<1>6. ASSUME NEW at, SP!UpdateLayout(at) PROVE SpectrumInv'
  BY <1>0, <1>6 DEF SpectrumInv, SP!UpdateLayout
<1>7. ASSUME NEW a \in fasks, SP!FrameAnswered(a) PROVE SpectrumInv'
  <2>1. fasks' = fasks \ {a}
    BY <1>7 DEF SP!FrameAnswered
  <2>2. CASE UNCHANGED <<spectrum, frames>>
    BY <1>0, <2>1, <2>2 DEF SpectrumInv, AskedFor
  <2>3. ASSUME NEW points, spectrum' = [spectrum EXCEPT !.points = points, !.loading = FALSE], a.id = spectrum.seq,
               FrameOfKey(points, <<a.device, a.at>>), FramesKept(frames')
        PROVE  SpectrumInv'
    <3>1. SpectrumFields \subseteq DOMAIN spectrum' /\ spectrum'.seq = spectrum.seq /\ spectrum'.device = spectrum.device
          /\ spectrum'.target = spectrum.target /\ spectrum'.points = points
      BY <1>0, <2>3 DEF SpectrumTold, SpectrumFields
    <3>2. AskedFor(spectrum', fasks')
      BY <1>0, <2>1, <3>1 DEF AskedFor
    <3>3. spectrum.target # None => a.device = spectrum.device /\ a.at = spectrum.target
      BY <1>0, <1>7, <2>3 DEF AskedFor
    <3>4. SpectrumTold(spectrum')
      BY <1>0, <2>3, <3>1, <3>3 DEF SpectrumTold
    <3> QED BY <2>3, <3>2, <3>4 DEF SpectrumInv
  <2>4. CASE a.id = spectrum.seq /\ spectrum' = [spectrum EXCEPT !.points = SP!Empty, !.loading = FALSE] /\ UNCHANGED frames
    <3>1. FrameOfKey(SP!Empty, <<a.device, a.at>>)
      BY DEF FrameOfKey
    <3> QED BY <1>0, <2>3, <2>4, <3>1
  <2>5. ASSUME NEW points, points = SP!ParseSpectrumFramePayload(a.device, a.at), a.id = spectrum.seq,
               spectrum' = [spectrum EXCEPT !.points = points, !.loading = FALSE], frames' = SP!Remember(<<a.device, a.at>>, points)
        PROVE  SpectrumInv'
    <3>1. FrameOfKey(points, <<a.device, a.at>>)
      BY <1>0, <1>7, <2>5, ParsedIsOfKey DEF AskedFor
    <3>2. FramesKept(frames')
      BY <1>0, <2>5, <3>1, RememberKeeps
    <3> QED BY <2>3, <2>5, <3>1, <3>2
  <2> QED BY <1>7, <2>2, <2>4, <2>5 DEF SP!FrameAnswered, SP!IsLatest
<1> QED BY <1>1, <1>2, <1>4, <1>5, <1>6, <1>7 DEF SP!SpectrumNext

-----------------------------------------------------------------------------
(* How the dialog shares out its body.                                          *)

LayoutInv == body.at \in Bodies /\ body.layout = SP!GetChartModalLayout(body.at)

LEMMA LayoutStarts == SP!SpectrumInit => LayoutInv
BY DEF SP!SpectrumInit, LayoutInv

LEMMA LayoutSteps == LayoutInv /\ SP!SpectrumNext => LayoutInv'
<1> SUFFICES ASSUME LayoutInv, SP!SpectrumNext PROVE LayoutInv'
    OBVIOUS
<1>1. CASE UNCHANGED body
  BY <1>1 DEF LayoutInv
<1>2. ASSUME NEW at \in Bodies, SP!UpdateLayout(at) PROVE LayoutInv'
  BY <1>2 DEF SP!UpdateLayout, LayoutInv
<1> QED BY <1>1, <1>2 DEF SP!SpectrumNext, SP!HandleTelemetryChartHover, SP!HandleTelemetryChartPin, SP!HandleTelemetryChartLeave,
                         SP!HandleTelemetryChartUnpin, SP!SwitchChart, SP!FrameAnswered

LEMMA Greater == ASSUME NEW a \in Int, NEW b \in Int PROVE SP!Max({a, b}) = IF a >= b THEN a ELSE b
BY DEF SP!Max

LEMMA FixedIsNumber ==
  ASSUME NEW at, at.height \in Nat, at.width \in Nat, at.wallboard \in BOOLEAN
  PROVE  SP!FixedContentHeight(at) \in Int
<1>1. SP!Rows(at).top \in {2, 4} /\ SP!Rows(at).fft \in {1, 2, 3}
  BY DEF SP!Rows
<1>2. PICK title \in Int : title = SP!Size(at, 10, <<1, 2, 2, 2, 3>>)
  BY DEF SP!Size, SP!HeightClass
<1>3. PICK section \in Int : section = SP!Size(at, 20, <<3, 4, 4, 4, 6>>)
  BY DEF SP!Size, SP!HeightClass
<1>4. PICK grid \in Int : grid = SP!Size(at, 18, <<4, 5, 5, 5, 5>>)
  BY DEF SP!Size, SP!HeightClass
<1>5. PICK base \in Int : base = SP!Size(at, 46, [c \in 1 .. 5 |-> 18])
  BY DEF SP!Size, SP!HeightClass
<1>6. PICK chart \in Int : chart = SP!Size(at, 32, <<5, 6, 6, 6, 9>>)
  BY DEF SP!Size, SP!HeightClass
<1>7. PICK head \in Int : head = SP!Size(at, 52, [c \in 1 .. 5 |-> 22])
  BY DEF SP!Size, SP!HeightClass
<1>8. PICK gap \in Int : gap = SP!Size(at, 12, <<2, 3, 3, 3, 3>>)
  BY DEF SP!Size, SP!HeightClass
<1>9. PICK card \in Int : card = SP!Size(at, 48, [c \in 1 .. 5 |-> 22])
  BY DEF SP!Size, SP!HeightClass
<1>10. PICK inner \in Int : inner = SP!Size(at, 32, <<6, 7, 7, 7, 9>>)
  BY DEF SP!Size, SP!HeightClass
<1>11. PICK foot \in Int : foot = SP!Size(at, 24, <<5, 6, 6, 6, 6>>)
  BY DEF SP!Size, SP!HeightClass
<1>12. PICK low \in Int : low = SP!Size(at, 34, <<8, 9, 9, 9, 11>>)
  BY DEF SP!Size, SP!HeightClass
<1>13. PICK pad \in Int : pad = SP!Size(at, 32, <<5, 6, 6, 6, 10>>)
  BY DEF SP!Size, SP!HeightClass
<1>14. PICK n : n = SP!Rows(at)
  OBVIOUS
<1>15. SP!FixedContentHeight(at) =
          pad + n.top * (base + title + chart + 2) + (n.top - 1) * grid + section + (head + gap) + n.fft * (card + inner + foot + 2)
            + (n.fft - 1) * grid + section + (card + title + low + 2)
  BY <1>2, <1>3, <1>4, <1>5, <1>6, <1>7, <1>8, <1>9, <1>10, <1>11, <1>12, <1>13, <1>14 DEF SP!FixedContentHeight
<1> QED BY <1>1, <1>14, <1>15

LEMMA SharesFit ==
  ASSUME NEW x \in Nat, NEW n \in {1, 2}
  PROVE  LET p == SP!Share(x * 58, 100 * 2)  q == SP!Share(x * 42, 100 * n)
         IN  p \in Nat /\ q \in Nat /\ 2 * p + n * q <= x
<1>1. CASE n = 1
  BY <1>1 DEF SP!Share
<1>2. CASE n = 2
  BY <1>2 DEF SP!Share
<1> QED BY <1>1, <1>2

LEMMA LayoutIsShared ==
  ASSUME NEW at, at.height \in Nat, at.width \in Nat, at.wallboard \in BOOLEAN, NEW l, l = SP!GetChartModalLayout(at), ~l.scrolls
  PROVE  l.used = at.height /\ \A part \in {"chart", "spectrum", "overview"} : l.parts[part] >= SP!Least(at)[part]
<1>1. PICK F \in Int : F = SP!FixedContentHeight(at)
  BY FixedIsNumber
<1>2. PICK n, least : n = SP!Rows(at) /\ least = SP!Least(at)
  OBVIOUS
<1>3. least.chart \in Nat \ {0} /\ least.spectrum \in Nat \ {0} /\ least.overview \in Nat \ {0} /\ n.top \in {2, 4} /\ n.fft \in {1, 2, 3}
  BY <1>2 DEF SP!Least, SP!Rows
<1>4. PICK room \in Nat : room = SP!Max({0, at.height - F}) /\ room = IF at.height - F <= 0 THEN 0 ELSE at.height - F
  BY Greater
<1>5. PICK needed \in Nat : needed = n.top * least.chart + n.fft * least.spectrum + least.overview /\ needed > 0
  BY <1>3
<1> DEFINE chart == least.chart + SP!Share((room - needed) * 58, 100 * n.top)
           bar == least.spectrum + SP!Share((room - needed) * 42, 100 * n.fft)
           scrolls == at.width < 900 \/ at.height < 640 \/ room < needed
           parts == IF scrolls THEN SP!Preferred(at) ELSE [chart |-> chart, spectrum |-> bar, overview |-> room - n.top * chart - n.fft * bar]
<1>6. l = [scrolls |-> scrolls, parts |-> parts, used |-> F + n.top * parts.chart + n.fft * parts.spectrum + parts.overview]
  BY <1>1, <1>2, <1>4, <1>5 DEF SP!GetChartModalLayout
<1>7. ~scrolls
  <2> HIDE DEF scrolls, parts
  <2> QED BY <1>6
<1>8. n.top = 2 /\ n.fft \in {1, 2} /\ room - needed \in Nat /\ room = at.height - F
  <2>1. at.width >= 900 /\ ~(room < needed)
    BY <1>7
  <2>2. n.top = 2 /\ n.fft \in {1, 2}
    BY <1>2, <2>1 DEF SP!Rows
  <2>3. room - needed \in Nat /\ room > 0
    BY <1>4, <1>5, <2>1
  <2> QED BY <1>4, <2>2, <2>3
<1>9. PICK x \in Nat : x = room - needed
  BY <1>8
<1>10. PICK p \in Nat, q \in Nat : p = SP!Share(x * 58, 100 * 2) /\ q = SP!Share(x * 42, 100 * n.fft) /\ 2 * p + n.fft * q <= x
  BY <1>8, SharesFit
<1>11. chart = least.chart + p /\ bar = least.spectrum + q
  BY <1>8, <1>9, <1>10
<1> HIDE DEF chart, bar, scrolls
<1>12. PICK c, s \in Nat : c = least.chart + p /\ s = least.spectrum + q /\ c = chart /\ s = bar
  BY <1>3, <1>11
<1>13. PICK o \in Int : o = room - n.top * chart - n.fft * bar
  BY <1>8, <1>12
<1>14. parts = [chart |-> c, spectrum |-> s, overview |-> o]
  BY <1>7, <1>12, <1>13
<1>15. l.parts.chart = c /\ l.parts.spectrum = s /\ l.parts.overview = o /\ l.used = F + n.top * c + n.fft * s + o
  <2> HIDE DEF parts
  <2>1. parts.chart = c /\ parts.spectrum = s /\ parts.overview = o
    BY <1>14
  <2> QED BY <1>6, <2>1
<1>16. o = room - 2 * c - n.fft * s
  BY <1>8, <1>12, <1>13
<1>17. l.used = at.height
  <2>1. PICK w \in Int : w = n.fft * s
    BY <1>8, <1>12
  <2>2. l.used = F + 2 * c + w + o /\ o = room - 2 * c - w
    BY <1>8, <1>15, <1>16, <2>1
  <2> QED BY <1>1, <1>8, <1>12, <2>2
<1>18. needed = 2 * least.chart + n.fft * least.spectrum + least.overview
  BY <1>5, <1>8
<1>19. o >= least.overview
  <2>1. CASE n.fft = 1
    BY <1>3, <1>9, <1>10, <1>12, <1>16, <1>18, <2>1
  <2>2. CASE n.fft = 2
    BY <1>3, <1>9, <1>10, <1>12, <1>16, <1>18, <2>2
  <2> QED BY <1>8, <2>1, <2>2
<1>20. c >= least.chart /\ s >= least.spectrum
  BY <1>3, <1>10, <1>12
<1> QED BY <1>2, <1>15, <1>17, <1>19, <1>20

-----------------------------------------------------------------------------
(* The bars of a spectrum: each stands for a chunk of the frame, and has the    *)
(* highest amplitude of it.                                                     *)

LEMMA LeastOfNaturals == ASSUME NEW T, T \subseteq Nat, T # {} PROVE \E m \in T : \A k \in T : m <= k
<1>1. IsWellFoundedOn(OpToRel(<, Nat), Nat)
  BY NatLessThanWellFounded
<1>2. PICK m \in T : \A k \in T : ~(<<k, m>> \in OpToRel(<, Nat))
  BY <1>1, WFMin
<1>3. \A k \in T : ~(k < m)
  BY <1>2 DEF OpToRel
<1> QED BY <1>3

LEMMA HighestExists ==
  ASSUME NEW n \in Nat \ {0}, NEW f, \A i \in 1 .. n : f[i] \in Int
  PROVE  \E i \in 1 .. n : \A j \in 1 .. n : f[j] <= f[i]
<1> DEFINE T == {k \in 1 .. n : ~ \E i \in 1 .. k : \A j \in 1 .. k : f[j] <= f[i]}
<1>1. CASE T # {}
  <2>1. PICK k \in T : \A m \in T : k <= m
    <3>1. T \subseteq Nat
      OBVIOUS
    <3> HIDE DEF T
    <3> QED BY <1>1, <3>1, LeastOfNaturals
  <2>2. k \in 1 .. n /\ ~ \E i \in 1 .. k : \A j \in 1 .. k : f[j] <= f[i]
    BY <2>1
  <2>3. k # 1
    BY <2>2
  <2>4. k - 1 \in 1 .. n /\ k - 1 \notin T
    <3>1. k \in 1 .. n /\ k - 1 \in 1 .. n
      BY <2>2, <2>3
    <3> HIDE DEF T
    <3> QED BY <2>1, <3>1
  <2>5. PICK i \in 1 .. k - 1 : \A j \in 1 .. k - 1 : f[j] <= f[i]
    BY <2>4
  <2>6. \A j \in 1 .. k : j = k \/ j \in 1 .. k - 1
    BY <2>2
  <2>7. CASE f[k] <= f[i]
    <3>1. i \in 1 .. k /\ \A j \in 1 .. k : f[j] <= f[i]
      BY <2>2, <2>5, <2>6, <2>7
    <3> QED BY <2>2, <3>1
  <2>8. CASE f[i] <= f[k]
    <3>1. f[i] \in Int /\ f[k] \in Int /\ \A j \in 1 .. k - 1 : f[j] \in Int
      BY <2>2, <2>5
    <3>2. k \in 1 .. k /\ \A j \in 1 .. k : f[j] <= f[k]
      BY <2>2, <2>5, <2>6, <2>8, <3>1
    <3> QED BY <2>2, <3>2
  <2> QED BY <2>2, <2>5, <2>7, <2>8
<1>2. CASE T = {}
  BY <1>2
<1> QED BY <1>1, <1>2

\* Where the highest amplitude is.
Highest(data, n, i) == i \in 1 .. n /\ \A j \in 1 .. n : data[j].amp <= data[i].amp

LEMMA PeakIsHighest ==
  ASSUME NEW n \in Nat \ {0}, NEW data, DOMAIN data = 1 .. n, \A i \in 1 .. n : data[i].amp \in Int
  PROVE  \E i \in 1 .. n : SP!FirstPeak(data) = data[i] /\ Highest(data, n, i)
<1>1. PICK f : f = [i \in 1 .. n |-> data[i].amp]
  OBVIOUS
<1>2. \A i \in 1 .. n : f[i] = data[i].amp /\ f[i] \in Int
  BY <1>1
<1>3. PICK h \in 1 .. n : \A j \in 1 .. n : f[j] <= f[h]
  BY <1>2, HighestExists
<1> DEFINE T == {i \in DOMAIN data : \A j \in DOMAIN data : data[j].amp <= data[i].amp}
<1>4. T \subseteq 1 .. n /\ h \in T
  BY <1>2, <1>3
<1>5. SP!FirstPeak(data) = data[SP!Min(T)]
  BY DEF SP!FirstPeak
<1>6. SP!Min(T) \in T
  <2> HIDE DEF T
  <2>1. T \subseteq Nat
    BY <1>4
  <2>2. PICK m \in T : \A k \in T : m <= k
    BY <1>4, <2>1, LeastOfNaturals
  <2> QED BY <2>2 DEF SP!Min
<1>8. Highest(data, n, SP!Min(T))
  BY <1>4, <1>6 DEF Highest
<1> QED BY <1>5, <1>8 DEF Highest

LEMMA Ceiling ==
  ASSUME NEW a \in Nat \ {0}, NEW b \in Nat \ {0}, NEW c, c = (a + b - 1) \div b
  PROVE  c \in Nat \ {0} /\ (c - 1) * b < a /\ a <= c * b
<1>1. c \in Int /\ b * c <= a + b - 1 /\ a + b - 1 < b * (c + 1)
  OBVIOUS
<1>2. PICK p \in Int : p = b * c
  BY <1>1
<1>3. b * (c + 1) = p + b /\ (c - 1) * b = p - b /\ c * b = p
  BY <1>1, <1>2
<1>4. c >= 1
  <2> SUFFICES ASSUME c <= 0 PROVE FALSE
      BY <1>1
  <2>1. b * c <= 0
    BY <1>1
  <2> QED BY <1>1, <1>2, <1>3, <2>1
<1> QED BY <1>1, <1>2, <1>3, <1>4

LEMMA TimesGrows == ASSUME NEW x \in Nat, NEW y \in Nat, NEW s \in Nat, x <= y PROVE x * s <= y * s /\ x * s \in Nat /\ y * s \in Nat
OBVIOUS

Samples(data, n) ==
  /\ n \in Nat \ {0} /\ DOMAIN data = 1 .. n /\ Len(data) = n
  /\ \E S : data \in Seq(S)
  /\ \A i \in 1 .. n : data[i].amp \in Int

LEMMA ChunkPeak ==
  ASSUME NEW data, NEW n, Samples(data, n), NEW lo \in Nat \ {0}, NEW hi \in Nat, lo <= hi, hi <= n
  PROVE  \E i \in lo .. hi : SP!FirstPeak(SubSeq(data, lo, hi)) = data[i] /\ \A j \in lo .. hi : data[j].amp <= data[i].amp
<1>1. PICK S : data \in Seq(S)
  BY DEF Samples
<1>2. PICK c, m : c = SubSeq(data, lo, hi) /\ m = hi - lo + 1
  OBVIOUS
<1>3. m \in Nat \ {0} /\ DOMAIN c = 1 .. m /\ \A i \in 1 .. m : c[i] = data[lo + i - 1]
  BY <1>1, <1>2 DEF Samples
<1>4. \A i \in 1 .. m : lo + i - 1 \in 1 .. n /\ lo + i - 1 \in lo .. hi
  BY <1>2 DEF Samples
<1>5. PICK i \in 1 .. m : SP!FirstPeak(c) = c[i] /\ Highest(c, m, i)
  BY <1>3, <1>4, PeakIsHighest DEF Samples
<1>6. ASSUME NEW j \in lo .. hi PROVE data[j].amp <= data[lo + i - 1].amp
  <2>1. j - lo + 1 \in 1 .. m /\ lo + (j - lo + 1) - 1 = j
    BY <1>2
  <2>2. c[j - lo + 1] = data[j]
    BY <1>3, <2>1
  <2> QED BY <1>3, <1>5, <2>1, <2>2 DEF Highest
<1> QED BY <1>2, <1>3, <1>4, <1>5, <1>6

\* A bar stands for each sample, and is one of them.
BarsOf(bars, data, n) ==
  \E m \in Nat \ {0} : /\ m <= Bars /\ Len(bars) = m /\ DOMAIN bars = 1 .. m
                       /\ \A k \in 1 .. m : \E i \in 1 .. n : bars[k] = data[i]
                       /\ \A i \in 1 .. n : \E k \in 1 .. m : data[i].amp <= bars[k].amp

LEMMA DownsampledStands ==
  ASSUME NEW data, NEW n, Samples(data, n), Bars \in Nat \ {0}
  PROVE  BarsOf(SP!DownsampleSpectrumChartData(data), data, n)
<1>1. CASE n <= Bars
  <2>1. SP!DownsampleSpectrumChartData(data) = data
    BY <1>1 DEF SP!DownsampleSpectrumChartData, Samples
  <2> QED BY <1>1, <2>1 DEF BarsOf, Samples
<1>2. CASE Bars < n
  <2>1. n \in Nat \ {0}
    BY DEF Samples
  <2>2. PICK size \in Nat \ {0} : size = (n + Bars - 1) \div Bars /\ n <= size * Bars
    BY <2>1, Ceiling
  <2>3. PICK m \in Nat \ {0} : m = (n + size - 1) \div size /\ (m - 1) * size < n /\ n <= m * size
    BY <2>1, <2>2, Ceiling
  <2>4. m <= Bars
    <3> SUFFICES ASSUME Bars <= m - 1 PROVE FALSE
        BY <2>3
    <3>1. Bars * size <= (m - 1) * size
      BY <2>2, <2>3, TimesGrows
    <3> QED BY <2>1, <2>2, <2>3, <3>1
  <2> DEFINE lo(k) == (k - 1) * size + 1
             hi(k) == SP!Min({n, k * size})
  <2>5. \A k \in 1 .. m : lo(k) \in Nat \ {0} /\ lo(k) <= n /\ k * size \in Nat /\ lo(k) <= k * size
    <3> TAKE k \in 1 .. m
    <3>1. (k - 1) * size <= (m - 1) * size /\ (k - 1) * size \in Nat /\ k * size \in Nat
      BY <2>2, <2>3, TimesGrows
    <3>2. k * size = (k - 1) * size + size
      BY <2>2, <2>3
    <3> QED BY <2>1, <2>2, <2>3, <3>1, <3>2
  <2>6. \A k \in 1 .. m : hi(k) = IF n <= k * size THEN n ELSE k * size
    BY <2>1, <2>5 DEF SP!Min
  <2>7. \A k \in 1 .. m : hi(k) \in Nat /\ lo(k) <= hi(k) /\ hi(k) <= n
    BY <2>1, <2>5, <2>6
  <2>8. PICK bars : DOMAIN bars = 1 .. m /\ Len(bars) = m /\ SP!DownsampleSpectrumChartData(data) = bars
                    /\ \A k \in 1 .. m : bars[k] = SP!FirstPeak(SubSeq(data, lo(k), hi(k)))
    <3> DEFINE sz == (Len(data) + Bars - 1) \div Bars
               count == (Len(data) + sz - 1) \div sz
               bars == [k \in 1 .. count |-> SP!FirstPeak(SubSeq(data, (k - 1) * sz + 1, SP!Min({Len(data), k * sz})))]
    <3>1. ~(Len(data) <= Bars)
      BY <1>2, <2>1 DEF Samples
    <3>2. SP!DownsampleSpectrumChartData(data) = bars
      BY <3>1 DEF SP!DownsampleSpectrumChartData
    <3>3. Len(data) = n /\ sz = size /\ count = m
      BY <2>2, <2>3 DEF Samples
    <3> HIDE DEF sz, count
    <3>4. DOMAIN bars = 1 .. count /\ \A k \in 1 .. count : bars[k] = SP!FirstPeak(SubSeq(data, (k - 1) * sz + 1, SP!Min({Len(data), k * sz})))
      OBVIOUS
    <3>5. Len(bars) = count
      BY <2>3, <3>3
    <3> HIDE DEF bars
    <3>6. \A k \in 1 .. m : bars[k] = SP!FirstPeak(SubSeq(data, lo(k), hi(k)))
      BY <3>3, <3>4
    <3> QED BY <3>2, <3>3, <3>4, <3>5, <3>6
  <2> HIDE DEF lo, hi
  <2>11. \A k \in 1 .. m : \E i \in lo(k) .. hi(k) : bars[k] = data[i] /\ \A j \in lo(k) .. hi(k) : data[j].amp <= data[i].amp
    <3> TAKE k \in 1 .. m
    <3>1. PICK p \in Nat \ {0}, q \in Nat : p = lo(k) /\ q = hi(k)
      BY <2>5, <2>7
    <3>2. p <= q /\ q <= n
      BY <2>7, <3>1
    <3>3. \E i \in p .. q : SP!FirstPeak(SubSeq(data, p, q)) = data[i] /\ \A j \in p .. q : data[j].amp <= data[i].amp
      BY <3>2, ChunkPeak
    <3> QED BY <2>8, <3>1, <3>3
  <2>12. \A k \in 1 .. m : \E i \in 1 .. n : bars[k] = data[i]
    BY <2>1, <2>5, <2>7, <2>11
  <2>13. ASSUME NEW i \in 1 .. n PROVE \E k \in 1 .. m : data[i].amp <= bars[k].amp
    <3>1. PICK k \in Nat : k = (i - 1) \div size + 1 /\ (k - 1) * size <= i - 1 /\ i - 1 < k * size
      <4>1. PICK q \in Nat : q = (i - 1) \div size /\ size * q <= i - 1 /\ i - 1 < size * (q + 1)
        BY <2>1, <2>2
      <4>2. q + 1 - 1 = q /\ size * q = q * size /\ size * (q + 1) = (q + 1) * size
        BY <2>2
      <4> QED BY <4>1, <4>2
    <3>2. k \in 1 .. m
      <4>1. k >= 1
        BY <2>1, <2>2, <3>1
      <4>2. CASE m <= k - 1
        <5>1. m * size <= (k - 1) * size
          BY <2>2, <2>3, <4>1, <4>2, TimesGrows
        <5>2. (k - 1) * size \in Nat /\ m * size \in Nat
          BY <2>2, <2>3, <4>1, TimesGrows
        <5> QED BY <2>1, <2>3, <3>1, <5>1, <5>2
      <4> QED BY <2>3, <3>1, <4>1, <4>2
    <3>3. i \in lo(k) .. hi(k)
      <4>1. (k - 1) * size \in Int /\ k * size \in Nat
        BY <2>5, <2>2, <3>1, <3>2
      <4> QED BY <2>1, <2>6, <3>1, <3>2, <4>1 DEF lo
    <3> QED BY <2>11, <3>2, <3>3
  <2>14. BarsOf(bars, data, n)
    BY <2>3, <2>4, <2>8, <2>12, <2>13 DEF BarsOf
  <2> QED BY <2>8, <2>14
<1> QED BY <1>1, <1>2 DEF Samples

LEMMA GreatestIsMax ==
  ASSUME NEW V, V \subseteq Int, NEW v \in V, \A y \in V : v >= y
  PROVE  SP!Max(V) = v
<1>1. PICK w : w = SP!Max(V)
  OBVIOUS
<1>2. w \in V /\ \A y \in V : w >= y
  BY <1>1 DEF SP!Max
<1> QED BY <1>1, <1>2

\* The samples of an axis.
AxisRead(frame, a, n) ==
  /\ frame.bins \in Int /\ frame.axes[a] \in Seq(Int) /\ frame.axes[a] # <<>>
  /\ n = IF frame.bins > 0 THEN SP!Min({frame.bins, Len(frame.axes[a])}) ELSE Len(frame.axes[a])
LEMMA SamplesOfAxis ==
  ASSUME NEW frame, NEW a, NEW n, AxisRead(frame, a, n), NEW s, s = frame.axes[a], NEW data, data = SP!ToSpectrumChartData(frame, a)
  PROVE  /\ Samples(data, n) /\ SP!BinsOf(frame, a) = 1 .. n /\ \A i \in 1 .. n : s[i] \in Int
         /\ \A i \in 1 .. n : data[i].amp = IF 0 >= s[i] THEN 0 ELSE s[i]
<1>1. PICK l \in Nat \ {0}, b \in Int : s \in Seq(Int) /\ l = Len(s) /\ DOMAIN s = 1 .. l /\ b = frame.bins /\ \A i \in 1 .. l : s[i] \in Int
  BY DEF AxisRead
<1>2. n = IF b > 0 THEN SP!Min({b, l}) ELSE l
  BY <1>1 DEF AxisRead
<1>3. n = IF b > 0 THEN IF b <= l THEN b ELSE l ELSE l
  BY <1>1, <1>2 DEF SP!Min
<1>4. n \in Nat \ {0} /\ n <= l
  BY <1>1, <1>3
<1>5. n = IF b > 0 THEN SP!Max({1, SP!Min({l, b})}) ELSE l
  <2>1. {l, b} = {b, l}
    OBVIOUS
  <2>2. PICK k \in Int : k = n
    BY <1>4
  <2>3. SP!Max({1, k}) = k
    BY <1>4, <2>2, Greater
  <2> QED BY <1>1, <1>2, <2>1, <2>2, <2>3
<1> DEFINE count == IF frame.bins > 0 THEN SP!Max({1, SP!Min({Len(frame.axes[a]), frame.bins})}) ELSE Len(frame.axes[a])
           points == [i \in 1 .. count |-> [freq |-> frame.hz * i, amp |-> SP!Max({0, frame.axes[a][i]})]]
<1>6. data = points
  BY DEF SP!ToSpectrumChartData
<1>7. count = n
  BY <1>1, <1>5
<1>8. DOMAIN points = 1 .. n /\ \A i \in 1 .. n : points[i].amp = SP!Max({0, s[i]})
  <2> HIDE DEF count
  <2> QED BY <1>7
<1> HIDE DEF points
<1>9. \A i \in 1 .. n : data[i].amp = (IF 0 >= s[i] THEN 0 ELSE s[i]) /\ s[i] \in Int
  <2> TAKE i \in 1 .. n
  <2>1. PICK v \in Int : v = s[i]
    BY <1>1, <1>4
  <2>2. SP!Max({0, v}) = IF 0 >= v THEN 0 ELSE v
    BY Greater
  <2> QED BY <1>6, <1>8, <2>1, <2>2
<1>10. \E S : data \in Seq(S) /\ Len(data) = n
  <2> USE DEF points
  <2>1. PICK R : R = {points[i] : i \in 1 .. count}
    OBVIOUS
  <2> HIDE DEF count
  <2>2. points \in Seq(R) /\ Len(points) = count
    <3>1. points \in [1 .. count -> R]
      BY <2>1
    <3>2. count \in Nat
      BY <1>4, <1>7
    <3> HIDE DEF points
    <3> QED BY <3>1, <3>2
  <2> HIDE DEF points
  <2> QED BY <1>6, <1>7, <2>2
<1>11. Samples(data, n)
  BY <1>4, <1>6, <1>8, <1>9, <1>10 DEF Samples
<1>12. SP!BinsOf(frame, a) = 1 .. n
  BY <1>1, <1>2 DEF SP!BinsOf
<1> QED BY <1>9, <1>11, <1>12

\* The highest sample, the highest bar and the greatest amplitude are one number.
LEMMA AxisIsDrawn ==
  ASSUME NEW frame, NEW a, NEW n, AxisRead(frame, a, n), Bars \in Nat \ {0}, NEW data, data = SP!ToSpectrumChartData(frame, a),
         NEW bars, bars = SP!DownsampleSpectrumChartData(data)
  PROVE  /\ Len(bars) <= Bars /\ SP!FirstPeak(bars).amp = SP!PeakOf(frame, a) /\ SP!FirstPeak(data).amp = SP!PeakOf(frame, a)
         /\ SP!PeakOf(frame, a) \in Nat
<1>1. PICK s : s = frame.axes[a]
  OBVIOUS
<1>2. Samples(data, n) /\ SP!BinsOf(frame, a) = 1 .. n /\ (\A i \in 1 .. n : s[i] \in Int)
      /\ \A i \in 1 .. n : data[i].amp = IF 0 >= s[i] THEN 0 ELSE s[i]
  BY <1>1, SamplesOfAxis
<1>3. BarsOf(bars, data, n)
  BY <1>2, DownsampledStands
<1>4. PICK h \in 1 .. n : SP!FirstPeak(data) = data[h] /\ Highest(data, n, h)
  BY <1>2, PeakIsHighest DEF Samples
<1>5. PICK m \in Nat \ {0} :
        /\ m <= Bars /\ Len(bars) = m /\ DOMAIN bars = 1 .. m
        /\ \A k \in 1 .. m : \E i \in 1 .. n : bars[k] = data[i]
        /\ \A i \in 1 .. n : \E k \in 1 .. m : data[i].amp <= bars[k].amp
  BY <1>3 DEF BarsOf
<1>6. PICK g \in 1 .. m : SP!FirstPeak(bars) = bars[g] /\ Highest(bars, m, g)
  <2>1. \A k \in 1 .. m : bars[k].amp \in Int
    <3> TAKE k \in 1 .. m
    <3>1. PICK i \in 1 .. n : bars[k] = data[i]
      BY <1>5
    <3> QED BY <1>2, <3>1 DEF Samples
  <2> QED BY <1>5, <2>1, PeakIsHighest
<1>7. bars[g].amp = data[h].amp
  <2>1. PICK i \in 1 .. n : bars[g] = data[i]
    BY <1>5
  <2>2. bars[g].amp <= data[h].amp
    BY <1>4, <2>1 DEF Highest
  <2>3. PICK k \in 1 .. m : data[h].amp <= bars[k].amp
    BY <1>5
  <2>4. bars[k].amp <= bars[g].amp
    BY <1>6 DEF Highest
  <2>5. bars[k].amp \in Int /\ bars[g].amp \in Int /\ data[h].amp \in Int
    <3>1. PICK j \in 1 .. n : bars[k] = data[j]
      BY <1>5
    <3> QED BY <1>2, <2>1, <3>1 DEF Samples
  <2> QED BY <2>2, <2>3, <2>4, <2>5
<1> DEFINE V == {0} \cup {frame.axes[a][i] : i \in SP!BinsOf(frame, a)}
<1>8. PICK v \in Nat : v = data[h].amp /\ (v = 0 \/ v = s[h])
  BY <1>2
<1>9. \A i \in 1 .. n : s[i] <= v
  <2> TAKE i \in 1 .. n
  <2>1. data[i].amp <= v
    BY <1>4, <1>8 DEF Highest
  <2>2. PICK x \in Int : x = s[i]
    BY <1>2
  <2>3. data[i].amp = IF 0 >= x THEN 0 ELSE x
    BY <1>2, <2>2
  <2> QED BY <1>8, <2>1, <2>2, <2>3
<1>10. V \subseteq Int /\ v \in V /\ \A y \in V : v >= y
  <2>1. \A y \in V : y = 0 \/ \E i \in 1 .. n : y = s[i]
    BY <1>1, <1>2
  <2>2. v \in V
    BY <1>1, <1>2, <1>8
  <2> HIDE DEF V
  <2> QED BY <1>2, <1>8, <1>9, <2>1, <2>2
<1>11. SP!PeakOf(frame, a) = SP!Max(V)
  BY DEF SP!PeakOf
<1>12. SP!Max(V) = v
  <2> HIDE DEF V
  <2> QED BY <1>10, GreatestIsMax
<1> HIDE DEF V
<1> QED BY <1>4, <1>5, <1>6, <1>7, <1>8, <1>11, <1>12

LEMMA AxisHasRoom ==
  ASSUME NEW frame, NEW x \in Nat, NEW y \in Nat, NEW z \in Nat, x = SP!FirstPeak(SP!ToSpectrumChartData(frame, "x")).amp,
         y = SP!FirstPeak(SP!ToSpectrumChartData(frame, "y")).amp, z = SP!FirstPeak(SP!ToSpectrumChartData(frame, "z")).amp
  PROVE  LET top == SP!SpectrumAutoYAxisMax(frame) IN x < top /\ y < top /\ z < top
<1>1. {SP!FirstPeak(SP!ToSpectrumChartData(frame, a)).amp : a \in SP!Directions} = {x, y, z}
  BY DEF SP!Directions
<1>2. PICK m \in {x, y, z} : x <= m /\ y <= m /\ z <= m
  OBVIOUS
<1>3. SP!Max({x, y, z}) = m
  BY <1>2 DEF SP!Max
<1>4. SP!SpectrumAutoYAxisMax(frame) = (m * 118) \div 100 + 1
  BY <1>1, <1>3 DEF SP!SpectrumAutoYAxisMax
<1>5. m \in Nat /\ m < (m * 118) \div 100 + 1
  BY <1>2
<1>6. (m * 118) \div 100 \in Int
  BY <1>5
<1> QED BY <1>2, <1>4, <1>5, <1>6

LEMMA FrameIsDrawn ==
  ASSUME NEW frame, frame.bins \in Int, frame.axes \in [SP!Directions -> Seq(Int)], \A a \in SP!Directions : frame.axes[a] # <<>>
  PROVE  SP!PeaksDrawn(frame)
<1>1. Bars \in Nat \ {0}
  BY SpectrumAssumption
<1>2. ASSUME NEW a \in SP!Directions, NEW data, data = SP!ToSpectrumChartData(frame, a)
      PROVE  /\ Len(SP!DownsampleSpectrumChartData(data)) <= Bars
             /\ SP!FirstPeak(SP!DownsampleSpectrumChartData(data)).amp = SP!PeakOf(frame, a)
             /\ SP!FirstPeak(data).amp = SP!PeakOf(frame, a) /\ SP!PeakOf(frame, a) \in Nat
  <2>1. PICK n : n = IF frame.bins > 0 THEN SP!Min({frame.bins, Len(frame.axes[a])}) ELSE Len(frame.axes[a])
    OBVIOUS
  <2>2. AxisRead(frame, a, n)
    BY <2>1 DEF AxisRead
  <2> QED BY <1>1, <1>2, <2>2, AxisIsDrawn
<1>3. \A a \in SP!Directions : SP!PeakOf(frame, a) < SP!SpectrumAutoYAxisMax(frame)
  <2>1. "x" \in SP!Directions /\ "y" \in SP!Directions /\ "z" \in SP!Directions /\ \A a \in SP!Directions : a \in {"x", "y", "z"}
    BY DEF SP!Directions
  <2>2. PICK x \in Nat, y \in Nat, z \in Nat : x = SP!PeakOf(frame, "x") /\ y = SP!PeakOf(frame, "y") /\ z = SP!PeakOf(frame, "z")
    BY <1>2, <2>1
  <2>3. x < SP!SpectrumAutoYAxisMax(frame) /\ y < SP!SpectrumAutoYAxisMax(frame) /\ z < SP!SpectrumAutoYAxisMax(frame)
    BY <1>2, <2>1, <2>2, AxisHasRoom
  <2> QED BY <2>1, <2>2, <2>3
<1> QED BY <1>2, <1>3 DEF SP!PeaksDrawn

LEMMA SpectrumTells == SpectrumInv /\ LayoutInv => SP!SpectrumIsOfTarget /\ SP!LayoutFits
<1> SUFFICES ASSUME SpectrumInv, LayoutInv PROVE SP!SpectrumIsOfTarget /\ SP!LayoutFits
    OBVIOUS
<1>1. SP!Shown => FrameOfKey(spectrum.points, <<spectrum.device, spectrum.target>>) /\ spectrum.points # SP!Empty
  BY DEF SpectrumInv, SpectrumTold, SP!Shown
<1>2. SP!FrameIsOfTarget
  <2> SUFFICES ASSUME SP!Shown PROVE spectrum.points.of = <<spectrum.device, spectrum.target>>
      BY DEF SP!FrameIsOfTarget
  <2>1. PICK key : key = <<spectrum.device, spectrum.target>>
    OBVIOUS
  <2>2. spectrum.points = [of |-> key, frame |-> FrameOf[key[1]][key[2]]]
    BY <1>1, <2>1 DEF FrameOfKey
  <2> QED BY <2>1, <2>2
<1>3. SP!PeaksAreDrawn
  <2> SUFFICES ASSUME SP!Shown PROVE SP!PeaksDrawn(spectrum.points.frame)
      BY DEF SP!PeaksAreDrawn
  <2>1. PICK frame : frame = spectrum.points.frame
    OBVIOUS
  <2>2. PICK key : key = <<spectrum.device, spectrum.target>>
    OBVIOUS
  <2>3. key[1] \in Charts /\ key[2] \in DOMAIN FrameOf[key[1]] /\ spectrum.points = [of |-> key, frame |-> FrameOf[key[1]][key[2]]]
        /\ \A a \in SP!Directions : frame.axes[a] # <<>>
    BY <1>1, <2>1, <2>2 DEF FrameOfKey
  <2>4. frame = FrameOf[key[1]][key[2]]
    BY <2>1, <2>3
  <2>5. frame.bins \in Int /\ frame.axes \in [SP!Directions -> Seq(Int)]
    BY <2>3, <2>4, SpectrumAssumption
  <2> QED BY <2>1, <2>3, <2>5, FrameIsDrawn
<1>4. SP!LayoutFits
  <2>1. PICK at, l : at = body.at /\ l = body.layout
    OBVIOUS
  <2>2. at.height \in Nat /\ at.width \in Nat /\ at.wallboard \in BOOLEAN /\ l = SP!GetChartModalLayout(at)
    BY <2>1, SpectrumAssumption DEF LayoutInv
  <2>3. ~l.scrolls => l.used = at.height /\ \A part \in {"chart", "spectrum", "overview"} : l.parts[part] >= SP!Least(at)[part]
    BY <2>2, LayoutIsShared
  <2> QED BY <2>1, <2>3 DEF SP!LayoutFits
<1> QED BY <1>2, <1>3, <1>4 DEF SP!SpectrumIsOfTarget

\* What is shown for the row pointed at is its own frame, drawn with the peaks it
\* has, whatever answers come in whatever order; and a body that does not scroll
\* is shared out to the last pixel.
THEOREM SpectrumAlwaysOfTarget == PagesSpec => []SpectrumIsOfTarget
<1>1. PagesInit => SpectrumInv /\ LayoutInv
  BY SpectrumStarts, LayoutStarts DEF PagesInit
<1>2. SpectrumInv /\ LayoutInv /\ [PagesNext]_pageVars => (SpectrumInv /\ LayoutInv)'
  <2> SUFFICES ASSUME SpectrumInv, LayoutInv, [PagesNext]_pageVars PROVE (SpectrumInv /\ LayoutInv)'
      OBVIOUS
  <2>1. CASE UNCHANGED SpectrumVars
    BY <2>1 DEF SpectrumVars, SpectrumInv, LayoutInv
  <2>2. UNCHANGED SpectrumVars \/ SP!SpectrumNext
    BY DEF PagesNext, Others, pageVars
  <2> QED BY <2>1, <2>2, SpectrumSteps, LayoutSteps
<1>3. SpectrumInv /\ LayoutInv => SpectrumIsOfTarget
  BY SpectrumTells DEF SpectrumIsOfTarget
<1> QED BY <1>1, <1>2, <1>3, PTL DEF PagesSpec, pageVars
-----------------------------------------------------------------------------
(* The thresholds suggested: what stands at the k-th place of a sequence is    *)
(* one of its samples, so a bin is popular and the suggestion is above it.     *)

LEMMA SameCount == \A S : TA!Cardinality(S) = Cardinality(S)
BY DEF TA!Cardinality, Cardinality

\* Where a sequence is at most x, and below it.
AtMost(s, x) == {i \in DOMAIN s : s[i] <= x}
Below(s, x) == {i \in DOMAIN s : s[i] < x}

LEMMA CountedPlaces ==
  ASSUME NEW n \in Nat, NEW s, DOMAIN s = 1 .. n, NEW x
  PROVE  /\ IsFiniteSet(AtMost(s, x)) /\ Cardinality(AtMost(s, x)) \in Nat
         /\ IsFiniteSet(Below(s, x)) /\ Cardinality(Below(s, x)) \in Nat
<1>1. IsFiniteSet(1 .. n)
  BY FS_Interval
<1>2. AtMost(s, x) \subseteq 1 .. n /\ Below(s, x) \subseteq 1 .. n
  BY DEF AtMost, Below
<1>3. IsFiniteSet(AtMost(s, x)) /\ IsFiniteSet(Below(s, x))
  BY <1>1, <1>2, FS_Subset
<1> QED BY <1>3, FS_CardinalityType

\* The place of a sorted sequence of numbers has a number.
LEMMA RankedIsNumber ==
  ASSUME NEW n \in Nat \ {0}, NEW s, DOMAIN s = 1 .. n, \A i \in 1 .. n : s[i] \in Nat, NEW k \in 1 .. n
  PROVE  TA!Ranked(s, k) \in Nat
<1> DEFINE T == {x \in {s[i] : i \in DOMAIN s} : k <= Cardinality(AtMost(s, x))}
<1>1. T \subseteq Nat
  OBVIOUS
<1>2. T # {}
  <2>1. PICK h \in 1 .. n : \A j \in 1 .. n : s[j] <= s[h]
    <3>1. \A i \in 1 .. n : s[i] \in Int
      OBVIOUS
    <3> QED BY <3>1, HighestExists
  <2>2. AtMost(s, s[h]) = 1 .. n
    BY <2>1 DEF AtMost
  <2>3. Cardinality(1 .. n) = n
    BY FS_Interval
  <2>4. s[h] \in T
    BY <2>2, <2>3
  <2> QED BY <2>4
<1>3. \A x : x \in T <=> (\E i \in 1 .. n : x = s[i]) /\ k <= Cardinality(AtMost(s, x))
  OBVIOUS
<1> HIDE DEF T
<1>4. PICK m \in T : \A x \in T : m <= x
  BY <1>1, <1>2, LeastOfNaturals
<1>5. m \in Nat
  BY <1>1, <1>4
<1>6. Cardinality(Below(s, m)) < k
  <2>1. PICK c \in Nat : c = Cardinality(Below(s, m))
    BY CountedPlaces
  <2> SUFFICES ASSUME k <= c PROVE FALSE
      BY <2>1
  <2>2. Below(s, m) # {}
    <3>1. Below(s, m) = {} => c = 0
      BY <2>1, FS_EmptySet
    <3> QED BY <3>1
  <2>3. PICK g : g = [i \in 1 .. n |-> IF s[i] < m THEN s[i] ELSE -1]
    OBVIOUS
  <2>4. \A i \in 1 .. n : g[i] \in Int
    BY <2>3
  <2>5. PICK h \in 1 .. n : \A j \in 1 .. n : g[j] <= g[h]
    BY <2>4, HighestExists
  <2>6. PICK b \in 1 .. n : s[b] < m
    BY <2>2 DEF Below
  <2>7. s[h] < m
    <3>1. g[b] = s[b] /\ g[b] <= g[h] /\ g[h] = IF s[h] < m THEN s[h] ELSE -1
      BY <2>3, <2>5, <2>6
    <3> QED BY <3>1
  <2>8. Below(s, m) \subseteq AtMost(s, s[h])
    <3> SUFFICES ASSUME NEW i \in 1 .. n, s[i] < m PROVE s[i] <= s[h]
        BY DEF Below, AtMost
    <3>1. g[i] = s[i] /\ g[h] = s[h] /\ g[i] <= g[h]
      BY <2>3, <2>5, <2>7
    <3> QED BY <3>1
  <2>9. PICK d \in Nat : d = Cardinality(AtMost(s, s[h])) /\ IsFiniteSet(AtMost(s, s[h]))
    BY CountedPlaces
  <2>10. c <= d
    BY <2>1, <2>8, <2>9, FS_Subset
  <2>11. s[h] \in T
    BY <1>3, <2>9, <2>10
  <2> QED BY <1>4, <1>5, <2>7, <2>11
<1>7. m \in {s[i] : i \in DOMAIN s} /\ TA!Cardinality({i \in DOMAIN s : s[i] < m}) < k /\ k <= TA!Cardinality({i \in DOMAIN s : s[i] <= m})
  BY <1>3, <1>4, <1>6, SameCount DEF Below, AtMost
<1>8. TA!Ranked(s, k) \in {s[i] : i \in DOMAIN s}
  BY <1>7 DEF TA!Ranked
<1> QED BY <1>8

\* How many of f lie in a bin.
InBin(f, b) == {i \in DOMAIN f : TA!BinOf(f[i]) = b}

LEMMA PopularIsBin ==
  ASSUME SamplesAssumption, NEW n \in Nat \ {0}, NEW f, DOMAIN f = 1 .. n, \A i \in 1 .. n : f[i] \in Nat
  PROVE  TA!PopularBin(f) \in Nat
<1>1. \A i \in 1 .. n : TA!BinOf(f[i]) \in Nat
  BY SamplesAssumption DEF TA!BinOf
<1>2. \A b : Cardinality(InBin(f, b)) \in Nat
  <2> SUFFICES ASSUME NEW b PROVE Cardinality(InBin(f, b)) \in Nat
      OBVIOUS
  <2>1. InBin(f, b) \subseteq 1 .. n
    BY DEF InBin
  <2>2. IsFiniteSet(1 .. n)
    BY FS_Interval
  <2>3. IsFiniteSet(InBin(f, b))
    BY <2>1, <2>2, FS_Subset
  <2> QED BY <2>3, FS_CardinalityType
<1>3. PICK g : g = [i \in 1 .. n |-> Cardinality(InBin(f, TA!BinOf(f[i])))]
  OBVIOUS
<1>4. \A i \in 1 .. n : g[i] = Cardinality(InBin(f, TA!BinOf(f[i]))) /\ g[i] \in Int
  BY <1>2, <1>3
<1>5. PICK h \in 1 .. n : \A j \in 1 .. n : g[j] <= g[h]
  BY <1>4, HighestExists
<1> DEFINE bins == {TA!BinOf(f[i]) : i \in DOMAIN f}
           count(b) == TA!Cardinality({i \in DOMAIN f : TA!BinOf(f[i]) = b})
           best == {b \in bins : \A c \in bins : count(c) =< count(b)}
<1>6. TA!PopularBin(f) = TA!Min(best)
  BY DEF TA!PopularBin
<1>7. \A b : count(b) = Cardinality(InBin(f, b))
  BY SameCount DEF InBin
<1> HIDE DEF count
<1>8. TA!BinOf(f[h]) \in best
  BY <1>4, <1>5, <1>7
<1>9. best \subseteq Nat
  BY <1>1
<1> HIDE DEF best
<1>10. PICK m \in best : \A k \in best : m <= k
  BY <1>8, <1>9, LeastOfNaturals
<1>11. TA!Min(best) \in best
  BY <1>10 DEF TA!Min
<1> QED BY <1>6, <1>9, <1>11

LEMMA SuggestedIsAbove == ASSUME NEW b \in Nat PROVE TA!SuggestedBin(b) >= b + 1
<1> DEFINE e == ((2 * b + 1) * 11 + 19) \div 20
<1>1. e \in Int /\ e >= b + 1
  OBVIOUS
<1> HIDE DEF e
<1>2. TA!Max({1, e}) \in {1, e} /\ TA!Max({1, e}) >= e
  <2>1. \E x \in {1, e} : \A y \in {1, e} : x >= y
    BY <1>1
  <2> QED BY <2>1 DEF TA!Max
<1> QED BY <1>1, <1>2 DEF TA!SuggestedBin, e

LEMMA SliceOfNaturals ==
  ASSUME NEW s \in Seq(Nat), NEW a \in 1 .. Len(s), NEW i \in a .. Len(s), NEW w, w = SubSeq(s, a, i)
  PROVE  Len(w) = i - a + 1 /\ w \in Seq(Nat)
<1>1. w \in Seq(Nat)
  BY SubSeqProperties
<1>2. Len(w) = i - a + 1
  BY SubSeqProperties
<1> QED BY <1>1, <1>2

\* No suggestion lies below the band the machine is usually in.
LEMMA SuggestionIsAbove == ASSUME SamplesAssumption PROVE SuggestionsAreSane
<1> SUFFICES ASSUME NEW s \in SampleRuns, s # <<>>
             PROVE  TA!SuggestedBin(TA!PopularBin(TA!Filtered(s))) >= TA!PopularBin(TA!Filtered(s)) + 1
    BY DEF SuggestionsAreSane, TA!AboveUsual, TA!AnalyzeThresholdSamples
<1>1. s \in Seq(Nat)
  BY SamplesAssumption
<1>2. PICK n : n = Len(s)
  OBVIOUS
<1>3. n \in Nat \ {0} /\ DOMAIN s = 1 .. n
  BY <1>1, <1>2
<1>4. PICK f : f = TA!Filtered(s)
  OBVIOUS
<1>5. DOMAIN f = 1 .. n
  BY <1>3, <1>4 DEF TA!Filtered
<1>6. ASSUME NEW i \in 1 .. n PROVE f[i] \in Nat
  <2>1. TA!Max({1, i - 2}) \in {1, i - 2} /\ TA!Max({1, i - 2}) >= 1 /\ TA!Max({1, i - 2}) >= i - 2
    <3>1. \E x \in {1, i - 2} : \A y \in {1, i - 2} : x >= y
      BY <1>3
    <3> QED BY <3>1 DEF TA!Max
  <2>2. PICK a \in 1 .. i : a = TA!Max({1, i - 2}) /\ a >= i - 2
    BY <1>3, <2>1
  <2>3. PICK w : w = SubSeq(s, a, i)
    OBVIOUS
  <2>4. TA!Window(s, i) = w
    BY <2>2, <2>3 DEF TA!Window
  <2>5. PICK q \in Nat : q = i - a + 1 /\ q \in {1, 2, 3}
    BY <1>3, <2>2
  <2>6. Len(w) = q /\ DOMAIN w = 1 .. q /\ \A j \in 1 .. q : w[j] \in Nat
    <3>1. a \in 1 .. Len(s) /\ i \in a .. Len(s)
      BY <1>1, <1>2, <1>3, <2>2
    <3>2. Len(w) = i - a + 1 /\ w \in Seq(Nat)
      BY <1>1, <2>3, <3>1, SliceOfNaturals
    <3> QED BY <2>5, <3>2
  <2>7. PICK k \in 1 .. q : k = q \div 2 + 1
    BY <2>5
  <2>8. q \in Nat \ {0}
    BY <2>5
  <2>9. TA!Ranked(w, k) \in Nat
    BY <2>6, <2>7, <2>8, RankedIsNumber
  <2>10. f[i] = TA!Ranked(w, Len(w) \div 2 + 1)
    BY <1>3, <1>4, <2>4 DEF TA!Filtered
  <2> QED BY <2>6, <2>7, <2>9, <2>10
<1>7. TA!PopularBin(f) \in Nat
  BY <1>3, <1>5, <1>6, PopularIsBin
<1> QED BY <1>4, <1>7, SuggestedIsAbove

-----------------------------------------------------------------------------
(* The place of a card, and the pages the places fill.                         *)

\* The place of d in F by a key, ties in the order of numbers.
Precedes(k, d, e) == k[d] < k[e] \/ (k[d] = k[e] /\ d < e)
Place(F, k, d) == 1 + Cardinality({e \in F : Precedes(k, e, d)})

LEMMA PlaceInside ==
  ASSUME NEW F, IsFiniteSet(F), F \subseteq Nat, NEW k \in [F -> Nat], NEW d \in F
  PROVE  Place(F, k, d) \in 1 .. Cardinality(F)
<1> DEFINE before == {e \in F : Precedes(k, e, d)}
<1>1. before \in SUBSET (F \ {d})
  <2>1. ~Precedes(k, d, d)
    BY DEF Precedes
  <2> QED BY <2>1
<1>2. IsFiniteSet(F \ {d}) /\ Cardinality(F \ {d}) = Cardinality(F) - 1 /\ Cardinality(F) \in Nat
  BY FS_RemoveElement, FS_CardinalityType
<1>3. IsFiniteSet(before) /\ Cardinality(before) <= Cardinality(F) - 1
  BY <1>1, <1>2, FS_Subset
<1>4. Cardinality(before) \in Nat
  BY <1>3, FS_CardinalityType
<1> HIDE DEF before
<1>5. Place(F, k, d) = 1 + Cardinality(before)
  BY DEF Place, before
<1> QED BY <1>2, <1>3, <1>4, <1>5

LEMMA PlacesDiffer ==
  ASSUME NEW F, IsFiniteSet(F), F \subseteq Nat, NEW k \in [F -> Nat], NEW d \in F, NEW e \in F, Precedes(k, d, e)
  PROVE  Place(F, k, d) < Place(F, k, e)
<1> DEFINE lower == {x \in F : Precedes(k, x, d)}
           upper == {x \in F : Precedes(k, x, e)}
<1>1. lower \in SUBSET upper
  <2>1. ASSUME NEW x \in F, Precedes(k, x, d) PROVE Precedes(k, x, e)
    <3>1. k[x] \in Nat /\ k[d] \in Nat /\ k[e] \in Nat /\ x \in Nat /\ d \in Nat /\ e \in Nat
      OBVIOUS
    <3> QED BY <2>1, <3>1 DEF Precedes
  <2> QED BY <2>1
<1>2. d \in upper /\ d \notin lower
  <2>1. ~Precedes(k, d, d)
    BY DEF Precedes
  <2> QED BY <2>1
<1>3. IsFiniteSet(upper) /\ upper \subseteq F
  BY FS_Subset
<1> HIDE DEF lower, upper
<1>4. IsFiniteSet(lower) /\ Cardinality(lower) <= Cardinality(upper) /\ Cardinality(lower) # Cardinality(upper)
  BY <1>1, <1>2, <1>3, FS_Subset
<1>5. Cardinality(lower) \in Nat /\ Cardinality(upper) \in Nat
  BY <1>3, <1>4, FS_CardinalityType
<1>6. Place(F, k, d) = 1 + Cardinality(lower) /\ Place(F, k, e) = 1 + Cardinality(upper)
  BY DEF Place, lower, upper
<1> QED BY <1>4, <1>5, <1>6

\* The cards between two places are as many as the places.
LEMMA PlacesAreTaken ==
  ASSUME NEW F, IsFiniteSet(F), F \subseteq Nat, NEW k \in [F -> Nat], NEW lo \in Nat, NEW hi \in Nat, lo <= hi,
         NEW S, S = {d \in F : lo < Place(F, k, d) /\ Place(F, k, d) <= hi}
  PROVE  /\ IsFiniteSet(S) /\ Cardinality(S) <= hi - lo
         /\ hi <= Cardinality(F) => Cardinality(S) = hi - lo
<1> DEFINE place == [d \in F |-> Place(F, k, d)]
<1>1. Cardinality(F) \in Nat
  BY FS_CardinalityType
<1>2. place \in [F -> 1 .. Cardinality(F)]
  BY PlaceInside
<1>3. \A d, e \in F : d # e => place[d] # place[e]
  <2>1. SUFFICES ASSUME NEW d \in F, NEW e \in F, d # e PROVE place[d] # place[e]
    OBVIOUS
  <2>2. Precedes(k, d, e) \/ Precedes(k, e, d)
    <3>1. k[d] \in Nat /\ k[e] \in Nat /\ d \in Nat /\ e \in Nat
      OBVIOUS
    <3> QED BY <2>1, <3>1 DEF Precedes
  <2>3. Place(F, k, d) < Place(F, k, e) \/ Place(F, k, e) < Place(F, k, d)
    BY <2>2, PlacesDiffer
  <2>4. Place(F, k, d) \in Int /\ Place(F, k, e) \in Int
    <3>1. Place(F, k, d) \in 1 .. Cardinality(F) /\ Place(F, k, e) \in 1 .. Cardinality(F)
      BY <2>1, PlaceInside
    <3> QED BY <1>1, <3>1
  <2> QED BY <2>3, <2>4
<1>4. S = {d \in F : lo < place[d] /\ place[d] <= hi}
  OBVIOUS
<1>5. PICK p : p = place
  OBVIOUS
<1>6. p \in [F -> 1 .. Cardinality(F)] /\ (\A d, e \in F : d # e => p[d] # p[e]) /\ S = {d \in F : lo < p[d] /\ p[d] <= hi}
  BY <1>2, <1>3, <1>4, <1>5
<1> HIDE DEF place
<1>7. \A i \in 1 .. Cardinality(F) : \E d \in F : p[d] = i
  <2>1. p \in Injection(F, 1 .. Cardinality(F))
    BY <1>6 DEF Injection, IsInjective
  <2>2. IsFiniteSet(1 .. Cardinality(F)) /\ Cardinality(1 .. Cardinality(F)) = Cardinality(F)
    BY <1>1, FS_Interval
  <2>3. p \in Surjection(F, 1 .. Cardinality(F))
    BY <2>1, <2>2, FS_Injection
  <2> QED BY <2>3 DEF Surjection
<1>8. PICK g : g = [d \in S |-> p[d]]
  OBVIOUS
<1>9. g \in Injection(S, lo + 1 .. hi)
  <2>1. \A d \in S : p[d] \in lo + 1 .. hi
    BY <1>1, <1>6
  <2> QED BY <1>6, <1>8, <2>1 DEF Injection, IsInjective
<1>10. IsFiniteSet(lo + 1 .. hi) /\ Cardinality(lo + 1 .. hi) = hi - lo
  <2>1. PICK a \in Nat : a = lo + 1
    OBVIOUS
  <2>2. IsFiniteSet(a .. hi) /\ Cardinality(a .. hi) = IF a > hi THEN 0 ELSE hi - a + 1
    BY FS_Interval
  <2> QED BY <2>1, <2>2
<1>11. IsFiniteSet(S) /\ Cardinality(S) <= hi - lo
  BY <1>9, <1>10, FS_Injection
<1>12. ASSUME hi <= Cardinality(F) PROVE Cardinality(S) = hi - lo
  <2>1. \A i \in lo + 1 .. hi : \E d \in S : g[d] = i
    <3> SUFFICES ASSUME NEW i \in lo + 1 .. hi PROVE \E d \in S : g[d] = i
      OBVIOUS
    <3>1. i \in 1 .. Cardinality(F) /\ lo < i /\ i <= hi
      BY <1>1, <1>12
    <3>2. PICK d \in F : p[d] = i
      BY <3>1, <1>7
    <3>3. d \in S
      BY <3>1, <3>2, <1>6
    <3> QED BY <3>2, <3>3, <1>8
  <2>2. g \in Surjection(S, lo + 1 .. hi)
    BY <1>9, <2>1 DEF Surjection, Injection
  <2> QED BY <1>9, <1>10, <2>2, FS_Injection
<1> QED BY <1>11, <1>12

\* A place is on one page of s places, and the pages before the last are full.
LEMMA PagesApart ==
  ASSUME NEW s \in Nat \ {0}, NEW p \in Nat, NEW m \in Nat \ {0}, NEW q \in Nat \ {0},
         (m - 1) * s < p, p <= m * s, (q - 1) * s < p, p <= q * s
  PROVE  m = q
<1>1. ASSUME m < q PROVE FALSE
  <2>1. m * s <= (q - 1) * s /\ m * s \in Nat /\ (q - 1) * s \in Nat
    BY <1>1, TimesGrows
  <2> QED BY <2>1
<1>2. ASSUME q < m PROVE FALSE
  <2>1. q * s <= (m - 1) * s /\ q * s \in Nat /\ (m - 1) * s \in Nat
    BY <1>2, TimesGrows
  <2> QED BY <2>1
<1> QED BY <1>1, <1>2
LEMMA PageOfPlace ==
  ASSUME NEW n \in Nat, NEW s \in Nat \ {0}, NEW t \in Nat \ {0}, n <= t * s, NEW p \in 1 .. n
  PROVE  \E q \in 1 .. t : \A m \in 1 .. t : ((m - 1) * s < p /\ p <= m * s) <=> m = q
<1>1. PICK q : q = (p + s - 1) \div s
  OBVIOUS
<1>2. q \in Nat \ {0} /\ (q - 1) * s < p /\ p <= q * s
  BY <1>1, Ceiling
<1>3. q <= t
  <2>1. ASSUME t < q PROVE FALSE
    <3>1. t * s <= (q - 1) * s /\ t * s \in Nat /\ (q - 1) * s \in Nat
      BY <1>2, <2>1, TimesGrows
    <3> QED BY <1>2, <3>1
  <2> QED BY <1>2, <2>1
<1>4. q \in 1 .. t
  BY <1>2, <1>3
<1>5. \A m \in 1 .. t : (m - 1) * s < p /\ p <= m * s => m = q
  <2>1. \A m \in 1 .. t : m \in Nat \ {0}
    OBVIOUS
  <2> QED BY <1>2, <2>1, PagesApart
<1> QED BY <1>2, <1>4, <1>5
LEMMA FullPages ==
  ASSUME NEW n \in Nat, NEW s \in Nat \ {0}, NEW t \in Nat \ {0}, (t - 1) * s < n \/ t = 1, NEW m \in 1 .. t, m < t
  PROVE  m * s <= n
<1>1. m * s <= (t - 1) * s /\ m * s \in Nat /\ (t - 1) * s \in Nat
  BY TimesGrows
<1> QED BY <1>1

-----------------------------------------------------------------------------
(* The page of the cards: devices and zones are numbers, a page has room.      *)

CardFields == {"size", "page", "hidden", "search", "filter", "zone", "sort"}
CardTold(s) == {"name", "zone", "online", "abnormal", "peak"} \subseteq DOMAIN s /\ s.name \in Nat /\ s.zone \in Nat
CardsInv ==
  /\ CardFields \subseteq DOMAIN dpage /\ dpage.size \in PageSizes
  /\ DOMAIN park \subseteq Park
  /\ \A d \in DOMAIN park : CardTold(park[d])
  /\ \A a \in pasked : a.kind = "save" => a.name \in Nat

LEMMA CardsCounted == \A S : DP!Cardinality(S) = Cardinality(S)
BY DEF DP!Cardinality, Cardinality

LEMMA CardsTell == ASSUME CardsAssumption, CardsInv PROVE DP!CardsStandOnce
<1>1. PICK F : F = DP!FilterDashboardDevices(dpage)
  OBVIOUS
<1>2. F \subseteq DOMAIN park /\ F \subseteq Nat /\ IsFiniteSet(F)
  <2>1. F \subseteq DOMAIN park /\ F \subseteq Park
    BY <1>1 DEF DP!FilterDashboardDevices, DP!VisibleSensors, CardsInv
  <2> QED BY <2>1, FS_Subset DEF CardsAssumption
<1>3. PICK k : k = [d \in F |-> DP!SortKey(dpage, d)]
  OBVIOUS
<1>4. k \in [F -> Nat]
  <2>1. \A d \in F : DP!SortKey(dpage, d) \in Nat
    <3>1. ASSUME NEW d \in F PROVE d \in Nat /\ park[d].name \in Nat /\ park[d].zone \in Nat /\ DP!StatusRank(park[d]) \in Nat
      BY <1>2 DEF CardsInv, CardTold, DP!StatusRank
    <3> QED BY <3>1 DEF DP!SortKey
  <2> QED BY <1>3, <2>1
<1>5. PICK n \in Nat : n = Cardinality(F)
  BY <1>2, FS_CardinalityType
<1>6. PICK s \in Nat \ {0} : s = dpage.size
  BY DEF CardsAssumption, CardsInv
<1>7. PICK t : t = DP!TotalPages(dpage)
  OBVIOUS
<1>8. t \in Nat \ {0} /\ n <= t * s /\ ((t - 1) * s < n \/ t = 1)
  <2>1. PICK c : c = (n + s - 1) \div s
    OBVIOUS
  <2>2. t = DP!Max({1, c})
    BY <1>1, <1>5, <1>6, <1>7, <2>1, CardsCounted DEF DP!TotalPages
  <2>3. CASE n = 0
    <3>1. c = 0
      BY <2>1, <2>3
    <3>2. t = 1
      BY <2>2, <3>1 DEF DP!Max
    <3> QED BY <2>3, <3>2
  <2>4. CASE n # 0
    <3>1. c \in Nat \ {0} /\ (c - 1) * s < n /\ n <= c * s
      BY <2>1, <2>4, Ceiling
    <3>2. t = c
      BY <2>2, <3>1 DEF DP!Max
    <3> QED BY <3>1, <3>2
  <2> QED BY <2>3, <2>4
<1>9. \A d \in F : DP!Displayed(dpage, d) = Place(F, k, d)
  BY <1>1, <1>3, CardsCounted DEF DP!Displayed, DP!Before, Place, Precedes
<1>10. \A m \in Nat : DP!PageOf(m) = {d \in F : (m - 1) * s < Place(F, k, d) /\ Place(F, k, d) <= m * s}
  <2>1. SUFFICES ASSUME NEW m \in Nat PROVE DP!PageOf(m) = {d \in F : (m - 1) * s < Place(F, k, d) /\ Place(F, k, d) <= m * s}
    OBVIOUS
  <2>2. PICK v : v = [dpage EXCEPT !.page = m]
    OBVIOUS
  <2>3. /\ v.page = m /\ v.size = s /\ v.hidden = dpage.hidden /\ v.search = dpage.search
        /\ v.filter = dpage.filter /\ v.zone = dpage.zone /\ v.sort = dpage.sort
    BY <1>6, <2>2 DEF CardsInv, CardFields
  <2>4. DP!FilterDashboardDevices(v) = F
    BY <1>1, <2>3 DEF DP!FilterDashboardDevices, DP!VisibleSensors
  <2>5. \A d : DP!SortKey(v, d) = DP!SortKey(dpage, d)
    BY <2>3 DEF DP!SortKey
  <2>6. \A d : DP!Displayed(v, d) = DP!Displayed(dpage, d)
    BY <1>1, <2>4, <2>5 DEF DP!Displayed, DP!Before
  <2>7. DP!PageOf(m) = DP!PagedDevices(v)
    BY <2>2 DEF DP!PageOf
  <2> QED BY <1>9, <2>3, <2>4, <2>6, <2>7 DEF DP!PagedDevices
<1>11. ASSUME NEW d \in F
       PROVE  \E q \in 1 .. t : \A m \in 1 .. t : d \in DP!PageOf(m) <=> m = q
  <2>1. PICK p \in 1 .. n : p = Place(F, k, d)
    BY <1>2, <1>4, <1>5, PlaceInside
  <2>2. PICK q \in 1 .. t : \A m \in 1 .. t : ((m - 1) * s < p /\ p <= m * s) <=> m = q
    <3>1. n \in Nat /\ s \in Nat \ {0} /\ t \in Nat \ {0} /\ n <= t * s /\ p \in 1 .. n
      BY <1>8, <2>1
    <3>2. \E q \in 1 .. t : \A m \in 1 .. t : ((m - 1) * s < p /\ p <= m * s) <=> m = q
      BY ONLY <3>1, PageOfPlace
    <3> QED BY <3>2
  <2>3. \A m \in 1 .. t : d \in DP!PageOf(m) <=> ((m - 1) * s < p /\ p <= m * s)
    BY <1>8, <1>10, <2>1
  <2> QED BY <2>2, <2>3
<1>12. ASSUME NEW m \in 1 .. t
       PROVE  LET cards == DP!PageOf(m)  groups == DP!GroupSensorsByZone(cards) IN
              /\ DP!Cardinality(cards) <= s /\ (m < t => DP!Cardinality(cards) = s)
              /\ \A d \in cards : {z \in DOMAIN groups : d \in groups[z].devices} = {park[d].zone}
  <2>1. PICK cards : cards = DP!PageOf(m)
    OBVIOUS
  <2>2. PICK lo \in Nat, hi \in Nat : lo = (m - 1) * s /\ hi = m * s /\ hi - lo = s /\ lo <= hi
    <3>1. PICK hi \in Nat : hi = m * s
      BY <1>8
    <3>2. (m - 1) * s = hi - s
      BY <1>8, <3>1
    <3>3. (m - 1) * s \in Nat
      BY <1>8
    <3> QED BY <3>1, <3>2, <3>3
  <2>3. cards = {d \in F : lo < Place(F, k, d) /\ Place(F, k, d) <= hi}
    BY <1>8, <1>10, <2>1, <2>2
  <2>4. Cardinality(cards) <= s /\ (hi <= n => Cardinality(cards) = s)
    <3>1. lo \in Nat /\ hi \in Nat /\ lo <= hi
      BY <2>2
    <3>2. Cardinality(cards) <= hi - lo /\ (hi <= Cardinality(F) => Cardinality(cards) = hi - lo)
      BY <1>2, <1>4, <2>3, <3>1, PlacesAreTaken
    <3> QED BY <1>5, <2>2, <3>2
  <2>5. m < t => hi <= n
    BY <1>8, <2>2, FullPages
  <2>6. ASSUME NEW groups, groups = DP!GroupSensorsByZone(cards), NEW d \in cards
        PROVE  {z \in DOMAIN groups : d \in groups[z].devices} = {park[d].zone}
    <3>1. DOMAIN groups = {park[e].zone : e \in cards}
      BY <2>6 DEF DP!GroupSensorsByZone
    <3>2. \A z \in DOMAIN groups : groups[z].devices = {e \in cards : park[e].zone = z}
      BY <2>6 DEF DP!GroupSensorsByZone
    <3> QED BY <2>6, <3>1, <3>2
  <2> QED BY <2>1, <2>4, <2>5, <2>6, CardsCounted
<1> QED BY <1>1, <1>6, <1>7, <1>11, <1>12 DEF DP!CardsStandOnce

\* What the operators of the page keep of it: its fields and its size.
SameSize(v, w) == DOMAIN w = DOMAIN v /\ w.size = v.size

LEMMA ClampKeeps == ASSUME NEW v, CardFields \subseteq DOMAIN v PROVE SameSize(v, DP!PageClamped(v))
BY DEF DP!PageClamped, SameSize, CardFields
LEMMA ReconciledKeeps == ASSUME NEW v, NEW list, CardFields \subseteq DOMAIN v PROVE SameSize(v, DP!Reconciled(v, list))
BY DEF DP!Reconciled, SameSize, CardFields
LEMMA FreshKeeps == ASSUME NEW v, CardFields \subseteq DOMAIN v PROVE SameSize(v, DP!Fresh(v))
<1>1. "size" \in DOMAIN v
  BY DEF CardFields
<1>2. DOMAIN DP!Fresh(v) = DOMAIN v
  BY DEF DP!Fresh
<1>3. DP!Fresh(v).size = v.size
  BY <1>1 DEF DP!Fresh
<1> QED BY <1>2, <1>3 DEF SameSize
LEMMA DismissedKeeps == ASSUME NEW v, CardFields \subseteq DOMAIN v PROVE SameSize(v, DP!Dismissed(v))
BY DEF DP!Dismissed, SameSize, CardFields
LEMMA ShowingKeeps == ASSUME NEW v, NEW d, NEW mode, CardFields \subseteq DOMAIN v PROVE SameSize(v, DP!Showing(v, d, mode))
<1>1. PICK to : to = IF v.selected = None THEN [v EXCEPT !.inst = @ + 1, !.deleting = FALSE, !.saving = FALSE, !.checking = FALSE] ELSE v
  OBVIOUS
<1>2. SameSize(v, to)
  BY <1>1 DEF SameSize, CardFields
<1>3. DP!Showing(v, d, mode) = [to EXCEPT !.selected = d, !.mode = mode, !.edit = (mode = "edit"), !.removing = (mode = "delete"), !.impact = None, !.failed = FALSE]
  BY <1>1 DEF DP!Showing
<1> QED BY <1>2, <1>3 DEF SameSize, CardFields

\* The names asked for are numbers, whatever else is asked.
NamesAsked(queries) == \A a \in queries : a.kind = "save" => a.name \in Nat
LEMMA AskedNames == ASSUME NEW kind, NEW v PROVE DP!Asked(kind, v).name \in Nat
BY DEF DP!Asked
LEMMA TurnedKeeps ==
  ASSUME NEW v, NEW queries, CardFields \subseteq DOMAIN v, NamesAsked(queries), DP!Turned(v, queries)
  PROVE  SameSize(v, dpage') /\ NamesAsked(pasked')
<1>1. CASE v.removing /\ v.selected # None
  <2>1. PICK w, a : w = [v EXCEPT !.impact = None, !.checking = TRUE, !.failed = FALSE] /\ a = DP!Asked("impact", v)
    OBVIOUS
  <2>2. dpage' = w /\ pasked' = DP!Aborted(queries) \cup {a}
    BY <1>1, <2>1 DEF DP!Turned
  <2>3. SameSize(v, w)
    BY <2>1 DEF SameSize, CardFields
  <2> QED BY <2>1, <2>2, <2>3, AskedNames DEF DP!Aborted, NamesAsked
<1>2. CASE ~(v.removing /\ v.selected # None)
  BY <1>2 DEF DP!Turned, DP!Aborted, NamesAsked, SameSize
<1> QED BY <1>1, <1>2

LEMMA CardsStart == CardsAssumption /\ DP!DeviceInit => CardsInv
<1> SUFFICES ASSUME CardsAssumption, DP!DeviceInit PROVE CardsInv
    OBVIOUS
<1>1. DP!Min(PageSizes) \in PageSizes
  <2>1. PICK m \in PageSizes : \A x \in PageSizes : m <= x
    BY LeastOfNaturals DEF CardsAssumption
  <2> QED BY <2>1 DEF DP!Min
<1>2. CardFields \subseteq DOMAIN dpage /\ dpage.size = DP!Min(PageSizes)
  BY DEF DP!DeviceInit, DP!Reconciled, CardFields
<1>3. DOMAIN park = Park /\ \A d \in Park : CardTold(park[d])
  BY DEF DP!DeviceInit, CardsAssumption, CardTold
<1>4. pasked = {}
  BY DEF DP!DeviceInit
<1> QED BY <1>1, <1>2, <1>3, <1>4 DEF CardsInv

LEMMA ListsTell ==
  ASSUME CardsAssumption, CardsInv, NEW list \in DP!Lists
  PROVE  DOMAIN list \subseteq Park /\ \A d \in DOMAIN list : CardTold(list[d])
<1>1. DOMAIN park \subseteq Park /\ \A d \in DOMAIN park : CardTold(park[d])
  BY DEF CardsInv
<1>2. ASSUME NEW d \in DOMAIN park, list = [e \in DOMAIN park \ {d} |-> park[e]]
      PROVE  DOMAIN list \subseteq Park /\ \A e \in DOMAIN list : CardTold(list[e])
  BY <1>1, <1>2
<1>3. ASSUME NEW d \in DOMAIN park, list \in DP!Changed(d)
      PROVE  DOMAIN list \subseteq Park /\ \A e \in DOMAIN list : CardTold(list[e])
  <2>1. PICK s : /\ s \in {[park[d] EXCEPT !.online = ~@], [park[d] EXCEPT !.abnormal = ~@], [park[d] EXCEPT !.peak = @ + 1]}
                 /\ list = [park EXCEPT ![d] = s]
    BY <1>3 DEF DP!Changed
  <2>2. CardTold(s)
    BY <1>1, <2>1 DEF CardTold
  <2> QED BY <1>1, <2>1, <2>2
<1>4. ASSUME NEW d \in Park \ DOMAIN park, list = [e \in DOMAIN park \cup {d} |-> IF e = d THEN FirstPark[d] ELSE park[e]]
      PROVE  DOMAIN list \subseteq Park /\ \A e \in DOMAIN list : CardTold(list[e])
  <2>1. CardTold(FirstPark[d])
    BY DEF CardsAssumption, CardTold
  <2> QED BY <1>1, <1>4, <2>1
<1>5. PICK shorter, altered, longer :
        /\ shorter = {[e \in DOMAIN park \ {d} |-> park[e]] : d \in DOMAIN park}
        /\ altered = UNION {DP!Changed(d) : d \in DOMAIN park}
        /\ longer = {[e \in DOMAIN park \cup {d} |-> IF e = d THEN FirstPark[d] ELSE park[e]] : d \in Park \ DOMAIN park}
  OBVIOUS
<1>6. list \in shorter \cup altered \cup longer
  BY <1>5 DEF DP!Lists
<1>7. CASE list \in shorter
  BY <1>2, <1>5, <1>7
<1>8. CASE list \in altered
  <2>1. PICK d \in DOMAIN park : list \in DP!Changed(d)
    BY <1>5, <1>8
  <2> QED BY <1>3, <2>1
<1>9. CASE list \in longer
  BY <1>4, <1>5, <1>9
<1> QED BY <1>6, <1>7, <1>8, <1>9

LEMMA CardsSteps == CardsAssumption /\ CardsInv /\ DP!DeviceNext => CardsInv'
<1> SUFFICES ASSUME CardsAssumption, CardsInv, DP!DeviceNext PROVE CardsInv'
    OBVIOUS
<1>0. CardFields \subseteq DOMAIN dpage /\ dpage.size \in PageSizes /\ NamesAsked(pasked)
  BY DEF CardsInv, NamesAsked
<1>1. ASSUME SameSize(dpage, dpage'), UNCHANGED park, NamesAsked(pasked') PROVE CardsInv'
  BY <1>1 DEF CardsInv, NamesAsked, SameSize
<1>2. ASSUME NEW v, SameSize(dpage, v), DP!Use(v) PROVE CardsInv'
  <2>1. SameSize(v, DP!PageClamped(v))
    BY <1>0, <1>2, ClampKeeps DEF SameSize
  <2> QED BY <1>0, <1>1, <1>2, <2>1 DEF DP!Use, SameSize
<1>3. ASSUME NEW v, SameSize(dpage, v), DP!Freely(v) PROVE CardsInv'
  BY <1>0, <1>1, <1>3 DEF DP!Freely
<1>4. ASSUME NEW v, DOMAIN v = DOMAIN dpage, v.size \in PageSizes, DP!ChangeQuery(v) PROVE CardsInv'
  <2>1. PICK w : w = [v EXCEPT !.page = 1]
    OBVIOUS
  <2>2. DOMAIN w = DOMAIN dpage /\ w.size \in PageSizes
    BY <1>0, <1>4, <2>1 DEF CardFields
  <2>3. SameSize(w, DP!PageClamped(w))
    BY <1>0, <2>2, ClampKeeps
  <2>4. dpage' = DP!PageClamped(w) /\ UNCHANGED <<park, pasked>>
    BY <1>4, <2>1 DEF DP!ChangeQuery, DP!Use
  <2> QED BY <1>0, <2>2, <2>3, <2>4 DEF CardsInv, SameSize, NamesAsked
<1>5. ASSUME NEW d, NEW mode, DP!OpenDeviceInfo(d, mode) PROVE CardsInv'
  <2>1. PICK v : v = [dpage EXCEPT !.menu = None]
    OBVIOUS
  <2>2. SameSize(dpage, v) /\ CardFields \subseteq DOMAIN v
    BY <1>0, <2>1 DEF SameSize, CardFields
  <2>3. PICK w : w = DP!Showing(v, d, mode)
    OBVIOUS
  <2>4. SameSize(v, w)
    BY <2>2, <2>3, ShowingKeeps
  <2>5. DP!Turned(w, pasked) /\ UNCHANGED park
    BY <1>5, <2>1, <2>3 DEF DP!OpenDeviceInfo
  <2>6. SameSize(w, dpage') /\ NamesAsked(pasked')
    BY <1>0, <2>2, <2>4, <2>5, TurnedKeeps DEF SameSize
  <2> QED BY <1>1, <2>2, <2>4, <2>5, <2>6 DEF SameSize
<1>6. ASSUME NEW list \in DP!Lists, DP!Inventory(list) PROVE CardsInv'
  <2>1. SameSize(dpage, DP!Reconciled(dpage, list))
    BY <1>0, ReconciledKeeps
  <2>2. DOMAIN list \subseteq Park /\ \A d \in DOMAIN list : CardTold(list[d])
    BY ListsTell
  <2>3. dpage' = DP!Reconciled(dpage, list) /\ park' = list /\ UNCHANGED pasked
    BY <1>6 DEF DP!Inventory
  <2> QED BY <1>0, <2>1, <2>2, <2>3 DEF CardsInv, SameSize, NamesAsked
<1>7. CASE DP!Remount
  <2>1. PICK v, w : v = DP!Fresh(dpage) /\ w = DP!Reconciled(v, park)
    OBVIOUS
  <2>2. SameSize(dpage, v)
    BY <1>0, <2>1, FreshKeeps
  <2>3. SameSize(v, w)
    BY <1>0, <2>1, <2>2, ReconciledKeeps DEF SameSize
  <2>4. SameSize(w, DP!PageClamped(w))
    BY <1>0, <2>2, <2>3, ClampKeeps DEF SameSize
  <2>5. dpage' = DP!PageClamped(w) /\ pasked' = {} /\ UNCHANGED park
    BY <1>7, <2>1 DEF DP!Remount
  <2> QED BY <1>1, <2>2, <2>3, <2>4, <2>5 DEF SameSize, NamesAsked
<1>8. CASE DP!OpenDelete
  <2>1. PICK v : v = [dpage EXCEPT !.removing = TRUE]
    OBVIOUS
  <2>2. SameSize(dpage, v) /\ CardFields \subseteq DOMAIN v
    BY <1>0, <2>1 DEF SameSize, CardFields
  <2>3. DP!Turned(v, pasked) /\ UNCHANGED park
    BY <1>8, <2>1 DEF DP!OpenDelete
  <2>4. SameSize(v, dpage') /\ NamesAsked(pasked')
    BY <1>0, <2>2, <2>3, TurnedKeeps
  <2> QED BY <1>1, <2>2, <2>3, <2>4 DEF SameSize
<1>9. CASE DP!Escape
  <2>1. PICK plain : plain = [dpage EXCEPT !.menu = None, !.collapsed = @ \/ dpage.chart # None]
    OBVIOUS
  <2>2. SameSize(dpage, plain)
    BY <1>0, <2>1 DEF SameSize, CardFields
  <2>3. PICK noEdit : noEdit = IF plain.edit /\ ~plain.saving THEN [plain EXCEPT !.edit = FALSE] ELSE plain
    OBVIOUS
  <2>4. SameSize(dpage, noEdit)
    BY <1>0, <2>2, <2>3 DEF SameSize, CardFields
  <2>5. PICK noDelete : noDelete = IF noEdit.removing /\ ~noEdit.deleting THEN [noEdit EXCEPT !.removing = FALSE, !.impact = None, !.failed = FALSE] ELSE noEdit
    OBVIOUS
  <2>6. SameSize(dpage, noDelete)
    BY <1>0, <2>4, <2>5 DEF SameSize, CardFields
  <2>7. SameSize(dpage, DP!Dismissed(noDelete))
    BY <1>0, <2>6, DismissedKeeps DEF SameSize
  <2>8. (dpage' = DP!Dismissed(noDelete) \/ dpage' = noDelete) /\ (pasked' = pasked \/ pasked' = DP!Aborted(pasked)) /\ UNCHANGED park
    BY <1>9, <2>1, <2>3, <2>5 DEF DP!Escape
  <2>9. NamesAsked(pasked')
    BY <1>0, <2>8 DEF NamesAsked, DP!Aborted
  <2> QED BY <1>1, <2>6, <2>7, <2>8, <2>9
<1>10. ASSUME NEW name \in {1, 2}, DP!SaveDeviceInfo(name) PROVE CardsInv'
  <2>1. SameSize(dpage, dpage') /\ UNCHANGED park
    BY <1>0, <1>10 DEF DP!SaveDeviceInfo, SameSize, CardFields
  <2>2. PICK a : a = [DP!Asked("save", dpage) EXCEPT !.name = name]
    OBVIOUS
  <2>3. a.name \in Nat
    BY <2>2 DEF DP!Asked
  <2>4. pasked' = pasked \cup {a}
    BY <1>10, <2>2 DEF DP!SaveDeviceInfo
  <2> QED BY <1>0, <1>1, <2>1, <2>3, <2>4 DEF NamesAsked
<1>11. CASE DP!HandleDeleteDevice
  <2>1. SameSize(dpage, dpage') /\ UNCHANGED park
    BY <1>0, <1>11 DEF DP!HandleDeleteDevice, SameSize, CardFields
  <2>2. pasked' = pasked \cup {DP!Asked("delete", dpage)}
    BY <1>11 DEF DP!HandleDeleteDevice
  <2> QED BY <1>0, <1>1, <2>1, <2>2, AskedNames DEF NamesAsked
<1>12. ASSUME NEW a \in pasked, NEW ok, DP!Answered(a, ok) PROVE CardsInv'
  <2>1. ASSUME DP!ImpactAnswered(a, ok) PROVE CardsInv'
    BY <1>0, <1>1, <2>1 DEF DP!ImpactAnswered, SameSize, CardFields, NamesAsked
  <2>2. ASSUME a.kind = "save", DP!SaveAnswered(a, ok) PROVE CardsInv'
    <3>1. PICK same : same = (a.inst = dpage.inst /\ dpage.selected # None)
      OBVIOUS
    <3>2. PICK told : told = IF dpage.selected = a.device THEN dpage ELSE DP!Showing(dpage, a.device, dpage.mode)
      OBVIOUS
    <3>3. SameSize(dpage, told)
      BY <1>0, <3>2, ShowingKeeps DEF SameSize
    <3>4. PICK over : over = IF same THEN [told EXCEPT !.saving = FALSE, !.edit = FALSE] ELSE told
      OBVIOUS
    <3>5. SameSize(dpage, over) /\ CardFields \subseteq DOMAIN over
      BY <1>0, <3>3, <3>4 DEF SameSize, CardFields
    <3>6. PICK quiet : quiet = IF same THEN [dpage EXCEPT !.saving = FALSE] ELSE dpage
      OBVIOUS
    <3>7. SameSize(dpage, quiet)
      BY <1>0, <3>6 DEF SameSize, CardFields
    <3>8. /\ park' = IF ok /\ a.device \in DOMAIN park THEN [park EXCEPT ![a.device].name = a.name] ELSE park
          /\ \/ dpage' = quiet /\ pasked' = pasked \ {a}
             \/ dpage' = DP!Dismissed(over) /\ pasked' = DP!Aborted(pasked \ {a})
             \/ dpage' = over /\ pasked' = pasked \ {a}
             \/ DP!Turned(over, pasked \ {a})
      BY <2>2, <3>1, <3>2, <3>4, <3>6 DEF DP!SaveAnswered
    <3>9. NamesAsked(pasked \ {a}) /\ NamesAsked(DP!Aborted(pasked \ {a})) /\ a.name \in Nat
      BY <1>0, <2>2 DEF NamesAsked, DP!Aborted
    <3>10. SameSize(dpage, dpage') /\ NamesAsked(pasked')
      <4>1. SameSize(over, DP!Dismissed(over))
        BY <3>5, DismissedKeeps
      <4>2. ASSUME DP!Turned(over, pasked \ {a}) PROVE SameSize(over, dpage') /\ NamesAsked(pasked')
        BY <3>5, <3>9, <4>2, TurnedKeeps
      <4> QED BY <3>5, <3>7, <3>8, <3>9, <4>1, <4>2 DEF SameSize
    <3>11. DOMAIN park' = DOMAIN park /\ \A d \in DOMAIN park : CardTold(park'[d])
      BY <3>8, <3>9 DEF CardsInv, CardTold
    <3> QED BY <1>0, <3>10, <3>11 DEF CardsInv, SameSize, NamesAsked
  <2>3. ASSUME DP!DeleteAnswered(a, ok) PROVE CardsInv'
    <3>1. PICK w : w = DP!Dismissed(dpage)
      OBVIOUS
    <3>2. SameSize(dpage, w)
      BY <1>0, <3>1, DismissedKeeps
    <3>3. PICK v : v = [w EXCEPT !.deleting = FALSE, !.impact = None]
      OBVIOUS
    <3>4. SameSize(dpage, v)
      BY <1>0, <3>2, <3>3 DEF SameSize, CardFields
    <3>5. SameSize(dpage, DP!MarkDeviceExiting(v, a.device)) /\ SameSize(dpage, [dpage EXCEPT !.deleting = FALSE])
      BY <1>0, <3>4 DEF DP!MarkDeviceExiting, SameSize, CardFields
    <3>6. /\ UNCHANGED park /\ (dpage' = DP!MarkDeviceExiting(v, a.device) \/ dpage' = [dpage EXCEPT !.deleting = FALSE])
          /\ (pasked' = DP!Aborted(pasked \ {a}) \/ pasked' = pasked \ {a})
      BY <2>3, <3>1, <3>3 DEF DP!DeleteAnswered
    <3>7. NamesAsked(pasked')
      BY <1>0, <3>6 DEF NamesAsked, DP!Aborted
    <3> QED BY <1>1, <3>5, <3>6, <3>7
  <2> QED BY <1>12, <2>1, <2>2, <2>3 DEF DP!Answered
<1>13. ASSUME NEW d, DP!ExitTimer(d) PROVE CardsInv'
  <2>1. PICK v : v = [dpage EXCEPT !.exiting = @ \ {d}, !.hidden = @ \cup {d}]
    OBVIOUS
  <2>2. SameSize(dpage, v)
    BY <1>0, <2>1 DEF SameSize, CardFields
  <2>3. SameSize(v, DP!PageClamped(v))
    BY <1>0, <2>2, ClampKeeps DEF SameSize
  <2> QED BY <1>0, <1>1, <1>13, <2>1, <2>2, <2>3 DEF DP!ExitTimer, SameSize
<1>14. CASE DP!PageSettles
  BY <1>0, <1>1, <1>14, ClampKeeps DEF DP!PageSettles
<1>15. CASE DP!OpenEdit
  BY <1>0, <1>3, <1>15 DEF DP!OpenEdit, SameSize, CardFields
<1>16. ASSUME NEW d, DP!OpenMenu(d) PROVE CardsInv'
  BY <1>0, <1>3, <1>16 DEF DP!OpenMenu, SameSize, CardFields
<1>17. ASSUME NEW d, DP!OpenCardChart(d) PROVE CardsInv'
  BY <1>0, <1>2, <1>17 DEF DP!OpenCardChart, SameSize, CardFields
<1>18. ASSUME NEW n, DP!GoToPage(n) PROVE CardsInv'
  BY <1>0, <1>2, <1>18 DEF DP!GoToPage, SameSize, CardFields
<1>19. ASSUME NEW w, DP!HandleResize(w) PROVE CardsInv'
  BY <1>0, <1>2, <1>19 DEF DP!HandleResize, SameSize, CardFields
<1>20. ASSUME NEW by, DP!HandleMouseMove(by) PROVE CardsInv'
  BY <1>0, <1>2, <1>20 DEF DP!HandleMouseMove, SameSize, CardFields
<1>21. ASSUME NEW z, DP!ChangeQuery([dpage EXCEPT !.zone = z]) PROVE CardsInv'
  BY <1>0, <1>4, <1>21 DEF CardFields
<1>22. ASSUME NEW q, DP!ChangeQuery([dpage EXCEPT !.search = q]) PROVE CardsInv'
  BY <1>0, <1>4, <1>22 DEF CardFields
<1>23. ASSUME NEW f, DP!ChangeQuery([dpage EXCEPT !.filter = f]) PROVE CardsInv'
  BY <1>0, <1>4, <1>23 DEF CardFields
<1>24. ASSUME NEW o, DP!ChangeQuery([dpage EXCEPT !.sort = o]) PROVE CardsInv'
  BY <1>0, <1>4, <1>24 DEF CardFields
<1>25. ASSUME NEW n \in PageSizes, DP!ChangeQuery([dpage EXCEPT !.size = n]) PROVE CardsInv'
  BY <1>0, <1>4, <1>25 DEF CardFields
<1>26. DP!DeviceNext
  OBVIOUS
<1> QED
  BY <1>5, <1>6, <1>7, <1>8, <1>9, <1>10, <1>11, <1>12, <1>13, <1>14, <1>15, <1>16, <1>17, <1>18,
     <1>19, <1>20, <1>21, <1>22, <1>23, <1>24, <1>25, <1>26 DEF DP!DeviceNext

\* What was begun is accounted for on every page: a card that loads has asked, an
\* analysis that is completed tells of every device and suggests no threshold in
\* the usual band, a picture not sent is on its way, and each card stands once.
THEOREM WorkIsAccountedForAlways == PagesSpec => []WorkIsAccountedFor
<1>1. PagesInit => CardsInv
  BY CardsStart, CardsAssumption DEF PagesInit
<1>2. CardsInv /\ [PagesNext]_pageVars => CardsInv'
  <2> SUFFICES ASSUME CardsInv, [PagesNext]_pageVars PROVE CardsInv'
      OBVIOUS
  <2>1. CASE UNCHANGED ParkVars
    BY <2>1 DEF ParkVars, CardsInv
  <2>2. UNCHANGED ParkVars \/ DP!DeviceNext
    BY DEF PagesNext, Others, pageVars
  <2> QED BY <2>1, <2>2, CardsSteps, CardsAssumption
<1>3. CardsInv => DP!CardsStandOnce
  BY CardsTell, CardsAssumption
<1>4. SuggestionsAreSane
  BY SuggestionIsAbove, SamplesAssumption
<1>5. LoadingMeansAsking /\ TA!CompletedTellsAll /\ KI!PictureIsOnItsWay /\ DP!CardsStandOnce => WorkIsAccountedFor
  BY <1>4 DEF WorkIsAccountedFor
<1> QED
  BY <1>1, <1>2, <1>3, <1>5, LoadingAlwaysAsks, CompletedAlwaysTellsAll, PicturesAlwaysOnTheirWay, PTL
  DEF PagesSpec, pageVars
=============================================================================
