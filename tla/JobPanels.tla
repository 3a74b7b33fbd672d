------------------------------ MODULE JobPanels ------------------------------
(* The panels that move data in and out (SgpDataPortabilityPanel): the upload   *)
(* of an archive and the import job made from it, the export job and the        *)
(* download of its file, the hook each uses to follow its job (useImportJob,    *)
(* useExportJob: the same code but for its type and key), and the routes        *)
(* between them and the services.  The import hook lives as long as the page,   *)
(* the export hook only while its panel is shown.                               *)
EXTENDS Integers, FiniteSets, Sequences

CONSTANTS Packages,     \* archives on the user's disk
          PanelBudget,  \* bound: clicks, and requests that get lost
          NoFile

VARIABLES jobs,         \* the server's import and export jobs, in the order they were made
          kept,         \* localStorage: the job id each hook keeps
          panel,        \* the state of the mounted panels
          pasks
pvars == <<jobs, kept, panel, pasks>>

Kinds == {"import", "export"}
Idle == [job |-> NoFile, history |-> {}, effect |-> 0, due |-> FALSE]
Gone == [mount |-> 0, mode |-> "import", shows |-> 0, file |-> NoFile, upload |-> NoFile, merge |-> TRUE, submitting |-> FALSE,
         hook |-> [k \in Kinds |-> Idle], downloaded |-> {}, left |-> PanelBudget]
Shown == panel.mount % 2 = 1
Running(j) == j.status \in {"queued", "running"}
\* `shows` counts how often the export panel appeared: answers to an earlier one are thrown away.
Owner(kind) == IF kind = "export" THEN panel.shows ELSE panel.mount
Call(name, kind, id, file) ==
  [name |-> name, kind |-> kind, owner |-> Owner(kind), shows |-> panel.shows, effect |-> panel.hook[kind].effect,
   id |-> id, file |-> file, reply |-> [is |-> "pending"]]
Issue(a) == pasks' = pasks \cup {a}
Reject == [is |-> "refused"]

-----------------------------------------------------------------------------
(* The routes. *)

Respond(a, r) == pasks' = (pasks \ {a}) \cup {[a EXCEPT !.reply = r]}
ImportJobDetail(id, status) == [is |-> "done", job |-> [id |-> id, kind |-> "import", status |-> status]]
ExportJobResponse(id, status) == [is |-> "done", job |-> [id |-> id, kind |-> "export", status |-> status]]
PostUpload(a) ==
  \/ /\ jobs' = Append(jobs, [kind |-> "import", status |-> "stored", file |-> a.file])
     /\ Respond(a, ImportJobDetail(Len(jobs) + 1, "stored"))
  \/ Respond(a, Reject) /\ UNCHANGED jobs
PostImportJob(a) ==
  IF jobs[a.id].status = "stored" /\ ~\E i \in DOMAIN jobs : jobs[i].kind = "import" /\ Running(jobs[i])
  THEN /\ jobs' = [jobs EXCEPT ![a.id].status = "queued"]
       /\ Respond(a, ImportJobDetail(a.id, "queued"))
  ELSE Respond(a, Reject) /\ UNCHANGED jobs
PostExportJob(a) ==
  /\ jobs' = Append(jobs, [kind |-> "export", status |-> "queued", file |-> NoFile])
  /\ Respond(a, ExportJobResponse(Len(jobs) + 1, "queued"))
GetImportJob(a) == Respond(a, ImportJobDetail(a.id, jobs[a.id].status)) /\ UNCHANGED jobs
GetExportJob(a) == Respond(a, ExportJobResponse(a.id, jobs[a.id].status)) /\ UNCHANGED jobs
ListJobs(a) == Respond(a, [is |-> "done", jobs |-> {i \in DOMAIN jobs : jobs[i].kind = a.kind}]) /\ UNCHANGED jobs
PanelServe(a) ==
  /\ a.reply.is = "pending" /\ UNCHANGED <<kept, panel>>
  /\ \/ a.name = "upload" /\ PostUpload(a)
     \/ a.name = "start" /\ a.kind = "import" /\ PostImportJob(a)
     \/ a.name = "start" /\ a.kind = "export" /\ PostExportJob(a)
     \/ a.name \in {"restore", "poll"} /\ a.kind = "import" /\ GetImportJob(a)
     \/ a.name \in {"restore", "poll"} /\ a.kind = "export" /\ GetExportJob(a)
     \/ a.name = "list" /\ ListJobs(a)
PanelLost(a) ==
  /\ a.reply.is # "refused" /\ panel.left > 0
  /\ Respond(a, Reject) /\ panel' = [panel EXCEPT !.left = @ - 1]
  /\ UNCHANGED <<jobs, kept>>
JobMoves(i) ==
  /\ \/ jobs[i].status = "queued" /\ jobs' = [jobs EXCEPT ![i].status = "running"]
     \/ jobs[i].status = "running" /\ \E s \in {"completed", "failed"} : jobs' = [jobs EXCEPT ![i].status = s]
  /\ UNCHANGED <<kept, panel, pasks>>

-----------------------------------------------------------------------------
(* The hooks. *)

KeyOf(job) == IF job = NoFile THEN NoFile ELSE [id |-> job.id, status |-> job.status]
\* track: the job is shown, joins the history and is kept for the next visit; a new id or status begins a new polling.
Track(h, job) ==
  LET same == KeyOf(job) = KeyOf(h.job)
  IN  [h EXCEPT !.job = job, !.history = @ \cup {job.id}, !.effect = IF same THEN @ ELSE @ + 1,
                !.due = IF same THEN @ ELSE Running(job)]
Keep(kind, id) == kept' = [kept EXCEPT ![kind] = id]
\* On mount a kept job is asked for, else the list.
OnMount(kind, owner) ==
  [name |-> IF kept[kind] = NoFile THEN "list" ELSE "restore", kind |-> kind, owner |-> owner, effect |-> 0,
   id |-> kept[kind], file |-> NoFile, reply |-> [is |-> "pending"]]
\* An export that is seen completed is downloaded, once for each time its panel was opened.
Downloads(v, job) == IF job.kind = "export" /\ job.status = "completed" THEN [v EXCEPT !.downloaded = @ \cup {job.id}] ELSE v
Took(a) == Downloads([panel EXCEPT !.hook[a.kind] = Track(@, a.reply.job)], a.reply.job)
Listing(a) == Call("list", a.kind, NoFile, NoFile)

-----------------------------------------------------------------------------
(* The panels. *)

Click(v) == Shown /\ panel.left > 0 /\ panel' = [v EXCEPT !.left = @ - 1]
MountPanels ==
  /\ ~Shown /\ panel.left > 0
  /\ panel' = [Gone EXCEPT !.mount = panel.mount + 1, !.shows = panel.shows, !.left = panel.left - 1]
  /\ Issue(OnMount("import", panel.mount + 1))
  /\ UNCHANGED <<jobs, kept>>
\* Leaving aborts the upload and cancels the polls.  A list is then heard by nobody; a start and a
\* restore are still answered, to localStorage.
Unsent(a) == a.name \in {"upload", "poll", "list"}
LeavePanels ==
  /\ Shown
  /\ panel' = [Gone EXCEPT !.mount = panel.mount + 1, !.shows = panel.shows + 1, !.left = panel.left]
  /\ pasks' = {a \in pasks : ~Unsent(a)}
  /\ UNCHANGED <<jobs, kept>>
SwitchMode ==
  /\ LET to == IF panel.mode = "import" THEN "export" ELSE "import"
         v == [panel EXCEPT !.mode = to, !.shows = @ + 1, !.hook["export"] = Idle, !.downloaded = {},
                            !.file = NoFile, !.upload = NoFile, !.submitting = FALSE]
     IN  /\ Click(v)
         /\ pasks' = {a \in pasks : a.name # "upload" /\ (a.kind = "export" => ~Unsent(a))}
                       \cup (IF to = "export" THEN {OnMount("export", panel.shows + 1)} ELSE {})
  /\ UNCHANGED <<jobs, kept>>
\* The request that is aborted may have reached the server already: its file then stays there unasked for.
Aborted == {a \in pasks : a.name # "upload"}
ChooseFile(f) ==
  /\ panel.mode = "import"
  /\ Click([panel EXCEPT !.file = f, !.upload = NoFile, !.merge = TRUE])
  /\ pasks' = Aborted \cup (IF f = NoFile THEN {} ELSE {Call("upload", "import", NoFile, f)})
  /\ UNCHANGED <<jobs, kept>>
Busy(kind) == panel.hook[kind].job # NoFile /\ Running(panel.hook[kind].job)
ChooseReplace ==
  /\ panel.mode = "import" /\ panel.upload # NoFile /\ panel.merge
  /\ Click([panel EXCEPT !.merge = FALSE])
  /\ UNCHANGED <<jobs, kept, pasks>>
StartImport ==
  /\ panel.mode = "import" /\ panel.upload # NoFile /\ ~Busy("import") /\ ~panel.submitting
  /\ Click([panel EXCEPT !.submitting = TRUE])
  /\ Issue(Call("start", "import", panel.upload, panel.file))
  /\ UNCHANGED <<jobs, kept>>
CreateJob ==
  /\ panel.mode = "export" /\ ~Busy("export") /\ ~panel.submitting
  /\ Click([panel EXCEPT !.submitting = TRUE])
  /\ Issue(Call("start", "export", NoFile, NoFile))
  /\ UNCHANGED <<jobs, kept>>
PollJob(kind) ==
  /\ Shown /\ panel.hook[kind].due
  /\ panel' = [panel EXCEPT !.hook[kind].due = FALSE]
  /\ Issue(Call("poll", kind, panel.hook[kind].job.id, NoFile))
  /\ UNCHANGED <<jobs, kept>>

Ok(a) == a.reply.is = "done"
UploadAnswered(a) ==
  /\ panel' = IF Ok(a) THEN [panel EXCEPT !.upload = a.reply.job.id] ELSE panel
  /\ UNCHANGED kept
\* The panel that was shown before has its own `submitting`.
StartAnswered(a) ==
  LET waits == a.shows # panel.shows /\ panel.submitting
  IN  IF Ok(a) THEN panel' = [Took(a) EXCEPT !.submitting = waits] /\ Keep(a.kind, a.reply.job.id)
      ELSE panel' = [panel EXCEPT !.submitting = waits] /\ UNCHANGED kept
\* A completed job that is restored stays kept: it is never polled, and only a poll lets go of it.
RestoreAnswered(a) ==
  IF Ok(a) THEN panel' = Took(a) /\ Keep(a.kind, a.reply.job.id) ELSE Keep(a.kind, NoFile) /\ UNCHANGED panel
PollAnswered(a) ==
  IF Ok(a) THEN /\ panel' = [Took(a) EXCEPT !.hook[a.kind].due = Running(a.reply.job)]
                /\ Keep(a.kind, IF Running(a.reply.job) THEN a.reply.job.id ELSE NoFile)
  ELSE panel' = [panel EXCEPT !.hook[a.kind].due = TRUE] /\ UNCHANGED kept
Relist(a) == IF (a.name = "restore" /\ ~Ok(a)) \/ (a.name = "poll" /\ Ok(a) /\ ~Running(a.reply.job)) THEN {Listing(a)} ELSE {}
\* A start or a restore that is answered after its panel is gone is still kept for the next visit, or let go of.
Missed(a) ==
  /\ UNCHANGED panel
  /\ IF a.name \in {"start", "restore"} /\ Ok(a) THEN Keep(a.kind, a.reply.job.id)
     ELSE IF a.name = "restore" THEN Keep(a.kind, NoFile) ELSE UNCHANGED kept
PanelAnswered(a) ==
  /\ a.reply.is # "pending" /\ UNCHANGED jobs
  /\ \/ a.owner # Owner(a.kind) /\ Missed(a) /\ pasks' = pasks \ {a}
     \/ /\ a.owner = Owner(a.kind)
        /\ \/ a.name = "upload" /\ UploadAnswered(a)
           \/ a.name = "start" /\ StartAnswered(a)
           \/ a.name = "restore" /\ RestoreAnswered(a)
           \/ a.name = "poll" /\ PollAnswered(a)
           \/ a.name = "list" /\ UNCHANGED kept
              /\ panel' = IF Ok(a) THEN [panel EXCEPT !.hook[a.kind].history = a.reply.jobs] ELSE panel
        /\ pasks' = {b \in pasks \ {a} : b.name = "poll" => b.effect = panel'.hook[b.kind].effect} \cup Relist(a)

-----------------------------------------------------------------------------
PanelInit == jobs = <<>> /\ kept = [k \in Kinds |-> NoFile] /\ panel = Gone /\ pasks = {}
PanelNext ==
  \/ MountPanels \/ LeavePanels \/ SwitchMode \/ StartImport \/ CreateJob \/ ChooseReplace
  \/ \E f \in Packages \cup {NoFile} : ChooseFile(f)
  \/ \E k \in Kinds : PollJob(k)
  \/ \E i \in DOMAIN jobs : JobMoves(i)
  \/ \E a \in pasks : PanelServe(a) \/ PanelLost(a) \/ PanelAnswered(a)
PanelSpec == PanelInit /\ [][PanelNext]_pvars

-----------------------------------------------------------------------------
(* What can be imported is the file the panel names: the upload that is ready  *)
(* is never that of a file chosen before and replaced while it was on its way. *)
UploadIsOfChosenFile == panel.upload # NoFile => jobs[panel.upload].file = panel.file
=============================================================================
