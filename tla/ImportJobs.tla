------------------------------- MODULE ImportJobs -------------------------------
(***************************************************************************)
(* Imports of .sgpdata archives: SgpDataImportService, which stores an     *)
(* upload and queues its import, SgpDataImportWorker, which runs one job   *)
(* at a time, the sweep of expired uploads and the boot that follows the   *)
(* end of a server run.  They share the rows of data_import_jobs, which    *)
(* each of them reads, changes in a copy of its own and writes whole, and  *)
(* the uploaded files.                                                     *)
(*                                                                         *)
(* Every await is a step boundary.  Of the imported data the model keeps   *)
(* which points of one device the telemetry table holds.                   *)
(***************************************************************************)
EXTENDS Integers, Sequences, FiniteSets

CONSTANTS
  Jobs,          \* uploads; a job has the id of its upload
  Requests,      \* POST /api/sgpdata/import/jobs
  Points,        \* telemetry points
  NoJob,
  File,          \* the points of a job's archive, of a device it can import
  DateRange,     \* the points of its date range
  Ranged,        \* jobs whose preview has a date range
  \* Bounds of the model.
  MaxFaults      \* statements and reads that fail, and ends of a server run

ASSUME ImportAssumption ==
  /\ NoJob \notin Jobs
  /\ File \in [Jobs -> SUBSET Points] /\ DateRange \in [Jobs -> SUBSET Points]
  /\ \A j \in Jobs : File[j] \subseteq DateRange[j]
  /\ Ranged \subseteq Jobs
  /\ MaxFaults \in Nat

VARIABLES
  rows,       \* data_import_jobs, by id
  files,      \* uploads whose file exists
  expired,    \* uploads older than their time to live
  table,      \* the points in device_datas
  uploads,    \* where storeUpload stands with each upload
  requests,   \* where each createJob stands, with the mode it asks for
  queue,      \* of the worker
  worker,     \* the worker's job: its copy, its step and the points still to import
  sweep,      \* where cleanupExpired stands, with the rows it read
  faults,     \* of either kind so far
  \* History variables, read by the properties only.
  contested,  \* jobs two requests have accepted
  touched,    \* the job that changed the table last
  live,       \* points the device has sent since a job last replaced some
  orphans     \* files without a row when a server run ended

history == <<contested, touched, live, orphans>>
vars == <<rows, files, expired, table, uploads, requests, queue, worker, sweep, faults, history>>

Modes    == {"merge", "replace"}
Active   == {"queued", "running"}
Settled  == {"completed", "failed", "interrupted"}
Statuses == {"uploading", "validating", "preview_ready"} \cup Active \cup Settled

Row == [status : Statuses, mode : Modes]

NoRequest == [step |-> "none", job |-> NoJob, mode |-> "merge"]
Idle      == [step |-> "idle", job |-> NoJob, mode |-> "merge", left |-> {}]
NoSweep   == [step |-> "idle", ids |-> {}]

-----------------------------------------------------------------------------
(* The repository.                                                         *)

\* save and update: an upsert, which brings back a row that was deleted.
Persist(j, status, mode) ==
  rows' = [k \in DOMAIN rows \cup {j} |->
             IF k = j THEN [status |-> status, mode |-> mode] ELSE rows[k]]

ActiveAtBoot == {"uploading", "validating"} \cup Active

MarkActiveJobsInterrupted ==
  rows' = [j \in DOMAIN rows |-> IF rows[j].status \in ActiveAtBoot
                                 THEN [rows[j] EXCEPT !.status = "interrupted"] ELSE rows[j]]

-----------------------------------------------------------------------------
(* storeUpload.                                                            *)

SaveUpload(j) ==
  /\ uploads[j] = "none"
  /\ Persist(j, "uploading", "merge")
  /\ uploads' = [uploads EXCEPT ![j] = "opening"]
  /\ UNCHANGED <<files, expired, table, requests, queue, worker, sweep, faults, history>>

OpenUpload(j) ==
  /\ uploads[j] = "opening"
  /\ files' = files \cup {j}
  /\ uploads' = [uploads EXCEPT ![j] = "receiving"]
  /\ UNCHANGED <<rows, expired, table, requests, queue, worker, sweep, faults, history>>

\* The stream ends: the upload is validated next, or too large or empty.
ReceiveUpload(j) ==
  /\ uploads[j] = "receiving"
  /\ \/ /\ Persist(j, "validating", "merge")
        /\ uploads' = [uploads EXCEPT ![j] = "inspecting"]
     \/ /\ uploads' = [uploads EXCEPT ![j] = "rejecting"]
        /\ UNCHANGED rows
  /\ UNCHANGED <<files, expired, table, requests, queue, worker, sweep, faults, history>>

\* inspectSgpDataFile finds the archive sound, or not.
InspectUpload(j) ==
  /\ uploads[j] = "inspecting"
  /\ \/ /\ j \in files
        /\ Persist(j, "preview_ready", "merge")
        /\ uploads' = [uploads EXCEPT ![j] = "done"]
     \/ /\ uploads' = [uploads EXCEPT ![j] = "rejecting"]
        /\ UNCHANGED rows
  /\ UNCHANGED <<files, expired, table, requests, queue, worker, sweep, faults, history>>

RejectUpload(j) ==
  /\ uploads[j] = "rejecting"
  /\ Persist(j, "failed", "merge")
  /\ uploads' = [uploads EXCEPT ![j] = "removing"]
  /\ UNCHANGED <<files, expired, table, requests, queue, worker, sweep, faults, history>>

RemoveUpload(j) ==
  /\ uploads[j] = "removing"
  /\ files' = files \ {j}
  /\ uploads' = [uploads EXCEPT ![j] = "done"]
  /\ UNCHANGED <<rows, expired, table, requests, queue, worker, sweep, faults, history>>

\* The catch of storeUpload fails itself: the file stays.
UploadError(j) ==
  /\ uploads[j] = "rejecting" /\ faults < MaxFaults
  /\ faults' = faults + 1
  /\ uploads' = [uploads EXCEPT ![j] = "done"]
  /\ orphans' = orphans \cup ({j} \ DOMAIN rows)
  /\ UNCHANGED <<rows, files, expired, table, requests, queue, worker, sweep, contested, touched, live>>

-----------------------------------------------------------------------------
(* createJob.                                                              *)

\* Mutant: the status is not looked at.
AcceptableWhatever(j, mode) == mode = "replace" => j \in Ranged

Acceptable(j, mode) ==
  /\ rows[j].status = "preview_ready"
  /\ mode = "replace" => j \in Ranged

\* It reads the row and decides; the copy it will write says queued.
ReadUpload(r, j, mode) ==
  /\ requests[r].step = "none"
  /\ j \in DOMAIN rows /\ Acceptable(j, mode)
  /\ requests' = [requests EXCEPT ![r] = [step |-> "writing", job |-> j, mode |-> mode]]
  /\ contested' = IF \E q \in Requests : requests[q].job = j THEN contested \cup {j} ELSE contested
  /\ UNCHANGED <<rows, files, expired, table, uploads, queue, worker, sweep, faults, touched, live, orphans>>

WriteQueued(r) ==
  /\ requests[r].step = "writing"
  /\ Persist(requests[r].job, "queued", requests[r].mode)
  /\ requests' = [requests EXCEPT ![r].step = "enqueueing"]
  /\ UNCHANGED <<files, expired, table, uploads, queue, worker, sweep, faults, history>>

\* Mutant: the worker is not told of the job while it is busy.
PushedWhenIdle(j) == IF worker.step = "idle" THEN Append(queue, j) ELSE queue

Pushed(j) == IF \E i \in DOMAIN queue : queue[i] = j THEN queue ELSE Append(queue, j)

Enqueue(r) ==
  /\ requests[r].step = "enqueueing"
  /\ queue' = Pushed(requests[r].job)
  /\ requests' = [requests EXCEPT ![r].step = "done"]
  /\ UNCHANGED <<rows, files, expired, table, uploads, worker, sweep, faults, history>>

RequestError(r) ==
  /\ requests[r].step = "writing" /\ faults < MaxFaults
  /\ faults' = faults + 1
  /\ requests' = [requests EXCEPT ![r].step = "done"]
  /\ UNCHANGED <<rows, files, expired, table, uploads, queue, worker, sweep, history>>

-----------------------------------------------------------------------------
(* The worker: drain and run.                                              *)

Working(step) == worker.step = step

GoOn(step) == worker' = [worker EXCEPT !.step = step]

Take ==
  /\ Working("idle") /\ queue # <<>>
  /\ queue' = Tail(queue)
  /\ worker' = [Idle EXCEPT !.step = "reading", !.job = Head(queue)]
  /\ UNCHANGED <<rows, files, expired, table, uploads, requests, sweep, faults, history>>

Runnable(j) == j \in DOMAIN rows /\ rows[j].status = "queued"

\* A job that is gone, or queued no longer, is skipped.
ReadJob ==
  /\ Working("reading")
  /\ worker' = IF Runnable(worker.job)
               THEN [worker EXCEPT !.step = "starting", !.mode = rows[worker.job].mode] ELSE Idle
  /\ UNCHANGED <<rows, files, expired, table, uploads, requests, queue, sweep, faults, history>>

Start ==
  /\ Working("starting")
  /\ Persist(worker.job, "running", worker.mode)
  /\ GoOn("verifying")
  /\ UNCHANGED <<files, expired, table, uploads, requests, queue, sweep, faults, history>>

\* The file's hash is checked; zones and devices are then taken from the
\* preview, and the row written with each stage.
Verify ==
  /\ Working("verifying")
  /\ IF worker.job \in files
     THEN /\ Persist(worker.job, "running", worker.mode)
          /\ GoOn(IF worker.mode = "replace" THEN "replacing" ELSE "opening")
     ELSE GoOn("failing") /\ UNCHANGED rows
  /\ UNCHANGED <<files, expired, table, uploads, requests, queue, sweep, faults, history>>

\* Mutant: what the archive holds is left in place.
Unreplaced == table

Replaced == table \ DateRange[worker.job]

\* replaceExistingData.
Replace ==
  /\ Working("replacing")
  /\ IF worker.job \in Ranged
     THEN table' = Replaced /\ touched' = worker.job /\ live' = {} /\ GoOn("opening")
     ELSE GoOn("failing") /\ UNCHANGED <<table, touched, live>>
  /\ UNCHANGED <<rows, files, expired, uploads, requests, queue, sweep, faults, contested, orphans>>

OpenArchive ==
  /\ Working("opening")
  /\ IF worker.job \in files
     THEN /\ Persist(worker.job, "running", worker.mode)
          /\ worker' = [worker EXCEPT !.step = "importing", !.left = File[worker.job]]
     ELSE GoOn("failing") /\ UNCHANGED rows
  /\ UNCHANGED <<files, expired, table, uploads, requests, queue, sweep, faults, history>>

\* A batch is merged into the table, and the progress written.
ImportBatch ==
  /\ Working("importing")
  /\ \E batch \in SUBSET worker.left \ {{}} :
       /\ table' = table \cup batch
       /\ worker' = [worker EXCEPT !.left = @ \ batch]
  /\ touched' = worker.job
  /\ Persist(worker.job, "running", worker.mode)
  /\ UNCHANGED <<files, expired, uploads, requests, queue, sweep, faults, contested, live, orphans>>

AllRead == worker.left = {}

EndOfArchive ==
  /\ Working("importing") /\ AllRead
  /\ Persist(worker.job, "running", worker.mode)
  /\ GoOn("rebuilding")
  /\ UNCHANGED <<files, expired, table, uploads, requests, queue, sweep, faults, history>>

Complete ==
  /\ Working("rebuilding")
  /\ Persist(worker.job, "completed", worker.mode)
  /\ GoOn("removing")
  /\ UNCHANGED <<files, expired, table, uploads, requests, queue, sweep, faults, history>>

RemoveFile ==
  /\ Working("removing")
  /\ files' = files \ {worker.job}
  /\ worker' = Idle
  /\ UNCHANGED <<rows, expired, table, uploads, requests, queue, sweep, faults, history>>

\* Any statement or read of run may fail; its catch writes the row.
RunSteps == {"starting", "verifying", "replacing", "opening", "importing", "rebuilding"}

RunError ==
  /\ worker.step \in RunSteps /\ faults < MaxFaults
  /\ faults' = faults + 1
  /\ GoOn("failing")
  /\ UNCHANGED <<rows, files, expired, table, uploads, requests, queue, sweep, history>>

Fail ==
  /\ Working("failing")
  /\ Persist(worker.job, "failed", worker.mode)
  /\ worker' = Idle
  /\ UNCHANGED <<files, expired, table, uploads, requests, queue, sweep, faults, history>>

\* Telemetry the device sends meanwhile.
Ingest(p) ==
  /\ p \notin table
  /\ table' = table \cup {p} /\ live' = live \cup {p}
  /\ UNCHANGED <<rows, files, expired, uploads, requests, queue, worker, sweep, faults, contested, touched, orphans>>

-----------------------------------------------------------------------------
(* The sweep of expired uploads, by the hour and at boot.                  *)

Expire(j) ==
  /\ j \in DOMAIN rows \ expired
  /\ expired' = expired \cup {j}
  /\ UNCHANGED <<rows, files, table, uploads, requests, queue, worker, sweep, faults, history>>

Due == DOMAIN rows \cap expired

SweepRead ==
  /\ sweep.step = "idle" /\ Due # {}
  /\ sweep' = [step |-> "deleting", ids |-> Due]
  /\ UNCHANGED <<rows, files, expired, table, uploads, requests, queue, worker, faults, history>>

\* Mutant: the DELETE takes what is expired by now.
DeletedByTime == Due

Deleted == sweep.ids

SweepDelete ==
  /\ sweep.step = "deleting"
  /\ rows' = [j \in DOMAIN rows \ Deleted |-> rows[j]]
  /\ sweep' = [sweep EXCEPT !.step = "unlinking"]
  /\ UNCHANGED <<files, expired, table, uploads, requests, queue, worker, faults, history>>

SweepUnlink ==
  /\ sweep.step = "unlinking"
  /\ files' = files \ sweep.ids
  /\ sweep' = NoSweep
  /\ UNCHANGED <<rows, expired, table, uploads, requests, queue, worker, faults, history>>

-----------------------------------------------------------------------------
(* The end of a server run, and the boot of the next.                      *)

Restart ==
  /\ faults < MaxFaults /\ faults' = faults + 1
  /\ MarkActiveJobsInterrupted
  /\ uploads'  = [j \in Jobs |-> IF uploads[j] = "none" THEN "none" ELSE "done"]
  /\ requests' = [r \in Requests |-> IF requests[r].step = "none" THEN NoRequest
                                     ELSE [requests[r] EXCEPT !.step = "done"]]
  /\ queue' = <<>> /\ worker' = Idle /\ sweep' = NoSweep
  /\ orphans' = orphans \cup (files \ DOMAIN rows)
  /\ UNCHANGED <<files, expired, table, contested, touched, live>>

-----------------------------------------------------------------------------
Init ==
  /\ rows = <<>> /\ files = {} /\ expired = {}
  /\ table \in SUBSET Points
  /\ uploads = [j \in Jobs |-> "none"]
  /\ requests = [r \in Requests |-> NoRequest]
  /\ queue = <<>> /\ worker = Idle /\ sweep = NoSweep
  /\ faults = 0
  /\ contested = {} /\ touched = NoJob /\ live = {} /\ orphans = {}

Upload(j)  == SaveUpload(j) \/ OpenUpload(j) \/ ReceiveUpload(j) \/ InspectUpload(j) \/ RejectUpload(j) \/ RemoveUpload(j)
Request(r) == WriteQueued(r) \/ Enqueue(r)
Work  == Take \/ ReadJob \/ Start \/ Verify \/ Replace \/ OpenArchive \/ ImportBatch \/ EndOfArchive
         \/ Complete \/ RemoveFile \/ Fail
Sweep == SweepRead \/ SweepDelete \/ SweepUnlink

Next ==
  \/ \E j \in Jobs : Upload(j) \/ UploadError(j) \/ Expire(j)
  \/ \E p \in Points : Ingest(p)
  \/ \E r \in Requests : Request(r) \/ RequestError(r) \/ \E j \in Jobs, mode \in Modes : ReadUpload(r, j, mode)
  \/ Work \/ RunError \/ Sweep \/ Restart

\* Every statement is answered, and the worker goes on with its queue.
Fairness == WF_vars(Work) /\ \A r \in Requests : WF_vars(Request(r))

Spec == Init /\ [][Next]_vars /\ Fairness

-----------------------------------------------------------------------------
(* Properties.                                                             *)

\* Files and rows belong together: an upload whose preview is shown still has its
\* file, unless its time is over, and a file without a row is still being uploaded or
\* about to be removed, unless the run that would have done so has ended.
FilesMatchRows ==
  /\ \A j \in DOMAIN rows \ expired : rows[j].status = "preview_ready" => j \in files
  /\ \A j \in files \ orphans :
       \/ j \in DOMAIN rows \/ uploads[j] \notin {"none", "done"}
       \/ sweep.step = "unlinking" /\ j \in sweep.ids

\* A job that says completed has all points of its archive in the table; when
\* it was to replace, no other point of its range, but for those the device has
\* sent since: no second job's points slip in.
CompletedIsStored ==
  \A j \in DOMAIN rows : rows[j].status = "completed" /\ touched = j =>
    /\ File[j] \subseteq table
    /\ rows[j].mode = "replace" => table \cap DateRange[j] \subseteq File[j] \cup live

\* The outcome of a job stands, if one request only asked for its import.
OutcomeStands ==
  [][\A j \in DOMAIN rows \ contested :
       rows[j].status \in Settled /\ j \in DOMAIN rows' => rows'[j] = rows[j]]_vars

\* A queued job is settled in the end, whatever its run meets.
QueuedEnds ==
  \A j \in Jobs : (j \in DOMAIN rows /\ rows[j].status \in Active) ~>
                    ~(j \in DOMAIN rows /\ rows[j].status \in Active)

-----------------------------------------------------------------------------
(* The invariant the proofs induct on.                                     *)

\* Every variable has its type, and the worker has a job whenever it is not idle.
TypeOK ==
  /\ DOMAIN rows \subseteq Jobs /\ \A j \in DOMAIN rows : rows[j] \in Row
  /\ files \subseteq Jobs /\ expired \subseteq Jobs /\ table \subseteq Points
  /\ uploads \in [Jobs -> {"none", "opening", "receiving", "inspecting", "rejecting", "removing", "done"}]
  /\ requests \in [Requests -> [step : {"none", "writing", "enqueueing", "done"},
                                job : Jobs \cup {NoJob}, mode : Modes]]
  /\ \A r \in Requests : requests[r].job = NoJob <=> requests[r].step = "none"
  /\ queue \in Seq(Jobs)
  /\ worker \in [step : RunSteps \cup {"idle", "reading", "removing", "failing"},
                 job : Jobs \cup {NoJob}, mode : Modes, left : SUBSET Points]
  /\ worker.job = NoJob <=> worker.step = "idle"
  /\ sweep \in [step : {"idle", "deleting", "unlinking"}, ids : SUBSET Jobs]
  /\ faults \in Nat
  /\ contested \subseteq Jobs /\ touched \in Jobs \cup {NoJob} /\ live \subseteq Points /\ orphans \subseteq Jobs

\* The row of j, if there is one, has one of these.
Is(j, statuses) == j \in DOMAIN rows => rows[j].status \in statuses

Queued(j) == \E i \in DOMAIN queue : queue[i] = j
Quiet(j)  == ~Queued(j) /\ worker.job # j
Asked(j)  == \E r \in Requests : requests[r].job = j

\* Until its upload is over nobody else writes a job.
UploadStage(j) ==
  /\ uploads[j] = "none" => j \notin DOMAIN rows
  /\ uploads[j] \in {"opening", "receiving"} => Is(j, {"uploading"})
  /\ uploads[j] = "inspecting" => Is(j, {"validating"})
  /\ uploads[j] = "rejecting" => Is(j, {"uploading", "validating"})
  /\ uploads[j] = "removing" => Is(j, {"failed"})
  /\ uploads[j] # "done" => Quiet(j) /\ ~Asked(j)

\* A job one request asked for is with the request, in the queue or with the worker,
\* and with none of them once it is settled.
JobStage(j) ==
  /\ \A q, r \in Requests : requests[q].job = j /\ requests[r].job = j => q = r
  /\ ~Asked(j) => Quiet(j)
  /\ \A r \in Requests : requests[r].job = j =>
       /\ requests[r].step = "writing" => Quiet(j) /\ Is(j, {"preview_ready"})
       /\ requests[r].step = "enqueueing" => Quiet(j) /\ Is(j, {"queued"})
  /\ Queued(j) => worker.job # j /\ Is(j, {"queued"})
  /\ worker.job = j =>
       /\ worker.step \in {"reading", "starting"} => Is(j, {"queued"})
       /\ worker.step \in (RunSteps \ {"starting"}) \cup {"failing"} => Is(j, Active)
       /\ worker.step = "removing" => Is(j, {"completed"})

QueueOnce == \A i, k \in DOMAIN queue : queue[i] = queue[k] => i = k

\* What the worker runs was queued when it read it.
WorkerRuns ==
  /\ worker.step \notin {"idle", "reading"} => Is(worker.job, Statuses \ {"preview_ready"})
  /\ worker.step \in RunSteps \cup {"failing"} => Is(worker.job, Statuses \ {"completed"})

\* What it has imported so far is in the table, and of what it replaces nothing else.
WorkerStores ==
  /\ worker.step = "importing" => /\ worker.left \subseteq File[worker.job]
                                  /\ File[worker.job] \ worker.left \subseteq table
  /\ worker.step = "rebuilding" => File[worker.job] \subseteq table
  /\ worker.mode = "replace" /\ worker.step \in {"opening", "importing", "rebuilding"} =>
       table \cap DateRange[worker.job] \subseteq File[worker.job] \cup live

JobInv ==
  /\ sweep.ids \subseteq expired
  /\ FilesMatchRows /\ CompletedIsStored
  /\ QueueOnce /\ WorkerRuns /\ WorkerStores
  /\ \A j \in Jobs : UploadStage(j)
  /\ \A j \in Jobs \ contested : JobStage(j)

=============================================================================
