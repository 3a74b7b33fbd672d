----------------------- MODULE StoredTelemetryProofs -----------------------
(***************************************************************************)
(* Proofs about ImportJobs and TelemetryStore, for any uploads, requests,  *)
(* archives, points, ranges, limits, faults and restarts.                  *)
(*                                                                         *)
(* Those of ImportJobs induct on JobInv: each row is written by one of its *)
(* upload, its request, the queue's worker and the sweep at a time, so what *)
(* the next writer of a row may be follows from where each of these stands. *)
(*                                                                         *)
(* Those of TelemetryStore induct on StoreInv: in an hour that nothing is  *)
(* known to have gone wrong in, a point that is stored and not yet counted *)
(* is a row of its own, and the summaries are those of the rows without    *)
(* the rows of such points; and on StoreWhole: an export that nothing has  *)
(* disturbed has read, in their order, the counted rows as far as it is.   *)
(* Both rest on what sums of values, means in lowest terms and rows in     *)
(* their order are, which is proved first.                                 *)
(***************************************************************************)
EXTENDS ImportJobs, TelemetryStore, FiniteSetTheorems, WellFoundedInduction, TLAPS

(* The rows and the queue.                                                 *)

\* An upsert changes one row.
LEMMA PersistOne ==
  ASSUME NEW j, NEW status, NEW mode, Persist(j, status, mode)
  PROVE  /\ DOMAIN rows' = DOMAIN rows \cup {j}
         /\ rows'[j] = [status |-> status, mode |-> mode]
         /\ \A k \in DOMAIN rows : k # j => rows'[k] = rows[k]
  BY DEF Persist

LEMMA PersistType ==
  ASSUME TypeOK, NEW j \in Jobs, NEW status \in Statuses, NEW mode \in Modes, Persist(j, status, mode)
  PROVE  DOMAIN rows' \subseteq Jobs /\ \A k \in DOMAIN rows' : rows'[k] \in Row
<1>1. [status |-> status, mode |-> mode] \in Row
  BY DEF Row
<1>2. \A k \in DOMAIN rows' : k = j \/ (k \in DOMAIN rows /\ rows'[k] = rows[k])
  BY DEF Persist
<1>3. rows'[j] = [status |-> status, mode |-> mode] /\ DOMAIN rows' = DOMAIN rows \cup {j}
  BY DEF Persist
<1>4. QED
  BY <1>1, <1>2, <1>3 DEF TypeOK

\* The types of the worker and of the requests, in parts.
LEMMA WorkerType ==
  ASSUME TypeOK
  PROVE  /\ worker.mode \in Modes /\ worker.left \subseteq Points
         /\ worker.step # "idle" => worker.job \in Jobs
  BY ImportAssumption DEF TypeOK

LEMMA QueueTypes ==
  ASSUME TypeOK
  PROVE  /\ \A j \in Jobs : Pushed(j) \in Seq(Jobs)
         /\ queue # <<>> => Head(queue) \in Jobs /\ Tail(queue) \in Seq(Jobs)
  BY DEF TypeOK, Pushed

LEMMA GoOnType ==
  ASSUME TypeOK, NEW step \in RunSteps \cup {"removing", "failing"}, GoOn(step), worker.step # "idle"
  PROVE  /\ worker' \in [step : RunSteps \cup {"idle", "reading", "removing", "failing"},
                          job : Jobs \cup {NoJob}, mode : Modes, left : SUBSET Points]
         /\ worker'.job = NoJob <=> worker'.step = "idle"
  BY DEF GoOn, TypeOK, RunSteps

\* Every step keeps the types.
LEMMA TypeCorrectStep == TypeOK /\ [Next]_vars => TypeOK'
<1> SUFFICES ASSUME TypeOK, [Next]_vars PROVE TypeOK'
  OBVIOUS
<1> USE DEF history
<1>0. CASE UNCHANGED vars
  BY <1>0 DEF vars, TypeOK
<1>1. ASSUME NEW j \in Jobs,
             SaveUpload(j) \/ ReceiveUpload(j) \/ InspectUpload(j) \/ RejectUpload(j)
      PROVE  TypeOK'
  <2>1. DOMAIN rows' \subseteq Jobs /\ \A k \in DOMAIN rows' : rows'[k] \in Row
    BY <1>1, PersistType DEF SaveUpload, ReceiveUpload, InspectUpload, RejectUpload, Statuses, Active, Settled, Modes, TypeOK
  <2> QED
    BY <1>1, <2>1 DEF SaveUpload, ReceiveUpload, InspectUpload, RejectUpload, TypeOK
<1>2. ASSUME NEW j \in Jobs, OpenUpload(j) \/ RemoveUpload(j) \/ UploadError(j) \/ Expire(j)
      PROVE  TypeOK'
  BY <1>2 DEF OpenUpload, RemoveUpload, UploadError, Expire, TypeOK
<1>3. ASSUME NEW p \in Points, Ingest(p) PROVE TypeOK'
  BY <1>3 DEF Ingest, TypeOK
<1>4. ASSUME NEW r \in Requests, WriteQueued(r) PROVE TypeOK'
  <2>1. requests[r].job \in Jobs /\ requests[r].mode \in Modes
    BY <1>4 DEF WriteQueued, TypeOK
  <2>2. DOMAIN rows' \subseteq Jobs /\ \A k \in DOMAIN rows' : rows'[k] \in Row
    BY <1>4, <2>1, PersistType DEF WriteQueued, Statuses, Active
  <2> QED
    BY <1>4, <2>2 DEF WriteQueued, TypeOK
<1>5. ASSUME NEW r \in Requests, Enqueue(r) \/ RequestError(r) PROVE TypeOK'
  <2>1. requests[r].job \in Jobs
    BY <1>5 DEF Enqueue, RequestError, TypeOK
  <2>2. requests' = [requests EXCEPT ![r].step = "done"] /\ requests[r].step # "none"
    BY <1>5 DEF Enqueue, RequestError
  <2>3. requests' \in [Requests -> [step : {"none", "writing", "enqueueing", "done"},
                                    job : Jobs \cup {NoJob}, mode : Modes]]
        /\ \A q \in Requests : requests'[q].job = NoJob <=> requests'[q].step = "none"
    BY <2>1, <2>2, ImportAssumption DEF TypeOK
  <2>4. queue' \in Seq(Jobs) /\ faults' \in Nat
    BY <1>5, <2>1, QueueTypes DEF Enqueue, RequestError, TypeOK
  <2> QED
    BY <1>5, <2>3, <2>4 DEF Enqueue, RequestError, TypeOK
<1>6. ASSUME NEW r \in Requests, NEW j \in Jobs, NEW mode \in Modes, ReadUpload(r, j, mode)
      PROVE  TypeOK'
  BY <1>6, ImportAssumption DEF ReadUpload, TypeOK
<1>7. CASE Take
  BY <1>7, QueueTypes, ImportAssumption DEF Take, Working, Idle, TypeOK, Modes
<1>8. CASE ReadJob
  <2>1. worker' \in [step : RunSteps \cup {"idle", "reading", "removing", "failing"},
                     job : Jobs \cup {NoJob}, mode : Modes, left : SUBSET Points]
        /\ (worker'.job = NoJob <=> worker'.step = "idle")
    <3>1. CASE Runnable(worker.job)
      <4>1. rows[worker.job].mode \in Modes
        BY <3>1 DEF Runnable, TypeOK, Row
      <4> QED
        BY <1>8, <3>1, <4>1 DEF ReadJob, Working, TypeOK, RunSteps
    <3>2. CASE ~Runnable(worker.job)
      BY <1>8, <3>2 DEF ReadJob, Working, TypeOK, Idle, Modes
    <3> QED
      BY <3>1, <3>2
  <2> QED
    BY <1>8, <2>1 DEF ReadJob, TypeOK
<1>9. CASE Start \/ Verify \/ OpenArchive \/ ImportBatch \/ EndOfArchive \/ Complete \/ Fail
  <2>1. worker.job \in Jobs /\ worker.mode \in Modes
    BY <1>9, WorkerType DEF Start, Verify, OpenArchive, ImportBatch, EndOfArchive, Complete, Fail, Working
  <2>2. DOMAIN rows' \subseteq Jobs /\ \A k \in DOMAIN rows' : rows'[k] \in Row
    BY <1>9, <2>1, PersistType
    DEF Start, Verify, OpenArchive, ImportBatch, EndOfArchive, Complete, Fail, Statuses, Active, Settled, TypeOK
  <2>3. worker' \in [step : RunSteps \cup {"idle", "reading", "removing", "failing"},
                     job : Jobs \cup {NoJob}, mode : Modes, left : SUBSET Points]
        /\ (worker'.job = NoJob <=> worker'.step = "idle")
    <3>1. File[worker.job] \subseteq Points
      BY <2>1, ImportAssumption
    <3>2. CASE OpenArchive
      BY <3>1, <3>2 DEF OpenArchive, Working, GoOn, TypeOK, RunSteps
    <3>3. CASE ImportBatch
      BY <3>3 DEF ImportBatch, Working, TypeOK, RunSteps
    <3>4. CASE Fail
      BY <3>4, ImportAssumption DEF Fail, Idle, TypeOK, Modes
    <3>5. CASE Start \/ Verify \/ EndOfArchive \/ Complete
      BY <3>5, GoOnType DEF Start, Verify, EndOfArchive, Complete, Working, RunSteps
    <3> QED
      BY <1>9, <3>2, <3>3, <3>4, <3>5
  <2>4. table' \subseteq Points
    BY <1>9, WorkerType DEF Start, Verify, OpenArchive, ImportBatch, EndOfArchive, Complete, Fail, TypeOK
  <2> QED
    BY <1>9, <2>1, <2>2, <2>3, <2>4
    DEF Start, Verify, OpenArchive, ImportBatch, EndOfArchive, Complete, Fail, TypeOK
<1>10. CASE Replace
  BY <1>10, WorkerType DEF Replace, Working, GoOn, Replaced, TypeOK, RunSteps
<1>11. CASE RemoveFile \/ RunError
  <2>1. worker' \in [step : RunSteps \cup {"idle", "reading", "removing", "failing"},
                     job : Jobs \cup {NoJob}, mode : Modes, left : SUBSET Points]
        /\ (worker'.job = NoJob <=> worker'.step = "idle")
    <3>1. CASE RemoveFile
      BY <3>1, ImportAssumption DEF RemoveFile, Idle, TypeOK, Modes
    <3>2. CASE RunError
      BY <3>2, GoOnType DEF RunError, RunSteps
    <3> QED
      BY <1>11, <3>1, <3>2
  <2> QED
    BY <1>11, <2>1 DEF RemoveFile, RunError, TypeOK
<1>12. CASE Sweep
  BY <1>12 DEF Sweep, SweepRead, SweepDelete, SweepUnlink, Deleted, Due, NoSweep, TypeOK
<1>13. CASE Restart
  <2>1. DOMAIN rows' \subseteq Jobs /\ \A k \in DOMAIN rows' : rows'[k] \in Row
    BY <1>13 DEF Restart, MarkActiveJobsInterrupted, TypeOK, Row, Statuses, Settled
  <2>2. requests' \in [Requests -> [step : {"none", "writing", "enqueueing", "done"},
                                    job : Jobs \cup {NoJob}, mode : Modes]]
        /\ \A r \in Requests : requests'[r].job = NoJob <=> requests'[r].step = "none"
    BY <1>13 DEF Restart, TypeOK, NoRequest, Modes
  <2> QED
    BY <1>13, <2>1, <2>2 DEF Restart, TypeOK, Idle, NoSweep, Modes
<1>14. QED
  BY <1>0, <1>1, <1>2, <1>3, <1>4, <1>5, <1>6, <1>7, <1>8, <1>9, <1>10, <1>11, <1>12, <1>13
  DEF Next, Upload, Request, Work

\* The type invariant, for every value of the constants.
THEOREM TypeCorrect == Spec => []TypeOK
<1>1. Init => TypeOK
  BY ImportAssumption DEF Init, TypeOK, NoRequest, Idle, NoSweep, Modes, RunSteps
<1>2. QED
  BY <1>1, TypeCorrectStep, PTL DEF Spec

-----------------------------------------------------------------------------
(* The queue.                                                              *)

\* enqueue adds a job unless it waits already, and drain takes the first.
LEMMA PushQueue ==
  ASSUME TypeOK, QueueOnce, NEW j \in Jobs, queue' = Pushed(j)
  PROVE  QueueOnce' /\ \A k \in Jobs : Queued(k)' <=> Queued(k) \/ k = j
<1>1. CASE Queued(j)
  BY <1>1 DEF Pushed, Queued, QueueOnce
<1>2. CASE ~Queued(j)
  <2>1. queue' = Append(queue, j) /\ queue \in Seq(Jobs)
    BY <1>2 DEF Pushed, Queued, TypeOK
  <2>2. /\ Len(queue) \in Nat /\ DOMAIN queue = 1..Len(queue) /\ DOMAIN queue' = 1..(Len(queue) + 1)
        /\ queue'[Len(queue) + 1] = j
        /\ \A i \in 1..Len(queue) : queue'[i] = queue[i]
    BY <2>1
  <2>3. QED
    BY <1>2, <2>2 DEF Queued, QueueOnce
<1>3. QED
  BY <1>1, <1>2

LEMMA TakeQueue ==
  ASSUME TypeOK, QueueOnce, queue # <<>>, queue' = Tail(queue)
  PROVE  /\ QueueOnce' /\ Head(queue) \in Jobs /\ Queued(Head(queue))
         /\ \A k \in Jobs : Queued(k)' <=> Queued(k) /\ k # Head(queue)
<1>1. /\ Len(queue) \in Nat \ {0} /\ DOMAIN queue = 1..Len(queue) /\ DOMAIN queue' = 1..(Len(queue) - 1)
      /\ Head(queue) = queue[1] /\ Head(queue) \in Jobs
      /\ \A i \in 1..(Len(queue) - 1) : queue'[i] = queue[i + 1]
  BY DEF TypeOK
<1>2. QueueOnce' /\ Queued(Head(queue))
  BY <1>1 DEF QueueOnce, Queued
<1>3. ASSUME NEW k \in Jobs, Queued(k)' PROVE Queued(k) /\ k # Head(queue)
  BY <1>1, <1>3 DEF Queued, QueueOnce
<1>4. ASSUME NEW k \in Jobs, Queued(k), k # Head(queue) PROVE Queued(k)'
  <2>1. PICK i \in 1..Len(queue) : queue[i] = k
    BY <1>1, <1>4 DEF Queued
  <2>2. i - 1 \in 1..(Len(queue) - 1) /\ (i - 1) + 1 = i
    BY <1>1, <1>4, <2>1
  <2>3. QED
    BY <1>1, <2>1, <2>2 DEF Queued
<1>5. QED
  BY <1>1, <1>2, <1>3, <1>4

-----------------------------------------------------------------------------
(* Each part of the invariant, from one step to the next.                  *)

LEMMA QueueOnceStep == TypeOK /\ QueueOnce /\ [Next]_vars => QueueOnce'
<1> SUFFICES ASSUME TypeOK, QueueOnce, [Next]_vars PROVE QueueOnce'
  OBVIOUS
<1>1. CASE queue' = queue
  BY <1>1 DEF QueueOnce
<1>2. CASE queue' = <<>>
  BY <1>2 DEF QueueOnce
<1>3. CASE Take
  BY <1>3, TakeQueue DEF Take
<1>4. ASSUME NEW r \in Requests, Enqueue(r) PROVE QueueOnce'
  <2>1. requests[r].job \in Jobs
    BY <1>4 DEF Enqueue, TypeOK
  <2>2. QED
    BY <1>4, <2>1, PushQueue DEF Enqueue
<1>5. QED
  BY <1>1, <1>2, <1>3, <1>4
  DEF Next, vars, Upload, SaveUpload, OpenUpload, ReceiveUpload, InspectUpload, RejectUpload, RemoveUpload, UploadError,
      Expire, Ingest, Request, WriteQueued, RequestError, ReadUpload, Work, ReadJob, Start, Verify, Replace, OpenArchive,
      ImportBatch, EndOfArchive, Complete, RemoveFile, Fail, RunError, Sweep, SweepRead, SweepDelete, SweepUnlink, Restart

\* The worker keeps its job until it ends it.
LEMMA WorkGoesOn ==
  ASSUME TypeOK, Work \/ RunError, ~Take
  PROVE  UNCHANGED queue /\ (worker'.job = worker.job \/ worker'.job = NoJob)
<1>1. ASSUME NEW step, GoOn(step) PROVE worker'.job = worker.job
  BY <1>1 DEF GoOn, TypeOK
<1>2. CASE ReadJob
  BY <1>2 DEF ReadJob, Idle, TypeOK
<1>3. CASE OpenArchive
  BY <1>3 DEF OpenArchive, GoOn, TypeOK
<1>4. CASE ImportBatch
  BY <1>4 DEF ImportBatch, TypeOK
<1>5. CASE RemoveFile \/ Fail
  BY <1>5 DEF RemoveFile, Fail, Idle
<1>6. CASE Start \/ Verify \/ Replace \/ EndOfArchive \/ Complete \/ RunError
  BY <1>1, <1>6 DEF Start, Verify, Replace, EndOfArchive, Complete, RunError
<1>7. QED
  BY <1>2, <1>3, <1>4, <1>5, <1>6 DEF Work

\* A job without a request is not written by one, and its upload over or not yet begun.
LEMMA UploadStageStep ==
  ASSUME TypeOK, JobInv, [Next]_vars, NEW j \in Jobs
  PROVE  UploadStage(j)'
<1>0. UploadStage(j) /\ QueueOnce
  BY DEF JobInv
<1>1. CASE uploads[j] = "done"
  <2>1. uploads'[j] = "done"
    BY <1>1 DEF Next, vars, TypeOK, Upload, SaveUpload, OpenUpload, ReceiveUpload, InspectUpload, RejectUpload, RemoveUpload,
        UploadError, Expire, Ingest, Request, WriteQueued, Enqueue, RequestError, ReadUpload, Work, Take, ReadJob, Start,
        Verify, Replace, OpenArchive, ImportBatch, EndOfArchive, Complete, RemoveFile, Fail, RunError,
        Sweep, SweepRead, SweepDelete, SweepUnlink, Restart
  <2>2. QED
    BY <2>1 DEF UploadStage
<1>2. CASE uploads[j] # "done"
  <2>0. Quiet(j) /\ ~Asked(j)
    BY <1>0, <1>2 DEF UploadStage
  <2>1. ASSUME NEW k \in Jobs, Upload(k) \/ UploadError(k) PROVE UploadStage(j)'
    <3>1. UNCHANGED <<queue, worker, requests>>
      BY <2>1 DEF Upload, SaveUpload, OpenUpload, ReceiveUpload, InspectUpload, RejectUpload, RemoveUpload, UploadError
    <3>2. (Quiet(j) /\ ~Asked(j))'
      BY <2>0, <3>1 DEF Quiet, Queued, Asked
    <3>3. CASE k = j
      BY <1>0, <2>1, <3>2, <3>3
      DEF UploadStage, Is, Persist, TypeOK,
          Upload, SaveUpload, OpenUpload, ReceiveUpload, InspectUpload, RejectUpload, RemoveUpload, UploadError
    <3>4. CASE k # j
      <4>1. uploads'[j] = uploads[j] /\ (j \in DOMAIN rows' <=> j \in DOMAIN rows) /\ (j \in DOMAIN rows => rows'[j] = rows[j])
        BY <2>1, <3>4 DEF Persist, TypeOK, Upload, SaveUpload, OpenUpload, ReceiveUpload, InspectUpload, RejectUpload,
                          RemoveUpload, UploadError
      <4>2. QED
        BY <1>0, <3>2, <4>1 DEF UploadStage, Is
    <3>5. QED
      BY <3>3, <3>4
  <2>2. ASSUME UNCHANGED uploads, j \in DOMAIN rows' => j \in DOMAIN rows /\ rows'[j] = rows[j], (Quiet(j) /\ ~Asked(j))'
        PROVE  UploadStage(j)'
    BY <1>0, <2>2 DEF UploadStage, Is
  <2>3. ASSUME NEW k \in Jobs, NEW status, NEW mode, Persist(k, status, mode), k # j
        PROVE  j \in DOMAIN rows' => j \in DOMAIN rows /\ rows'[j] = rows[j]
    BY <2>3 DEF Persist
  <2>4. ASSUME NEW r \in Requests, WriteQueued(r) \/ Enqueue(r) \/ RequestError(r) PROVE UploadStage(j)'
    <3>1. requests[r].job \in Jobs /\ requests[r].job # j
      BY <2>0, <2>4 DEF WriteQueued, Enqueue, RequestError, Asked, TypeOK
    <3>0. UNCHANGED <<worker, uploads>>
      BY <2>4 DEF WriteQueued, Enqueue, RequestError
    <3>7. \A q \in Requests : requests'[q].job = requests[q].job
      BY <2>4 DEF WriteQueued, Enqueue, RequestError, TypeOK
    <3>2. ~Asked(j)' /\ UNCHANGED <<worker, uploads>>
      BY <2>0, <3>0, <3>7 DEF Asked
    <3>3. ~Queued(j)'
      BY <1>0, <2>0, <2>4, <3>1, PushQueue DEF WriteQueued, Enqueue, RequestError, Quiet, Queued
    <3>4. j \in DOMAIN rows' => j \in DOMAIN rows /\ rows'[j] = rows[j]
      BY <2>3, <2>4, <3>1 DEF WriteQueued, Enqueue, RequestError
    <3>5. QED
      BY <2>0, <2>2, <3>2, <3>3, <3>4 DEF Quiet
  <2>5. ASSUME NEW r \in Requests, NEW k \in Jobs, NEW mode \in Modes, ReadUpload(r, k, mode) PROVE UploadStage(j)'
    <3>1. k # j
      BY <1>0, <1>2, <2>5 DEF ReadUpload, Acceptable, UploadStage, Is, TypeOK
    <3>2. (Quiet(j) /\ ~Asked(j))'
      BY <2>0, <2>5, <3>1 DEF ReadUpload, Quiet, Queued, Asked, TypeOK
    <3>3. QED
      BY <2>2, <2>5, <3>2 DEF ReadUpload
  <2>6. CASE Take
    <3>1. (Quiet(j) /\ ~Asked(j))'
      BY <1>0, <2>0, <2>6, TakeQueue DEF Take, Quiet, Asked, Idle
    <3>2. QED
      BY <2>2, <2>6, <3>1 DEF Take
  <2>7. CASE Work \/ RunError
    <3>1. UNCHANGED <<requests, uploads>>
      BY <2>7 DEF Work, Take, ReadJob, Start, Verify, Replace, OpenArchive, ImportBatch, EndOfArchive, Complete,
                  RemoveFile, Fail, RunError
    <3>2. CASE ~Take
      <4>1. UNCHANGED queue /\ (worker'.job = worker.job \/ worker'.job = NoJob)
        BY <2>7, <3>2, WorkGoesOn
      <4>2. j \in DOMAIN rows' => j \in DOMAIN rows /\ rows'[j] = rows[j]
        BY <2>0, <2>7, <3>2 DEF Work, ReadJob, Start, Verify, Replace, OpenArchive, ImportBatch, EndOfArchive, Complete,
                    RemoveFile, Fail, RunError, Persist, Quiet
      <4>3. QED
        BY <2>0, <2>2, <3>1, <4>1, <4>2, ImportAssumption DEF Quiet, Queued, Asked
    <3>3. QED
      BY <2>6, <3>2
  <2>8. CASE Sweep
    <3>1. UNCHANGED <<uploads, queue, worker, requests>> /\ (j \in DOMAIN rows' => j \in DOMAIN rows /\ rows'[j] = rows[j])
      BY <2>8 DEF Sweep, SweepRead, SweepDelete, SweepUnlink
    <3>2. QED
      BY <2>0, <2>2, <3>1 DEF Quiet, Queued, Asked
  <2>9. CASE Restart
    BY <1>0, <1>2, <2>0, <2>9, ImportAssumption
    DEF Restart, MarkActiveJobsInterrupted, NoRequest, Idle, UploadStage, Is, Quiet, Queued, Asked, TypeOK
  <2>10. ASSUME NEW k \in Jobs, Expire(k) PROVE UploadStage(j)'
    BY <2>0, <2>2, <2>10 DEF Expire, Quiet, Queued, Asked
  <2>11. ASSUME NEW p \in Points, Ingest(p) PROVE UploadStage(j)'
    BY <2>0, <2>2, <2>11 DEF Ingest, Quiet, Queued, Asked
  <2>12. CASE UNCHANGED vars
    BY <2>0, <2>2, <2>12 DEF vars, Quiet, Queued, Asked
  <2>13. QED
    BY <2>1, <2>4, <2>5, <2>7, <2>8, <2>9, <2>10, <2>11, <2>12 DEF Next, Request
<1>3. QED
  BY <1>1, <1>2

\* Where the worker stands tells the row of its job, if nobody else writes it.
LEMMA WorkerKeepsStage ==
  ASSUME TypeOK, Work \/ RunError, ~Take, NEW j \in Jobs, worker.job = j,
         worker.step \in {"reading", "starting"} => Is(j, {"queued"}),
         worker.step \in (RunSteps \ {"starting"}) \cup {"failing"} => Is(j, Active),
         worker'.job = j
  PROVE  /\ worker'.step \in {"reading", "starting"} => Is(j, {"queued"})'
         /\ worker'.step \in (RunSteps \ {"starting"}) \cup {"failing"} => Is(j, Active)'
         /\ worker'.step = "removing" => Is(j, {"completed"})'
<1>0. j # NoJob
  BY ImportAssumption
<1>1. CASE ReadJob
  BY <1>0, <1>1 DEF ReadJob, Working, Idle, TypeOK, Is, RunSteps, Runnable
<1>2. CASE Start \/ Verify \/ OpenArchive \/ ImportBatch \/ EndOfArchive \/ Complete
  <2>1. ASSUME NEW status, NEW mode, Persist(j, status, mode), NEW S, status \in S PROVE Is(j, S)'
    BY <2>1 DEF Persist, Is
  <2>2. ASSUME NEW step, GoOn(step) PROVE worker'.step = step
    BY <2>2 DEF GoOn, TypeOK
  <2>3. CASE Start \/ EndOfArchive \/ ImportBatch
    <3>1. worker'.step \in {"verifying", "rebuilding", "importing"}
      BY <1>2, <2>2, <2>3 DEF Start, EndOfArchive, ImportBatch, Working, TypeOK
    <3>2. Is(j, Active)'
      BY <2>1, <2>3 DEF Start, EndOfArchive, ImportBatch, Active
    <3> QED
      BY <3>1, <3>2
  <2>4. CASE Verify \/ OpenArchive
    <3>1. worker'.step \in {"replacing", "opening", "importing", "failing"}
      BY <2>2, <2>4 DEF Verify, OpenArchive, TypeOK
    <3>2. Is(j, Active)'
      <4>1. CASE UNCHANGED rows
        BY <2>4, <4>1 DEF Verify, OpenArchive, Working, Is, RunSteps
      <4>2. CASE Persist(j, "running", worker.mode)
        BY <2>1, <4>2 DEF Active
      <4> QED
        BY <2>4, <4>1, <4>2 DEF Verify, OpenArchive
    <3> QED
      BY <3>1, <3>2
  <2>5. CASE Complete
    <3>1. worker'.step = "removing" /\ Is(j, {"completed"})'
      BY <2>1, <2>2, <2>5 DEF Complete
    <3> QED
      BY <3>1 DEF RunSteps
  <2> QED
    BY <1>2, <2>3, <2>4, <2>5
<1>3. CASE Replace \/ RunError
  BY <1>3 DEF Replace, RunError, Working, GoOn, TypeOK, Is, RunSteps, Active
<1>4. CASE RemoveFile \/ Fail
  BY <1>0, <1>4 DEF RemoveFile, Fail, Idle
<1>5. QED
  BY <1>1, <1>2, <1>3, <1>4 DEF Work

\* A job is with one of them at a time: its request, the queue or the worker.
LEMMA JobStageStep ==
  ASSUME TypeOK, JobInv, [Next]_vars, NEW j \in Jobs, j \notin contested'
  PROVE  JobStage(j)'
<1>0. JobStage(j) /\ QueueOnce /\ UploadStage(j)
  <2>1. contested \subseteq contested'
    BY DEF Next, vars, history, Upload, SaveUpload, OpenUpload, ReceiveUpload, InspectUpload, RejectUpload, RemoveUpload,
        UploadError, Expire, Ingest, Request, WriteQueued, Enqueue, RequestError, ReadUpload, Work, Take, ReadJob, Start,
        Verify, Replace, OpenArchive, ImportBatch, EndOfArchive, Complete, RemoveFile, Fail, RunError,
        Sweep, SweepRead, SweepDelete, SweepUnlink, Restart
  <2>2. QED
    BY <2>1 DEF JobInv
<1>a. ASSUME j \in DOMAIN rows' => j \in DOMAIN rows /\ rows'[j] = rows[j], UNCHANGED <<requests, queue, worker>>
      PROVE  JobStage(j)'
  BY <1>0, <1>a DEF JobStage, Is, Quiet, Queued, Asked
<1>b. ASSUME NEW k, NEW status, NEW mode, Persist(k, status, mode), k # j
      PROVE  j \in DOMAIN rows' => j \in DOMAIN rows /\ rows'[j] = rows[j]
  BY <1>b DEF Persist
<1>1. ASSUME NEW k \in Jobs, Upload(k) \/ UploadError(k) \/ Expire(k) PROVE JobStage(j)'
  <2>1. UNCHANGED <<requests, queue, worker>>
    BY <1>1 DEF Upload, SaveUpload, OpenUpload, ReceiveUpload, InspectUpload, RejectUpload, RemoveUpload, UploadError, Expire
  <2>2. CASE uploads[j] # "done"
    <3>1. (Quiet(j) /\ ~Asked(j))'
      BY <1>0, <2>1, <2>2 DEF UploadStage, Quiet, Queued, Asked
    <3>2. QED
      BY <3>1 DEF JobStage, Quiet, Asked
  <2>3. CASE uploads[j] = "done"
    <3>1. j \in DOMAIN rows' => j \in DOMAIN rows /\ rows'[j] = rows[j]
      BY <1>1, <2>3 DEF Upload, SaveUpload, OpenUpload, ReceiveUpload, InspectUpload, RejectUpload, RemoveUpload,
                        UploadError, Expire, Persist
    <3>2. QED
      BY <1>a, <2>1, <3>1
  <2>4. QED
    BY <2>2, <2>3
<1>2. ASSUME NEW r \in Requests, NEW k \in Jobs, NEW mode \in Modes, ReadUpload(r, k, mode) PROVE JobStage(j)'
  <2>1. /\ requests' = [requests EXCEPT ![r] = [step |-> "writing", job |-> k, mode |-> mode]]
        /\ requests[r].job = NoJob /\ UNCHANGED <<rows, queue, worker>>
        /\ Is(k, {"preview_ready"})
    BY <1>2 DEF ReadUpload, TypeOK, Acceptable, Is
  <2>2. CASE k # j
    BY <1>0, <2>1, <2>2, ImportAssumption DEF JobStage, Is, Quiet, Queued, Asked, TypeOK
  <2>3. CASE k = j
    <3>1. ~Asked(j) /\ Quiet(j)
      BY <1>0, <1>2, <2>3 DEF ReadUpload, JobStage, Asked
    <3>2. QED
      BY <2>1, <2>3, <3>1 DEF JobStage, Is, Quiet, Queued, Asked, TypeOK
  <2>4. QED
    BY <2>2, <2>3
<1>3. ASSUME NEW r \in Requests, WriteQueued(r) PROVE JobStage(j)'
  <2>1. /\ requests' = [requests EXCEPT ![r].step = "enqueueing"] /\ requests[r].step = "writing"
        /\ UNCHANGED <<queue, worker>>
    BY <1>3 DEF WriteQueued
  <2>2. /\ requests' \in [Requests -> [step : {"none", "writing", "enqueueing", "done"}, job : Jobs \cup {NoJob}, mode : Modes]]
        /\ \A q \in Requests : /\ requests'[q].job = requests[q].job
                               /\ requests'[q].step = IF q = r THEN "enqueueing" ELSE requests[q].step
    BY <2>1 DEF TypeOK
  <2>3. CASE requests[r].job = j
    <3>1. Is(j, {"queued"})' /\ \A q \in Requests : requests[q].job = j => q = r
      BY <1>0, <1>3, <2>3 DEF WriteQueued, Persist, Is, JobStage
    <3>2. QED
      BY <1>0, <2>1, <2>2, <2>3, <3>1 DEF JobStage, Is, Quiet, Queued, Asked
  <2>4. CASE requests[r].job # j
    <3>1. j \in DOMAIN rows' => j \in DOMAIN rows /\ rows'[j] = rows[j]
      BY <1>3, <1>b, <2>4 DEF WriteQueued
    <3>2. QED
      BY <1>0, <2>1, <2>2, <2>4, <3>1 DEF JobStage, Is, Quiet, Queued, Asked
  <2>5. QED
    BY <2>3, <2>4
<1>4. ASSUME NEW r \in Requests, Enqueue(r) \/ RequestError(r) PROVE JobStage(j)'
  <2>1. requests' = [requests EXCEPT ![r].step = "done"] /\ UNCHANGED <<rows, worker>> /\ requests[r].job \in Jobs
    BY <1>4 DEF Enqueue, RequestError, TypeOK
  <2>2. \A q \in Requests : /\ requests'[q].job = requests[q].job
                            /\ requests'[q].step = IF q = r THEN "done" ELSE requests[q].step
    BY <2>1 DEF TypeOK
  <2>3. CASE RequestError(r)
    BY <1>0, <2>1, <2>2, <2>3 DEF RequestError, JobStage, Is, Quiet, Queued, Asked
  <2>4. CASE Enqueue(r)
    <3>1. Queued(j)' <=> Queued(j) \/ requests[r].job = j
      BY <1>0, <2>1, <2>4, PushQueue DEF Enqueue
    <3>2. requests[r].step = "enqueueing"
      BY <2>4 DEF Enqueue
    <3>3. QED
      BY <1>0, <2>1, <2>2, <3>1, <3>2 DEF JobStage, Is, Quiet, Asked
  <2>5. QED
    BY <1>4, <2>3, <2>4
<1>5. CASE Take
  <2>1. /\ Head(queue) \in Jobs /\ Queued(Head(queue)) /\ (Queued(j)' <=> Queued(j) /\ j # Head(queue))
        /\ worker'.job = Head(queue) /\ worker'.step = "reading" /\ UNCHANGED <<rows, requests>>
    BY <1>0, <1>5, TakeQueue DEF Take, Idle
  <2>2. QED
    BY <1>0, <2>1 DEF JobStage, Is, Quiet, Asked, RunSteps
<1>6. CASE (Work \/ RunError) /\ ~Take
  <2>1. UNCHANGED <<requests, queue>> /\ (worker'.job = worker.job \/ worker'.job = NoJob)
    BY <1>6, WorkGoesOn DEF Work, ReadJob, Start, Verify, Replace, OpenArchive, ImportBatch, EndOfArchive, Complete,
                RemoveFile, Fail, RunError
  <2>2. CASE worker.job # j
    <3>1. j \in DOMAIN rows' => j \in DOMAIN rows /\ rows'[j] = rows[j]
      BY <1>6, <2>2 DEF Work, ReadJob, Start, Verify, Replace, OpenArchive, ImportBatch, EndOfArchive, Complete,
                    RemoveFile, Fail, RunError, Persist
    <3>2. worker'.job # j
      BY <2>1, <2>2, ImportAssumption
    <3>3. QED
      BY <1>0, <2>1, <2>2, <3>1, <3>2 DEF JobStage, Is, Quiet, Queued, Asked
  <2>3. CASE worker.job = j
    <3>1. ~Queued(j)' /\ Asked(j)'
      BY <1>0, <2>1, <2>3 DEF JobStage, Quiet, Queued, Asked
    <3>2. \A r \in Requests : requests[r].job = j => requests[r].step \notin {"writing", "enqueueing"}
      BY <1>0, <2>3 DEF JobStage, Quiet
    <3>3. worker'.job = j =>
            /\ worker'.step \in {"reading", "starting"} => Is(j, {"queued"})'
            /\ worker'.step \in (RunSteps \ {"starting"}) \cup {"failing"} => Is(j, Active)'
            /\ worker'.step = "removing" => Is(j, {"completed"})'
      BY <1>0, <1>6, <2>3, WorkerKeepsStage DEF JobStage
    <3>4. QED
      BY <1>0, <2>1, <3>1, <3>2, <3>3 DEF JobStage, Quiet, Asked
  <2>4. QED
    BY <2>2, <2>3
<1>7. CASE Sweep
  <2>1. UNCHANGED <<queue, worker, requests>> /\ (j \in DOMAIN rows' => j \in DOMAIN rows /\ rows'[j] = rows[j])
    BY <1>7 DEF Sweep, SweepRead, SweepDelete, SweepUnlink
  <2>2. QED
    BY <1>a, <2>1
<1>8. CASE Restart
  <2>1. queue' = <<>> /\ worker'.job = NoJob
    BY <1>8 DEF Restart, Idle
  <2>2. \A r \in Requests : requests'[r].job = requests[r].job /\ requests'[r].step \in {"none", "done"}
    BY <1>8 DEF Restart, NoRequest, TypeOK
  <2>3. Quiet(j)'
    BY <2>1, ImportAssumption DEF Quiet, Queued
  <2>4. QED
    BY <1>0, <2>2, <2>3 DEF JobStage, Quiet, Asked
<1>9. CASE UNCHANGED vars \/ \E p \in Points : Ingest(p)
  BY <1>9, <1>a DEF vars, Ingest
<1>10. QED
  BY <1>1, <1>2, <1>3, <1>4, <1>5, <1>6, <1>7, <1>8, <1>9 DEF Next, Request

\* What the worker runs is not shown as a preview, nor as completed before it is.
LEMMA WorkerRunsStep == TypeOK /\ JobInv /\ [Next]_vars => WorkerRuns'
<1> SUFFICES ASSUME TypeOK, JobInv, [Next]_vars PROVE WorkerRuns'
  OBVIOUS
<1>0. WorkerRuns
  BY DEF JobInv
<1>j. PICK j : j = worker.job
  OBVIOUS
<1> USE <1>j
<1>p. ASSUME NEW k, NEW status, NEW mode, Persist(k, status, mode), NEW S, status \in S PROVE Is(k, S)'
  BY <1>p DEF Persist, Is
<1>o. ASSUME NEW k, NEW status, NEW mode, Persist(k, status, mode), NEW i, i # k
      PROVE  i \in DOMAIN rows' => i \in DOMAIN rows /\ rows'[i] = rows[i]
  BY <1>o DEF Persist
<1>w. ASSUME worker' = worker, j \in DOMAIN rows' => j \in DOMAIN rows /\ rows'[j] = rows[j]
      PROVE  WorkerRuns'
  BY <1>0, <1>w DEF WorkerRuns, Is
<1>1. ASSUME NEW k \in Jobs, Upload(k) \/ UploadError(k) \/ Expire(k) PROVE WorkerRuns'
  <2>1. CASE k = j
    <3>1. uploads[k] = "done"
      BY <2>1 DEF JobInv, UploadStage, Quiet
    <3>2. QED
      BY <1>1, <3>1, <1>w DEF Upload, SaveUpload, OpenUpload, ReceiveUpload, InspectUpload, RejectUpload, RemoveUpload,
                        UploadError, Expire
  <2>2. CASE k # j
    <3>1. j \in DOMAIN rows' => j \in DOMAIN rows /\ rows'[j] = rows[j]
      BY <1>1, <1>o, <2>2 DEF Upload, SaveUpload, OpenUpload, ReceiveUpload, InspectUpload, RejectUpload, RemoveUpload,
                        UploadError, Expire
    <3>2. worker' = worker
      BY <1>1 DEF Upload, SaveUpload, OpenUpload, ReceiveUpload, InspectUpload, RejectUpload, RemoveUpload,
                        UploadError, Expire
    <3>3. QED
      BY <1>w, <3>1, <3>2
  <2>3. QED
    BY <2>1, <2>2
<1>2. ASSUME NEW r \in Requests,
             WriteQueued(r) \/ Enqueue(r) \/ RequestError(r) \/ \E k \in Jobs, mode \in Modes : ReadUpload(r, k, mode)
      PROVE  WorkerRuns'
  <2>1. worker' = worker
    BY <1>2 DEF WriteQueued, Enqueue, RequestError, ReadUpload
  <2>2. CASE WriteQueued(r) /\ requests[r].job = j
    <3>1. Is(j, {"queued"})'
      BY <2>2, <1>p DEF WriteQueued
    <3>2. QED
      BY <2>1, <3>1 DEF WorkerRuns, Is, Statuses, Active
  <2>3. CASE ~(WriteQueued(r) /\ requests[r].job = j)
    <3>1. j \in DOMAIN rows' => j \in DOMAIN rows /\ rows'[j] = rows[j]
      BY <1>2, <1>o, <2>3 DEF WriteQueued, Enqueue, RequestError, ReadUpload
    <3>2. QED
      BY <1>w, <2>1, <3>1
  <2>4. QED
    BY <2>2, <2>3
<1>3. CASE Take
  BY <1>3 DEF Take, Idle, WorkerRuns, RunSteps
<1>4. CASE (Work \/ RunError) /\ ~Take
  <2>1. worker'.job = j \/ worker'.step = "idle"
    BY <1>4, WorkGoesOn, TypeCorrectStep DEF TypeOK
  <2>2. CASE worker'.step = "idle"
    BY <2>2 DEF WorkerRuns, RunSteps
  <2>3. CASE worker'.job = j /\ worker'.step # "idle"
    <3>g. ASSUME NEW step, GoOn(step) PROVE worker'.step = step
      BY <3>g DEF GoOn, TypeOK
    <3>1. CASE ReadJob
      BY <2>3, <3>1 DEF ReadJob, Runnable, Working, Idle, TypeOK, WorkerRuns, Is, Statuses, Active
    <3>2. CASE Start \/ EndOfArchive \/ ImportBatch
      <4>1. Is(j, {"running"})'
        BY <3>2, <1>p DEF Start, EndOfArchive, ImportBatch
      <4> QED
        BY <2>3, <4>1 DEF WorkerRuns, Is, Statuses, Active
    <3>3. CASE Verify \/ OpenArchive
      <4>1. Is(j, {"running"})' \/ (UNCHANGED rows /\ worker.step \in RunSteps)
        BY <3>3, <1>p DEF Verify, OpenArchive, Working, RunSteps
      <4> QED
        BY <1>0, <2>3, <4>1 DEF WorkerRuns, Is, Statuses, Active, RunSteps
    <3>4. CASE Complete
      <4>1. Is(j, {"completed"})' /\ worker'.step = "removing"
        BY <3>4, <1>p, <3>g DEF Complete
      <4> QED
        BY <2>3, <4>1 DEF WorkerRuns, Is, Statuses, Active, Settled, RunSteps
    <3>5. CASE Replace \/ RunError
      BY <1>0, <2>3, <3>5 DEF Replace, RunError, Working, WorkerRuns, Is, RunSteps
    <3>6. CASE RemoveFile \/ Fail
      BY <2>3, <3>6 DEF RemoveFile, Fail, Idle
    <3>7. QED
      BY <1>4, <3>1, <3>2, <3>3, <3>4, <3>5, <3>6 DEF Work
  <2>4. QED
    BY <2>1, <2>2, <2>3
<1>5. CASE Sweep
  <2>1. worker' = worker /\ (j \in DOMAIN rows' => j \in DOMAIN rows /\ rows'[j] = rows[j])
    BY <1>5 DEF Sweep, SweepRead, SweepDelete, SweepUnlink
  <2>2. QED
    BY <1>w, <2>1
<1>6. CASE Restart
  BY <1>6 DEF Restart, Idle, WorkerRuns, RunSteps
<1>7. CASE UNCHANGED vars \/ \E p \in Points : Ingest(p)
  BY <1>7, <1>w DEF vars, Ingest
<1>8. QED
  BY <1>1, <1>2, <1>3, <1>4, <1>5, <1>6, <1>7 DEF Next, Request

\* The points the worker imports arrive, and nobody takes them away.
LEMMA WorkerStoresStep == TypeOK /\ JobInv /\ [Next]_vars => WorkerStores'
<1> SUFFICES ASSUME TypeOK, JobInv, [Next]_vars PROVE WorkerStores'
  OBVIOUS
<1>0. WorkerStores
  BY DEF JobInv
<1>w. ASSUME UNCHANGED <<worker, table, live>> PROVE WorkerStores'
  BY <1>0, <1>w DEF WorkerStores
<1>i. ASSUME worker'.step \notin {"opening", "importing", "rebuilding"} PROVE WorkerStores'
  BY <1>i DEF WorkerStores
<1>1. ASSUME NEW p \in Points, Ingest(p) PROVE WorkerStores'
  BY <1>0, <1>1 DEF Ingest, WorkerStores
<1>2. CASE Verify
  <2>1. worker' = [worker EXCEPT !.step = worker'.step] /\ worker'.step \in {"replacing", "opening", "failing"}
        /\ (worker'.step = "opening" => worker.mode # "replace")
    BY <1>2 DEF Verify, GoOn, TypeOK
  <2>2. QED
    BY <2>1 DEF WorkerStores, TypeOK
<1>3. CASE Replace
  <2>1. /\ worker'.step \in {"opening", "failing"} /\ worker'.job = worker.job
        /\ worker'.step = "opening" => table' = table \ DateRange[worker.job]
    BY <1>3 DEF Replace, GoOn, Replaced, TypeOK
  <2>2. QED
    BY <2>1 DEF WorkerStores
<1>4. CASE OpenArchive
  <2>1. CASE worker.job \in files
    <3>1. /\ worker.step = "opening" /\ worker'.step = "importing" /\ worker'.left = File[worker.job]
          /\ worker'.job = worker.job /\ worker'.mode = worker.mode /\ UNCHANGED <<table, live>>
      BY <1>4, <2>1 DEF OpenArchive, Working, TypeOK, history
    <3>2. QED
      BY <1>0, <3>1 DEF WorkerStores
  <2>2. CASE worker.job \notin files
    BY <1>4, <1>i, <2>2 DEF OpenArchive, GoOn, TypeOK
  <2>3. QED
    BY <2>1, <2>2
<1>5. CASE ImportBatch
  <2>1. PICK batch \in SUBSET worker.left : table' = table \cup batch /\ worker' = [worker EXCEPT !.left = @ \ batch]
    BY <1>5 DEF ImportBatch
  <2>2. /\ worker.step = "importing" /\ worker'.step = "importing" /\ worker'.left = worker.left \ batch
        /\ worker'.job = worker.job /\ worker'.mode = worker.mode /\ live' = live
    BY <1>5, <2>1 DEF ImportBatch, Working, TypeOK
  <2>3. QED
    BY <1>0, <2>1, <2>2 DEF WorkerStores
<1>6. CASE EndOfArchive
  <2>1. /\ worker.step = "importing" /\ worker.left = {} /\ worker'.step = "rebuilding"
        /\ worker'.job = worker.job /\ worker'.mode = worker.mode /\ UNCHANGED <<table, live>>
    BY <1>6 DEF EndOfArchive, AllRead, Working, GoOn, TypeOK, history
  <2>2. QED
    BY <1>0, <2>1 DEF WorkerStores
<1>7. CASE Take \/ ReadJob
  <2>1. worker'.step \in {"reading", "starting", "idle"}
    <3>1. CASE Take
      BY <3>1 DEF Take, Idle
    <3>2. CASE ReadJob
      BY <3>2 DEF ReadJob, Idle, TypeOK
    <3> QED
      BY <1>7, <3>1, <3>2
  <2>2. QED
    BY <1>i, <2>1
<1>8. CASE Start \/ Complete \/ RunError
  BY <1>8, <1>i DEF Start, Complete, RunError, GoOn, TypeOK
<1>9. CASE RemoveFile \/ Fail \/ Restart
  BY <1>9, <1>i DEF RemoveFile, Fail, Restart, Idle
<1>10. ASSUME NEW k \in Jobs, Upload(k) \/ UploadError(k) \/ Expire(k) PROVE WorkerStores'
  BY <1>10, <1>w DEF Upload, SaveUpload, OpenUpload, ReceiveUpload, InspectUpload, RejectUpload, RemoveUpload,
                     UploadError, Expire, history
<1>11. ASSUME NEW r \in Requests,
              WriteQueued(r) \/ Enqueue(r) \/ RequestError(r) \/ \E k \in Jobs, mode \in Modes : ReadUpload(r, k, mode)
       PROVE  WorkerStores'
  BY <1>11, <1>w DEF WriteQueued, Enqueue, RequestError, ReadUpload, history
<1>12. CASE Sweep \/ UNCHANGED vars
  BY <1>12, <1>w DEF Sweep, SweepRead, SweepDelete, SweepUnlink, vars, history
<1>13. QED
  BY <1>1, <1>2, <1>3, <1>4, <1>5, <1>6, <1>7, <1>8, <1>9, <1>10, <1>11, <1>12 DEF Next, Request, Work

\* A job completes when what it imported is in the table; another that takes points away
\* afterwards is the last to touch it.
LEMMA CompletedStep == TypeOK /\ JobInv /\ [Next]_vars => CompletedIsStored'
<1> SUFFICES ASSUME TypeOK, JobInv, [Next]_vars PROVE CompletedIsStored'
  OBVIOUS
<1>0. CompletedIsStored /\ WorkerStores /\ WorkerRuns
  BY DEF JobInv
<1>w. ASSUME UNCHANGED <<table, touched, live>>,
             \A j \in DOMAIN rows' : rows'[j].status # "completed" \/ (j \in DOMAIN rows /\ rows'[j] = rows[j])
      PROVE  CompletedIsStored'
  BY <1>0, <1>w DEF CompletedIsStored
<1>p. ASSUME NEW k, NEW status, NEW mode, Persist(k, status, mode), status # "completed"
      PROVE  \A j \in DOMAIN rows' : rows'[j].status # "completed" \/ (j \in DOMAIN rows /\ rows'[j] = rows[j])
  BY <1>p DEF Persist
<1>1. ASSUME NEW k \in Jobs, Upload(k) \/ UploadError(k) \/ Expire(k) PROVE CompletedIsStored'
  <2>1. UNCHANGED <<table, touched, live>>
    BY <1>1 DEF Upload, SaveUpload, OpenUpload, ReceiveUpload, InspectUpload, RejectUpload, RemoveUpload,
                UploadError, Expire, history
  <2>2. \A j \in DOMAIN rows' : rows'[j].status # "completed" \/ (j \in DOMAIN rows /\ rows'[j] = rows[j])
    BY <1>1, <1>p DEF Upload, SaveUpload, OpenUpload, ReceiveUpload, InspectUpload, RejectUpload, RemoveUpload,
                UploadError, Expire
  <2>3. QED
    BY <1>w, <2>1, <2>2
<1>2. ASSUME NEW r \in Requests,
             WriteQueued(r) \/ Enqueue(r) \/ RequestError(r) \/ \E k \in Jobs, mode \in Modes : ReadUpload(r, k, mode)
      PROVE  CompletedIsStored'
  <2>1. \A j \in DOMAIN rows' : rows'[j].status # "completed" \/ (j \in DOMAIN rows /\ rows'[j] = rows[j])
    BY <1>2, <1>p DEF WriteQueued, Enqueue, RequestError, ReadUpload
  <2>2. QED
    BY <1>2, <1>w, <2>1 DEF WriteQueued, Enqueue, RequestError, ReadUpload, history
<1>3. CASE Take \/ ReadJob \/ RunError \/ RemoveFile
  BY <1>3, <1>w DEF Take, ReadJob, RunError, RemoveFile, history
<1>4. CASE Start \/ Verify \/ OpenArchive \/ EndOfArchive \/ Fail
  <2>1. \A j \in DOMAIN rows' : rows'[j].status # "completed" \/ (j \in DOMAIN rows /\ rows'[j] = rows[j])
    BY <1>4, <1>p DEF Start, Verify, OpenArchive, EndOfArchive, Fail
  <2>2. UNCHANGED <<table, touched, live>>
    BY <1>4 DEF Start, Verify, OpenArchive, EndOfArchive, Fail, history
  <2>3. QED
    BY <1>w, <2>1, <2>2
<1>5. CASE Replace
  <2>1. CASE worker.job \in Ranged
    BY <1>0, <1>5, <2>1 DEF Replace, Working, WorkerRuns, RunSteps, Is, CompletedIsStored
  <2>2. CASE worker.job \notin Ranged
    BY <1>5, <1>w, <2>2 DEF Replace
  <2>3. QED
    BY <2>1, <2>2
<1>6. CASE ImportBatch
  BY <1>6 DEF ImportBatch, Persist, CompletedIsStored
<1>7. CASE Complete
  <2>1. /\ worker.step = "rebuilding" /\ UNCHANGED <<table, touched, live>>
        /\ rows' = [k \in DOMAIN rows \cup {worker.job} |->
                      IF k = worker.job THEN [status |-> "completed", mode |-> worker.mode] ELSE rows[k]]
    BY <1>7 DEF Complete, Working, Persist, history
  <2>2. rows'[worker.job].mode = worker.mode /\ \A j \in DOMAIN rows' \ {worker.job} : j \in DOMAIN rows /\ rows'[j] = rows[j]
    BY <2>1
  <2>3. /\ File[worker.job] \subseteq table
        /\ worker.mode = "replace" => table \cap DateRange[worker.job] \subseteq File[worker.job] \cup live
    BY <1>0, <2>1 DEF WorkerStores
  <2>4. QED
    BY <1>0, <2>1, <2>2, <2>3 DEF CompletedIsStored
<1>8. ASSUME NEW p \in Points, Ingest(p) PROVE CompletedIsStored'
  BY <1>0, <1>8 DEF Ingest, CompletedIsStored
<1>9. CASE Sweep
  BY <1>9, <1>w DEF Sweep, SweepRead, SweepDelete, SweepUnlink, history
<1>10. CASE Restart
  BY <1>10, <1>w DEF Restart, MarkActiveJobsInterrupted, TypeOK, Row
<1>11. CASE UNCHANGED vars
  BY <1>11, <1>w DEF vars, history
<1>12. QED
  BY <1>1, <1>2, <1>3, <1>4, <1>5, <1>6, <1>7, <1>8, <1>9, <1>10, <1>11 DEF Next, Request, Work

\* The sweep removes what has expired only, row first and file next.
LEMMA FilesStep == TypeOK /\ JobInv /\ [Next]_vars => FilesMatchRows' /\ sweep'.ids \subseteq expired'
<1> SUFFICES ASSUME TypeOK, JobInv, [Next]_vars PROVE FilesMatchRows' /\ sweep'.ids \subseteq expired'
  OBVIOUS
<1>0. FilesMatchRows /\ sweep.ids \subseteq expired /\ WorkerRuns /\ \A j \in Jobs : UploadStage(j)
  BY DEF JobInv
<1>w. ASSUME UNCHANGED <<files, uploads, sweep, expired, orphans>>, DOMAIN rows \subseteq DOMAIN rows',
             \A j \in DOMAIN rows' : rows'[j].status # "preview_ready" \/ (j \in DOMAIN rows /\ rows'[j] = rows[j])
      PROVE  FilesMatchRows' /\ sweep'.ids \subseteq expired'
  BY <1>0, <1>w DEF FilesMatchRows
<1>p. ASSUME NEW k, NEW status, NEW mode, Persist(k, status, mode), status # "preview_ready"
      PROVE  /\ DOMAIN rows \subseteq DOMAIN rows'
             /\ \A j \in DOMAIN rows' : rows'[j].status # "preview_ready" \/ (j \in DOMAIN rows /\ rows'[j] = rows[j])
  BY <1>p DEF Persist
<1>1. ASSUME NEW k \in Jobs, SaveUpload(k) \/ ReceiveUpload(k) \/ RejectUpload(k)
      PROVE  FilesMatchRows' /\ sweep'.ids \subseteq expired'
  <2>1. /\ DOMAIN rows \subseteq DOMAIN rows'
        /\ \A j \in DOMAIN rows' : rows'[j].status # "preview_ready" \/ (j \in DOMAIN rows /\ rows'[j] = rows[j])
    BY <1>1, <1>p DEF SaveUpload, ReceiveUpload, RejectUpload
  <2>2. /\ UNCHANGED <<files, sweep, expired, orphans>>
        /\ \A j \in Jobs : uploads[j] \notin {"none", "done"} => uploads'[j] \notin {"none", "done"}
    BY <1>1 DEF SaveUpload, ReceiveUpload, RejectUpload, history, TypeOK
  <2>3. QED
    BY <1>0, <2>1, <2>2 DEF FilesMatchRows, TypeOK
<1>2. ASSUME NEW k \in Jobs, OpenUpload(k) PROVE FilesMatchRows' /\ sweep'.ids \subseteq expired'
  BY <1>0, <1>2 DEF OpenUpload, FilesMatchRows, history, TypeOK
<1>3. ASSUME NEW k \in Jobs, InspectUpload(k) PROVE FilesMatchRows' /\ sweep'.ids \subseteq expired'
  <2>1. UNCHANGED <<files, sweep, expired, orphans>> /\ \A j \in Jobs \ {k} : uploads'[j] = uploads[j]
    BY <1>3 DEF InspectUpload, history, TypeOK
  <2>2. CASE k \in files /\ Persist(k, "preview_ready", "merge")
    <3>1. k \in DOMAIN rows' /\ \A j \in DOMAIN rows \ {k} : j \in DOMAIN rows' /\ rows'[j] = rows[j]
      BY <2>2 DEF Persist
    <3>2. DOMAIN rows' = DOMAIN rows \cup {k}
      BY <2>2 DEF Persist
    <3>3. QED
      BY <1>0, <2>1, <2>2, <3>1, <3>2 DEF FilesMatchRows, TypeOK
  <2>3. CASE UNCHANGED rows /\ uploads' = [uploads EXCEPT ![k] = "rejecting"]
    BY <1>0, <2>1, <2>3 DEF FilesMatchRows, TypeOK
  <2>4. QED
    BY <1>3, <2>2, <2>3 DEF InspectUpload
<1>4. ASSUME NEW k \in Jobs, RemoveUpload(k) \/ UploadError(k) PROVE FilesMatchRows' /\ sweep'.ids \subseteq expired'
  BY <1>0, <1>4 DEF RemoveUpload, UploadError, UploadStage, Is, FilesMatchRows, history, TypeOK
<1>5. ASSUME NEW k \in Jobs, Expire(k) PROVE FilesMatchRows' /\ sweep'.ids \subseteq expired'
  BY <1>0, <1>5 DEF Expire, FilesMatchRows, history
<1>6. ASSUME NEW r \in Requests,
             WriteQueued(r) \/ Enqueue(r) \/ RequestError(r) \/ \E k \in Jobs, mode \in Modes : ReadUpload(r, k, mode)
      PROVE  FilesMatchRows' /\ sweep'.ids \subseteq expired'
  <2>1. /\ DOMAIN rows \subseteq DOMAIN rows'
        /\ \A j \in DOMAIN rows' : rows'[j].status # "preview_ready" \/ (j \in DOMAIN rows /\ rows'[j] = rows[j])
    BY <1>6, <1>p DEF WriteQueued, Enqueue, RequestError, ReadUpload
  <2>2. QED
    BY <1>6, <1>w, <2>1 DEF WriteQueued, Enqueue, RequestError, ReadUpload, history
<1>7. CASE Take \/ ReadJob \/ RunError \/ Replace
  BY <1>7, <1>w DEF Take, ReadJob, RunError, Replace, history
<1>8. CASE Start \/ Verify \/ OpenArchive \/ ImportBatch \/ EndOfArchive \/ Complete \/ Fail
  <2>1. /\ DOMAIN rows \subseteq DOMAIN rows'
        /\ \A j \in DOMAIN rows' : rows'[j].status # "preview_ready" \/ (j \in DOMAIN rows /\ rows'[j] = rows[j])
    BY <1>8, <1>p DEF Start, Verify, OpenArchive, ImportBatch, EndOfArchive, Complete, Fail
  <2>2. UNCHANGED <<files, uploads, sweep, expired, orphans>>
    BY <1>8 DEF Start, Verify, OpenArchive, ImportBatch, EndOfArchive, Complete, Fail, history
  <2>3. QED
    BY <1>w, <2>1, <2>2
<1>9. CASE RemoveFile
  BY <1>0, <1>9 DEF RemoveFile, Working, WorkerRuns, Is, FilesMatchRows, history
<1>10. CASE Sweep
  <2>1. CASE SweepRead
    BY <1>0, <2>1 DEF SweepRead, Due, FilesMatchRows, history
  <2>2. CASE SweepDelete
    <3>1. sweep'.ids = sweep.ids /\ sweep'.step = "unlinking"
      BY <2>2 DEF SweepDelete, TypeOK
    <3>2. QED
      BY <1>0, <2>2, <3>1 DEF SweepDelete, Deleted, FilesMatchRows, history
  <2>3. CASE SweepUnlink
    BY <1>0, <2>3 DEF SweepUnlink, NoSweep, FilesMatchRows, history
  <2>4. QED
    BY <1>10, <2>1, <2>2, <2>3 DEF Sweep
<1>11. CASE Restart
  BY <1>0, <1>11 DEF Restart, MarkActiveJobsInterrupted, ActiveAtBoot, Active, NoSweep, FilesMatchRows, TypeOK, Row
<1>12. CASE UNCHANGED vars \/ \E p \in Points : Ingest(p)
  BY <1>12, <1>w DEF vars, Ingest, history
<1>13. QED
  BY <1>1, <1>2, <1>3, <1>4, <1>5, <1>6, <1>7, <1>8, <1>9, <1>10, <1>11, <1>12 DEF Next, Upload, Request, Work

-----------------------------------------------------------------------------
(* The theorems.                                                           *)

LEMMA JobInvAlways == Spec => []JobInv
<1>1. Init => JobInv
  <2> SUFFICES ASSUME Init PROVE JobInv
    OBVIOUS
  <2>1. DOMAIN rows = {} /\ DOMAIN queue = {} /\ worker.job = NoJob /\ worker.step = "idle" /\ worker.mode = "merge"
    BY DEF Init, Idle
  <2>2. \A j \in Jobs : Quiet(j) /\ ~Asked(j)
    BY <2>1, ImportAssumption DEF Init, NoRequest, Quiet, Queued, Asked
  <2>3. \A j \in Jobs : UploadStage(j) /\ JobStage(j)
    BY <2>1, <2>2 DEF Init, UploadStage, JobStage, Quiet, Asked
  <2>4. QED
    BY <2>1, <2>3 DEF Init, NoSweep, JobInv, FilesMatchRows, CompletedIsStored, QueueOnce, WorkerRuns, WorkerStores, RunSteps
<1>2. TypeOK /\ JobInv /\ [Next]_vars => JobInv'
  BY QueueOnceStep, UploadStageStep, JobStageStep, WorkerRunsStep, WorkerStoresStep, CompletedStep, FilesStep DEF JobInv
<1>3. QED
  BY <1>1, <1>2, TypeCorrect, PTL DEF Spec

\* Whatever the sweep, failures and restarts do, an upload whose preview is shown has its
\* file until its time is over, and a file without a row is on its way in or out.
THEOREM FilesAlwaysMatchRows == Spec => []FilesMatchRows
<1>1. JobInv => FilesMatchRows
  BY DEF JobInv
<1>2. QED
  BY <1>1, JobInvAlways, PTL

\* A job that says completed stored its archive, whatever the batches and whatever the
\* device sends meanwhile, two requests for one job included.
THEOREM CompletedAlwaysStored == Spec => []CompletedIsStored
<1>1. JobInv => CompletedIsStored
  BY DEF JobInv
<1>2. QED
  BY <1>1, JobInvAlways, PTL

\* No step changes the row of a settled job that one request at most asked for.
THEOREM OutcomesStand == Spec => OutcomeStands
<1>1. TypeOK /\ JobInv /\ [Next]_vars
        => [\A j \in DOMAIN rows \ contested :
              rows[j].status \in Settled /\ j \in DOMAIN rows' => rows'[j] = rows[j]]_vars
  <2> SUFFICES ASSUME TypeOK, JobInv, [Next]_vars, NEW j \in DOMAIN rows \ contested,
                      rows[j].status \in Settled, j \in DOMAIN rows'
               PROVE  rows'[j] = rows[j]
    OBVIOUS
  <2>0. j \in Jobs /\ UploadStage(j) /\ JobStage(j)
    BY DEF TypeOK, JobInv
  <2>p. ASSUME NEW k, NEW status, NEW mode, Persist(k, status, mode), k # j PROVE rows'[j] = rows[j]
    BY <2>p DEF Persist
  <2>1. ASSUME NEW k \in Jobs, Upload(k) PROVE rows'[j] = rows[j]
    <3>1. CASE k = j
      BY <2>0, <2>1, <3>1 DEF Upload, SaveUpload, OpenUpload, ReceiveUpload, InspectUpload, RejectUpload, RemoveUpload,
                              UploadStage, Is, Settled
    <3>2. CASE k # j
      BY <2>1, <2>p, <3>2 DEF Upload, SaveUpload, OpenUpload, ReceiveUpload, InspectUpload, RejectUpload, RemoveUpload
    <3>3. QED
      BY <3>1, <3>2
  <2>2. ASSUME NEW r \in Requests, WriteQueued(r) PROVE rows'[j] = rows[j]
    BY <2>0, <2>2, <2>p DEF WriteQueued, JobStage, Is, Settled
  <2>3. CASE Work
    <3>1. CASE worker.job = j
      BY <2>0, <2>3, <3>1 DEF Work, Take, ReadJob, Start, Verify, Replace, OpenArchive, ImportBatch, EndOfArchive,
                              Complete, RemoveFile, Fail, Working, JobStage, Is, RunSteps, Active, Settled
    <3>2. CASE worker.job # j
      BY <2>3, <2>p, <3>2 DEF Work, Take, ReadJob, Start, Verify, Replace, OpenArchive, ImportBatch, EndOfArchive,
                              Complete, RemoveFile, Fail
    <3>3. QED
      BY <3>1, <3>2
  <2>4. CASE Sweep
    BY <2>4 DEF Sweep, SweepRead, SweepDelete, SweepUnlink
  <2>5. CASE Restart
    BY <2>5 DEF Restart, MarkActiveJobsInterrupted, ActiveAtBoot, Active, Settled
  <2>6. QED
    BY <2>1, <2>2, <2>3, <2>4, <2>5
    DEF Next, vars, UploadError, Expire, Ingest, Request, Enqueue, RequestError, ReadUpload, RunError
<1>2. QED
  BY <1>1, TypeCorrect, JobInvAlways, PTL DEF Spec, OutcomeStands

-----------------------------------------------------------------------------
\* A set of numbers has a least one.
LEMMA LeastOfNaturals == ASSUME NEW T, T \subseteq Nat, T # {} PROVE \E m \in T : \A k \in T : m <= k
<1>1. IsWellFoundedOn(OpToRel(<, Nat), Nat)
  BY NatLessThanWellFounded
<1>2. PICK m \in T : \A k \in T : ~(<<k, m>> \in OpToRel(<, Nat))
  BY <1>1, WFMin
<1>3. \A k \in T : ~(k < m)
  BY <1>2 DEF OpToRel
<1> QED BY <1>3

SumVal(V) == MapThenSumSet(LAMBDA r : r.val, V)
OneOf(s) == CHOOSE x \in s : TRUE
\* f sums the values of the sets of D.
SumsOn(f, D) == \A s \in D : f[s] = IF s = {} THEN 0 ELSE OneOf(s).val + f[s \ {OneOf(s)}]
IsSum(f, V) == f = [s \in SUBSET V |-> IF s = {} THEN 0 ELSE OneOf(s).val + f[s \ {OneOf(s)}]]

LEMMA SumIsChosen == ASSUME NEW V PROVE SumVal(V) = (CHOOSE f : IsSum(f, V))[V]
BY DEF SumVal, MapThenSumSet, MapThenFoldSet, IsSum, OneOf

LEMMA OneOfIsOne == ASSUME NEW s, s # {} PROVE OneOf(s) \in s
BY DEF OneOf

LEMMA SmallerSets ==
  ASSUME NEW V, IsFiniteSet(V), NEW s \in SUBSET V, s # {}, NEW x \in s
  PROVE  /\ IsFiniteSet(s) /\ s \ {x} \in SUBSET V
         /\ Cardinality(s) \in Nat \ {0} /\ Cardinality(s \ {x}) = Cardinality(s) - 1
<1>1. IsFiniteSet(s)
  BY FS_Subset
<1> QED BY <1>1, FS_RemoveElement, FS_CardinalityType, FS_EmptySet

LEMMA PartialSums ==
  ASSUME NEW V, IsFiniteSet(V), \A r \in V : r.val \in Int, NEW n \in Nat
  PROVE  \E f : LET D == {s \in SUBSET V : Cardinality(s) <= n} IN f \in [D -> Int] /\ SumsOn(f, D)
<1> DEFINE Upto(m) == {s \in SUBSET V : Cardinality(s) <= m}
<1> DEFINE T == {m \in Nat : ~ \E f : f \in [Upto(m) -> Int] /\ SumsOn(f, Upto(m))}
<1>1. ASSUME T # {} PROVE FALSE
  <2>1. PICK m \in T : \A k \in T : m <= k
    <3>1. T \subseteq Nat
      OBVIOUS
    <3> QED BY <1>1, <3>1, LeastOfNaturals
  <2>2. CASE m = 0
    <3>1. \A s \in Upto(0) : s = {}
      BY FS_Subset, FS_EmptySet, FS_CardinalityType
    <3>2. [s \in Upto(0) |-> 0] \in [Upto(0) -> Int] /\ SumsOn([s \in Upto(0) |-> 0], Upto(0))
      BY <3>1 DEF SumsOn
    <3> QED BY <2>1, <2>2, <3>2
  <2>3. CASE m # 0
    <3>1. m - 1 \in Nat /\ m - 1 \notin T
      <4>1. m \in Nat
        BY <2>1
      <4> HIDE DEF T
      <4> QED BY <2>1, <2>3, <4>1
    <3>2. PICK f : f \in [Upto(m - 1) -> Int] /\ SumsOn(f, Upto(m - 1))
      BY <3>1
    <3> DEFINE g == [s \in Upto(m) |-> IF s = {} THEN 0 ELSE OneOf(s).val + f[s \ {OneOf(s)}]]
    <3>3. ASSUME NEW s \in Upto(m), s # {}
          PROVE  OneOf(s) \in V /\ s \ {OneOf(s)} \in Upto(m - 1) /\ s \ {OneOf(s)} \in Upto(m)
      <4>1. OneOf(s) \in s /\ s \in SUBSET V
        BY <3>3, OneOfIsOne
      <4>2. /\ s \ {OneOf(s)} \in SUBSET V /\ Cardinality(s) \in Nat
            /\ Cardinality(s \ {OneOf(s)}) = Cardinality(s) - 1
        BY <4>1, <3>3, SmallerSets
      <4> QED BY <4>1, <4>2, <3>3, <2>1
    <3>4. g \in [Upto(m) -> Int]
      BY <3>2, <3>3
    <3>5. \A s \in Upto(m - 1) : s \in Upto(m) /\ g[s] = f[s]
      <4>1. Upto(m - 1) \subseteq Upto(m)
        BY <2>1, FS_Subset, FS_CardinalityType
      <4> QED BY <4>1, <3>2 DEF SumsOn
    <3>6. SumsOn(g, Upto(m))
      <4>1. SUFFICES ASSUME NEW s \in Upto(m) PROVE g[s] = IF s = {} THEN 0 ELSE OneOf(s).val + g[s \ {OneOf(s)}]
        BY DEF SumsOn
      <4>2. s # {} => g[s \ {OneOf(s)}] = f[s \ {OneOf(s)}]
        BY <3>3, <3>5
      <4> QED BY <4>2
    <3> QED BY <2>1, <3>4, <3>6
  <2> QED BY <2>2, <2>3
<1> QED BY <1>1

LEMMA SumExists ==
  ASSUME NEW V, IsFiniteSet(V), \A r \in V : r.val \in Int
  PROVE  \E f : f \in [SUBSET V -> Int] /\ SumsOn(f, SUBSET V) /\ SumVal(V) = f[V]
<1> DEFINE n == Cardinality(V)
<1>1. n \in Nat /\ {s \in SUBSET V : Cardinality(s) <= n} = SUBSET V
  BY FS_Subset, FS_CardinalityType
<1>2. \E f : f \in [SUBSET V -> Int] /\ SumsOn(f, SUBSET V)
  <2>1. \E f : LET D == {s \in SUBSET V : Cardinality(s) <= n} IN f \in [D -> Int] /\ SumsOn(f, D)
    <3> HIDE DEF n
    <3> QED BY <1>1, PartialSums
  <2> QED BY <1>1, <2>1
<1>3. \E f : IsSum(f, V)
  BY <1>2 DEF IsSum, SumsOn
<1> DEFINE h == CHOOSE f : IsSum(f, V)
<1>4. IsSum(h, V)
  BY <1>3
<1>5. PICK f : f \in [SUBSET V -> Int] /\ SumsOn(f, SUBSET V)
  BY <1>2
<1>6. \A s \in SUBSET V : h[s] = f[s]
  <2> DEFINE T == {Cardinality(s) : s \in {s \in SUBSET V : h[s] # f[s]}}
  <2>1. SUFFICES ASSUME T # {} PROVE FALSE
    OBVIOUS
  <2>2. T \subseteq Nat
    BY FS_Subset, FS_CardinalityType
  <2>3. PICK m \in T : \A k \in T : m <= k
    BY <2>1, <2>2, LeastOfNaturals
  <2>4. PICK s \in SUBSET V : h[s] # f[s] /\ Cardinality(s) = m
    BY <2>3
  <2>5. s # {}
    BY <2>4, <1>4, <1>5 DEF IsSum, SumsOn
  <2>6. s \ {OneOf(s)} \in SUBSET V /\ Cardinality(s \ {OneOf(s)}) = m - 1 /\ m \in Nat
    BY <2>4, <2>5, OneOfIsOne, SmallerSets
  <2>7. h[s \ {OneOf(s)}] = f[s \ {OneOf(s)}]
    <3>1. h[s \ {OneOf(s)}] # f[s \ {OneOf(s)}] => m - 1 \in T
      <4> HIDE DEF h
      <4> QED BY <2>6
    <3> HIDE DEF h, T
    <3> QED BY <2>3, <2>6, <3>1
  <2> QED BY <2>4, <2>5, <2>7, <1>4, <1>5 DEF IsSum, SumsOn
<1>7. SumVal(V) = h[V]
  BY SumIsChosen
<1> QED BY <1>5, <1>6, <1>7

\* A sum on subsets of a set takes its elements in any order.
LEMMA AnyFirst ==
  ASSUME NEW V, IsFiniteSet(V), \A r \in V : r.val \in Int,
         NEW f \in [SUBSET V -> Int], SumsOn(f, SUBSET V)
  PROVE  \A s \in SUBSET V : \A x \in s : f[s] = x.val + f[s \ {x}]
<1> DEFINE Bad == {s \in SUBSET V : \E x \in s : f[s] # x.val + f[s \ {x}]}
<1> DEFINE T == {Cardinality(s) : s \in Bad}
<1>1. SUFFICES ASSUME T # {} PROVE FALSE
  OBVIOUS
<1>2. T \subseteq Nat
  BY FS_Subset, FS_CardinalityType
<1>3. PICK m \in T : \A k \in T : m <= k
  BY <1>1, <1>2, LeastOfNaturals
<1>4. PICK s \in SUBSET V : Cardinality(s) = m /\ \E x \in s : f[s] # x.val + f[s \ {x}]
  BY <1>3
<1>5. PICK x \in s : f[s] # x.val + f[s \ {x}]
  BY <1>4
<1> DEFINE c == OneOf(s)
<1>6. c \in s /\ f[s] = c.val + f[s \ {c}]
  BY <1>5, OneOfIsOne DEF SumsOn
<1>7. x # c
  BY <1>5, <1>6
<1>8. /\ s \ {c} \in SUBSET V /\ Cardinality(s \ {c}) = m - 1
      /\ s \ {x} \in SUBSET V /\ Cardinality(s \ {x}) = m - 1 /\ m \in Nat
  BY <1>4, <1>5, <1>6, SmallerSets
<1>9. s \ {c} \notin Bad /\ s \ {x} \notin Bad
  BY <1>3, <1>8
<1>10. f[s \ {c}] = x.val + f[(s \ {c}) \ {x}] /\ f[s \ {x}] = c.val + f[(s \ {x}) \ {c}]
  BY <1>5, <1>6, <1>7, <1>8, <1>9
<1>11. (s \ {c}) \ {x} = (s \ {x}) \ {c} /\ (s \ {c}) \ {x} \in SUBSET V
  OBVIOUS
<1>12. x.val \in Int /\ c.val \in Int /\ f[(s \ {c}) \ {x}] \in Int
  BY <1>5, <1>6, <1>11
<1>13. f[s] = x.val + f[s \ {x}]
  <2>1. f[s] = c.val + (x.val + f[(s \ {c}) \ {x}])
    BY <1>6, <1>10
  <2>2. f[s \ {x}] = c.val + f[(s \ {c}) \ {x}]
    BY <1>10, <1>11
  <2> HIDE DEF c
  <2> QED BY <2>1, <2>2, <1>12
<1> QED BY <1>5, <1>13

\* The sum of a set is that of the set without one, and its value.
LEMMA SumAdds ==
  ASSUME NEW V, IsFiniteSet(V), \A r \in V : r.val \in Int, NEW x \in V
  PROVE  /\ SumVal(V) \in Int /\ SumVal(V \ {x}) \in Int
         /\ SumVal(V) = x.val + SumVal(V \ {x})
<1> DEFINE W == V \ {x}
<1>1. PICK f : f \in [SUBSET V -> Int] /\ SumsOn(f, SUBSET V) /\ SumVal(V) = f[V]
  BY SumExists
<1>2. IsFiniteSet(W) /\ W \subseteq V
  BY FS_Subset
<1>3. PICK g : g \in [SUBSET W -> Int] /\ SumsOn(g, SUBSET W) /\ SumVal(W) = g[W]
  BY <1>2, SumExists
<1>4. f[V] = x.val + f[W]
  BY <1>1, AnyFirst
<1>5. \A s \in SUBSET W : g[s] = f[s]
  <2> DEFINE T == {Cardinality(s) : s \in {s \in SUBSET W : g[s] # f[s]}}
  <2>1. SUFFICES ASSUME T # {} PROVE FALSE
    OBVIOUS
  <2>2. T \subseteq Nat
    BY <1>2, FS_Subset, FS_CardinalityType
  <2>3. PICK m \in T : \A k \in T : m <= k
    BY <2>1, <2>2, LeastOfNaturals
  <2>4. PICK s \in SUBSET W : g[s] # f[s] /\ Cardinality(s) = m
    BY <2>3
  <2>5. s # {} /\ s \in SUBSET V
    BY <2>4, <1>1, <1>2, <1>3 DEF SumsOn
  <2>6. s \ {OneOf(s)} \in SUBSET W /\ Cardinality(s \ {OneOf(s)}) = m - 1 /\ m \in Nat
    BY <2>4, <2>5, <1>2, OneOfIsOne, SmallerSets
  <2>7. g[s \ {OneOf(s)}] = f[s \ {OneOf(s)}]
    BY <2>3, <2>6
  <2> QED BY <2>4, <2>5, <2>7, <1>1, <1>3 DEF SumsOn
<1> QED BY <1>1, <1>2, <1>3, <1>4, <1>5

LEMMA SumOfNone == SumVal({}) = 0
<1>1. IsFiniteSet({})
  BY FS_EmptySet
<1>2. PICK f : f \in [SUBSET {} -> Int] /\ SumsOn(f, SUBSET {}) /\ SumVal({}) = f[{}]
  BY <1>1, SumExists
<1> QED BY <1>2 DEF SumsOn


-----------------------------------------------------------------------------
LEMMA Divides ==
  ASSUME NEW a \in Int, NEW k \in Nat \ {0}
  PROVE  \E q, r \in Int : 0 <= r /\ r < k /\ a = k * q + r
<1>1. ASSUME NEW q \in Int, NEW r \in Int, q = a \div k, r = a % k PROVE 0 <= r /\ r < k /\ a = k * q + r
  BY <1>1
<1>2. a \div k \in Int /\ a % k \in Int
  OBVIOUS
<1> QED BY <1>1, <1>2

LEMMA DividesEvenly ==
  ASSUME NEW a \in Int, NEW k \in Nat \ {0}, a % k = 0
  PROVE  \E q \in Int : a = k * q
<1>1. a = k * (a \div k)
  OBVIOUS
<1>2. a \div k \in Int
  OBVIOUS
<1> QED BY <1>1, <1>2

LEMMA Multiple ==
  ASSUME NEW t \in Int, NEW k \in Nat \ {0}
  PROVE  (k * t) % k = 0 /\ (k * t) \div k = t
OBVIOUS

LEMMA Cancel ==
  ASSUME NEW a \in Int, NEW b \in Int, NEW k \in Int, k # 0, k * a = k * b
  PROVE  a = b
OBVIOUS

\* x over y is a over b in lowest terms, by the divisor q.
LowestTerms(a, b, x, y, q) ==
  /\ a = q * x /\ b = q * y /\ Reduced(<<a, b>>) = <<x, y>>
  /\ \A v \in Int, u \in Nat \ {0} : v * b = a * u => y <= u

LEMMA Lowest ==
  ASSUME NEW a \in Int, NEW b \in Nat \ {0}
  PROVE  \E x \in Int, y, q \in Nat \ {0} : LowestTerms(a, b, x, y, q)
<1> DEFINE Y == {y \in Nat \ {0} : \E x \in Int : x * b = a * y}
<1>1. b \in Y
  OBVIOUS
<1>2. PICK y \in Y : \A u \in Y : y <= u
  <2>1. Y \subseteq Nat /\ Y # {}
    BY <1>1
  <2> HIDE DEF Y
  <2> QED BY <2>1, LeastOfNaturals
<1>3. y \in Nat \ {0} /\ \E x \in Int : x * b = a * y
  BY <1>2
<1>4. PICK x \in Int : x * b = a * y
  BY <1>3
<1>5. PICK q \in Int, r \in Int : 0 <= r /\ r < y /\ b = y * q + r
  <2>1. b \in Int /\ y \in Nat \ {0}
    BY <1>3
  <2> QED BY ONLY <2>1, Divides
<1>6. r = 0
  <2>1. SUFFICES ASSUME r # 0 PROVE FALSE
    OBVIOUS
  <2>2. r \in Nat \ {0} /\ a - q * x \in Int
    BY <2>1, <1>5
  <2>3. (a - q * x) * b = a * r
    <3>1. (a - q * x) * b = a * b - q * (x * b)
      BY <1>5
    <3>2. a * b - q * (a * y) = a * (b - y * q)
      BY <1>3, <1>5
    <3> QED BY <3>1, <3>2, <1>4, <1>5
  <2>4. r \in Y
    BY <2>2, <2>3
  <2>5. y <= r
    <3> HIDE DEF Y
    <3> QED BY <2>4, <1>2
  <2> QED BY <2>5, <1>5, <1>3
<1>7. b = y * q /\ q \in Nat \ {0}
  <2>1. b = y * q
    BY <1>5, <1>6, <1>3
  <2>2. ~ (q <= 0)
    BY <2>1, <1>3, <1>5
  <2> QED BY <2>1, <2>2, <1>5
<1>8. a = q * x
  <2>1. y * (q * x) = y * a
    BY <1>3, <1>4, <1>7
  <2>2. q * x \in Int /\ y \in Int /\ y # 0
    BY <1>3, <1>7
  <2> QED BY <2>1, <2>2, Cancel
<1>9. \A v \in Int, u \in Nat \ {0} : v * b = a * u => y <= u
  BY <1>2
<1> DEFINE D == {k \in 1..b : a % k = 0 /\ b % k = 0}
<1>10. q \in D
  <2>1. a % q = 0 /\ b % q = 0
    BY <1>3, <1>7, <1>8, Multiple
  <2>2. q <= b
    BY <1>3, <1>7
  <2> QED BY <2>1, <2>2, <1>7
<1>11. ASSUME NEW k \in D PROVE k <= q
  <2>1. k \in Nat \ {0} /\ a % k = 0 /\ b % k = 0
    OBVIOUS
  <2>2. PICK a1 \in Int, b1 \in Int : a = k * a1 /\ b = k * b1
    <3>1. PICK a1 \in Int : a = k * a1
      BY <2>1, DividesEvenly
    <3>2. PICK b1 \in Int : b = k * b1
      <4>1. b \in Int /\ k \in Nat \ {0} /\ b % k = 0
        BY <2>1
      <4> QED BY ONLY <4>1, DividesEvenly
    <3> QED BY <3>1, <3>2
  <2>3. b1 \in Nat \ {0}
    BY <2>1, <2>2
  <2>4. a1 * b = a * b1
    BY <2>1, <2>2
  <2>5. y <= b1
    BY <1>9, <2>2, <2>3, <2>4
  <2>6. k * b1 = q * y
    BY <1>7, <2>2, <1>3
  <2>7. ~ (q < k)
    BY <2>1, <2>3, <2>5, <2>6, <1>3, <1>7
  <2> QED BY <2>1, <2>7, <1>7
<1>12. Max(D) = q
  <2>1. q \in Nat /\ \A k \in D : k \in Nat
    BY <1>7
  <2> HIDE DEF D
  <2>2. Max(D) \in D /\ \A k \in D : k <= Max(D)
    BY <1>10, <1>11, <2>1 DEF Max
  <2>3. Max(D) <= q
    BY <2>2, <1>11
  <2>4. q <= Max(D)
    BY <2>2, <1>10
  <2> QED BY <2>1, <2>2, <2>3, <2>4
<1>13. a \div q = x /\ b \div q = y
  <2>1. (q * x) \div q = x
    BY <1>7, Multiple
  <2>2. (q * y) \div q = y /\ b = q * y
    BY <1>3, <1>7, Multiple
  <2> QED BY <2>1, <2>2, <1>8
<1>14. Reduced(<<a, b>>) = <<x, y>>
  <2> QED BY <1>12, <1>13 DEF Reduced
<1> QED
  <2>1. b = q * y
    BY <1>3, <1>7
  <2> QED BY <1>3, <1>7, <1>8, <1>9, <1>14, <2>1 DEF LowestTerms

\* A fraction in lowest terms does not depend on how it is written.
LEMMA SameFraction ==
  ASSUME NEW a \in Int, NEW b \in Nat \ {0}, NEW c \in Int, NEW d \in Nat \ {0}, a * d = c * b
  PROVE  Reduced(<<a, b>>) = Reduced(<<c, d>>)
<1>1. PICK x \in Int, y \in Nat \ {0}, q \in Nat \ {0} : LowestTerms(a, b, x, y, q)
  <2>1. a \in Int /\ b \in Nat \ {0}
    OBVIOUS
  <2> QED BY ONLY <2>1, Lowest
<1>2. PICK x1 \in Int, y1 \in Nat \ {0}, q1 \in Nat \ {0} : LowestTerms(c, d, x1, y1, q1)
  <2>1. c \in Int /\ d \in Nat \ {0}
    OBVIOUS
  <2> QED BY ONLY <2>1, Lowest
<1>3. x * b = a * y /\ x1 * d = c * y1
  BY <1>1, <1>2 DEF LowestTerms
<1>4. x * d = c * y
  <2>1. b * (x * d) = b * (c * y)
    <3>1. b * (x * d) = (a * d) * y
      BY <1>3
    <3> QED BY <3>1
  <2>2. x * d \in Int /\ c * y \in Int
    OBVIOUS
  <2> QED BY <2>1, <2>2, Cancel
<1>5. x1 * b = a * y1
  <2>1. d * (x1 * b) = d * (a * y1)
    <3>1. d * (x1 * b) = (c * b) * y1
      BY <1>3
    <3> QED BY <3>1
  <2>2. x1 * b \in Int /\ a * y1 \in Int
    OBVIOUS
  <2> QED BY <2>1, <2>2, Cancel
<1>6. y <= y1 /\ y1 <= y
  BY <1>1, <1>2, <1>4, <1>5 DEF LowestTerms
<1>7. y = y1
  BY <1>6
<1>8. x = x1
  <2>1. b * x = b * x1
    BY <1>3, <1>5, <1>7
  <2> QED BY <2>1, Cancel
<1> QED BY <1>1, <1>2, <1>7, <1>8 DEF LowestTerms

\* A mean counted on is the mean of one value more.
LEMMA MeanCountsOn ==
  ASSUME NEW a \in Int, NEW b \in Nat \ {0}, NEW v \in Int,
         NEW m, m.mean = Reduced(<<a, b>>), m.count = b, NoVal \notin Int, m.mean # NoVal
  PROVE  MeanWith(m, v) = Reduced(<<a + v, b + 1>>)
<1>1. PICK x \in Int, y, q \in Nat \ {0} : a = q * x /\ b = q * y /\ Reduced(<<a, b>>) = <<x, y>>
  BY Lowest DEF LowestTerms
<1>2. MeanWith(m, v) = Reduced(<<x * b + v * y, y * (b + 1)>>)
  BY <1>1 DEF MeanWith
<1>3. x * b + v * y = y * (a + v)
  BY <1>1
<1> DEFINE c == a + v
           d == b + 1
<1>4. c \in Int /\ d \in Nat \ {0} /\ y * c \in Int /\ y * d \in Nat \ {0}
  OBVIOUS
<1>5. MeanWith(m, v) = Reduced(<<y * c, y * d>>)
  BY <1>2, <1>3
<1>6. (y * c) * d = c * (y * d)
  <2> HIDE DEF c, d
  <2> QED BY <1>4
<1>7. Reduced(<<y * c, y * d>>) = Reduced(<<c, d>>)
  <2> HIDE DEF c, d
  <2> QED BY <1>4, <1>6, SameFraction
<1> QED BY <1>5, <1>7

LEMMA WholeIsLowest == ASSUME NEW v \in Int PROVE Reduced(<<v, 1>>) = <<v, 1>>
<1>1. PICK x \in Int, y, q \in Nat \ {0} : v = q * x /\ 1 = q * y /\ Reduced(<<v, 1>>) = <<x, y>>
  BY Lowest DEF LowestTerms
<1>2. q = 1 /\ y = 1
  BY <1>1
<1> QED BY <1>1, <1>2

-----------------------------------------------------------------------------
LEMMA OutermostExist ==
  ASSUME NEW V, IsFiniteSet(V), V # {}, \A r \in V : r.at \in Int
  PROVE  /\ \E r \in V : \A o \in V : r.at <= o.at
         /\ \E r \in V : \A o \in V : o.at <= r.at
<1> DEFINE Ends2(s) == (\E r \in s : \A o \in s : r.at <= o.at) /\ (\E r \in s : \A o \in s : o.at <= r.at)
           T == {Cardinality(s) : s \in {s \in SUBSET V : s # {} /\ ~Ends2(s)}}
<1>1. SUFFICES ASSUME T # {} PROVE FALSE
  OBVIOUS
<1>2. T \subseteq Nat
  BY FS_Subset, FS_CardinalityType
<1>3. PICK m \in T : \A k \in T : m <= k
  BY <1>1, <1>2, LeastOfNaturals
<1>4. PICK s \in SUBSET V : s # {} /\ ~Ends2(s) /\ Cardinality(s) = m
  BY <1>3
<1>5. PICK x \in s : TRUE
  BY <1>4
<1>6. s \ {x} \in SUBSET V /\ Cardinality(s \ {x}) = m - 1 /\ m \in Nat
  BY <1>4, <1>5, SmallerSets
<1>7. s \ {x} # {}
  <2>1. s \ {x} = {} => Ends2(s)
    BY <1>5
  <2> HIDE DEF Ends2
  <2> QED BY <2>1, <1>4
<1>8. Ends2(s \ {x})
  <2>1. ~Ends2(s \ {x}) => m - 1 \in T
    <3> HIDE DEF Ends2
    <3> QED BY <1>6, <1>7
  <2> HIDE DEF Ends2, T
  <2> QED BY <2>1, <1>3, <1>6
<1>9. PICK e \in s \ {x} : \A o \in s \ {x} : e.at <= o.at
  BY <1>8
<1>10. PICK l \in s \ {x} : \A o \in s \ {x} : o.at <= l.at
  BY <1>8
<1>11. e.at \in Int /\ l.at \in Int /\ x.at \in Int /\ \A o \in s : o.at \in Int
  BY <1>5, <1>9, <1>10
<1>12. \E r \in s : \A o \in s : r.at <= o.at
  <2>1. CASE e.at <= x.at
    BY <2>1, <1>9
  <2>2. CASE ~(e.at <= x.at)
    BY <2>2, <1>9, <1>11, <1>5
  <2> QED BY <2>1, <2>2
<1>13. \E r \in s : \A o \in s : o.at <= r.at
  <2>1. CASE x.at <= l.at
    BY <2>1, <1>10
  <2>2. CASE ~(x.at <= l.at)
    BY <2>2, <1>10, <1>11, <1>5
  <2> QED BY <2>1, <2>2
<1> QED BY <1>4, <1>12, <1>13

-----------------------------------------------------------------------------
RowSet(S) == S \subseteq Rows /\ IsFiniteSet(S)
UniqueIds(S) == \A r, q \in S : r.id = q.id => r = q
Valued(S) == {r \in S : r.val # NoVal}
Sums(S) == <<SummaryOf(S), MetricOf(S)>>

LEMMA ValuedRows ==
  ASSUME NEW S, RowSet(S)
  PROVE  /\ Valued(S) \subseteq S /\ IsFiniteSet(Valued(S)) /\ \A r \in Valued(S) : r.val \in Int
         /\ Cardinality(S) \in Nat /\ Cardinality(Valued(S)) \in Nat /\ SumVal(Valued(S)) \in Int
<1>1. Valued(S) \subseteq S /\ IsFiniteSet(Valued(S)) /\ \A r \in Valued(S) : r.val \in Int
  BY FS_Subset DEF RowSet, Valued, Rows, Values
<1>2. Cardinality(S) \in Nat /\ Cardinality(Valued(S)) \in Nat
  BY <1>1, FS_CardinalityType DEF RowSet
<1>3. SumVal(Valued(S)) \in Int
  <2> DEFINE W == Valued(S)
  <2>1. IsFiniteSet(W) /\ \A r \in W : r.val \in Int
    BY <1>1
  <2> HIDE DEF W
  <2>2. \E f : f \in [SUBSET W -> Int] /\ SumsOn(f, SUBSET W) /\ SumVal(W) = f[W]
    BY ONLY <2>1, SumExists
  <2>3. SumVal(W) \in Int
    BY <2>2
  <2> QED BY <2>3 DEF W
<1> QED BY <1>1, <1>2, <1>3

LEMMA MetricIs ==
  ASSUME NEW S
  PROVE  MetricOf(S) =
           [n |-> Cardinality(S), count |-> Cardinality(Valued(S)),
            mean |-> IF Valued(S) = {} THEN NoVal ELSE Reduced(<<SumVal(Valued(S)), Cardinality(Valued(S))>>)]
BY DEF MetricOf, Valued, SumVal

LEMMA IsMin == ASSUME NEW A \in SUBSET Int, NEW k \in A, \A t \in A : k <= t PROVE Min(A) = k
<1>1. Min(A) \in A /\ \A t \in A : Min(A) <= t
  BY DEF Min
<1>2. Min(A) \in Int /\ k \in Int /\ Min(A) <= k /\ k <= Min(A)
  BY <1>1
<1> QED BY <1>2

LEMMA IsMax == ASSUME NEW A \in SUBSET Int, NEW k \in A, \A t \in A : t <= k PROVE Max(A) = k
<1>1. \A t \in A : k >= t
  OBVIOUS
<1>2. Max(A) \in A /\ \A t \in A : Max(A) >= t
  BY <1>1 DEF Max
<1>3. Max(A) \in Int /\ k \in Int /\ Max(A) <= k /\ k <= Max(A)
  BY <1>2
<1> QED BY <1>3

LEMMA MinWith ==
  ASSUME NEW A \in SUBSET Int, NEW m \in A, \A t \in A : m <= t, NEW x \in Int
  PROVE  Min(A \cup {x}) = Min({m, x})
<1>1. CASE m <= x
  <2>1. Min({m, x}) = m
    <3>1. {m, x} \in SUBSET Int /\ m \in {m, x} /\ \A t \in {m, x} : m <= t
      BY <1>1
    <3> QED BY ONLY <3>1, IsMin
  <2>2. Min(A \cup {x}) = m
    <3>1. A \cup {x} \in SUBSET Int /\ m \in A \cup {x} /\ \A t \in A \cup {x} : m <= t
      BY <1>1
    <3> QED BY ONLY <3>1, IsMin
  <2> QED BY <2>1, <2>2
<1>2. CASE ~(m <= x)
  <2>1. Min({m, x}) = x
    <3>1. {m, x} \in SUBSET Int /\ x \in {m, x} /\ \A t \in {m, x} : x <= t
      BY <1>2
    <3> QED BY ONLY <3>1, IsMin
  <2>2. Min(A \cup {x}) = x
    <3>1. A \cup {x} \in SUBSET Int /\ x \in A \cup {x} /\ \A t \in A \cup {x} : x <= t
      <4>1. \A t \in A : t \in Int /\ m \in Int /\ x \in Int /\ m <= t
        OBVIOUS
      <4> QED BY <1>2, <4>1
    <3> QED BY ONLY <3>1, IsMin
  <2> QED BY <2>1, <2>2
<1> QED BY <1>1, <1>2

LEMMA MaxWith ==
  ASSUME NEW A \in SUBSET Int, NEW m \in A, \A t \in A : t <= m, NEW x \in Int
  PROVE  Max(A \cup {x}) = Max({m, x})
<1>1. CASE x <= m
  <2>1. Max({m, x}) = m
    <3>1. {m, x} \in SUBSET Int /\ m \in {m, x} /\ \A t \in {m, x} : t <= m
      BY <1>1
    <3> QED BY ONLY <3>1, IsMax
  <2>2. Max(A \cup {x}) = m
    <3>1. A \cup {x} \in SUBSET Int /\ m \in A \cup {x} /\ \A t \in A \cup {x} : t <= m
      BY <1>1
    <3> QED BY ONLY <3>1, IsMax
  <2> QED BY <2>1, <2>2
<1>2. CASE ~(x <= m)
  <2>1. Max({m, x}) = x
    <3>1. {m, x} \in SUBSET Int /\ x \in {m, x} /\ \A t \in {m, x} : t <= x
      BY <1>2
    <3> QED BY ONLY <3>1, IsMax
  <2>2. Max(A \cup {x}) = x
    <3>1. A \cup {x} \in SUBSET Int /\ x \in A \cup {x} /\ \A t \in A \cup {x} : t <= x
      <4>1. \A t \in A : t \in Int /\ m \in Int /\ x \in Int /\ t <= m
        OBVIOUS
      <4> QED BY <1>2, <4>1
    <3> QED BY ONLY <3>1, IsMax
  <2> QED BY <2>1, <2>2
<1> QED BY <1>1, <1>2

LEMMA OuterTimes ==
  ASSUME NEW S, RowSet(S), S # {}
  PROVE  LET A == {r.at : r \in S} IN
         /\ Min(A) \in A /\ Max(A) \in A /\ A \subseteq Int
         /\ \A t \in A : Min(A) <= t /\ t <= Max(A)
<1> DEFINE A == {r.at : r \in S}
<1>1. \A r \in S : r.at \in Int
  BY DEF RowSet, Rows
<1>2. (\E r \in S : \A o \in S : r.at <= o.at) /\ (\E r \in S : \A o \in S : o.at <= r.at)
  BY <1>1, OutermostExist DEF RowSet
<1>3. A \subseteq Int /\ (\E t \in A : \A u \in A : t <= u) /\ (\E t \in A : \A u \in A : t >= u)
  BY <1>1, <1>2
<1> HIDE DEF A
<1>4. Min(A) \in A /\ \A u \in A : Min(A) <= u
  BY <1>3 DEF Min
<1>5. Max(A) \in A /\ \A u \in A : Max(A) >= u
  BY <1>3 DEF Max
<1>6. \A u \in A : u <= Max(A)
  BY <1>3, <1>5
<1> QED BY <1>3, <1>4, <1>5, <1>6 DEF A

\* What one row more does to the summary of an hour.
LEMMA SummaryAdds ==
  ASSUME NEW S, RowSet(S), NEW r \in Rows, r \notin S
  PROVE  SummaryOf(S \cup {r}) =
           IF S = {} THEN [n |-> 1, first |-> r.at, last |-> r.at]
           ELSE [n |-> SummaryOf(S).n + 1, first |-> Min({SummaryOf(S).first, r.at}), last |-> Max({SummaryOf(S).last, r.at})]
<1> DEFINE T == S \cup {r}
           A == {q.at : q \in S}
           B == {q.at : q \in T}
<1>1. RowSet(T) /\ Cardinality(T) = Cardinality(S) + 1
  BY FS_AddElement DEF RowSet
<1>2. r.at \in Int /\ B = A \cup {r.at} /\ T # {}
  BY DEF Rows
<1>3. Min(B) \in B /\ Max(B) \in B /\ B \subseteq Int /\ \A t \in B : Min(B) <= t /\ t <= Max(B)
  <2> HIDE DEF T
  <2> QED BY <1>1, <1>2, OuterTimes
<1>4. CASE S = {}
  <2>1. Cardinality(S) = 0 /\ A = {}
    BY <1>4, FS_EmptySet
  <2>2. Min(B) = r.at /\ Max(B) = r.at
    <3> HIDE DEF A, B
    <3> QED BY <1>2, <1>3, <2>1
  <2> HIDE DEF A
  <2> QED BY <1>1, <1>4, <2>1, <2>2 DEF SummaryOf
<1>5. CASE S # {}
  <2>1. Min(A) \in A /\ Max(A) \in A /\ A \subseteq Int /\ \A t \in A : Min(A) <= t /\ t <= Max(A)
    BY <1>5, OuterTimes
  <2> HIDE DEF A
  <2>2. Min({Min(A), r.at}) = Min(B)
    BY <1>2, <2>1, MinWith
  <2>3. Max({Max(A), r.at}) = Max(B)
    BY <1>2, <2>1, MaxWith
  <2>4. SummaryOf(S) = [n |-> Cardinality(S), first |-> Min(A), last |-> Max(A)]
    BY DEF SummaryOf, A
  <2>5. SummaryOf(T) = [n |-> Cardinality(T), first |-> Min(B), last |-> Max(B)]
    BY DEF SummaryOf
  <2> HIDE DEF T, B
  <2>6. SummaryOf(T) = [n |-> SummaryOf(S).n + 1, first |-> Min({SummaryOf(S).first, r.at}), last |-> Max({SummaryOf(S).last, r.at})]
    BY <1>1, <2>2, <2>3, <2>4, <2>5
  <2> QED BY <1>5, <2>6 DEF T
<1> QED BY <1>4, <1>5

\* What one row more does to the metric.
LEMMA MetricAdds ==
  ASSUME NEW S, RowSet(S), NEW r \in Rows, r \notin S
  PROVE  LET c == IF r.val = NoVal THEN 0 ELSE 1 IN
         MetricOf(S \cup {r}) =
           IF S = {} THEN [n |-> 1, count |-> c, mean |-> IF c = 0 THEN NoVal ELSE <<r.val, 1>>]
           ELSE [n |-> MetricOf(S).n + 1, count |-> MetricOf(S).count + c, mean |-> MeanWith(MetricOf(S), r.val)]
<1> DEFINE T == S \cup {r}
           V == Valued(S)
           W == Valued(T)
<1>1. RowSet(T) /\ Cardinality(T) = Cardinality(S) + 1 /\ Cardinality(S) \in Nat
  BY FS_AddElement, FS_CardinalityType DEF RowSet
<1>2. /\ V \subseteq S /\ IsFiniteSet(V) /\ Cardinality(V) \in Nat /\ SumVal(V) \in Int
      /\ IsFiniteSet(W) /\ \A q \in W : q.val \in Int
  <2> HIDE DEF T
  <2> QED BY <1>1, ValuedRows
<1>3. S = {} => Cardinality(S) = 0 /\ V = {}
  BY <1>2, FS_EmptySet
<1>4. V = {} <=> Cardinality(V) = 0
  <2> HIDE DEF V
  <2> QED BY <1>2, FS_EmptySet
<1>5. V = {} => SumVal(V) = 0
  BY SumOfNone
<1>6. MetricOf(S) = [n |-> Cardinality(S), count |-> Cardinality(V), mean |-> IF V = {} THEN NoVal ELSE Reduced(<<SumVal(V), Cardinality(V)>>)]
  BY MetricIs
<1>7. MetricOf(T) = [n |-> Cardinality(T), count |-> Cardinality(W), mean |-> IF W = {} THEN NoVal ELSE Reduced(<<SumVal(W), Cardinality(W)>>)]
  BY MetricIs
<1>8. CASE r.val = NoVal
  <2>1. W = V /\ T = S \cup {r}
    BY <1>8 DEF Valued
  <2>2. MeanWith(MetricOf(S), r.val) = MetricOf(S).mean
    BY <1>8 DEF MeanWith
  <2> HIDE DEF V, W, T
  <2>3. CASE S = {}
    <3>1. Cardinality(T) = 1 /\ V = {} /\ Cardinality(V) = 0
      BY <1>1, <1>3, <1>4, <2>3
    <3>2. MetricOf(T) = [n |-> 1, count |-> 0, mean |-> NoVal]
      BY <1>7, <2>1, <3>1
    <3> QED BY <1>8, <2>1, <2>3, <3>2
  <2>4. CASE S # {}
    BY <1>1, <1>2, <1>6, <1>7, <1>8, <2>1, <2>2, <2>4 DEF T
  <2> QED BY <2>3, <2>4
<1>9. CASE r.val # NoVal
  <2>1. W = V \cup {r} /\ r \notin V /\ r \in W /\ W \ {r} = V
    BY <1>9 DEF Valued
  <2>2. r.val \in Int /\ r.val # NoVal
    BY <1>9 DEF Rows, Values
  <2> HIDE DEF V, W
  <2>3. Cardinality(W) = Cardinality(V) + 1
    BY <1>2, <2>1, FS_AddElement
  <2>4. SumVal(W) = r.val + SumVal(V)
    <3>1. IsFiniteSet(W) /\ (\A q \in W : q.val \in Int) /\ r \in W
      BY <1>2, <2>1
    <3>2. SumVal(W) = r.val + SumVal(W \ {r})
      BY ONLY <3>1, SumAdds
    <3> QED BY <3>2, <2>1
  <2>5. MetricOf(T).mean = Reduced(<<SumVal(V) + r.val, Cardinality(V) + 1>>)
    <3>1. W # {}
      BY <2>1
    <3>2. r.val + SumVal(V) = SumVal(V) + r.val
      BY <1>2, <2>2
    <3>3. MetricOf(T).mean = Reduced(<<SumVal(W), Cardinality(W)>>)
      BY <1>7, <3>1
    <3> QED BY <2>3, <2>4, <3>2, <3>3
  <2>6. CASE V = {}
    <3>1. MetricOf(T).mean = <<r.val, 1>>
      <4>1. SumVal(V) = 0 /\ Cardinality(V) = 0
        BY <1>4, <1>5, <2>6
      <4>2. MetricOf(T).mean = Reduced(<<r.val, 1>>)
        BY <2>2, <2>5, <4>1
      <4> QED BY <2>2, <4>2, WholeIsLowest
    <3>2. MetricOf(S).mean = NoVal
      BY <1>6, <2>6
    <3>3. MeanWith(MetricOf(S), r.val) = <<r.val, 1>>
      BY <3>2, <2>2 DEF MeanWith
    <3>4. Cardinality(V) = 0
      BY <1>4, <2>6
    <3>5. MetricOf(T) = [n |-> Cardinality(S) + 1, count |-> 1, mean |-> <<r.val, 1>>]
      <4>1. Cardinality(W) = 1
        BY <2>3, <3>4
      <4> HIDE DEF T
      <4> QED BY <1>1, <1>7, <3>1, <4>1
    <3>6. CASE S = {}
      BY <1>3, <2>2, <3>5, <3>6
    <3>7. CASE S # {}
      <4>1. MetricOf(S).n = Cardinality(S) /\ MetricOf(S).count = 0
        BY <1>6, <3>4
      <4> QED BY <2>2, <3>3, <3>5, <3>7, <4>1
    <3> QED BY <3>6, <3>7
  <2>7. CASE V # {}
    <3>1. Cardinality(V) \in Nat \ {0} /\ S # {}
      BY <1>2, <1>3, <1>4, <2>7
    <3>2. PICK x \in Int, y \in Nat \ {0}, q \in Nat \ {0} : LowestTerms(SumVal(V), Cardinality(V), x, y, q)
      BY ONLY <1>2, <3>1, Lowest
    <3>3. MetricOf(S).mean = Reduced(<<SumVal(V), Cardinality(V)>>) /\ MetricOf(S).count = Cardinality(V)
      BY <1>6, <2>7
    <3>4. NoVal \notin Int /\ MetricOf(S).mean # NoVal
      <4>1. NoVal \notin Int /\ NoVal \notin Int \X Int
        BY StoreAssumption
      <4>2. MetricOf(S).mean = <<x, y>>
        BY <3>2, <3>3 DEF LowestTerms
      <4>3. <<x, y>> \in Int \X Int
        BY <3>2
      <4> QED BY <4>1, <4>2, <4>3
    <3> DEFINE m == MetricOf(S)
               a == SumVal(V)
               b == Cardinality(V)
    <3>5. m.mean = Reduced(<<a, b>>) /\ m.count = b /\ NoVal \notin Int /\ m.mean # NoVal /\ a \in Int /\ b \in Nat \ {0} /\ r.val \in Int
      BY <1>2, <3>1, <3>3, <3>4, <2>2
    <3>6. MeanWith(m, r.val) = Reduced(<<a + r.val, b + 1>>)
      <4> HIDE DEF m, a, b
      <4> QED BY ONLY <3>5, MeanCountsOn
    <3> HIDE DEF T
    <3> QED BY <1>1, <1>6, <1>7, <2>2, <2>3, <2>5, <3>1, <3>6 DEF T
  <2> QED BY <2>6, <2>7
<1> QED BY <1>8, <1>9

-----------------------------------------------------------------------------
\* What the tables and the points under way are, and the inductive invariant:
\* a point in the table that is not yet counted is the row it made, until
\* something is known to have gone wrong in its hour, and a summary is that of
\* the rows of its hour without those.
PointRecords ==
  [no : Nat, at : Int, mid : Ids, uuid : Ids, val : Values, step : {"insert", "hour", "metric"}, row : Nat]

TableTyped == RowSet(datas) /\ UniqueIds(datas) /\ nextId \in Nat /\ \A r \in datas : r.id < nextId
PointsTyped == pending \subseteq PointRecords /\ sent \in Nat /\ now \in Int
ArchiveTyped == archive.points \in Seq(ArchivePoints)
ExportTyped ==
  /\ {"status", "kept", "steady"} \subseteq DOMAIN export
  /\ export.status \in {"running", "completed"} =>
       {"range", "total", "counted", "file", "ended"} \subseteq DOMAIN export /\ export.file \in Seq(Rows)
StoreTyped == TableTyped /\ PointsTyped /\ ArchiveTyped /\ ExportTyped

Counted == {p \in pending : p.step # "insert"}
Stands(S, p) == \E r \in S : r.id = p.row /\ r.at = p.at /\ r.val = p.val
RowsOfPoints ==
  /\ \A p \in Counted : p.row < nextId
  /\ \A p \in Counted : Hour(p.at) \notin off => Stands(datas, p)
  /\ \A p, q \in Counted : p.row = q.row /\ Hour(p.at) = Hour(q.at) /\ Hour(p.at) \notin off => p = q

Owed(steps, h) == {p.row : p \in {q \in pending : q.step \in steps /\ Hour(q.at) = h}}
Counting(S, h, E) == {r \in S : Hour(r.at) = h /\ r.id \notin E}
Tells(T, h, C, s) == (h \in DOMAIN T <=> C # {}) /\ (C # {} => T[h] = s)
HourTold(h) ==
  LET C == Counting(datas, h, Owed({"hour"}, h)) IN Tells(hours, h, C, SummaryOf(C))
MetricTold(h) ==
  LET C == Counting(datas, h, Owed({"hour", "metric"}, h)) IN Tells(metrics, h, C, MetricOf(C))

Told == \A h : h \notin off => HourTold(h) /\ MetricTold(h)

StoreInv ==
  StoreTyped /\ RowsOfPoints /\ Told

-----------------------------------------------------------------------------
\* What of an hour two tables agree on: the summaries of its rows without
\* those of any ids, and the rows that stand.
SameSums(S, T, h) ==
  \A E : LET C == Counting(S, h, E)
             D == Counting(T, h, E) IN
         (C = {} <=> D = {}) /\ SummaryOf(C) = SummaryOf(D) /\ MetricOf(C) = MetricOf(D)
SameHour(S, T, h) == SameSums(S, T, h) /\ \A p : Hour(p.at) = h /\ Stands(S, p) => Stands(T, p)

LEMMA SameHourOn ==
  ASSUME NEW S, NEW T, NEW W, NEW h, SameHour(S, T, h), SameHour(T, W, h)
  PROVE  SameHour(S, W, h)
BY DEF SameHour, SameSums

LEMMA SameRows ==
  ASSUME NEW S, NEW T, NEW h, \A r : Hour(r.at) = h => (r \in S <=> r \in T)
  PROVE  SameHour(S, T, h)
<1>1. \A E : Counting(S, h, E) = Counting(T, h, E)
  BY DEF Counting
<1>2. \A p : Hour(p.at) = h /\ Stands(S, p) => Stands(T, p)
  BY DEF Stands
<1> QED BY <1>1, <1>2 DEF SameHour, SameSums

\* A row in the place of one with its time and value.
LEMMA ReplacedRow ==
  ASSUME NEW S, RowSet(S), NEW r \in S, NEW q \in Rows, q \notin S \ {r}, q.at = r.at, q.val = r.val
  PROVE  LET T == (S \ {r}) \cup {q} IN SummaryOf(T) = SummaryOf(S) /\ MetricOf(T) = MetricOf(S)
<1> DEFINE R == S \ {r}
<1>1. RowSet(R) /\ r \in Rows /\ r \notin R /\ q \notin R
  BY FS_RemoveElement DEF RowSet
<1>2. S = R \cup {r}
  OBVIOUS
<1> HIDE DEF R
<1> DEFINE Add(x) == IF R = {} THEN [n |-> 1, first |-> x, last |-> x]
             ELSE [n |-> SummaryOf(R).n + 1, first |-> Min({SummaryOf(R).first, x}), last |-> Max({SummaryOf(R).last, x})]
           AddTo(v) == LET c == IF v = NoVal THEN 0 ELSE 1 IN
             IF R = {} THEN [n |-> 1, count |-> c, mean |-> IF c = 0 THEN NoVal ELSE <<v, 1>>]
             ELSE [n |-> MetricOf(R).n + 1, count |-> MetricOf(R).count + c, mean |-> MeanWith(MetricOf(R), v)]
<1>3. \A x \in Rows : x \notin R => SummaryOf(R \cup {x}) = Add(x.at)
  BY <1>1, SummaryAdds
<1>4. \A x \in Rows : x \notin R => MetricOf(R \cup {x}) = AddTo(x.val)
  BY <1>1, MetricAdds
<1> HIDE DEF Add, AddTo
<1>5. SummaryOf(R \cup {q}) = SummaryOf(R \cup {r}) /\ MetricOf(R \cup {q}) = MetricOf(R \cup {r})
  BY <1>1, <1>3, <1>4
<1> QED BY <1>2, <1>5 DEF R

Pointlike(p) == p.at \in Int /\ p.mid \in Ids /\ p.uuid \in Ids /\ p.val \in Values

LEMMA RowOfPoint ==
  ASSUME NEW i \in Nat, NEW p, Pointlike(p)
  PROVE  /\ RowOf(i, p) \in Rows /\ RowOf(i, p).id = i
         /\ RowOf(i, p).at = p.at /\ RowOf(i, p).val = p.val
BY DEF RowOf, Rows, Pointlike

\* A point written over a row with an id of its own.
LEMMA WrittenOver ==
  ASSUME NEW S, RowSet(S), UniqueIds(S), NEW r \in S, NEW p, Pointlike(p), NEW h,
         Moved(r, p) => h \notin HoursOf({r, p})
  PROVE  SameHour(S, (S \ {r}) \cup {RowOf(r.id, p)}, h)
<1> DEFINE q == RowOf(r.id, p)
           T == (S \ {r}) \cup {q}
<1>1. r.id \in Nat
  BY DEF RowSet, Rows
<1>2. q \in Rows /\ q.id = r.id /\ q.at = p.at /\ q.val = p.val
  BY <1>1, RowOfPoint
<1>3. q \notin S \ {r}
  BY <1>2 DEF UniqueIds
<1> HIDE DEF q
<1>4. CASE Moved(r, p)
  <2>1. Hour(r.at) # h /\ Hour(q.at) # h
    BY <1>2, <1>4 DEF HoursOf
  <2>2. \A o : Hour(o.at) = h => (o \in S <=> o \in T)
    BY <2>1
  <2> QED BY <2>2, SameRows DEF q
<1>5. CASE ~Moved(r, p)
  <2>1. q.at = r.at /\ q.val = r.val
    BY <1>2, <1>5 DEF Moved
  <2>2. SameSums(S, T, h)
    <3> SUFFICES ASSUME NEW E
                 PROVE  LET C == Counting(S, h, E)
                            D == Counting(T, h, E) IN
                        (C = {} <=> D = {}) /\ SummaryOf(C) = SummaryOf(D) /\ MetricOf(C) = MetricOf(D)
      BY DEF SameSums
    <3> DEFINE C == Counting(S, h, E)
               D == Counting(T, h, E)
    <3>1. CASE Hour(r.at) = h /\ r.id \notin E
      <4>1. r \in C /\ RowSet(C) /\ q \notin C \ {r}
        BY <1>3, <3>1, FS_Subset DEF Counting, RowSet
      <4>2. D = (C \ {r}) \cup {q}
        BY <1>2, <2>1, <3>1 DEF Counting
      <4> HIDE DEF C, D
      <4>3. SummaryOf(D) = SummaryOf(C) /\ MetricOf(D) = MetricOf(C)
        BY <1>2, <2>1, <4>1, <4>2, ReplacedRow
      <4> QED BY <4>1, <4>2, <4>3 DEF C, D
    <3>2. CASE ~(Hour(r.at) = h /\ r.id \notin E)
      <4>1. C = D
        BY <1>2, <2>1, <3>2 DEF Counting
      <4> QED BY <4>1
    <3> QED BY <3>1, <3>2
  <2>3. \A o : Stands(S, o) => Stands(T, o)
    BY <1>2, <2>1 DEF Stands
  <2> QED BY <2>2, <2>3 DEF SameHour, q
<1> QED BY <1>4, <1>5

LEMMA OverwrittenTyped ==
  ASSUME NEW S, RowSet(S), UniqueIds(S), NEW r \in S, NEW p, Pointlike(p)
  PROVE  LET T == (S \ {r}) \cup {RowOf(r.id, p)} IN RowSet(T) /\ UniqueIds(T)
<1>1. r.id \in Nat
  BY DEF RowSet, Rows
<1>2. RowOf(r.id, p) \in Rows /\ RowOf(r.id, p).id = r.id
  BY <1>1, RowOfPoint
<1>3. IsFiniteSet(S \ {r})
  BY FS_RemoveElement DEF RowSet
<1>4. IsFiniteSet((S \ {r}) \cup {RowOf(r.id, p)})
  BY <1>3, FS_AddElement
<1>5. (S \ {r}) \cup {RowOf(r.id, p)} \subseteq Rows
  BY <1>2 DEF RowSet
<1>6. UniqueIds((S \ {r}) \cup {RowOf(r.id, p)})
  BY <1>2 DEF UniqueIds
<1> QED BY <1>4, <1>5, <1>6 DEF RowSet

LEMMA NewRow ==
  ASSUME NEW S, RowSet(S), UniqueIds(S), NEW n \in Nat, \A r \in S : r.id < n, NEW p, Pointlike(p)
  PROVE  LET T == S \cup {RowOf(n, p)} IN
         /\ RowSet(T) /\ UniqueIds(T) /\ \A r \in T : r.id < n + 1
         /\ \A h : h # Hour(p.at) => SameHour(S, T, h)
<1> DEFINE q == RowOf(n, p)
           T == S \cup {q}
<1>1. q \in Rows /\ q.id = n /\ q.at = p.at
  BY RowOfPoint
<1> HIDE DEF q
<1>2. \A r \in S : r.id \in Nat /\ r.id < n
  BY DEF RowSet, Rows
<1>3. RowSet(T)
  BY <1>1, FS_AddElement DEF RowSet
<1>4. UniqueIds(T)
  BY <1>1, <1>2 DEF UniqueIds
<1>5. \A r \in T : r.id < n + 1
  BY <1>1, <1>2
<1>6. ASSUME NEW h, h # Hour(p.at) PROVE SameHour(S, T, h)
  <2>1. \A r : Hour(r.at) = h => (r \in S <=> r \in T)
    BY <1>1, <1>6
  <2> QED BY <2>1, SameRows
<1> QED BY <1>3, <1>4, <1>5, <1>6 DEF q

-----------------------------------------------------------------------------
\* The points that are not counted, in the terms of those that are in the table.
LEMMA OwedOfCounted ==
  ASSUME NEW h
  PROVE  /\ Owed({"hour"}, h) = {p.row : p \in {q \in Counted : q.step = "hour" /\ Hour(q.at) = h}}
         /\ pending \subseteq PointRecords =>
              Owed({"hour", "metric"}, h) = {p.row : p \in {q \in Counted : Hour(q.at) = h}}
         /\ Uncounted = {Hour(p.at) : p \in Counted}
<1>1. Owed({"hour"}, h) = {p.row : p \in {q \in Counted : q.step = "hour" /\ Hour(q.at) = h}}
  BY DEF Owed, Counted
<1>2. ASSUME pending \subseteq PointRecords
      PROVE Owed({"hour", "metric"}, h) = {p.row : p \in {q \in Counted : Hour(q.at) = h}}
  BY <1>2 DEF Owed, Counted, PointRecords
<1>3. Uncounted = {Hour(p.at) : p \in Counted}
  BY DEF Uncounted, HoursOf, Counted
<1> QED BY <1>1, <1>2, <1>3

\* A step that changes the table in hours it marks, or not for the summaries.
LEMMA TableChanges ==
  ASSUME StoreInv, Counted' = Counted, pending' \subseteq PointRecords,
         nextId' \in Nat, nextId <= nextId', hours' = hours, metrics' = metrics, off \subseteq off',
         \A h : h \notin off' => SameHour(datas, datas', h)
  PROVE  RowsOfPoints' /\ Told'
<1>1. RowsOfPoints'
  <2>1. \A p \in Counted' : p.row < nextId'
    BY DEF StoreInv, StoreTyped, TableTyped, PointsTyped, RowsOfPoints, Counted, PointRecords
  <2>2. \A p \in Counted' : Hour(p.at) \notin off' => Stands(datas', p)
    BY DEF StoreInv, RowsOfPoints, SameHour
  <2>3. \A p, q \in Counted' : p.row = q.row /\ Hour(p.at) = Hour(q.at) /\ Hour(p.at) \notin off' => p = q
    BY DEF StoreInv, RowsOfPoints
  <2> QED BY <2>1, <2>2, <2>3 DEF RowsOfPoints
<1>2. ASSUME NEW h, h \notin off' PROVE HourTold(h)' /\ MetricTold(h)'
  <2>1. HourTold(h) /\ MetricTold(h)
    BY <1>2 DEF StoreInv, Told
  <2>2. Owed({"hour"}, h)' = Owed({"hour"}, h)
    BY OwedOfCounted DEF Owed, Counted
  <2>3. Owed({"hour", "metric"}, h)' = Owed({"hour", "metric"}, h)
    BY DEF Owed, Counted, PointRecords, StoreInv, StoreTyped, PointsTyped
  <2>4. SameSums(datas, datas', h)
    BY <1>2 DEF SameHour
  <2>5. HourTold(h)'
    BY <2>1, <2>2, <2>4 DEF HourTold, Tells, SameSums
  <2>6. MetricTold(h)'
    BY <2>1, <2>3, <2>4 DEF MetricTold, Tells, SameSums
  <2> QED BY <2>5, <2>6
<1> QED BY <1>1, <1>2 DEF Told

\* Rows that leave the table mark their hours.
LEMMA RemovalKept ==
  ASSUME StoreInv, NEW S, Removed(S), UNCHANGED <<nextId, hours, metrics, pending, sent, now>>
  PROVE  RowsOfPoints' /\ Told' /\ TableTyped' /\ PointsTyped' /\ ExportTyped'
<1>1. off \subseteq off' /\ datas' = datas \ S
  BY DEF Removed
<1>2. \A h : h \notin off' => SameHour(datas, datas', h)
  <2> SUFFICES ASSUME NEW h, h \notin off' PROVE SameHour(datas, datas', h)
    OBVIOUS
  <2>1. \A r : Hour(r.at) = h => (r \in datas <=> r \in datas')
    BY DEF Removed, HoursOf
  <2> QED BY <2>1, SameRows
<1>3. Counted' = Counted /\ pending' \subseteq PointRecords /\ nextId' \in Nat /\ nextId <= nextId'
  BY DEF Counted, StoreInv, StoreTyped, PointsTyped, TableTyped
<1>4. RowsOfPoints' /\ Told'
  BY <1>1, <1>2, <1>3, TableChanges
<1>5. TableTyped'
  BY <1>1, FS_Difference, FS_Subset DEF StoreInv, StoreTyped, TableTyped, RowSet, UniqueIds
<1>6. PointsTyped'
  BY DEF StoreInv, StoreTyped, PointsTyped
<1>7. ExportTyped'
  BY DEF StoreInv, StoreTyped, ExportTyped, Removed
<1> QED BY <1>4, <1>5, <1>6, <1>7

\* With the end of a server run the hours it was counting in are marked.
LEMMA EndsKept ==
  ASSUME StoreInv, Ends, UNCHANGED <<now, tables, sent>>
  PROVE  RowsOfPoints' /\ Told' /\ TableTyped' /\ PointsTyped' /\ ExportTyped'
<1>1. Counted' = {}
  BY DEF Ends, Counted
<1>2. RowsOfPoints'
  BY <1>1 DEF RowsOfPoints
<1>3. ASSUME NEW h, h \notin off' PROVE HourTold(h)' /\ MetricTold(h)'
  <2>1. HourTold(h) /\ MetricTold(h)
    BY <1>3 DEF StoreInv, Told, Ends
  <2>2. Owed({"hour"}, h) = {} /\ Owed({"hour", "metric"}, h) = {}
    BY <1>3 DEF Ends, Uncounted, HoursOf, Owed
  <2>3. Owed({"hour"}, h)' = {} /\ Owed({"hour", "metric"}, h)' = {}
    BY DEF Ends, Owed
  <2>4. datas' = datas /\ hours' = hours /\ metrics' = metrics
    BY DEF tables
  <2>5. HourTold(h)'
    BY <2>1, <2>2, <2>3, <2>4 DEF HourTold, Tells, Counting
  <2>6. MetricTold(h)'
    BY <2>1, <2>2, <2>3, <2>4 DEF MetricTold, Tells, Counting
  <2> QED BY <2>5, <2>6
<1>4. TableTyped'
  BY DEF StoreInv, StoreTyped, TableTyped, tables
<1>5. PointsTyped'
  BY DEF StoreInv, StoreTyped, PointsTyped, Ends
<1>6. ExportTyped'
  BY DEF StoreInv, StoreTyped, ExportTyped, Ends
<1> QED BY <1>2, <1>3, <1>4, <1>5, <1>6 DEF Told

\* A step that leaves the tables and the points in them alone.
LEMMA TablesKept ==
  ASSUME StoreInv, UNCHANGED <<tables, off>>, Counted' = Counted, PointsTyped'
  PROVE  RowsOfPoints' /\ Told' /\ TableTyped'
<1>1. datas' = datas /\ nextId' = nextId /\ hours' = hours /\ metrics' = metrics /\ off' = off
  BY DEF tables
<1>2. \A h : SameHour(datas, datas', h)
  BY <1>1, SameRows
<1>3. RowsOfPoints' /\ Told'
  BY <1>1, <1>2, TableChanges DEF StoreInv, StoreTyped, TableTyped, PointsTyped
<1>4. TableTyped'
  BY <1>1 DEF StoreInv, StoreTyped, TableTyped
<1> QED BY <1>3, <1>4

-----------------------------------------------------------------------------
\* The steps of a point.
LEMMA IngestKept ==
  ASSUME StoreInv, StoreAssumption, NEW key \in Keys, NEW reading \in Readings, IngestPoint(key, reading)
  PROVE  Counted' = Counted /\ PointsTyped'
<1> DEFINE v == MetricValue(NormalizePayload(reading))
<1>1. v \in Values
  BY DEF StoreAssumption, MetricValue, NormalizePayload, Readings, Values
<1>2. key[1] \in Ids /\ key[2] \in Ids
  BY DEF Ids
<1>3. sent \in Nat /\ now \in Int /\ pending \subseteq PointRecords
  BY DEF StoreInv, StoreTyped, PointsTyped
<1> HIDE DEF v
<1> DEFINE p == [no |-> sent, at |-> now, mid |-> key[1], uuid |-> key[2], val |-> v, step |-> "insert", row |-> 0]
<1>4. p \in PointRecords /\ p.step = "insert"
  BY <1>1, <1>2, <1>3 DEF PointRecords
<1>5. pending' = pending \cup {p} /\ sent' = sent + 1 /\ now' = now
  BY DEF IngestPoint, v
<1> HIDE DEF p
<1>6. Counted' = Counted
  BY <1>4, <1>5 DEF Counted
<1>7. PointsTyped'
  BY <1>3, <1>4, <1>5 DEF PointsTyped
<1> QED BY <1>6, <1>7

LEMMA PointOf ==
  ASSUME StoreInv, NEW p \in pending
  PROVE  /\ Pointlike(p) /\ p \in PointRecords
         /\ p.step # "insert" => p \in Counted
BY DEF StoreInv, StoreTyped, PointsTyped, PointRecords, Pointlike, Counted

\* A point that makes a row: the row is not counted, and the point owes it.
LEMMA InsertedKept ==
  ASSUME StoreInv, NEW p \in pending, p.step = "insert",
         datas' = datas \cup {RowOf(nextId, p)}, nextId' = nextId + 1,
         pending' = (pending \ {p}) \cup {[p EXCEPT !.step = "hour", !.row = nextId]},
         UNCHANGED <<off, hours, metrics, sent, now>>
  PROVE  RowsOfPoints' /\ Told' /\ TableTyped' /\ PointsTyped'
<1> DEFINE np == [p EXCEPT !.step = "hour", !.row = nextId]
           r == RowOf(nextId, p)
<1>1. Pointlike(p) /\ p \in PointRecords
  BY PointOf
<1>2. RowSet(datas) /\ UniqueIds(datas) /\ nextId \in Nat /\ \A o \in datas : o.id < nextId /\ o.id \in Nat
  BY DEF StoreInv, StoreTyped, TableTyped, RowSet, Rows
<1>3. r.id = nextId /\ r.at = p.at /\ r.val = p.val
  BY <1>1, <1>2, RowOfPoint
<1>4. np \in PointRecords /\ np.row = nextId /\ np.at = p.at /\ np.val = p.val /\ np.step = "hour"
  BY <1>1, <1>2 DEF PointRecords
<1>5. TableTyped'
  <2>1. RowSet(datas \cup {r}) /\ UniqueIds(datas \cup {r}) /\ \A o \in datas \cup {r} : o.id < nextId + 1
    BY <1>1, <1>2, NewRow
  <2> HIDE DEF r
  <2>2. datas' = datas \cup {r} /\ nextId' \in Nat /\ nextId' = nextId + 1
    BY <1>2 DEF r
  <2> QED BY <2>1, <2>2 DEF TableTyped
<1>6. pending' = (pending \ {p}) \cup {np} /\ datas' = datas \cup {r}
  OBVIOUS
<1> HIDE DEF np, r
<1>7. Counted' = Counted \cup {np}
  BY <1>4, <1>6 DEF Counted
<1>8. PointsTyped'
  BY <1>4, <1>6 DEF StoreInv, StoreTyped, PointsTyped
<1>9. \A q \in Counted : q.row \in Nat /\ q.row < nextId
  BY DEF StoreInv, StoreTyped, PointsTyped, RowsOfPoints, PointRecords, Counted
<1>10. RowsOfPoints'
  <2>1. \A q \in Counted' : q.row < nextId'
    BY <1>2, <1>4, <1>7, <1>9
  <2>2. \A q \in Counted' : Hour(q.at) \notin off' => Stands(datas', q)
    BY <1>3, <1>4, <1>6, <1>7 DEF StoreInv, RowsOfPoints, Stands
  <2>3. \A o, q \in Counted' : o.row = q.row /\ Hour(o.at) = Hour(q.at) /\ Hour(o.at) \notin off' => o = q
    BY <1>2, <1>4, <1>7, <1>9 DEF StoreInv, RowsOfPoints
  <2> QED BY <2>1, <2>2, <2>3 DEF RowsOfPoints
<1>11. ASSUME NEW h, h \notin off' PROVE HourTold(h)' /\ MetricTold(h)'
  <2>1. HourTold(h) /\ MetricTold(h)
    BY <1>11 DEF StoreInv, Told
  <2> DEFINE New == IF Hour(p.at) = h THEN {nextId} ELSE {}
  <2>2. Owed({"hour"}, h)' = Owed({"hour"}, h) \cup New
    BY <1>4, <1>6 DEF Owed
  <2>3. Owed({"hour", "metric"}, h)' = Owed({"hour", "metric"}, h) \cup New
    BY <1>4, <1>6 DEF Owed
  <2>4. \A E : Counting(datas', h, E \cup New) = Counting(datas, h, E)
    BY <1>2, <1>3, <1>6 DEF Counting
  <2> HIDE DEF New
  <2>5. HourTold(h)'
    BY <2>1, <2>2, <2>4 DEF HourTold, Tells
  <2>6. MetricTold(h)'
    BY <2>1, <2>3, <2>4 DEF MetricTold, Tells
  <2> QED BY <2>5, <2>6
<1> QED BY <1>5, <1>8, <1>10, <1>11 DEF Told

\* A point that changes nothing is counted again, in an hour that is marked.
LEMMA RepeatedKept ==
  ASSUME StoreInv, NEW p \in pending, p.step = "insert", NEW r \in datas,
         pending' = (pending \ {p}) \cup {[p EXCEPT !.step = "hour", !.row = r.id]},
         off \subseteq off', Hour(p.at) \in off',
         UNCHANGED <<datas, nextId, hours, metrics, sent, now>>
  PROVE  RowsOfPoints' /\ Told' /\ TableTyped' /\ PointsTyped'
<1> DEFINE np == [p EXCEPT !.step = "hour", !.row = r.id]
<1>1. p \in PointRecords /\ pending \subseteq PointRecords
  BY DEF StoreInv, StoreTyped, PointsTyped
<1>2. r.id \in Nat /\ r.id < nextId
  BY DEF StoreInv, StoreTyped, TableTyped, RowSet, Rows
<1>3. np \in PointRecords /\ np.row = r.id /\ np.at = p.at /\ np.step = "hour"
  BY <1>1, <1>2 DEF PointRecords
<1>4. pending' = (pending \ {p}) \cup {np}
  OBVIOUS
<1> HIDE DEF np
<1>5. Counted' = Counted \cup {np}
  BY <1>3, <1>4 DEF Counted
<1>6. TableTyped' /\ PointsTyped'
  BY <1>3, <1>4 DEF StoreInv, StoreTyped, TableTyped, PointsTyped
<1>7. RowsOfPoints'
  <2>1. \A q \in Counted' : q.row < nextId'
    BY <1>2, <1>3, <1>5 DEF StoreInv, RowsOfPoints
  <2>2. \A q \in Counted' : Hour(q.at) \notin off' => Stands(datas', q)
    BY <1>3, <1>5 DEF StoreInv, RowsOfPoints, Stands
  <2>3. \A o, q \in Counted' : o.row = q.row /\ Hour(o.at) = Hour(q.at) /\ Hour(o.at) \notin off' => o = q
    BY <1>3, <1>5 DEF StoreInv, RowsOfPoints
  <2> QED BY <2>1, <2>2, <2>3 DEF RowsOfPoints
<1>8. ASSUME NEW h, h \notin off' PROVE HourTold(h)' /\ MetricTold(h)'
  <2>1. HourTold(h) /\ MetricTold(h)
    BY <1>8 DEF StoreInv, Told
  <2>2. \A steps : Owed(steps, h)' = Owed(steps, h)
    <3>1. Hour(p.at) # h /\ Hour(np.at) # h
      BY <1>3, <1>8
    <3>2. \A steps : {q \in pending' : q.step \in steps /\ Hour(q.at) = h}
                       = {q \in pending : q.step \in steps /\ Hour(q.at) = h}
      BY <1>4, <3>1
    <3> QED BY <3>2 DEF Owed
  <2>3. HourTold(h)'
    BY <2>1, <2>2 DEF HourTold
  <2>4. MetricTold(h)'
    BY <2>1, <2>2 DEF MetricTold
  <2> QED BY <2>3, <2>4
<1> QED BY <1>6, <1>7, <1>8 DEF Told

LEMMA InsertKept ==
  ASSUME StoreInv, NEW p \in pending, Insert(p)
  PROVE  RowsOfPoints' /\ Told' /\ TableTyped' /\ PointsTyped' /\ ExportTyped'
<1>1. p.step = "insert" /\ UNCHANGED <<now, hours, metrics, sent>>
  BY DEF Insert
<1> DEFINE clash == Clash(datas, p)
<1>2. ExportTyped
  BY DEF StoreInv, StoreTyped
<1>3. CASE /\ datas' = datas \cup {RowOf(nextId, p)} /\ nextId' = nextId + 1
           /\ pending' = (pending \ {p}) \cup {[p EXCEPT !.step = "hour", !.row = nextId]}
           /\ UNCHANGED <<query, export, import, clear, off>>
  <2>1. RowsOfPoints' /\ Told' /\ TableTyped' /\ PointsTyped'
    BY <1>1, <1>3, InsertedKept
  <2>2. ExportTyped'
    BY <1>2, <1>3 DEF ExportTyped
  <2> QED BY <2>1, <2>2
<1>4. ASSUME NEW r \in clash,
             Changed(r, p), datas' = (datas \ {r}) \cup {RowOf(r.id, p)}, pending' = pending \ {p},
             off' = IF Moved(r, p) THEN off \cup HoursOf({r, p}) ELSE off,
             export' = [export EXCEPT !.steady = @ /\ ~Changed(r, p)],
             nextId' = nextId
      PROVE RowsOfPoints' /\ Told' /\ TableTyped' /\ PointsTyped' /\ ExportTyped'
  <2>1. r \in datas
    BY DEF Clash
  <2>2. Pointlike(p)
    BY PointOf
  <2>3. RowSet(datas) /\ UniqueIds(datas) /\ nextId \in Nat /\ \A o \in datas : o.id < nextId /\ o.id \in Nat
    BY DEF StoreInv, StoreTyped, TableTyped, RowSet, Rows
  <2>4. \A h : h \notin off' => SameHour(datas, datas', h)
    <3> SUFFICES ASSUME NEW h, h \notin off' PROVE SameHour(datas, datas', h)
      OBVIOUS
    <3>1. Moved(r, p) => h \notin HoursOf({r, p})
      BY <1>4
    <3> QED BY <1>4, <2>1, <2>2, <2>3, <3>1, WrittenOver
  <2>5. off \subseteq off'
    BY <1>4
  <2>6. Counted' = Counted
    BY <1>1, <1>4 DEF Counted
  <2>7. PointsTyped'
    BY <1>1, <1>4 DEF StoreInv, StoreTyped, PointsTyped
  <2>8. RowsOfPoints' /\ Told'
    <3>1. /\ StoreInv /\ Counted' = Counted /\ pending' \subseteq PointRecords
          /\ nextId' \in Nat /\ nextId <= nextId' /\ hours' = hours /\ metrics' = metrics /\ off \subseteq off'
          /\ \A h : h \notin off' => SameHour(datas, datas', h)
      <4>1. nextId' \in Nat /\ nextId <= nextId'
        BY <1>4, <2>3
      <4>2. hours' = hours /\ metrics' = metrics
        BY <1>1
      <4>3. pending' \subseteq PointRecords
        BY <2>7 DEF PointsTyped
      <4> QED BY <2>4, <2>5, <2>6, <4>1, <4>2, <4>3
    <3> QED BY ONLY <3>1, TableChanges
  <2>9. RowOf(r.id, p).id = r.id
    BY <2>1, <2>2, <2>3, RowOfPoint
  <2>10. TableTyped'
    <3>1. RowSet(datas') /\ UniqueIds(datas')
      BY <1>4, <2>1, <2>2, <2>3, OverwrittenTyped
    <3>2. \A o \in datas' : o.id < nextId'
      BY <1>4, <2>1, <2>3, <2>9
    <3> QED BY <1>4, <2>3, <3>1, <3>2 DEF TableTyped
  <2>11. ExportTyped'
    BY <1>2, <1>4 DEF ExportTyped
  <2> QED BY <2>7, <2>8, <2>10, <2>11
<1>5. CASE Ends /\ UNCHANGED <<datas, nextId>>
  BY <1>1, <1>5, EndsKept DEF tables
<1>7. ASSUME NEW r \in clash,
             ~Changed(r, p), datas' = (datas \ {r}) \cup {RowOf(r.id, p)},
             pending' = (pending \ {p}) \cup {[p EXCEPT !.step = "hour", !.row = r.id]},
             off' = off \cup HoursOf({r, p}),
             export' = [export EXCEPT !.steady = @ /\ ~Changed(r, p)],
             nextId' = nextId
      PROVE RowsOfPoints' /\ Told' /\ TableTyped' /\ PointsTyped' /\ ExportTyped'
  <2>1. r \in datas /\ datas' = datas
    BY <1>7 DEF Clash, Changed
  <2>2. off \subseteq off' /\ Hour(p.at) \in off'
    BY <1>7 DEF HoursOf
  <2>3. RowsOfPoints' /\ Told' /\ TableTyped' /\ PointsTyped'
    BY <1>1, <1>7, <2>1, <2>2, RepeatedKept
  <2>4. ExportTyped'
    BY <1>2, <1>7 DEF ExportTyped
  <2> QED BY <2>3, <2>4
<1>6. \/ /\ datas' = datas \cup {RowOf(nextId, p)} /\ nextId' = nextId + 1
         /\ pending' = (pending \ {p}) \cup {[p EXCEPT !.step = "hour", !.row = nextId]}
         /\ UNCHANGED <<query, export, import, clear, off>>
      \/ \E r \in clash :
           /\ datas' = (datas \ {r}) \cup {RowOf(r.id, p)}
           /\ export' = [export EXCEPT !.steady = @ /\ ~Changed(r, p)]
           /\ nextId' = nextId
           /\ \/ /\ Changed(r, p) /\ pending' = pending \ {p}
                 /\ off' = IF Moved(r, p) THEN off \cup HoursOf({r, p}) ELSE off
              \/ /\ ~Changed(r, p) /\ off' = off \cup HoursOf({r, p})
                 /\ pending' = (pending \ {p}) \cup {[p EXCEPT !.step = "hour", !.row = r.id]}
      \/ Ends /\ UNCHANGED <<datas, nextId>>
  BY DEF Insert
<1> QED BY <1>3, <1>4, <1>5, <1>6, <1>7

\* The row of a point that is counted now, in the hour it is counted in.
LEMMA RowOwed ==
  ASSUME StoreInv, NEW p \in Counted, Hour(p.at) \notin off, NEW E, p.row \in E, NEW F, F = E \ {p.row}
  PROVE  \E r \in Rows :
           LET C == Counting(datas, Hour(p.at), E) IN
           /\ r.at = p.at /\ r.val = p.val /\ RowSet(C) /\ r \notin C
           /\ Counting(datas, Hour(p.at), F) = C \cup {r}
<1>1. PICK r \in datas : r.id = p.row /\ r.at = p.at /\ r.val = p.val
  BY DEF StoreInv, RowsOfPoints, Stands
<1>2. RowSet(datas) /\ UniqueIds(datas)
  BY DEF StoreInv, StoreTyped, TableTyped
<1> DEFINE C == Counting(datas, Hour(p.at), E)
<1>3. RowSet(C)
  BY <1>2, FS_Subset DEF RowSet, Counting
<1>4. r \notin C /\ r \in Rows
  BY <1>1, <1>2 DEF Counting, RowSet
<1>5. Counting(datas, Hour(p.at), F) = C \cup {r}
  BY <1>1, <1>2 DEF Counting, UniqueIds
<1> QED BY <1>1, <1>3, <1>4, <1>5

LEMMA CountHourKept ==
  ASSUME StoreInv, NEW p \in pending, CountHour(p)
  PROVE  RowsOfPoints' /\ Told' /\ TableTyped' /\ PointsTyped'
<1> DEFINE np == [p EXCEPT !.step = "metric"]
           k == Hour(p.at)
<1>1. p \in PointRecords /\ p.step = "hour" /\ p \in Counted /\ pending \subseteq PointRecords
  BY PointOf DEF CountHour, StoreInv, StoreTyped, PointsTyped
<1>2. /\ np \in PointRecords /\ np.step = "metric" /\ np.row = p.row /\ np.at = p.at /\ np.val = p.val
  BY <1>1 DEF PointRecords
<1>3. /\ pending' = (pending \ {p}) \cup {np} /\ UNCHANGED <<now, datas, nextId, metrics, sent, off>>
      /\ DOMAIN hours' = DOMAIN hours \cup {k} /\ \A h : h # k /\ h \in DOMAIN hours => hours'[h] = hours[h]
      /\ hours'[k] = IF k \notin DOMAIN hours THEN [n |-> 1, first |-> p.at, last |-> p.at]
                     ELSE [n |-> hours[k].n + 1, first |-> Min({hours[k].first, p.at}), last |-> Max({hours[k].last, p.at})]
  BY DEF CountHour
<1> HIDE DEF np
<1>4. Counted' = (Counted \ {p}) \cup {np}
  BY <1>1, <1>2, <1>3 DEF Counted
<1>5. TableTyped' /\ PointsTyped'
  BY <1>2, <1>3 DEF StoreInv, StoreTyped, TableTyped, PointsTyped
<1>6. RowsOfPoints'
  <2>1. \A q \in Counted' : q.row < nextId'
    BY <1>1, <1>2, <1>3, <1>4 DEF StoreInv, RowsOfPoints
  <2>2. \A q \in Counted' : Hour(q.at) \notin off' => Stands(datas', q)
    BY <1>1, <1>2, <1>3, <1>4 DEF StoreInv, RowsOfPoints, Stands
  <2>3. \A o, q \in Counted' : o.row = q.row /\ Hour(o.at) = Hour(q.at) /\ Hour(o.at) \notin off' => o = q
    BY <1>1, <1>2, <1>3, <1>4 DEF StoreInv, RowsOfPoints
  <2> QED BY <2>1, <2>2, <2>3 DEF RowsOfPoints
<1>7. ASSUME NEW h, h \notin off' PROVE HourTold(h)' /\ MetricTold(h)'
  <2>1. HourTold(h) /\ MetricTold(h)
    BY <1>3, <1>7 DEF StoreInv, Told
  <2>2. Owed({"hour", "metric"}, h)' = Owed({"hour", "metric"}, h)
    BY <1>1, <1>2, <1>3 DEF Owed
  <2>3. MetricTold(h)'
    BY <1>3, <2>1, <2>2 DEF MetricTold
  <2>4. CASE h # k
    <3>1. Owed({"hour"}, h)' = Owed({"hour"}, h)
      BY <1>1, <1>2, <1>3, <2>4 DEF Owed
    <3>2. HourTold(h)'
      BY <1>3, <2>1, <2>4, <3>1 DEF HourTold, Tells
    <3> QED BY <2>3, <3>2
  <2>5. CASE h = k
    <3> DEFINE E == Owed({"hour"}, k)
               C == Counting(datas, k, E)
    <3>1. p.row \in E
      BY <1>1 DEF Owed
    <3>2. Owed({"hour"}, k)' = E \ {p.row}
      <4>1. \A q \in pending : q.step = "hour" /\ Hour(q.at) = k /\ q # p => q.row # p.row
        BY <1>1, <1>3, <1>7, <2>5 DEF StoreInv, RowsOfPoints, Counted
      <4> QED BY <1>1, <1>2, <1>3, <4>1 DEF Owed
    <3>3. k \notin off
      BY <1>3, <1>7, <2>5
    <3>4. PICK r \in Rows : /\ r.at = p.at /\ r.val = p.val /\ RowSet(C) /\ r \notin C
                            /\ Counting(datas, k, E \ {p.row}) = C \cup {r}
      BY <1>1, <3>1, <3>3, RowOwed
    <3>5. SummaryOf(C \cup {r}) =
            IF C = {} THEN [n |-> 1, first |-> r.at, last |-> r.at]
            ELSE [n |-> SummaryOf(C).n + 1, first |-> Min({SummaryOf(C).first, r.at}), last |-> Max({SummaryOf(C).last, r.at})]
      BY ONLY <3>4, SummaryAdds
    <3>6. (k \in DOMAIN hours <=> C # {}) /\ (C # {} => hours[k] = SummaryOf(C))
      BY <2>1, <2>5 DEF HourTold, Tells
    <3>7. Counting(datas', k, Owed({"hour"}, k)') = C \cup {r}
      BY <1>3, <3>2, <3>4
    <3> HIDE DEF C, E
    <3>8. hours'[k] = SummaryOf(C \cup {r})
      BY <1>3, <3>4, <3>5, <3>6
    <3>9. HourTold(h)'
      BY <1>3, <2>5, <3>7, <3>8 DEF HourTold, Tells
    <3> QED BY <2>3, <3>9
  <2> QED BY <2>4, <2>5
<1> QED BY <1>5, <1>6, <1>7 DEF Told

LEMMA CountMetricKept ==
  ASSUME StoreInv, NEW p \in pending, CountMetric(p)
  PROVE  RowsOfPoints' /\ Told' /\ TableTyped' /\ PointsTyped'
<1> DEFINE k == Hour(p.at)
           c == IF p.val = NoVal THEN 0 ELSE 1
<1>1. p \in PointRecords /\ p.step = "metric" /\ p \in Counted /\ pending \subseteq PointRecords
  BY PointOf DEF CountMetric, StoreInv, StoreTyped, PointsTyped
<1>3. /\ pending' = pending \ {p} /\ UNCHANGED <<now, datas, nextId, hours, sent, off>>
      /\ DOMAIN metrics' = DOMAIN metrics \cup {k} /\ \A h : h # k /\ h \in DOMAIN metrics => metrics'[h] = metrics[h]
      /\ metrics'[k] = IF k \notin DOMAIN metrics
                       THEN [n |-> 1, count |-> c, mean |-> IF c = 0 THEN NoVal ELSE <<p.val, 1>>]
                       ELSE [n |-> metrics[k].n + 1, count |-> metrics[k].count + c, mean |-> MeanWith(metrics[k], p.val)]
  BY DEF CountMetric
<1>4. Counted' = Counted \ {p}
  BY <1>3 DEF Counted
<1>5. TableTyped' /\ PointsTyped'
  BY <1>3 DEF StoreInv, StoreTyped, TableTyped, PointsTyped
<1>6. RowsOfPoints'
  <2>1. \A q \in Counted' : q.row < nextId'
    BY <1>3, <1>4 DEF StoreInv, RowsOfPoints
  <2>2. \A q \in Counted' : Hour(q.at) \notin off' => Stands(datas', q)
    BY <1>3, <1>4 DEF StoreInv, RowsOfPoints, Stands
  <2>3. \A o, q \in Counted' : o.row = q.row /\ Hour(o.at) = Hour(q.at) /\ Hour(o.at) \notin off' => o = q
    BY <1>3, <1>4 DEF StoreInv, RowsOfPoints
  <2> QED BY <2>1, <2>2, <2>3 DEF RowsOfPoints
<1>7. ASSUME NEW h, h \notin off' PROVE HourTold(h)' /\ MetricTold(h)'
  <2>1. HourTold(h) /\ MetricTold(h)
    BY <1>3, <1>7 DEF StoreInv, Told
  <2>2. Owed({"hour"}, h)' = Owed({"hour"}, h)
    BY <1>1, <1>3 DEF Owed
  <2>3. HourTold(h)'
    BY <1>3, <2>1, <2>2 DEF HourTold
  <2>4. CASE h # k
    <3>1. Owed({"hour", "metric"}, h)' = Owed({"hour", "metric"}, h)
      BY <1>1, <1>3, <2>4 DEF Owed
    <3>2. MetricTold(h)'
      BY <1>3, <2>1, <2>4, <3>1 DEF MetricTold, Tells
    <3> QED BY <2>3, <3>2
  <2>5. CASE h = k
    <3> DEFINE E == Owed({"hour", "metric"}, k)
               C == Counting(datas, k, E)
    <3>1. p.row \in E
      BY <1>1 DEF Owed
    <3>2. Owed({"hour", "metric"}, k)' = E \ {p.row}
      <4>1. \A q \in pending : q.step \in {"hour", "metric"} /\ Hour(q.at) = k /\ q # p => q.row # p.row
        BY <1>1, <1>3, <1>7, <2>5 DEF StoreInv, RowsOfPoints, Counted
      <4> QED BY <1>1, <1>3, <4>1 DEF Owed
    <3>3. k \notin off
      BY <1>3, <1>7, <2>5
    <3>4. PICK r \in Rows : /\ r.at = p.at /\ r.val = p.val /\ RowSet(C) /\ r \notin C
                            /\ Counting(datas, k, E \ {p.row}) = C \cup {r}
      BY <1>1, <3>1, <3>3, RowOwed
    <3>5. LET d == IF r.val = NoVal THEN 0 ELSE 1 IN
          MetricOf(C \cup {r}) =
            IF C = {} THEN [n |-> 1, count |-> d, mean |-> IF d = 0 THEN NoVal ELSE <<r.val, 1>>]
            ELSE [n |-> MetricOf(C).n + 1, count |-> MetricOf(C).count + d, mean |-> MeanWith(MetricOf(C), r.val)]
      BY ONLY <3>4, MetricAdds
    <3>6. (k \in DOMAIN metrics <=> C # {}) /\ (C # {} => metrics[k] = MetricOf(C))
      BY <2>1, <2>5 DEF MetricTold, Tells
    <3>7. Counting(datas', k, Owed({"hour", "metric"}, k)') = C \cup {r}
      BY <1>3, <3>2, <3>4
    <3> HIDE DEF C, E
    <3>8. metrics'[k] = MetricOf(C \cup {r})
      BY <1>3, <3>4, <3>5, <3>6
    <3>9. MetricTold(h)'
      BY <1>3, <2>5, <3>7, <3>8 DEF MetricTold, Tells
    <3> QED BY <2>3, <3>9
  <2> QED BY <2>4, <2>5
<1> QED BY <1>5, <1>6, <1>7 DEF Told

\* A rebuild makes the hours it summarises right, but for those being counted.
LEMMA RebuildKept ==
  ASSUME StoreInv, RebuildHourlySummaries
  PROVE  RowsOfPoints' /\ Told' /\ TableTyped' /\ PointsTyped'
<1> DEFINE H == RebuiltHours(RebuildRange)
           madeHours == [h \in HoursOf(datas) |-> SummaryOf(InHour(h))]
           madeMetrics == [h \in HoursOf(datas) |-> MetricOf(InHour(h))]
<1>1. H = {h \in Hour(RebuildRange[1])..Hour(RebuildRange[2]) : TRUE}
  BY DEF RebuiltHours
<1> HIDE DEF H
<1>2. /\ hours' = Rebuilt(hours, madeHours, H) /\ metrics' = Rebuilt(metrics, madeMetrics, H)
      /\ off' = (off \ H) \cup (H \cap Uncounted)
      /\ UNCHANGED <<now, datas, nextId, pending, sent>>
  BY <1>1 DEF RebuildHourlySummaries, H
<1>3. TableTyped' /\ PointsTyped' /\ Counted' = Counted
  BY <1>2 DEF StoreInv, StoreTyped, TableTyped, PointsTyped, Counted
<1>4. \A p \in Counted : Hour(p.at) \in Uncounted
  BY DEF Counted, Uncounted, HoursOf
<1>5. RowsOfPoints'
  <2>1. \A p \in Counted : Hour(p.at) \notin off' => Hour(p.at) \notin off
    BY <1>2, <1>4
  <2> QED BY <1>2, <1>3, <2>1 DEF StoreInv, RowsOfPoints, Stands
<1>6. ASSUME NEW h, h \notin off' PROVE HourTold(h)' /\ MetricTold(h)'
  <2>1. \A steps : Owed(steps, h)' = Owed(steps, h)
    BY <1>2 DEF Owed
  <2>2. CASE h \notin H
    <3>1. HourTold(h) /\ MetricTold(h)
      BY <1>2, <1>6, <2>2 DEF StoreInv, Told
    <3>2. (h \in DOMAIN hours' <=> h \in DOMAIN hours) /\ (h \in DOMAIN hours => hours'[h] = hours[h])
      BY <1>2, <2>2 DEF Rebuilt
    <3>3. (h \in DOMAIN metrics' <=> h \in DOMAIN metrics) /\ (h \in DOMAIN metrics => metrics'[h] = metrics[h])
      BY <1>2, <2>2 DEF Rebuilt
    <3>4. HourTold(h)'
      BY <1>2, <2>1, <3>1, <3>2 DEF HourTold, Tells
    <3>5. MetricTold(h)'
      BY <1>2, <2>1, <3>1, <3>3 DEF MetricTold, Tells
    <3> QED BY <3>4, <3>5
  <2>3. CASE h \in H
    <3>1. h \notin Uncounted
      BY <1>2, <1>6, <2>3
    <3>2. Owed({"hour"}, h) = {} /\ Owed({"hour", "metric"}, h) = {}
      BY <3>1 DEF Uncounted, HoursOf, Owed
    <3>3. Counting(datas', h, {}) = InHour(h)
      BY <1>2 DEF Counting, InHour
    <3>4. h \in HoursOf(datas) <=> InHour(h) # {}
      BY DEF HoursOf, InHour
    <3>5. (h \in DOMAIN hours' <=> InHour(h) # {}) /\ (InHour(h) # {} => hours'[h] = SummaryOf(InHour(h)))
      BY <1>2, <2>3, <3>4 DEF Rebuilt
    <3>6. (h \in DOMAIN metrics' <=> InHour(h) # {}) /\ (InHour(h) # {} => metrics'[h] = MetricOf(InHour(h)))
      BY <1>2, <2>3, <3>4 DEF Rebuilt
    <3>7. HourTold(h)'
      BY <2>1, <3>2, <3>3, <3>5 DEF HourTold, Tells
    <3>8. MetricTold(h)'
      BY <2>1, <3>2, <3>3, <3>6 DEF MetricTold, Tells
    <3> QED BY <3>7, <3>8
  <2> QED BY <2>2, <2>3
<1> QED BY <1>3, <1>5, <1>6 DEF Told

-----------------------------------------------------------------------------
\* What is made of a sequence step by step exists, and stays in a set that
\* every step stays in.
Stepwise(f, x, step, s) == f[0] = x /\ \A i \in 1..Len(s) : f[i] = step[f[i - 1]][s[i]]
StepwiseIn(X, f, x, step, s) ==
  f[0] = x /\ \A i \in 1..Len(s) : f[i - 1] \in X => f[i] = step[f[i - 1]][s[i]]

LEMMA Fold ==
  ASSUME NEW X, NEW x \in X, NEW Y, NEW step \in [X -> [Y -> X]], NEW s \in Seq(Y)
  PROVE  /\ \E f \in [0..Len(s) -> X] : Stepwise(f, x, step, s)
         /\ \A f : StepwiseIn(X, f, x, step, s) => f[Len(s)] \in X
<1> DEFINE N == Len(s)
<1>1. N \in Nat /\ \A i \in 1..N : s[i] \in Y
  OBVIOUS
<1> HIDE DEF N
<1>2. \E f \in [0..N -> X] : f[0] = x /\ \A i \in 1..N : f[i] = step[f[i - 1]][s[i]]
  <2> DEFINE Upto(n) == \E f \in [0..n -> X] : f[0] = x /\ \A i \in 1..n : f[i] = step[f[i - 1]][s[i]]
             T == {n \in 0..N : ~Upto(n)}
  <2>1. SUFFICES ASSUME ~Upto(N) PROVE FALSE
    OBVIOUS
  <2> HIDE DEF Upto
  <2>2. N \in T /\ T \subseteq Nat
    BY <1>1, <2>1
  <2>3. PICK m \in T : \A k \in T : m <= k
    BY <2>2, LeastOfNaturals
  <2>4. Upto(0)
    <3> DEFINE z == [i \in 0..0 |-> x]
    <3>1. z \in [0..0 -> X] /\ z[0] = x /\ \A i \in 1..0 : z[i] = step[z[i - 1]][s[i]]
      OBVIOUS
    <3> HIDE DEF z
    <3> QED BY <3>1 DEF Upto
  <2>5. m # 0 /\ m \in 1..N
    BY <1>1, <2>3, <2>4
  <2>6. m - 1 \in 0..N /\ Upto(m - 1)
    BY <1>1, <2>3, <2>5
  <2>7. PICK f \in [0..m-1 -> X] : f[0] = x /\ \A i \in 1..m-1 : f[i] = step[f[i - 1]][s[i]]
    BY <2>6 DEF Upto
  <2> DEFINE g == [i \in 0..m |-> IF i = m THEN step[f[m - 1]][s[m]] ELSE f[i]]
  <2>8. step[f[m - 1]][s[m]] \in X
    BY <1>1, <2>5
  <2>9. g \in [0..m -> X]
    BY <2>5, <2>8
  <2>10. g[0] = x /\ \A i \in 1..m : g[i] = step[g[i - 1]][s[i]]
    <3>1. m \in Nat /\ m # 0
      BY <1>1, <2>5
    <3>2. \A i \in 0..m : g[i] = IF i = m THEN step[f[m - 1]][s[m]] ELSE f[i]
      OBVIOUS
    <3> HIDE DEF g
    <3>3. g[0] = x
      BY <2>7, <3>1, <3>2
    <3>4. ASSUME NEW i \in 1..m PROVE g[i] = step[g[i - 1]][s[i]]
      <4>1. i - 1 \in 0..m /\ i - 1 # m /\ i \in 0..m
        BY <3>1
      <4>2. g[i - 1] = f[i - 1]
        BY <3>2, <4>1
      <4>3. i # m => i \in 1..m-1
        BY <3>1
      <4> QED BY <2>7, <3>2, <4>1, <4>2, <4>3
    <3> QED BY <3>3, <3>4
  <2>11. Upto(m)
    BY <2>9, <2>10 DEF Upto
  <2> QED BY <2>3, <2>11
<1>3. ASSUME NEW f, f[0] = x, \A i \in 1..N : f[i - 1] \in X => f[i] = step[f[i - 1]][s[i]]
      PROVE f[N] \in X
  <2> DEFINE T == {n \in 0..N : f[n] \notin X}
  <2>1. SUFFICES ASSUME f[N] \notin X PROVE FALSE
    OBVIOUS
  <2>2. N \in T /\ T \subseteq Nat
    <3>1. N \in 0..N
      BY ONLY <1>1
    <3>2. 0..N \subseteq Nat
      BY ONLY <1>1
    <3> QED BY ONLY <2>1, <3>1, <3>2
  <2>3. PICK m \in T : \A k \in T : m <= k
    BY <2>2, LeastOfNaturals
  <2>4. m \in 1..N
    BY <1>1, <1>3, <2>3
  <2>5. m - 1 \in 0..N /\ f[m - 1] \in X
    BY <1>1, <2>3, <2>4
  <2>6. f[m] = step[f[m - 1]][s[m]]
    BY <1>3, <2>4, <2>5
  <2>7. f[m] \in X
    BY <1>1, <2>4, <2>5, <2>6
  <2> QED BY <2>3, <2>7
<1> QED BY <1>2, <1>3 DEF N, Stepwise, StepwiseIn

\* The points of an archive that are written.
LEMMA KeyedPoint == ASSUME NEW p \in ArchivePoints PROVE Keyed(p) \in ArchivePoints
BY DEF Keyed, ArchivePoints, Ids

Sighted(l, p) == \E q \in Range(l) : q.uuid = p.uuid \/ q.mid = p.mid
Keeping(l, q) == IF Sighted(l, Keyed(q)) THEN l ELSE Append(l, Keyed(q))
IsKept(f, points) ==
  f = [i \in 0..Len(points) |-> IF i = 0 THEN <<>> ELSE Keeping(f[i - 1], points[i])]

LEMMA UniqueIsChosen == ASSUME NEW points PROVE Unique(points) = (CHOOSE f : IsKept(f, points))[Len(points)]
BY DEF Unique, IsKept, Keeping, Sighted

LEMMA UniquePoints == ASSUME NEW points \in Seq(ArchivePoints) PROVE Unique(points) \in Seq(ArchivePoints)
<1> DEFINE X == Seq(ArchivePoints)
           step == [l \in X |-> [p \in ArchivePoints |-> Keeping(l, p)]]
<1>1. \A l \in X, p \in ArchivePoints : Keeping(l, p) \in X
  BY KeyedPoint DEF Keeping
<1>2. step \in [X -> [ArchivePoints -> X]] /\ \A l \in X, p \in ArchivePoints : step[l][p] = Keeping(l, p)
  BY <1>1
<1>3. <<>> \in X /\ points \in Seq(ArchivePoints)
  OBVIOUS
<1>4. \A i \in 1..Len(points) : points[i] \in ArchivePoints
  OBVIOUS
<1>5. Len(points) \in Nat
  OBVIOUS
<1> HIDE DEF X, step
<1>6. /\ \E f \in [0..Len(points) -> X] : Stepwise(f, <<>>, step, points)
      /\ \A f : StepwiseIn(X, f, <<>>, step, points) => f[Len(points)] \in X
  <2>1. <<>> \in X /\ step \in [X -> [ArchivePoints -> X]] /\ points \in Seq(ArchivePoints)
    BY ONLY <1>2, <1>3
  <2> QED BY ONLY <2>1, Fold
<1>7. \E f : IsKept(f, points)
  <2>1. PICK f \in [0..Len(points) -> X] : f[0] = <<>> /\ \A i \in 1..Len(points) : f[i] = step[f[i - 1]][points[i]]
    BY <1>6 DEF Stepwise
  <2>2. \A i \in 0..Len(points) : f[i] = IF i = 0 THEN <<>> ELSE Keeping(f[i - 1], points[i])
    <3>1. \A i \in 1..Len(points) : i - 1 \in 0..Len(points)
      BY <1>5
    <3>2. \A i \in 1..Len(points) : f[i - 1] \in X /\ f[i] = step[f[i - 1]][points[i]]
      BY <2>1, <3>1
    <3>3. \A i \in 1..Len(points) : f[i] = Keeping(f[i - 1], points[i])
      BY <1>2, <1>4, <3>2
    <3>4. \A i \in 0..Len(points) : i # 0 => i \in 1..Len(points)
      BY <1>5
    <3> QED BY <2>1, <3>3, <3>4
  <2> QED BY <2>1, <2>2 DEF IsKept
<1>8. \A f : IsKept(f, points) => StepwiseIn(X, f, <<>>, step, points)
  <2> SUFFICES ASSUME NEW f, IsKept(f, points) PROVE StepwiseIn(X, f, <<>>, step, points)
    OBVIOUS
  <2>1. \A i \in 0..Len(points) : f[i] = IF i = 0 THEN <<>> ELSE Keeping(f[i - 1], points[i])
    BY DEF IsKept
  <2> QED BY <1>2, <1>4, <1>5, <2>1 DEF StepwiseIn
<1> QED BY <1>6, <1>7, <1>8, UniqueIsChosen DEF X

-----------------------------------------------------------------------------
\* What the upserts of a batch have made of the table so far: outside the hours
\* they name, what the summaries tell of it is as it was.
Writings == [rows : SUBSET Rows, next : Nat, hours : SUBSET Int, changed : BOOLEAN, refused : BOOLEAN]
WrittenWell(t) ==
  /\ RowSet(t.rows) /\ UniqueIds(t.rows) /\ (\A r \in t.rows : r.id < t.next) /\ nextId <= t.next
  /\ (\A h : h \notin t.hours => SameHour(datas, t.rows, h)) /\ (t.changed \/ datas \subseteq t.rows)
GoodWritings == {t \in Writings : WrittenWell(t)}

LEMMA HourOfTime == ASSUME StoreAssumption, NEW t \in Int PROVE Hour(t) \in Int
<1>1. HourLen \in Nat \ {0}
  BY DEF StoreAssumption
<1> QED BY <1>1 DEF Hour

LEMMA WithPointGood ==
  ASSUME StoreAssumption, nextId \in Nat, NEW t \in GoodWritings, NEW p \in ArchivePoints
  PROVE  WithPoint(t, p) \in GoodWritings
<1> DEFINE clash == Clash(t.rows, p)
<1>1. t \in Writings /\ WrittenWell(t)
  BY DEF GoodWritings
<1>2. Pointlike(p) /\ Hour(p.at) \in Int
  BY HourOfTime DEF ArchivePoints, Pointlike
<1>3. CASE clash = {}
  <2> DEFINE R == t.rows \cup {RowOf(t.next, p)}
             G == t.hours \cup {Hour(p.at)}
             u == [t EXCEPT !.rows = R, !.next = t.next + 1, !.hours = G]
  <2>1. WithPoint(t, p) = u
    BY <1>3 DEF WithPoint
  <2>2. t.next \in Nat
    BY <1>1 DEF Writings
  <2>3. RowSet(R) /\ UniqueIds(R) /\ (\A r \in R : r.id < t.next + 1) /\ \A h : h # Hour(p.at) => SameHour(t.rows, R, h)
    BY <1>1, <1>2, <2>2, NewRow DEF WrittenWell
  <2>4. RowOf(t.next, p) \in Rows
    BY <1>2, <2>2, RowOfPoint
  <2>5. u \in Writings /\ u.rows = R /\ u.next = t.next + 1 /\ u.hours = t.hours \cup {Hour(p.at)} /\ u.changed = t.changed
    <3>1. R \in SUBSET Rows /\ G \in SUBSET Int /\ t.next + 1 \in Nat
      BY <1>1, <1>2, <2>2, <2>4 DEF Writings
    <3> HIDE DEF R
    <3>2. u \in Writings /\ u.rows = R /\ u.next = t.next + 1 /\ u.hours = G /\ u.changed = t.changed
      <4> HIDE DEF G
      <4> QED BY <1>1, <3>1 DEF Writings
    <3> QED BY <3>2
  <2>9. t.rows \subseteq R
    OBVIOUS
  <2> HIDE DEF R, u
  <2>6. \A h : h \notin u.hours => SameHour(datas, u.rows, h)
    <3> SUFFICES ASSUME NEW h, h \notin u.hours PROVE SameHour(datas, u.rows, h)
      OBVIOUS
    <3>1. SameHour(datas, t.rows, h) /\ SameHour(t.rows, R, h)
      BY <1>1, <2>3, <2>5 DEF WrittenWell
    <3> QED BY <2>5, <3>1, SameHourOn
  <2>7. nextId <= u.next
    BY <1>1, <2>2, <2>5 DEF WrittenWell
  <2>10. u.changed \/ datas \subseteq u.rows
    BY <1>1, <2>5, <2>9 DEF WrittenWell
  <2>8. WrittenWell(u)
    BY <2>3, <2>5, <2>6, <2>7, <2>10 DEF WrittenWell
  <2> QED BY <2>1, <2>5, <2>8 DEF GoodWritings
<1>4. CASE clash # {} /\ Cardinality(clash) > 1
  <2>1. WithPoint(t, p) = [t EXCEPT !.refused = TRUE]
    BY <1>4 DEF WithPoint
  <2> DEFINE u == [t EXCEPT !.refused = TRUE]
  <2>2. u \in Writings /\ u.rows = t.rows /\ u.next = t.next /\ u.hours = t.hours /\ u.changed = t.changed
    BY <1>1 DEF Writings
  <2> HIDE DEF u
  <2>3. WrittenWell(u)
    BY <1>1, <2>2 DEF WrittenWell
  <2> QED BY <2>1, <2>2, <2>3 DEF GoodWritings, u
<1>5. CASE clash # {} /\ ~(Cardinality(clash) > 1)
  <2> DEFINE r == CHOOSE x \in clash : TRUE
             R == (t.rows \ {r}) \cup {RowOf(r.id, p)}
             G == IF Moved(r, p) THEN t.hours \cup HoursOf({r, p}) ELSE t.hours
             u == [t EXCEPT !.rows = R, !.hours = G, !.changed = @ \/ Changed(r, p)]
  <2>1. WithPoint(t, p) = u
    BY <1>5 DEF WithPoint
  <2>2. r \in t.rows
    <3>1. r \in clash
      BY <1>5
    <3> QED BY <3>1 DEF Clash
  <2>3. r \in Rows /\ r.id \in Nat /\ r.at \in Int /\ r.id < t.next
    BY <1>1, <2>2 DEF WrittenWell, RowSet, Rows
  <2> HIDE DEF r
  <2>4. RowOf(r.id, p) \in Rows /\ RowOf(r.id, p).id = r.id
    BY <1>2, <2>3, RowOfPoint
  <2>5. RowSet(R) /\ UniqueIds(R)
    BY <1>1, <1>2, <2>2, OverwrittenTyped DEF WrittenWell
  <2>6. G \subseteq Int
    <3>1. Hour(r.at) \in Int
      BY <2>3, HourOfTime
    <3> QED BY <1>1, <1>2, <3>1 DEF Writings, HoursOf
  <2>7. ASSUME NEW h, h \notin G PROVE SameHour(t.rows, R, h)
    <3>1. Moved(r, p) => h \notin HoursOf({r, p})
      BY <2>7
    <3> QED BY <1>1, <1>2, <2>2, <3>1, WrittenOver DEF WrittenWell
  <2>8. \A o \in R : o.id < t.next
    BY <1>1, <2>3, <2>4 DEF WrittenWell
  <2>9. R \subseteq Rows /\ (t.changed \/ Changed(r, p)) \in BOOLEAN
    BY <2>5 DEF RowSet
  <2>10. t.hours \subseteq G
    OBVIOUS
  <2>14. Changed(r, p) \/ t.rows \subseteq R
    BY DEF Changed
  <2> HIDE DEF R, G
  <2>11. u \in Writings /\ u.rows = R /\ u.next = t.next /\ u.hours = G /\ u.changed = (t.changed \/ Changed(r, p))
    BY <1>1, <2>6, <2>9 DEF Writings
  <2> HIDE DEF u
  <2>12. \A h : h \notin u.hours => SameHour(datas, u.rows, h)
    <3> SUFFICES ASSUME NEW h, h \notin u.hours PROVE SameHour(datas, u.rows, h)
      OBVIOUS
    <3>1. SameHour(datas, t.rows, h) /\ SameHour(t.rows, R, h)
      BY <1>1, <2>7, <2>10, <2>11 DEF WrittenWell
    <3> QED BY <2>11, <3>1, SameHourOn
  <2>15. u.changed \/ datas \subseteq u.rows
    BY <1>1, <2>11, <2>14 DEF WrittenWell
  <2>13. WrittenWell(u)
    BY <1>1, <2>5, <2>8, <2>11, <2>12, <2>15 DEF WrittenWell
  <2> QED BY <2>1, <2>11, <2>13 DEF GoodWritings
<1> QED BY <1>3, <1>4, <1>5

Blank == [rows |-> datas, next |-> nextId, hours |-> {}, changed |-> FALSE, refused |-> FALSE]
IsWriting(f, points) ==
  f = [i \in 0..Len(points) |-> IF i = 0 THEN Blank ELSE WithPoint(f[i - 1], points[i])]

LEMMA WrittenIsChosen == ASSUME NEW points PROVE Written(points) = (CHOOSE f : IsWriting(f, points))[Len(points)]
BY DEF Written, IsWriting, Blank

LEMMA WrittenGood ==
  ASSUME StoreAssumption, TableTyped, NEW points \in Seq(ArchivePoints)
  PROVE  Written(points) \in GoodWritings
<1> DEFINE X == GoodWritings
           step == [t \in X |-> [p \in ArchivePoints |-> WithPoint(t, p)]]
<1>1. nextId \in Nat /\ RowSet(datas) /\ UniqueIds(datas) /\ \A r \in datas : r.id < nextId
  BY DEF TableTyped
<1>2. Blank \in X
  <2>1. \A h : SameHour(datas, datas, h)
    BY SameRows
  <2>2. Blank \in Writings
    BY <1>1 DEF Blank, Writings, RowSet
  <2>3. WrittenWell(Blank)
    BY <1>1, <2>1 DEF Blank, WrittenWell
  <2> QED BY <2>2, <2>3 DEF GoodWritings
<1>3. \A t \in X, p \in ArchivePoints : WithPoint(t, p) \in X
  BY <1>1, WithPointGood
<1> HIDE DEF X
<1>4. step \in [X -> [ArchivePoints -> X]] /\ \A t \in X, p \in ArchivePoints : step[t][p] = WithPoint(t, p)
  BY <1>3
<1>5. Len(points) \in Nat /\ \A i \in 1..Len(points) : points[i] \in ArchivePoints
  OBVIOUS
<1> HIDE DEF step
<1>6. /\ \E f \in [0..Len(points) -> X] : Stepwise(f, Blank, step, points)
      /\ \A f : StepwiseIn(X, f, Blank, step, points) => f[Len(points)] \in X
  <2>1. Blank \in X /\ step \in [X -> [ArchivePoints -> X]] /\ points \in Seq(ArchivePoints)
    BY <1>2, <1>4
  <2> QED BY ONLY <2>1, Fold
<1>7. \E f : IsWriting(f, points)
  <2>1. PICK f \in [0..Len(points) -> X] : f[0] = Blank /\ \A i \in 1..Len(points) : f[i] = step[f[i - 1]][points[i]]
    BY <1>6 DEF Stepwise
  <2>2. \A i \in 0..Len(points) : f[i] = IF i = 0 THEN Blank ELSE WithPoint(f[i - 1], points[i])
    <3>1. \A i \in 1..Len(points) : i - 1 \in 0..Len(points)
      BY <1>5
    <3>2. \A i \in 1..Len(points) : f[i - 1] \in X /\ f[i] = step[f[i - 1]][points[i]]
      BY <2>1, <3>1
    <3>3. \A i \in 1..Len(points) : f[i] = WithPoint(f[i - 1], points[i])
      BY <1>4, <1>5, <3>2
    <3>4. \A i \in 0..Len(points) : i # 0 => i \in 1..Len(points)
      BY <1>5
    <3> QED BY <2>1, <3>3, <3>4
  <2> QED BY <2>1, <2>2 DEF IsWriting
<1>8. \A f : IsWriting(f, points) => StepwiseIn(X, f, Blank, step, points)
  <2> SUFFICES ASSUME NEW f, IsWriting(f, points) PROVE StepwiseIn(X, f, Blank, step, points)
    OBVIOUS
  <2>1. \A i \in 0..Len(points) : f[i] = IF i = 0 THEN Blank ELSE WithPoint(f[i - 1], points[i])
    BY DEF IsWriting
  <2> QED BY <1>4, <1>5, <2>1 DEF StepwiseIn
<1> QED BY <1>6, <1>7, <1>8, WrittenIsChosen DEF X

LEMMA ImportKept ==
  ASSUME StoreInv, StoreAssumption, ImportHistoryBatch
  PROVE  RowsOfPoints' /\ Told' /\ TableTyped' /\ PointsTyped' /\ ExportTyped'
<1> DEFINE t == Written(Unique(archive.points))
<1>1. TableTyped /\ PointsTyped /\ ExportTyped /\ archive.points \in Seq(ArchivePoints)
  BY DEF StoreInv, StoreTyped, ArchiveTyped
<1>2. t \in Writings /\ WrittenWell(t)
  BY <1>1, UniquePoints, WrittenGood DEF GoodWritings
<1>3. Counted' = Counted /\ PointsTyped' /\ pending' = pending /\ hours' = hours /\ metrics' = metrics
  BY <1>1 DEF ImportHistoryBatch, Counted, PointsTyped
<1>4. CASE t.refused
  <2>1. UNCHANGED <<tables, off, export>>
    BY <1>3, <1>4 DEF ImportHistoryBatch, tables
  <2>2. RowsOfPoints' /\ Told' /\ TableTyped'
    BY <1>3, <2>1, TablesKept
  <2> QED BY <1>1, <1>3, <2>1, <2>2 DEF ExportTyped
<1>5. CASE ~t.refused
  <2>1. /\ datas' = t.rows /\ nextId' = t.next /\ off' = off \cup t.hours
        /\ export' = [export EXCEPT !.steady = @ /\ ~t.changed]
    BY <1>5 DEF ImportHistoryBatch
  <2> HIDE DEF t
  <2>2. nextId' \in Nat /\ nextId <= nextId' /\ TableTyped'
    BY <1>2, <2>1 DEF Writings, WrittenWell, TableTyped
  <2>3. \A h : h \notin off' => SameHour(datas, datas', h)
    BY <1>2, <2>1 DEF WrittenWell
  <2>4. RowsOfPoints' /\ Told'
    <3>1. /\ StoreInv /\ Counted' = Counted /\ pending' \subseteq PointRecords
          /\ nextId' \in Nat /\ nextId <= nextId' /\ hours' = hours /\ metrics' = metrics /\ off \subseteq off'
          /\ \A h : h \notin off' => SameHour(datas, datas', h)
      BY <1>3, <2>1, <2>2, <2>3 DEF PointsTyped
    <3> QED BY ONLY <3>1, TableChanges
  <2>5. ExportTyped'
    BY <1>1, <2>1 DEF ExportTyped
  <2> QED BY <1>3, <2>2, <2>4, <2>5
<1> QED BY <1>4, <1>5

-----------------------------------------------------------------------------
\* The order of time and id in which rows are read.
Before(o, r) == r.at > o.at \/ (r.at = o.at /\ r.id > o.id)
Prior(S, r) == {o \in S : r \in After(S, o)}
Ordered(S) == RowSet(S) /\ UniqueIds(S)

LEMMA PriorIs ==
  ASSUME NEW S, NEW r \in S
  PROVE  Prior(S, r) = {o \in S : Before(o, r)} /\ After(S, r) = {o \in S : Before(r, o)}
BY DEF Prior, After, Before

LEMMA TotalOrder ==
  ASSUME NEW S, Ordered(S), NEW a \in S, NEW b \in S, NEW c \in S
  PROVE  /\ ~Before(a, a) /\ ~(Before(a, b) /\ Before(b, a)) /\ (a = b \/ Before(a, b) \/ Before(b, a))
         /\ Before(a, b) /\ Before(b, c) => Before(a, c)
<1>1. /\ a.at \in Int /\ a.id \in Nat /\ b.at \in Int /\ b.id \in Nat /\ c.at \in Int /\ c.id \in Nat
      /\ a.id = b.id => a = b
  BY DEF Ordered, RowSet, UniqueIds, Rows
<1> QED BY <1>1 DEF Before

LEMMA SomeOrdered ==
  ASSUME NEW S, Ordered(S), NEW T, T \subseteq S
  PROVE  Ordered(T) /\ Cardinality(T) \in Nat /\ IsFiniteSet(T) /\ Cardinality(T) <= Cardinality(S)
         /\ Cardinality(S) \in Nat /\ (Cardinality(T) = Cardinality(S) => T = S)
<1>1. IsFiniteSet(S) /\ IsFiniteSet(T)
  BY FS_Subset DEF Ordered, RowSet
<1>2. Ordered(T)
  BY <1>1 DEF Ordered, RowSet, UniqueIds
<1>3. Cardinality(T) <= Cardinality(S) /\ (Cardinality(T) = Cardinality(S) => T = S)
  BY <1>1, FS_Subset
<1> QED BY <1>1, <1>2, <1>3, FS_CardinalityType

LEMMA WithoutOne ==
  ASSUME NEW S, Ordered(S), NEW m \in S
  PROVE  /\ Ordered(S \ {m}) /\ Cardinality(S) \in Nat \ {0}
         /\ Cardinality(S \ {m}) \in Nat /\ Cardinality(S \ {m}) = Cardinality(S) - 1
<1>1. IsFiniteSet(S)
  BY DEF Ordered, RowSet
<1>2. Cardinality(S \ {m}) = Cardinality(S) - 1
  BY <1>1, FS_RemoveElement
<1>3. Cardinality(S) # 0
  BY <1>1, FS_EmptySet
<1> QED BY <1>2, <1>3, SomeOrdered

IsLast(S, m) == m \in S /\ \A o \in S \ {m} : Before(o, m)

LEMMA LastExists ==
  ASSUME NEW V, Ordered(V), V # {}
  PROVE  \E m : IsLast(V, m)
<1> DEFINE Bad(S) == Ordered(S) /\ S # {} /\ ~\E m : IsLast(S, m)
           T == {n \in Nat : \E S : Bad(S) /\ Cardinality(S) = n}
<1>1. SUFFICES ASSUME Bad(V) PROVE FALSE
  OBVIOUS
<1>2. Cardinality(V) \in T
  BY <1>1, SomeOrdered
<1>3. T \subseteq Nat /\ T # {}
  BY <1>2
<1>4. PICK n \in T : \A k \in T : n <= k
  BY ONLY <1>3, LeastOfNaturals
<1>5. PICK S : Bad(S) /\ Cardinality(S) = n
  BY <1>4
<1>6. PICK x : x \in S
  BY <1>5
<1>7. Ordered(S \ {x}) /\ Cardinality(S \ {x}) \in Nat /\ Cardinality(S \ {x}) = n - 1 /\ n \in Nat
  BY <1>5, <1>6, WithoutOne
<1>8. CASE S \ {x} = {}
  <2>1. IsLast(S, x)
    BY <1>6, <1>8 DEF IsLast
  <2> QED BY <1>5, <2>1
<1>9. CASE S \ {x} # {}
  <2>1. ~Bad(S \ {x})
    BY <1>4, <1>7
  <2>2. PICK m : IsLast(S \ {x}, m)
    BY <1>7, <1>9, <2>1
  <2>3. m \in S /\ m # x
    BY <2>2 DEF IsLast
  <2>4. Before(x, m) \/ Before(m, x)
    BY <1>5, <1>6, <2>3, TotalOrder
  <2>5. CASE Before(x, m)
    <3>1. IsLast(S, m)
      BY <2>2, <2>3, <2>5 DEF IsLast
    <3> QED BY <1>5, <3>1
  <2>6. CASE Before(m, x)
    <3>1. \A o \in S \ {x} : Before(o, x)
      <4> SUFFICES ASSUME NEW o \in S \ {x} PROVE Before(o, x)
        OBVIOUS
      <4>1. o = m \/ Before(o, m)
        BY <2>2 DEF IsLast
      <4> QED BY <1>5, <1>6, <2>3, <2>6, <4>1, TotalOrder
    <3>2. IsLast(S, x)
      BY <1>6, <3>1 DEF IsLast
    <3> QED BY <1>5, <3>2
  <2> QED BY <2>4, <2>5, <2>6
<1> QED BY <1>8, <1>9

Placed(S, i) == \E r \in S : Cardinality(Prior(S, r)) = i - 1

LEMMA PlacesTaken ==
  ASSUME NEW V, Ordered(V), NEW j \in 1..Cardinality(V)
  PROVE  Placed(V, j)
<1> DEFINE Bad(S) == Ordered(S) /\ \E i \in 1..Cardinality(S) : ~Placed(S, i)
           T == {n \in Nat : \E S : Bad(S) /\ Cardinality(S) = n}
<1>1. SUFFICES ASSUME Bad(V) PROVE FALSE
  OBVIOUS
<1>2. Cardinality(V) \in T
  BY <1>1, SomeOrdered
<1>3. T \subseteq Nat /\ T # {}
  BY <1>2
<1>4. PICK n \in T : \A k \in T : n <= k
  BY ONLY <1>3, LeastOfNaturals
<1>5. PICK S : Bad(S) /\ Cardinality(S) = n
  BY <1>4
<1>6. PICK i \in 1..n : ~Placed(S, i)
  BY <1>5
<1>7. S # {} /\ n \in Nat
  BY <1>4, <1>5, <1>6, FS_EmptySet
<1>8. PICK m : IsLast(S, m)
  BY <1>5, <1>7, LastExists
<1> DEFINE R == S \ {m}
<1>9. m \in S /\ Ordered(R) /\ Cardinality(R) \in Nat /\ Cardinality(R) = n - 1
  BY <1>5, <1>8, WithoutOne DEF IsLast
<1>10. \A r \in R : Prior(S, r) = Prior(R, r)
  <2> SUFFICES ASSUME NEW r \in R PROVE Prior(S, r) = Prior(R, r)
    OBVIOUS
  <2>1. Before(r, m) /\ ~Before(m, r)
    BY <1>5, <1>8, <1>9, TotalOrder DEF IsLast
  <2>2. Prior(S, r) = {o \in S : Before(o, r)} /\ Prior(R, r) = {o \in R : Before(o, r)}
    BY PriorIs
  <2> QED BY <2>1, <2>2
<1>11. Prior(S, m) = R
  <2>1. Prior(S, m) = {o \in S : Before(o, m)} /\ ~Before(m, m)
    BY <1>5, <1>9, PriorIs, TotalOrder
  <2> QED BY <1>8, <2>1 DEF IsLast
<1> HIDE DEF R
<1>12. CASE i = n
  <2>1. Cardinality(Prior(S, m)) = i - 1
    BY <1>9, <1>11, <1>12
  <2> QED BY <1>6, <1>9, <2>1 DEF Placed
<1>13. CASE i # n
  <2>1. i \in 1..Cardinality(R) /\ ~(n <= Cardinality(R))
    BY <1>6, <1>7, <1>9, <1>13
  <2>2. Placed(R, i)
    BY <1>4, <1>9, <2>1
  <2>3. PICK r \in R : Cardinality(Prior(R, r)) = i - 1
    BY <2>2 DEF Placed
  <2>4. r \in S /\ Cardinality(Prior(S, r)) = i - 1
    BY <1>10, <2>3 DEF R
  <2> QED BY <1>6, <2>4 DEF Placed
<1> QED BY <1>12, <1>13

LEMMA EarlierHasFewer ==
  ASSUME NEW S, Ordered(S), NEW o \in S, NEW r \in S
  PROVE  /\ Cardinality(Prior(S, o)) \in Nat /\ Cardinality(Prior(S, r)) \in Nat
         /\ Before(o, r) <=> Cardinality(Prior(S, o)) < Cardinality(Prior(S, r))
         /\ o = r <=> Cardinality(Prior(S, o)) = Cardinality(Prior(S, r))
         /\ Cardinality(Prior(S, r)) < Cardinality(S)
<1>1. \A x \in S : /\ Prior(S, x) = {y \in S : Before(y, x)} /\ Prior(S, x) \subseteq S
                   /\ Ordered(Prior(S, x)) /\ IsFiniteSet(Prior(S, x)) /\ Cardinality(Prior(S, x)) \in Nat
  BY PriorIs, SomeOrdered
<1>2. ASSUME NEW x \in S, NEW y \in S, Before(x, y)
      PROVE  Cardinality(Prior(S, x)) < Cardinality(Prior(S, y))
  <2>1. \A z \in S : Before(z, x) => Before(z, y)
    BY <1>2, TotalOrder
  <2>2. ~Before(x, x)
    BY TotalOrder
  <2>3. Prior(S, x) \subseteq Prior(S, y) /\ x \in Prior(S, y) /\ x \notin Prior(S, x)
    BY <1>1, <1>2, <2>1, <2>2
  <2>4. /\ Cardinality(Prior(S, x)) <= Cardinality(Prior(S, y))
        /\ Cardinality(Prior(S, x)) = Cardinality(Prior(S, y)) => Prior(S, x) = Prior(S, y)
    BY <1>1, <2>3, SomeOrdered
  <2> QED BY <1>1, <2>3, <2>4
<1>3. o = r \/ Before(o, r) \/ Before(r, o)
  BY TotalOrder
<1>4. Cardinality(Prior(S, r)) < Cardinality(S)
  <2>1. r \notin Prior(S, r)
    BY <1>1, TotalOrder
  <2>2. /\ Cardinality(S) \in Nat /\ Cardinality(Prior(S, r)) <= Cardinality(S)
        /\ Cardinality(Prior(S, r)) = Cardinality(S) => Prior(S, r) = S
    BY <1>1, SomeOrdered
  <2> QED BY <1>1, <2>1, <2>2
<1>5. Before(o, r) => Cardinality(Prior(S, o)) < Cardinality(Prior(S, r))
  BY <1>2
<1>6. Before(r, o) => Cardinality(Prior(S, r)) < Cardinality(Prior(S, o))
  BY <1>2
<1>7. Cardinality(Prior(S, o)) \in Nat /\ Cardinality(Prior(S, r)) \in Nat
  BY <1>1
<1> QED BY <1>3, <1>4, <1>5, <1>6, <1>7

\* The rows in their order, each once.
LEMMA InOrderIs ==
  ASSUME NEW S, Ordered(S)
  PROVE  /\ InOrder(S) \in Seq(S) /\ Len(InOrder(S)) = Cardinality(S) /\ Cardinality(S) \in Nat
         /\ \A i \in 1..Cardinality(S) : InOrder(S)[i] \in S /\ Cardinality(Prior(S, InOrder(S)[i])) = i - 1
         /\ \A i, j \in 1..Cardinality(S) : i < j => Before(InOrder(S)[i], InOrder(S)[j])
         /\ \A r \in S : \E i \in 1..Cardinality(S) : InOrder(S)[i] = r
<1> DEFINE n == Cardinality(S)
           At(i) == CHOOSE r \in S : Cardinality({o \in S : r \in After(S, o)}) = i - 1
<1>1. n \in Nat
  BY SomeOrdered
<1> HIDE DEF n
<1>2. \A i \in 1..n : At(i) \in S /\ Cardinality(Prior(S, At(i))) = i - 1
  <2> SUFFICES ASSUME NEW i \in 1..n PROVE At(i) \in S /\ Cardinality(Prior(S, At(i))) = i - 1
    OBVIOUS
  <2>1. \E r \in S : Cardinality({o \in S : r \in After(S, o)}) = i - 1
    BY PlacesTaken DEF Placed, Prior, n
  <2> QED BY <2>1 DEF Prior
<1>3. InOrder(S) = [i \in 1..n |-> At(i)]
  BY DEF InOrder, n
<1> HIDE DEF At
<1>4. InOrder(S) \in Seq(S) /\ Len(InOrder(S)) = n
  BY <1>1, <1>2, <1>3
<1>5. \A i \in 1..n : InOrder(S)[i] \in S /\ Cardinality(Prior(S, InOrder(S)[i])) = i - 1
  BY <1>2, <1>3
<1>6. ASSUME NEW i \in 1..n, NEW j \in 1..n, i < j PROVE Before(InOrder(S)[i], InOrder(S)[j])
  <2>1. i - 1 < j - 1
    BY <1>1, <1>6
  <2> QED BY <1>5, <2>1, EarlierHasFewer
<1>7. ASSUME NEW r \in S PROVE \E i \in 1..n : InOrder(S)[i] = r
  <2> DEFINE c == Cardinality(Prior(S, r))
  <2>1. c \in Nat /\ c < n
    BY EarlierHasFewer DEF n
  <2> HIDE DEF c
  <2>2. c + 1 \in 1..n /\ (c + 1) - 1 = c
    BY <1>1, <2>1
  <2>3. InOrder(S)[c + 1] \in S /\ Cardinality(Prior(S, InOrder(S)[c + 1])) = Cardinality(Prior(S, r))
    BY <1>5, <2>2 DEF c
  <2>4. InOrder(S)[c + 1] = r
    BY <2>3, EarlierHasFewer
  <2> QED BY <2>2, <2>4
<1> QED BY <1>1, <1>4, <1>5, <1>6, <1>7 DEF n

-----------------------------------------------------------------------------
\* The rows of one batch: as many of the first as the batch holds.
BatchOf(S) == LET rest == InOrder(S) IN SubSeq(rest, 1, Min({Batch, Len(rest)}))

LEMMA BatchIs ==
  ASSUME StoreAssumption, NEW S, Ordered(S)
  PROVE  /\ BatchOf(S) \in Seq(S) /\ Len(BatchOf(S)) \in Nat /\ Len(BatchOf(S)) <= Cardinality(S)
         /\ \A i \in 1..Len(BatchOf(S)) : BatchOf(S)[i] = InOrder(S)[i]
         /\ Len(BatchOf(S)) < Batch => Len(BatchOf(S)) = Cardinality(S)
         /\ S # {} => Len(BatchOf(S)) # 0
<1> DEFINE n == Cardinality(S)
           rest == InOrder(S)
           k == Min({Batch, n})
<1>1. rest \in Seq(S) /\ Len(rest) = n /\ n \in Nat
  BY InOrderIs
<1>2. Batch \in Nat \ {0}
  BY DEF StoreAssumption
<1>3. S # {} => n # 0
  BY FS_EmptySet DEF Ordered, RowSet
<1>4. BatchOf(S) = SubSeq(rest, 1, k)
  BY <1>1 DEF BatchOf
<1> HIDE DEF n, rest
<1>5. k = IF Batch <= n THEN Batch ELSE n
  <2>1. CASE Batch <= n
    <3>1. {Batch, n} \in SUBSET Int /\ Batch \in {Batch, n} /\ \A t \in {Batch, n} : Batch <= t
      BY <1>1, <1>2, <2>1
    <3> QED BY <2>1, <3>1, IsMin
  <2>2. CASE ~(Batch <= n)
    <3>1. {Batch, n} \in SUBSET Int /\ n \in {Batch, n} /\ \A t \in {Batch, n} : n <= t
      BY <1>1, <1>2, <2>2
    <3> QED BY <2>2, <3>1, IsMin
  <2> QED BY <2>1, <2>2
<1> HIDE DEF k
<1>6. k \in 0..n
  BY <1>1, <1>2, <1>5
<1>7. SubSeq(rest, 1, k) \in Seq(S) /\ Len(SubSeq(rest, 1, k)) = k /\ \A i \in 1..k : SubSeq(rest, 1, k)[i] = rest[i]
  BY <1>1, <1>6
<1> QED BY <1>1, <1>2, <1>3, <1>4, <1>5, <1>6, <1>7 DEF n, rest

\* The rows a batch of the export reads are of these.
Unread == LET S == Within(datas, export.range) IN
          IF export.file = <<>> THEN S ELSE After(S, Last(export.file))

LEMMA UnreadRows == ASSUME TableTyped PROVE Unread \subseteq datas /\ Ordered(Unread)
<1>1. Unread \subseteq datas
  BY DEF Unread, Within, After
<1>2. Ordered(datas)
  BY DEF TableTyped, Ordered
<1> QED BY <1>1, <1>2, SomeOrdered

LEMMA ExportBatchIs ==
  ASSUME ExportTyped, ExportBatch
  PROVE  /\ export.status = "running" /\ ~export.ended
         /\ export' = [export EXCEPT !.file = export.file \o BatchOf(Unread), !.ended = Len(BatchOf(Unread)) < Batch]
BY DEF ExportTyped, ExportBatch, BatchOf, Unread

LEMMA ExportBatchTyped ==
  ASSUME StoreInv, StoreAssumption, ExportBatch
  PROVE  ExportTyped'
<1>1. ExportTyped /\ TableTyped
  BY DEF StoreInv, StoreTyped
<1>2. Unread \subseteq Rows
  BY <1>1, UnreadRows DEF TableTyped, RowSet
<1>3. BatchOf(Unread) \in Seq(Rows)
  <2>1. BatchOf(Unread) \in Seq(Unread)
    BY <1>1, UnreadRows, BatchIs
  <2> QED BY <1>2, <2>1
<1>4. /\ export.status = "running" /\ export.file \in Seq(Rows)
      /\ {"status", "kept", "steady", "range", "total", "counted", "file", "ended"} \subseteq DOMAIN export
  BY <1>1, ExportBatchIs DEF ExportTyped
<1> DEFINE file == export.file \o BatchOf(Unread)
           over == Len(BatchOf(Unread)) < Batch
<1>5. file \in Seq(Rows)
  BY <1>3, <1>4
<1>6. export' = [export EXCEPT !.file = file, !.ended = over]
  BY <1>1, ExportBatchIs
<1> HIDE DEF file, over
<1> QED BY <1>4, <1>5, <1>6 DEF ExportTyped

LEMMA DownloadTyped ==
  ASSUME StoreInv, Download
  PROVE  ArchiveTyped'
<1>1. export.file \in Seq(Rows)
  BY DEF StoreInv, StoreTyped, ExportTyped, Download
<1>2. archive'.points = [i \in 1..Len(export.file) |-> ToArchivePoint(export.file[i])]
  BY DEF Download
<1>3. \A r \in Rows : ToArchivePoint(r) \in ArchivePoints
  BY DEF ToArchivePoint, ArchivePoints, Rows, Ids
<1>4. \A i \in 1..Len(export.file) : ToArchivePoint(export.file[i]) \in ArchivePoints
  BY <1>1, <1>3
<1>5. Len(export.file) \in Nat
  BY <1>1
<1> HIDE DEF ToArchivePoint
<1>6. [i \in 1..Len(export.file) |-> ToArchivePoint(export.file[i])] \in Seq(ArchivePoints)
  BY <1>4, <1>5
<1> QED BY <1>2, <1>6 DEF ArchiveTyped

\* The invariant holds at the start of a server run.
LEMMA StoreInvInit == ASSUME StoreInit, StoreAssumption PROVE StoreInv
<1>1. /\ datas \subseteq Rows /\ IsFiniteSet(datas) /\ \A r \in datas : r.id <= Cardinality(datas)
      /\ \A r, o \in datas : r.id = o.id => r = o
  BY DEF StoreInit, StoreAssumption
<1>2. Cardinality(datas) \in Nat
  BY <1>1, FS_CardinalityType
<1>3. /\ nextId = 1 + Cardinality(datas) /\ pending = {} /\ sent = 0 /\ now = StartTime /\ StartTime \in Int
      /\ hours = [h \in HoursOf(datas) |-> SummaryOf(InHour(h))]
      /\ metrics = [h \in HoursOf(datas) |-> MetricOf(InHour(h))]
  BY DEF StoreInit, StoreAssumption
<1>4. TableTyped
  <2>1. \A r \in datas : r.id \in Nat /\ r.id <= Cardinality(datas)
    BY <1>1 DEF Rows
  <2>2. nextId \in Nat /\ \A r \in datas : r.id < nextId
    BY <1>2, <1>3, <2>1
  <2> QED BY <1>1, <2>2 DEF TableTyped, RowSet, UniqueIds
<1>5. PointsTyped
  BY <1>3 DEF PointsTyped
<1>6. ArchiveTyped
  BY DEF ArchiveTyped, StoreInit, StoreAssumption
<1>7. ExportTyped
  BY DEF ExportTyped, StoreInit, NoExport
<1>8. RowsOfPoints
  BY <1>3 DEF RowsOfPoints, Counted
<1>9. ASSUME NEW h PROVE HourTold(h) /\ MetricTold(h)
  <2>1. Owed({"hour"}, h) = {} /\ Owed({"hour", "metric"}, h) = {}
    BY <1>3 DEF Owed
  <2>2. Counting(datas, h, {}) = InHour(h)
    BY DEF Counting, InHour
  <2>3. h \in HoursOf(datas) <=> InHour(h) # {}
    BY DEF HoursOf, InHour
  <2>4. HourTold(h)
    BY <1>3, <2>1, <2>2, <2>3 DEF HourTold, Tells
  <2>5. MetricTold(h)
    BY <1>3, <2>1, <2>2, <2>3 DEF MetricTold, Tells
  <2> QED BY <2>4, <2>5
<1> QED BY <1>4, <1>5, <1>6, <1>7, <1>8, <1>9 DEF StoreInv, StoreTyped, Told

\* A step that touches neither the tables nor the points.
LEMMA OthersKept ==
  ASSUME StoreInv, UNCHANGED <<tables, off, pending, sent>>, now' \in Int
  PROVE  RowsOfPoints' /\ Told' /\ TableTyped' /\ PointsTyped'
<1>1. Counted' = Counted /\ PointsTyped'
  BY DEF Counted, StoreInv, StoreTyped, PointsTyped
<1> QED BY <1>1, TablesKept

LEMMA ExportAlone == ASSUME StoreInv, UNCHANGED export PROVE ExportTyped'
BY DEF StoreInv, StoreTyped, ExportTyped

LEMMA ArchiveAlone == ASSUME StoreInv, UNCHANGED archive PROVE ArchiveTyped'
BY DEF StoreInv, StoreTyped, ArchiveTyped

LEMMA StoreInvNext == ASSUME StoreInv, StoreAssumption, [StoreNext]_storeVars PROVE StoreInv'
<1> DEFINE Goal == RowsOfPoints' /\ Told' /\ TableTyped' /\ PointsTyped' /\ ExportTyped' /\ ArchiveTyped'
<1>0. SUFFICES Goal
  BY DEF StoreInv, StoreTyped
<1>i. now \in Int /\ ExportTyped
  BY DEF StoreInv, StoreTyped, PointsTyped
<1>1. CASE Tick
  <2>1. UNCHANGED <<tables, off, pending, sent>> /\ now' \in Int /\ UNCHANGED export /\ UNCHANGED archive
    BY <1>1, <1>i DEF Tick
  <2> QED BY <2>1, OthersKept, ExportAlone, ArchiveAlone
<1>2. CASE Crash
  <2>1. Ends /\ UNCHANGED <<now, tables, sent>> /\ UNCHANGED archive
    BY <1>2 DEF Crash
  <2> QED BY <2>1, EndsKept, ArchiveAlone
<1>3. ASSUME NEW key \in Keys, NEW reading \in Readings, IngestPoint(key, reading) PROVE Goal
  <2>1. UNCHANGED <<tables, off>> /\ UNCHANGED export /\ UNCHANGED archive
    BY <1>3 DEF IngestPoint
  <2>2. Counted' = Counted /\ PointsTyped'
    BY <1>3, IngestKept
  <2> QED BY <2>1, <2>2, TablesKept, ExportAlone, ArchiveAlone
<1>4. ASSUME NEW p \in pending, Insert(p) PROVE Goal
  <2>1. UNCHANGED archive
    BY <1>4 DEF Insert
  <2> QED BY <1>4, <2>1, InsertKept, ArchiveAlone
<1>5. ASSUME NEW p \in pending, CountHour(p) PROVE Goal
  <2>1. UNCHANGED archive /\ UNCHANGED export
    BY <1>5 DEF CountHour
  <2> QED BY <1>5, <2>1, CountHourKept, ExportAlone, ArchiveAlone
<1>6. ASSUME NEW p \in pending, CountMetric(p) PROVE Goal
  <2>1. UNCHANGED archive /\ UNCHANGED export
    BY <1>6 DEF CountMetric
  <2> QED BY <1>6, <2>1, CountMetricKept, ExportAlone, ArchiveAlone
<1>7. ASSUME NEW r \in Ranges, CreateExport(r) PROVE Goal
  <2>1. UNCHANGED <<tables, off, pending, sent>> /\ now' \in Int /\ UNCHANGED archive
    BY <1>7, <1>i DEF CreateExport
  <2>2. ExportTyped'
    BY <1>7 DEF CreateExport, ExportTyped
  <2> QED BY <2>1, <2>2, OthersKept, ArchiveAlone
<1>8. ASSUME NEW r \in Ranges, NEW l \in Limits, NEW b \in {0, 1}, CountHistory(r, l, b) PROVE Goal
  <2>1. UNCHANGED <<tables, off, pending, sent>> /\ now' \in Int /\ UNCHANGED export /\ UNCHANGED archive
    BY <1>8, <1>i DEF CountHistory
  <2> QED BY <2>1, OthersKept, ExportAlone, ArchiveAlone
<1>9. CASE ReadHistory \/ Answer \/ \E mode \in {"merge", "replace"} : CreateImport(mode)
  <2>1. UNCHANGED <<tables, off, pending, sent>> /\ now' \in Int /\ UNCHANGED export /\ UNCHANGED archive
    BY <1>9, <1>i DEF ReadHistory, Answer, CreateImport
  <2> QED BY <2>1, OthersKept, ExportAlone, ArchiveAlone
<1>10. CASE StartExport
  <2>1. UNCHANGED <<tables, off, pending, sent>> /\ now' \in Int /\ UNCHANGED archive
    BY <1>10, <1>i DEF StartExport
  <2>2. ExportTyped'
    BY <1>10 DEF StartExport, ExportTyped
  <2> QED BY <2>1, <2>2, OthersKept, ArchiveAlone
<1>11. CASE ExportBatch
  <2>1. UNCHANGED <<tables, off, pending, sent>> /\ now' \in Int /\ UNCHANGED archive
    BY <1>11, <1>i DEF ExportBatch
  <2> QED BY <1>11, <2>1, ExportBatchTyped, OthersKept, ArchiveAlone
<1>12. CASE FinishExport
  <2>1. UNCHANGED <<tables, off, pending, sent>> /\ now' \in Int /\ UNCHANGED archive
    BY <1>12, <1>i DEF FinishExport
  <2>2. ExportTyped'
    BY <1>12, <1>i DEF FinishExport, ExportTyped
  <2> QED BY <2>1, <2>2, OthersKept, ArchiveAlone
<1>13. CASE ExpireExport
  <2>1. UNCHANGED <<tables, off, pending, sent>> /\ now' \in Int /\ UNCHANGED archive
    BY <1>13, <1>i DEF ExpireExport
  <2>2. ExportTyped'
    BY <1>13 DEF ExpireExport, NoExport, ExportTyped
  <2> QED BY <2>1, <2>2, OthersKept, ArchiveAlone
<1>14. CASE Download
  <2>1. UNCHANGED <<tables, off, pending, sent>> /\ now' \in Int /\ UNCHANGED export
    BY <1>14, <1>i DEF Download
  <2> QED BY <1>14, <2>1, DownloadTyped, OthersKept, ExportAlone
<1>15. CASE DeleteRange
  <2>1. PICK S : Removed(S)
    BY <1>15 DEF DeleteRange
  <2>2. UNCHANGED <<nextId, hours, metrics, pending, sent, now>> /\ UNCHANGED archive
    BY <1>15 DEF DeleteRange
  <2> QED BY <2>1, <2>2, RemovalKept, ArchiveAlone
<1>16. CASE ImportHistoryBatch
  <2>1. UNCHANGED archive
    BY <1>16 DEF ImportHistoryBatch
  <2> QED BY <1>16, <2>1, ImportKept, ArchiveAlone
<1>17. CASE RebuildHourlySummaries
  <2>1. UNCHANGED archive /\ UNCHANGED export
    BY <1>17 DEF RebuildHourlySummaries
  <2> QED BY <1>17, <2>1, RebuildKept, ExportAlone, ArchiveAlone
<1>18. CASE ClearData
  <2>1. UNCHANGED <<tables, off, pending, sent>> /\ now' \in Int /\ UNCHANGED export /\ UNCHANGED archive
    BY <1>18, <1>i DEF ClearData
  <2> QED BY <2>1, OthersKept, ExportAlone, ArchiveAlone
<1>19. CASE ClearTelemetryDataBatch
  <2>1. PICK S : Removed(S)
    BY <1>19 DEF ClearTelemetryDataBatch
  <2>2. UNCHANGED <<nextId, hours, metrics, pending, sent, now>> /\ UNCHANGED archive
    BY <1>19 DEF ClearTelemetryDataBatch
  <2> QED BY <2>1, <2>2, RemovalKept, ArchiveAlone
<1>20. CASE UNCHANGED storeVars
  <2>1. UNCHANGED <<tables, off, pending, sent>> /\ now' \in Int /\ UNCHANGED export /\ UNCHANGED archive
    BY <1>20, <1>i DEF storeVars
  <2> QED BY <2>1, OthersKept, ExportAlone, ArchiveAlone
<1> HIDE DEF Goal
<1> QED BY <1>1, <1>2, <1>3, <1>4, <1>5, <1>6, <1>7, <1>8, <1>9, <1>10, <1>11, <1>12, <1>13, <1>14,
           <1>15, <1>16, <1>17, <1>18, <1>19, <1>20 DEF StoreNext

LEMMA SumsFollow == ASSUME StoreInv PROVE HourSumsMatch
<1> SUFFICES ASSUME NEW h \in HoursOf(datas) \cup DOMAIN hours \cup DOMAIN metrics, h \notin off, h \notin Uncounted
             PROVE  /\ InHour(h) # {} /\ h \in DOMAIN hours \cap DOMAIN metrics
                    /\ hours[h] = SummaryOf(InHour(h)) /\ metrics[h] = MetricOf(InHour(h))
  BY DEF HourSumsMatch
<1>1. HourTold(h) /\ MetricTold(h)
  BY DEF StoreInv, Told
<1>2. Owed({"hour"}, h) = {} /\ Owed({"hour", "metric"}, h) = {}
  BY DEF Uncounted, HoursOf, Owed
<1>3. Counting(datas, h, {}) = InHour(h)
  BY DEF Counting, InHour
<1>4. h \in HoursOf(datas) => InHour(h) # {}
  BY DEF HoursOf, InHour
<1> QED BY <1>1, <1>2, <1>3, <1>4 DEF HourTold, MetricTold, Tells

\* The summaries of an hour say what its rows say, however the statements of
\* points, imports and rebuilds interleave, but in the hours marked.
THEOREM SumsAlwaysMatch == StoreSpec => []HourSumsMatch
<1>1. StoreInit => StoreInv
  BY StoreInvInit, StoreAssumption
<1>2. StoreInv /\ [StoreNext]_storeVars => StoreInv'
  BY StoreInvNext, StoreAssumption
<1>3. StoreInv => HourSumsMatch
  BY SumsFollow
<1> QED BY <1>1, <1>2, <1>3, PTL DEF StoreSpec

-----------------------------------------------------------------------------
\* What is complete: a history that tells of no cut has as many rows as were
\* counted, and an export that nothing disturbed has read, in their order, the
\* rows that were counted as far as it has come.
QueryWhole ==
  /\ query.step = "counted" => query.total \in Nat
  /\ query.step = "answered" =>
       /\ query.total \in Nat /\ IsFiniteSet(query.matching) /\ query.items \subseteq query.matching
       /\ query.complete => query.total <= Cardinality(query.items)

Reads(file, r) == \E i \in 1..Len(file) : file[i] = r
Increasing(file) == \A i, j \in 1..Len(file) : i < j => Before(file[i], file[j])
ExportRunning ==
  LET W == Within(datas, export.range)
      file == export.file IN
  /\ export.kept = TRUE /\ export.counted \subseteq W /\ export.total = Cardinality(export.counted)
  /\ (\A i \in 1..Len(file) : file[i] \in W) /\ Increasing(file)
  /\ \A r \in export.counted : Reads(file, r) \/ (~export.ended /\ (file = <<>> \/ Before(Last(file), r)))
ExportDone == export.kept /\ export.file = InOrder(export.counted)

ExportWhole ==
  /\ export.status = "running" => ~export.steady \/ ExportRunning
  /\ export.status = "completed" => ~export.steady \/ ExportDone
StoreWhole == QueryWhole /\ ExportWhole

FirstOf(f, n) == {f[i] : i \in 1..n}

LEMMA CountOfDistinct ==
  ASSUME NEW n \in Nat, NEW f, \A i, j \in 1..n : f[i] = f[j] => i = j
  PROVE  IsFiniteSet(FirstOf(f, n)) /\ Cardinality(FirstOf(f, n)) = n
<1> DEFINE F == {f[i] : i \in 1..n}
           g == [i \in 1..n |-> f[i]]
<1>1. g \in Bijection(1..n, F)
  BY DEF Bijection, Injection, Surjection, IsInjective
<1>2. ExistsBijection(1..n, F)
  BY <1>1 DEF ExistsBijection
<1>3. IsFiniteSet(1..n) /\ Cardinality(1..n) = n
  BY FS_Interval
<1> HIDE DEF F
<1> QED BY <1>2, <1>3, FS_Bijection DEF F, FirstOf

\* Rows in their order that hold all of a set, and are as many, are the set in order.
LEMMA OrderIsForced ==
  ASSUME NEW W, Ordered(W), NEW C, C \subseteq W, NEW f, f \in Seq(Rows),
         \A i \in 1..Len(f) : f[i] \in W, Increasing(f), \A r \in C : Reads(f, r),
         Len(f) = Cardinality(C)
  PROVE  f = InOrder(C)
<1> DEFINE n == Len(f)
           F == FirstOf(f, n)
<1>1. n \in Nat
  OBVIOUS
<1>2. \A i \in 1..n : f[i] \in W
  OBVIOUS
<1>3. \A i, j \in 1..n : i < j => Before(f[i], f[j])
  BY DEF Increasing
<1>4. \A r \in C : \E i \in 1..n : f[i] = r
  BY DEF Reads
<1>5. n = Cardinality(C)
  OBVIOUS
<1>6. f \in Seq(Rows)
  OBVIOUS
<1> HIDE DEF n
<1>7. ASSUME NEW i \in 1..n, NEW j \in 1..n PROVE (Before(f[i], f[j]) <=> i < j) /\ (f[i] = f[j] => i = j)
  <2>1. i < j \/ i = j \/ j < i
    BY <1>1
  <2>2. i < j => Before(f[i], f[j])
    BY <1>3
  <2>3. j < i => Before(f[j], f[i])
    BY <1>3
  <2>4. f[i] \in W /\ f[j] \in W
    BY <1>2
  <2>5. ~Before(f[i], f[i]) /\ ~(Before(f[i], f[j]) /\ Before(f[j], f[i]))
    BY <2>4, TotalOrder
  <2>6. ~(i < i) /\ ~(i < j /\ j < i)
    BY <1>1
  <2> QED BY <2>1, <2>2, <2>3, <2>5, <2>6
<1>8. \A i, j \in 1..n : f[i] = f[j] => i = j
  BY <1>7
<1>9. IsFiniteSet(F) /\ Cardinality(F) = n
  BY ONLY <1>1, <1>8, CountOfDistinct
<1>10. F \subseteq W /\ C \subseteq F
  BY <1>2, <1>4 DEF FirstOf
<1> HIDE DEF F
<1>11. Ordered(F)
  BY <1>10, SomeOrdered
<1>12. F = C
  BY <1>5, <1>9, <1>10, <1>11, SomeOrdered
<1>13. ASSUME NEW i \in 1..n PROVE f[i] = InOrder(C)[i]
  <2>1. f[i] \in C
    BY <1>12 DEF F, FirstOf
  <2>2. Prior(C, f[i]) = {f[j] : j \in 1..i-1}
    <3>1. Prior(C, f[i]) = {o \in F : Before(o, f[i])}
      BY <1>12, <2>1, PriorIs
    <3>2. \A j \in 1..n : Before(f[j], f[i]) <=> j \in 1..i-1
      BY <1>1, <1>7
    <3>3. 1..i-1 \subseteq 1..n
      BY <1>1
    <3> QED BY <3>1, <3>2, <3>3 DEF F, FirstOf
  <2>3. Cardinality({f[j] : j \in 1..i-1}) = i - 1
    <3> DEFINE m == i - 1
    <3>1. m \in Nat /\ \A j \in 1..m : j \in 1..n
      BY <1>1
    <3> HIDE DEF m
    <3>2. \A j, k \in 1..m : f[j] = f[k] => j = k
      BY <1>8, <3>1
    <3>3. m \in Nat
      BY <3>1
    <3>4. Cardinality(FirstOf(f, m)) = m
      BY ONLY <3>3, <3>2, CountOfDistinct
    <3> QED BY <3>4 DEF m, FirstOf
  <2>4. Ordered(C) /\ i \in 1..Cardinality(C)
    BY <1>5, SomeOrdered
  <2>5. InOrder(C)[i] \in C /\ Cardinality(Prior(C, InOrder(C)[i])) = i - 1
    BY <2>4, InOrderIs
  <2>6. Cardinality(Prior(C, f[i])) = Cardinality(Prior(C, InOrder(C)[i]))
    BY <2>2, <2>3, <2>5
  <2> QED BY <2>1, <2>4, <2>5, <2>6, EarlierHasFewer
<1>14. InOrder(C) \in Seq(C) /\ Len(InOrder(C)) = n
  BY <1>5, InOrderIs, SomeOrdered
<1> QED BY <1>1, <1>6, <1>13, <1>14 DEF n

\* A step of others: no row of a steady export is gone.
Undisturbed ==
  /\ export'.status = export.status
  /\ export.status \in {"running", "completed"} =>
       /\ export'.range = export.range /\ export'.kept = export.kept /\ export'.counted = export.counted
       /\ export'.total = export.total /\ export'.file = export.file /\ export'.ended = export.ended
       /\ ~export'.steady \/ (export.steady /\ datas \subseteq datas')

LEMMA UndisturbedWhole == ASSUME ExportWhole, Undisturbed PROVE ExportWhole'
<1>1. CASE export.status = "running"
  <2>1. CASE ~export'.steady
    BY <1>1, <2>1 DEF Undisturbed, ExportWhole
  <2>2. CASE export'.steady
    <3>1. ExportRunning
      BY <1>1, <2>2 DEF Undisturbed, ExportWhole
    <3>2. Within(datas, export.range) \subseteq Within(datas', export.range)
      BY <1>1, <2>2 DEF Undisturbed, Within
    <3>3. Within(datas, export.range)' = Within(datas', export.range)
      BY <1>1 DEF Undisturbed, Within
    <3>4. /\ export'.range = export.range /\ export'.kept = export.kept /\ export'.counted = export.counted
          /\ export'.total = export.total /\ export'.file = export.file /\ export'.ended = export.ended
      BY <1>1 DEF Undisturbed
    <3>5. ExportRunning'
      BY ONLY <3>1, <3>2, <3>3, <3>4 DEF ExportRunning, Reads
    <3> QED BY <1>1, <3>5 DEF Undisturbed, ExportWhole
  <2> QED BY <2>1, <2>2
<1>2. CASE export.status = "completed"
  BY <1>2 DEF Undisturbed, ExportWhole, ExportDone
<1>3. CASE export.status \notin {"running", "completed"}
  BY <1>3 DEF Undisturbed, ExportWhole
<1> QED BY <1>1, <1>2, <1>3

LEMMA OneBatchOn ==
  ASSUME StoreInv, StoreAssumption, ExportWhole, ExportBatch
  PROVE  ExportWhole'
<1> DEFINE W == Within(datas, export.range)
           file == export.file
           C == export.counted
           n == Len(file)
           U == Unread
           B == BatchOf(U)
           k == Len(B)
           nf == file \o B
<1>1. TableTyped /\ ExportTyped
  BY DEF StoreInv, StoreTyped
<1>2. /\ export.status = "running" /\ ~export.ended /\ datas' = datas
      /\ export' = [export EXCEPT !.file = nf, !.ended = k < Batch]
  BY <1>1, ExportBatchIs DEF ExportBatch, tables
<1>3. file \in Seq(Rows) /\ {"status", "kept", "steady", "range", "total", "counted", "file", "ended"} \subseteq DOMAIN export
  BY <1>1, <1>2 DEF ExportTyped
<1>4. /\ export'.status = "running" /\ export'.range = export.range /\ export'.kept = export.kept
      /\ export'.counted = C /\ export'.total = export.total /\ export'.steady = export.steady
      /\ export'.file = nf /\ export'.ended = (k < Batch)
  <2> HIDE DEF nf, k
  <2> QED BY <1>2, <1>3
<1>5. CASE ~export.steady
  BY <1>4, <1>5 DEF ExportWhole
<1>6. CASE export.steady
  <2>1. ExportRunning
    BY <1>2, <1>6 DEF ExportWhole
  <2>2. /\ export.kept = TRUE /\ C \subseteq W /\ export.total = Cardinality(C)
        /\ \A i \in 1..n : file[i] \in W
        /\ \A i, j \in 1..n : i < j => Before(file[i], file[j])
        /\ \A r \in C : Reads(file, r) \/ file = <<>> \/ Before(Last(file), r)
    BY <2>1 DEF ExportRunning, Increasing
  <2>3. Ordered(W)
    <3>1. Ordered(datas) /\ W \subseteq datas
      BY <1>1 DEF TableTyped, Ordered, Within
    <3> QED BY <3>1, SomeOrdered
  <2>4. U \subseteq W /\ Ordered(U)
    BY <1>1, UnreadRows DEF Unread, After
  <2>5. n \in Nat /\ (file = <<>> <=> n = 0) /\ (n # 0 => Last(file) = file[n] /\ n \in 1..n)
    BY <1>3 DEF Last
  <2>6. /\ \A r \in U : n # 0 => Before(file[n], r)
        /\ \A r \in W : (n = 0 \/ Before(file[n], r)) => r \in U
    <3>1. CASE n = 0
      <4>1. U = W
        BY <2>5, <3>1 DEF Unread
      <4> QED BY <3>1, <4>1
    <3>2. CASE n # 0
      <4>1. U = After(W, file[n]) /\ file[n] \in W
        BY <2>2, <2>5, <3>2 DEF Unread
      <4>2. U = {o \in W : Before(file[n], o)}
        BY <4>1, PriorIs
      <4> QED BY <3>2, <4>2
    <3> QED BY <3>1, <3>2
  <2>7. /\ B \in Seq(U) /\ k \in Nat /\ k <= Cardinality(U)
        /\ \A i \in 1..k : B[i] = InOrder(U)[i]
        /\ k < Batch => k = Cardinality(U)
        /\ U # {} => k # 0
    BY <2>4, BatchIs
  <2>8. /\ Cardinality(U) \in Nat
        /\ \A i \in 1..Cardinality(U) : InOrder(U)[i] \in U
        /\ \A i, j \in 1..Cardinality(U) : i < j => Before(InOrder(U)[i], InOrder(U)[j])
        /\ \A r \in U : \E i \in 1..Cardinality(U) : InOrder(U)[i] = r
    BY <2>4, InOrderIs
  <2>9. /\ Len(nf) = n + k /\ \A i \in 1..n : nf[i] = file[i]
        /\ \A i \in 1..k : nf[n + i] = B[i]
    BY <1>3, <2>7
  <2> HIDE DEF W, file, n, U, B, k, nf, C
  <2>10. \A i \in 1..n+k : i \in 1..n \/ (i > n /\ i - n \in 1..k /\ nf[i] = InOrder(U)[i - n])
    <3> SUFFICES ASSUME NEW i \in 1..n+k, i \notin 1..n
                 PROVE  i > n /\ i - n \in 1..k /\ nf[i] = InOrder(U)[i - n]
      OBVIOUS
    <3>1. i > n /\ i - n \in 1..k /\ n + (i - n) = i
      BY <2>5, <2>7
    <3> QED BY <2>7, <2>9, <3>1
  <2>11. 1..k \subseteq 1..Cardinality(U)
    BY <2>7, <2>8
  <2>12. \A i \in 1..Len(nf) : nf[i] \in W
    BY <2>2, <2>4, <2>8, <2>9, <2>10, <2>11
  <2>13. Increasing(nf)
    <3> SUFFICES ASSUME NEW i \in 1..n+k, NEW j \in 1..n+k, i < j PROVE Before(nf[i], nf[j])
      BY <2>9 DEF Increasing
    <3>1. CASE i \in 1..n /\ j \in 1..n
      BY <2>2, <2>9, <3>1
    <3>2. CASE i \in 1..n /\ j \notin 1..n
      <4>1. j - n \in 1..k /\ nf[j] = InOrder(U)[j - n]
        BY <2>10, <3>2
      <4>2. nf[j] \in U /\ n # 0 /\ n \in 1..n /\ nf[i] = file[i]
        BY <2>5, <2>8, <2>9, <2>11, <3>2, <4>1
      <4>3. Before(file[n], nf[j])
        BY <2>6, <4>2
      <4>4. file[i] \in W /\ file[n] \in W /\ nf[j] \in W
        BY <2>2, <2>4, <3>2, <4>2
      <4>5. i = n \/ Before(file[i], file[n])
        BY <2>2, <2>5, <3>2, <4>2
      <4> QED BY <2>3, <4>2, <4>3, <4>4, <4>5, TotalOrder
    <3>3. CASE i \notin 1..n
      <4>1. i > n /\ i - n \in 1..k /\ nf[i] = InOrder(U)[i - n]
        BY <2>10, <3>3
      <4>2. j > n /\ j \notin 1..n
        BY <2>5, <4>1
      <4>3. j - n \in 1..k /\ nf[j] = InOrder(U)[j - n]
        BY <2>10, <4>2
      <4>4. i - n < j - n
        BY <2>5, <2>7
      <4> QED BY <2>8, <2>11, <4>1, <4>3, <4>4
    <3> QED BY <3>1, <3>2, <3>3
  <2>14. ASSUME NEW r \in C
         PROVE  Reads(nf, r) \/ (~(k < Batch) /\ (nf = <<>> \/ Before(Last(nf), r)))
    <3>1. CASE Reads(file, r)
      <4>1. PICK i \in 1..n : file[i] = r
        BY <3>1 DEF Reads, n
      <4>2. i \in 1..Len(nf) /\ nf[i] = r
        BY <2>5, <2>7, <2>9, <4>1
      <4> QED BY <4>2 DEF Reads
    <3>2. CASE ~Reads(file, r)
      <4>1. r \in U
        BY <2>2, <2>5, <2>6, <3>2
      <4>2. PICK i \in 1..Cardinality(U) : InOrder(U)[i] = r
        BY <2>8, <4>1
      <4>3. CASE i \in 1..k
        <5>1. n + i \in 1..Len(nf) /\ nf[n + i] = r
          BY <2>5, <2>7, <2>9, <4>2, <4>3
        <5> QED BY <5>1 DEF Reads
      <4>4. CASE i \notin 1..k
        <5>1. k < i /\ k < Cardinality(U) /\ ~(k < Batch) /\ k # 0
          BY <2>7, <2>8, <4>1, <4>4
        <5>2. k \in 1..Cardinality(U) /\ k \in 1..k
          BY <2>7, <2>8, <5>1
        <5>3. Before(InOrder(U)[k], r)
          BY <2>8, <4>2, <5>1, <5>2
        <5>4. Last(nf) = nf[n + k]
          BY <2>9 DEF Last
        <5>5. Last(nf) = InOrder(U)[k]
          BY <2>7, <2>9, <5>2, <5>4
        <5> QED BY <5>1, <5>3, <5>5
      <4> QED BY <4>3, <4>4
    <3> QED BY <3>1, <3>2
  <2>15. Within(datas, export.range)' = W
    BY <1>2, <1>4 DEF W, Within
  <2>16. ExportRunning'
    BY <1>4, <2>2, <2>12, <2>13, <2>14, <2>15 DEF ExportRunning
  <2> QED BY <1>4, <2>16 DEF ExportWhole
<1> QED BY <1>5, <1>6

LEMMA FinishedWhole ==
  ASSUME StoreInv, ExportWhole, FinishExport
  PROVE  ExportWhole'
<1>1. TableTyped /\ ExportTyped /\ export.status = "running" /\ export.ended
  BY DEF StoreInv, StoreTyped, FinishExport
<1>2. export.file \in Seq(Rows) /\ {"status", "kept", "steady", "range", "total", "counted", "file", "ended"} \subseteq DOMAIN export
  BY <1>1 DEF ExportTyped
<1>3. CASE ~CountsAgree
  <2>1. export'.status = "failed"
    BY <1>2, <1>3 DEF FinishExport
  <2> QED BY <2>1 DEF ExportWhole
<1>4. CASE CountsAgree
  <2>1. /\ export'.status = "completed" /\ export'.steady = export.steady /\ export'.kept = export.kept
        /\ export'.file = export.file /\ export'.counted = export.counted
    BY <1>2, <1>4 DEF FinishExport
  <2>2. CASE ~export.steady
    BY <2>1, <2>2 DEF ExportWhole
  <2>3. CASE export.steady
    <3> DEFINE W == Within(datas, export.range)
    <3>1. ExportRunning
      BY <1>1, <2>3 DEF ExportWhole
    <3>2. Ordered(W)
      <4>1. Ordered(datas) /\ W \subseteq datas
        BY <1>1 DEF TableTyped, Ordered, Within
      <4> QED BY <4>1, SomeOrdered
    <3>3. /\ export.counted \subseteq W /\ \A i \in 1..Len(export.file) : export.file[i] \in W
          /\ Increasing(export.file) /\ \A r \in export.counted : Reads(export.file, r)
          /\ Len(export.file) = Cardinality(export.counted) /\ export.kept = TRUE
      BY <1>1, <1>4, <3>1 DEF ExportRunning, CountsAgree
    <3> HIDE DEF W
    <3>4. export.file = InOrder(export.counted)
      BY ONLY <1>2, <3>2, <3>3, OrderIsForced
    <3>5. ExportDone'
      <4>1. InOrder(export.counted)' = InOrder(export.counted)
        BY <2>1 DEF InOrder, After
      <4> QED BY <2>1, <3>3, <3>4, <4>1 DEF ExportDone
    <3> QED BY <2>1, <3>5 DEF ExportWhole
  <2> QED BY <2>2, <2>3
<1> QED BY <1>3, <1>4

LEMMA StartedWhole ==
  ASSUME StoreInv, StartExport
  PROVE  ExportWhole'
<1> DEFINE S == Within(datas, export.range)
<1>1. export' = [status |-> "running", range |-> export.range, kept |-> TRUE, steady |-> TRUE,
                 total |-> Cardinality(S), counted |-> S, file |-> <<>>, ended |-> FALSE]
      /\ datas' = datas
  BY DEF StartExport, tables
<1>2. Within(datas, export.range)' = S
  BY <1>1 DEF Within
<1> HIDE DEF S
<1>3. /\ export'.status = "running" /\ export'.kept = TRUE /\ export'.counted = S /\ export'.ended = FALSE
      /\ export'.total = Cardinality(S) /\ export'.file = <<>>
  BY <1>1
<1>4. 1..Len(<<>>) = {}
  OBVIOUS
<1>5. ExportRunning'
  BY <1>2, <1>3, <1>4 DEF ExportRunning, Increasing
<1> QED BY <1>3, <1>5 DEF ExportWhole

LEMMA OverWhole ==
  ASSUME StoreInv, NEW c, export' = [export EXCEPT !.steady = @ /\ ~c], c \/ datas \subseteq datas'
  PROVE  Undisturbed
<1>1. ExportTyped
  BY DEF StoreInv, StoreTyped
<1> DEFINE s == export.steady /\ ~c
<1>2. export' = [export EXCEPT !.steady = s]
  BY <1>1 DEF ExportTyped
<1>3. s => export.steady /\ datas \subseteq datas'
  OBVIOUS
<1> HIDE DEF s
<1>4. export'.steady = s /\ export'.status = export.status
  BY <1>1, <1>2 DEF ExportTyped
<1>5. ASSUME export.status \in {"running", "completed"}
      PROVE  /\ export'.range = export.range /\ export'.kept = export.kept /\ export'.counted = export.counted
             /\ export'.total = export.total /\ export'.file = export.file /\ export'.ended = export.ended
  BY <1>1, <1>2, <1>5 DEF ExportTyped
<1>6. ~export'.steady \/ (export.steady /\ datas \subseteq datas')
  BY <1>3, <1>4
<1> QED BY <1>4, <1>5, <1>6 DEF Undisturbed

LEMMA RemovedWhole == ASSUME StoreInv, NEW S, Removed(S) PROVE Undisturbed
<1>1. CASE S = {}
  BY <1>1 DEF Removed, Undisturbed
<1>2. CASE S # {}
  <2>1. export' = [export EXCEPT !.steady = FALSE] /\ ExportTyped
    BY <1>2 DEF Removed, StoreInv, StoreTyped
  <2> QED BY <2>1 DEF ExportTyped, Undisturbed
<1> QED BY <1>1, <1>2

LEMMA EndedWhole == ASSUME StoreInv, ExportWhole, Ends, UNCHANGED datas PROVE StoreWhole'
<1>1. QueryWhole'
  BY DEF Ends, QueryWhole
<1>2. CASE export.status \in {"queued", "running"}
  <2>1. export' = [export EXCEPT !.status = "failed", !.kept = FALSE] /\ ExportTyped
    BY <1>2 DEF Ends, StoreInv, StoreTyped
  <2>2. export'.status = "failed"
    BY <2>1 DEF ExportTyped
  <2> QED BY <1>1, <2>2 DEF ExportWhole, StoreWhole
<1>3. CASE export.status \notin {"queued", "running"}
  <2>1. Undisturbed
    BY <1>3 DEF Ends, Undisturbed
  <2> QED BY <1>1, <2>1, UndisturbedWhole DEF StoreWhole
<1> QED BY <1>2, <1>3

LEMMA ReadWhole == ASSUME StoreInv, QueryWhole, ReadHistory PROVE QueryWhole'
<1> DEFINE S == Within(datas, query.range)
<1>1. PICK items : /\ items \in IF query.bucket = 0 THEN RawItems(S, query.limit) ELSE {BucketItems(S, query.limit, query.bucket)}
                   /\ query' = [step |-> "answered", matching |-> S, items |-> items, total |-> query.total,
                                complete |-> ~Truncated(query.total, items, query.limit)]
  BY DEF ReadHistory
<1>2. items \subseteq S
  BY <1>1 DEF RawItems, BucketItems
<1>3. IsFiniteSet(S)
  BY FS_Subset DEF StoreInv, StoreTyped, TableTyped, RowSet, Within
<1>4. Cardinality(items) \in Nat
  BY <1>2, <1>3, FS_Subset, FS_CardinalityType
<1>5. query.total \in Nat
  BY DEF QueryWhole, ReadHistory
<1>6. ~Truncated(query.total, items, query.limit) => query.total <= Cardinality(items)
  BY <1>4, <1>5 DEF Truncated
<1> HIDE DEF S
<1> DEFINE whole == ~Truncated(query.total, items, query.limit)
<1>7. query' = [step |-> "answered", matching |-> S, items |-> items, total |-> query.total, complete |-> whole]
  BY <1>1
<1> HIDE DEF whole
<1>8. /\ query'.step = "answered" /\ query'.matching = S /\ query'.items = items
      /\ query'.total = query.total /\ query'.complete = whole
  BY <1>7
<1> QED BY <1>2, <1>3, <1>5, <1>6, <1>8 DEF QueryWhole, whole

LEMMA QueryAlone == ASSUME QueryWhole, UNCHANGED query PROVE QueryWhole'
BY DEF QueryWhole

LEMMA ExportUndisturbed == ASSUME UNCHANGED export, datas \subseteq datas' PROVE Undisturbed
BY DEF Undisturbed

LEMMA StoreWholeInit == ASSUME StoreInit PROVE StoreWhole
BY DEF StoreInit, NoExport, StoreWhole, QueryWhole, ExportWhole

LEMMA StoreWholeNext ==
  ASSUME StoreInv, StoreWhole, StoreAssumption, [StoreNext]_storeVars
  PROVE  StoreWhole'
<1>i. QueryWhole /\ ExportWhole /\ ExportTyped /\ TableTyped
  BY DEF StoreWhole, StoreInv, StoreTyped
<1>1. CASE \/ Tick \/ \E key \in Keys, reading \in Readings : IngestPoint(key, reading)
           \/ (\E p \in pending : CountHour(p) \/ CountMetric(p))
           \/ Download \/ (\E mode \in {"merge", "replace"} : CreateImport(mode))
           \/ RebuildHourlySummaries \/ ClearData \/ UNCHANGED storeVars
  <2>1. UNCHANGED query /\ UNCHANGED export /\ datas' = datas
    BY <1>1 DEF Tick, IngestPoint, CountHour, CountMetric, Download, CreateImport, RebuildHourlySummaries,
                ClearData, tables, storeVars
  <2> QED BY <1>i, <2>1, QueryAlone, ExportUndisturbed, UndisturbedWhole DEF StoreWhole
<1>2. CASE Crash
  <2>1. Ends /\ UNCHANGED datas
    BY <1>2 DEF Crash, tables
  <2> QED BY <1>i, <2>1, EndedWhole
<1>3. ASSUME NEW p \in pending, Insert(p) PROVE StoreWhole'
  <2>1. CASE /\ datas' = datas \cup {RowOf(nextId, p)} /\ UNCHANGED <<query, export>>
    BY <1>i, <2>1, QueryAlone, ExportUndisturbed, UndisturbedWhole DEF StoreWhole
  <2>2. ASSUME NEW r \in datas, datas' = (datas \ {r}) \cup {RowOf(r.id, p)},
               export' = [export EXCEPT !.steady = @ /\ ~Changed(r, p)], UNCHANGED query
        PROVE  StoreWhole'
    <3>1. Changed(r, p) \/ datas \subseteq datas'
      BY <2>2 DEF Changed
    <3>2. Undisturbed
      BY <2>2, <3>1, OverWhole
    <3> QED BY <1>i, <2>2, <3>2, QueryAlone, UndisturbedWhole DEF StoreWhole
  <2>3. CASE Ends /\ UNCHANGED datas
    BY <1>i, <2>3, EndedWhole
  <2>4. \/ datas' = datas \cup {RowOf(nextId, p)} /\ UNCHANGED <<query, export>>
        \/ \E r \in datas : /\ datas' = (datas \ {r}) \cup {RowOf(r.id, p)}
                            /\ export' = [export EXCEPT !.steady = @ /\ ~Changed(r, p)] /\ UNCHANGED query
        \/ Ends /\ UNCHANGED datas
    BY <1>3 DEF Insert, Clash
  <2> QED BY <2>1, <2>2, <2>3, <2>4
<1>4. ASSUME NEW r \in Ranges, CreateExport(r) PROVE StoreWhole'
  <2>1. UNCHANGED query /\ export'.status = "queued"
    BY <1>4 DEF CreateExport
  <2> QED BY <1>i, <2>1, QueryAlone DEF StoreWhole, ExportWhole
<1>5. ASSUME NEW r \in Ranges, NEW l \in Limits, NEW b \in {0, 1}, CountHistory(r, l, b) PROVE StoreWhole'
  <2>1. UNCHANGED export /\ datas' = datas
    BY <1>5 DEF CountHistory, tables
  <2>2. Cardinality(Within(datas, r)) \in Nat
    BY <1>i, FS_Subset, FS_CardinalityType DEF TableTyped, RowSet, Within
  <2>3. query'.step = "counted" /\ query'.total \in Nat
    BY <1>5, <2>2 DEF CountHistory
  <2>4. QueryWhole'
    BY <2>3 DEF QueryWhole
  <2> QED BY <1>i, <2>1, <2>4, ExportUndisturbed, UndisturbedWhole DEF StoreWhole
<1>6. CASE ReadHistory
  <2>1. UNCHANGED export /\ datas' = datas
    BY <1>6 DEF ReadHistory, tables
  <2> QED BY <1>i, <1>6, <2>1, ReadWhole, ExportUndisturbed, UndisturbedWhole DEF StoreWhole
<1>7. CASE Answer
  <2>1. UNCHANGED export /\ datas' = datas /\ query'.step = "none"
    BY <1>7 DEF Answer, tables
  <2>2. QueryWhole'
    BY <2>1 DEF QueryWhole
  <2> QED BY <1>i, <2>1, <2>2, ExportUndisturbed, UndisturbedWhole DEF StoreWhole
<1>8. CASE StartExport
  <2>1. UNCHANGED query
    BY <1>8 DEF StartExport
  <2> QED BY <1>i, <1>8, <2>1, StartedWhole, QueryAlone DEF StoreWhole
<1>9. CASE ExportBatch
  <2>1. UNCHANGED query
    BY <1>9 DEF ExportBatch
  <2> QED BY <1>i, <1>9, <2>1, OneBatchOn, QueryAlone DEF StoreWhole
<1>10. CASE FinishExport
  <2>1. UNCHANGED query
    BY <1>10 DEF FinishExport
  <2> QED BY <1>i, <1>10, <2>1, FinishedWhole, QueryAlone DEF StoreWhole
<1>11. CASE ExpireExport
  <2>1. UNCHANGED query /\ export'.status = "none"
    BY <1>11 DEF ExpireExport, NoExport
  <2> QED BY <1>i, <2>1, QueryAlone DEF StoreWhole, ExportWhole
<1>12. CASE DeleteRange \/ ClearTelemetryDataBatch
  <2>1. UNCHANGED query /\ \E S : Removed(S)
    BY <1>12 DEF DeleteRange, ClearTelemetryDataBatch
  <2> QED BY <1>i, <2>1, RemovedWhole, QueryAlone, UndisturbedWhole DEF StoreWhole
<1>13. CASE ImportHistoryBatch
  <2> DEFINE t == Written(Unique(archive.points))
  <2>1. t \in Writings /\ WrittenWell(t)
    BY <1>i, UniquePoints, WrittenGood DEF GoodWritings, StoreInv, StoreTyped, ArchiveTyped
  <2>2. CASE t.refused
    <3>1. UNCHANGED <<query, export, datas>>
      BY <1>13, <2>2 DEF ImportHistoryBatch
    <3> QED BY <1>i, <3>1, QueryAlone, ExportUndisturbed, UndisturbedWhole DEF StoreWhole
  <2>3. CASE ~t.refused
    <3>1. datas' = t.rows /\ export' = [export EXCEPT !.steady = @ /\ ~t.changed] /\ UNCHANGED query
      BY <1>13, <2>3 DEF ImportHistoryBatch
    <3>2. t.changed \/ datas \subseteq datas'
      BY <2>1, <3>1 DEF WrittenWell
    <3> HIDE DEF t
    <3>3. Undisturbed
      BY <3>1, <3>2, OverWhole
    <3> QED BY <1>i, <3>1, <3>3, QueryAlone, UndisturbedWhole DEF StoreWhole
  <2> QED BY <2>2, <2>3
<1> QED BY <1>1, <1>2, <1>3, <1>4, <1>5, <1>6, <1>7, <1>8, <1>9, <1>10, <1>11, <1>12, <1>13 DEF StoreNext

LEMMA WholeFollows == ASSUME StoreWhole, StoreInv PROVE CompleteIsWhole
<1>1. ASSUME query.step = "answered", query.complete
      PROVE  query.items = query.matching \/ Cardinality(query.matching) > query.total
  <2>1. /\ query.total \in Nat /\ IsFiniteSet(query.matching) /\ query.items \subseteq query.matching
        /\ query.total <= Cardinality(query.items)
    BY <1>1 DEF StoreWhole, QueryWhole
  <2>2. /\ Cardinality(query.items) \in Nat /\ Cardinality(query.matching) \in Nat
        /\ Cardinality(query.items) <= Cardinality(query.matching)
        /\ Cardinality(query.items) = Cardinality(query.matching) => query.items = query.matching
    BY <2>1, FS_Subset, FS_CardinalityType
  <2> QED BY <2>1, <2>2
<1>2. ASSUME export.status = "completed", export.steady
      PROVE  export.kept /\ export.file = InOrder(export.counted)
  BY <1>2 DEF StoreWhole, ExportWhole, ExportDone
<1> QED BY <1>1, <1>2 DEF CompleteIsWhole

\* What calls itself complete is: an export, whatever came in while its
\* batches were read, has the rows that were counted, each once and in order.
THEOREM CompleteAlwaysWhole == StoreSpec => []CompleteIsWhole
<1> DEFINE Inv == StoreInv /\ StoreWhole
<1>1. StoreInit => Inv
  BY StoreInvInit, StoreWholeInit, StoreAssumption
<1>2. Inv /\ [StoreNext]_storeVars => Inv'
  BY StoreInvNext, StoreWholeNext, StoreAssumption
<1>3. Inv => CompleteIsWhole
  BY WholeFollows
<1> QED BY <1>1, <1>2, <1>3, PTL DEF StoreSpec
=============================================================================
