-------------------------- MODULE ThresholdAnalysis --------------------------
(* The analysis that suggests alarm thresholds from the stored telemetry: the  *)
(* service that runs a job over the chosen devices one after another, in       *)
(* memory only (device-threshold-analysis.service.ts), and the page that       *)
(* starts a job, polls it, finds it again after a reload and applies its       *)
(* suggestions (ThresholdAnalysisPage.tsx).  One metric of the four is kept;   *)
(* samples are integers, in steps of the metric's bin width / BinSteps.        *)
EXTENDS Integers, FiniteSets, Sequences, FiniteSetsExt

CONSTANTS Machines,      \* the devices
          Archive,       \* the rows stored of each device: what a row says directly, and on its axes
          SampleRuns,    \* the sequences of samples the suggestion is checked on
          BinSteps,      \* steps of one bin
          BatchSize,     \* rows read at a time (5000 in the code)
          JobLimit,      \* TERMINAL_JOB_LIMIT, ended jobs kept (12 in the code)
          AnalysisBudget,\* bound: clicks, restarts and removals
          Nobody

VARIABLES present,       \* the devices the registry knows
          analyses,      \* the jobs the server remembers, and how many it ever began
          storedJob,     \* what localStorage keeps: the id of the last job started here
          apage, aasks
avars == <<present, analyses, storedJob, apage, aasks>>

-----------------------------------------------------------------------------
(* analyzeThresholdSamples. *)

\* What a sorted s has at its k-th place.
Ranked(s, k) ==
  CHOOSE x \in {s[i] : i \in DOMAIN s} : /\ Cardinality({i \in DOMAIN s : s[i] < x}) < k
                                        /\ k <= Cardinality({i \in DOMAIN s : s[i] <= x})
Window(s, i) == SubSeq(s, Max({1, i - 2}), i)
Filtered(s) == [i \in DOMAIN s |-> Ranked(Window(s, i), Len(Window(s, i)) \div 2 + 1)]
BinOf(x) == x \div BinSteps
PopularBin(f) ==
  LET count(b) == Cardinality({i \in DOMAIN f : BinOf(f[i]) = b})
      bins == {BinOf(f[i]) : i \in DOMAIN f}
  IN  Min({b \in bins : \A c \in bins : count(c) =< count(b)})
Percentile(f, p) == Ranked(f, Max({1, (Len(f) * p + 99) \div 100}))
\* The middle of the bin and a tenth of it, rounded up to whole bins, at least one.
SuggestedBin(b) == Max({1, ((2 * b + 1) * 11 + 19) \div 20})
Magnitude(x) == IF x < 0 THEN -x ELSE x
\* A row that names the metric is taken at its word, else its largest axis counts; a row may say nothing.
ExtractThresholdMetrics(row) ==
  IF row.direct # Nobody THEN <<Magnitude(row.direct)>> ELSE IF row.axes = {} THEN <<>> ELSE <<Max({Magnitude(x) : x \in row.axes})>>
CollectBatch(rows) == MapThenFoldSet(\o, <<>>, LAMBDA i : ExtractThresholdMetrics(rows[i]), Min, DOMAIN rows)
AnalyzeThresholdSamples(s) ==
  IF s = <<>> THEN [status |-> "no_data"]
  ELSE [status |-> "ok", popular |-> PopularBin(Filtered(s)), p99 |-> Percentile(Filtered(s), 99),
        from |-> BinOf(Percentile(Filtered(s), 1)), suggested |-> SuggestedBin(PopularBin(Filtered(s)))]

-----------------------------------------------------------------------------
(* The service. *)

Active(j) == j.status \in {"queued", "running"}
Ids == DOMAIN analyses.jobs
EndedJobs == {id \in Ids : ~Active(analyses.jobs[id])}
Pruned == {id \in EndedJobs : Cardinality({e \in EndedJobs : e >= id}) >= JobLimit}
SelectAnalysisDevices(wanted) == present \cap wanted
NewJob(chosen) == [status |-> "queued", devices |-> [d \in chosen |-> "queued"], read |-> <<>>, results |-> <<>>]
\* run() begins at once: the answer to the start already says "running".
Begun(chosen) == [NewJob(chosen) EXCEPT !.status = "running"]
Patch(id, j) == analyses' = [analyses EXCEPT !.jobs[id] = j]
NextDevice(j) == CHOOSE d \in DOMAIN j.devices : j.devices[d] \in {"queued", "running"}
Unfinished(j) == \E d \in DOMAIN j.devices : j.devices[d] \in {"queued", "running"}
ReadBatch(id) ==
  LET j == analyses.jobs[id]  d == NextDevice(j)  n == Min({Len(Archive[d]), Len(j.read) + BatchSize})
  IN  /\ j.status = "running" /\ Unfinished(j) /\ Len(j.read) < Len(Archive[d])
      /\ Patch(id, [j EXCEPT !.devices[d] = "running", !.read = SubSeq(Archive[d], 1, n)])
      /\ UNCHANGED <<present, storedJob, apage, aasks>>
ErrorRow(j, d) == [j EXCEPT !.devices[d] = "failed", !.read = <<>>, !.results = Append(@, [device |-> d, row |-> [status |-> "error"]])]
FinishDevice(id) ==
  LET j == analyses.jobs[id]  d == NextDevice(j) IN
    /\ j.status = "running" /\ Unfinished(j)
    /\ \/ /\ Len(j.read) = Len(Archive[d])
          /\ Patch(id, [j EXCEPT !.devices[d] = "completed", !.read = <<>>,
                          !.results = Append(@, [device |-> d, row |-> AnalyzeThresholdSamples(CollectBatch(j.read))])])
       \/ Patch(id, ErrorRow(j, d))
    /\ UNCHANGED <<present, storedJob, apage, aasks>>
Complete(id) ==
  /\ analyses.jobs[id].status = "running" /\ ~Unfinished(analyses.jobs[id])
  /\ Patch(id, [analyses.jobs[id] EXCEPT !.status = "completed"])
  /\ UNCHANGED <<present, storedJob, apage, aasks>>

Snapshot(id) == [id |-> id, status |-> analyses.jobs[id].status, results |-> analyses.jobs[id].results]
Reply(a, r) == aasks' = (aasks \ {a}) \cup {[a EXCEPT !.reply = r]}
Refused == [is |-> "refused"]
StartServed(a) ==
  LET chosen == SelectAnalysisDevices(a.devices)  id == analyses.next
  IN  IF chosen = {} THEN Reply(a, Refused) /\ UNCHANGED analyses
      ELSE /\ analyses' = [next |-> id + 1,
                           jobs |-> [i \in (Ids \ Pruned) \cup {id} |-> IF i = id THEN Begun(chosen) ELSE analyses.jobs[i]]]
           /\ Reply(a, [is |-> "done", job |-> [id |-> id, status |-> "running", results |-> <<>>]])
GetServed(a) ==
  Reply(a, IF a.id \in Ids THEN [is |-> "done", job |-> Snapshot(a.id)] ELSE Refused) /\ UNCHANGED analyses
ApplyServed(a) == Reply(a, IF a.devices \subseteq present THEN [is |-> "done"] ELSE Refused) /\ UNCHANGED analyses
AnalysisServe(a) ==
  /\ a.reply.is = "pending"
  /\ \/ a.kind = "start" /\ StartServed(a)
     \/ a.kind \in {"restore", "poll"} /\ GetServed(a)
     \/ a.kind = "apply" /\ ApplyServed(a)
  /\ UNCHANGED <<present, storedJob, apage>>
Spend == apage.left > 0
\* A request, or the answer to one that was carried out, is lost.
AnalysisLost(a) ==
  /\ a.reply.is # "refused" /\ Reply(a, Refused)
  /\ Spend /\ apage' = [apage EXCEPT !.left = @ - 1]
  /\ UNCHANGED <<present, analyses, storedJob>>
\* The jobs are kept in memory only: a new server run knows none of them.
ServerRestarts ==
  /\ Spend /\ Ids # {}
  /\ analyses' = [analyses EXCEPT !.jobs = <<>>]
  /\ apage' = [apage EXCEPT !.left = @ - 1]
  /\ UNCHANGED <<present, storedJob, aasks>>

-----------------------------------------------------------------------------
(* The page. *)

NoPage == [mount |-> 0, filter |-> Nobody, job |-> Nobody, effect |-> 0, due |-> FALSE, starting |-> FALSE,
           target |-> Nobody, saving |-> FALSE, left |-> AnalysisBudget]
Viewing == apage.mount % 2 = 1
Query(kind, id, ds) == [kind |-> kind, mount |-> apage.mount, effect |-> apage.effect, id |-> id, devices |-> ds, reply |-> [is |-> "pending"]]
Put(a) == aasks' = aasks \cup {a}
\* Every job shown with another id or status starts the polling anew and cancels what it was waiting for.
Key(job) == IF job = Nobody THEN Nobody ELSE [id |-> job.id, status |-> job.status]
SetJob(v, job) ==
  IF Key(job) = Key(v.job) THEN [v EXCEPT !.job = job]
  ELSE [v EXCEPT !.job = job, !.effect = @ + 1, !.due = Active(job)]

\* The answer of a poll that was cancelled is thrown away: here the poll itself.
Cancelled(a, v) == a.kind = "poll" /\ a.effect # v.effect

MountAnalysisPage ==
  /\ ~Viewing /\ (apage.mount = 0 \/ Spend)
  /\ apage' = [NoPage EXCEPT !.mount = apage.mount + 1, !.left = IF apage.mount = 0 THEN AnalysisBudget ELSE apage.left - 1]
  /\ IF storedJob = Nobody THEN UNCHANGED aasks
     ELSE Put([kind |-> "restore", mount |-> apage.mount + 1, effect |-> 0, id |-> storedJob, devices |-> {}, reply |-> [is |-> "pending"]])
  /\ UNCHANGED <<present, analyses, storedJob>>
LeaveAnalysisPage ==
  /\ Viewing
  /\ apage' = [NoPage EXCEPT !.mount = apage.mount + 1, !.left = apage.left]
  /\ aasks' = {a \in aasks : a.kind # "poll"}
  /\ UNCHANGED <<present, analyses, storedJob>>
TargetSensors == IF apage.filter = Nobody THEN present ELSE present \cap {apage.filter}
ChooseDevice(d) ==
  /\ Viewing /\ Spend /\ d # apage.filter /\ (apage.job # Nobody => ~Active(apage.job))
  /\ apage' = [apage EXCEPT !.filter = d, !.left = @ - 1]
  /\ UNCHANGED <<present, analyses, storedJob, aasks>>
\* A device that leaves the list takes the filter that named it with it.
DeviceRemoved(d) ==
  /\ Spend /\ d \in present
  /\ present' = present \ {d}
  /\ apage' = [apage EXCEPT !.filter = IF @ = d THEN Nobody ELSE @, !.left = @ - 1]
  /\ UNCHANGED <<analyses, storedJob, aasks>>
StartAnalysis ==
  /\ Viewing /\ Spend /\ ~apage.starting /\ (apage.job # Nobody => ~Active(apage.job)) /\ TargetSensors # {}
  /\ apage' = [apage EXCEPT !.starting = TRUE, !.left = @ - 1]
  /\ Put(Query("start", 0, TargetSensors))
  /\ UNCHANGED <<present, analyses, storedJob>>
Poll ==
  /\ Viewing /\ apage.due
  /\ apage' = [apage EXCEPT !.due = FALSE]
  /\ Put(Query("poll", apage.job.id, {}))
  /\ UNCHANGED <<present, analyses, storedJob>>
Suggestions == IF apage.job = Nobody THEN {} ELSE {r \in Range(apage.job.results) : r.row.status = "ok" /\ r.row.suggested > 0}
OpenApply(r) ==
  /\ Viewing /\ Spend /\ apage.target = Nobody
  /\ apage' = [apage EXCEPT !.target = r.device, !.left = @ - 1]
  /\ UNCHANGED <<present, analyses, storedJob, aasks>>
CloseApply ==
  /\ Viewing /\ apage.target # Nobody /\ ~apage.saving
  /\ apage' = [apage EXCEPT !.target = Nobody]
  /\ UNCHANGED <<present, analyses, storedJob, aasks>>
ApplySuggestedThresholds ==
  /\ Viewing /\ apage.target \in present /\ ~apage.saving /\ Spend
  /\ apage' = [apage EXCEPT !.saving = TRUE, !.left = @ - 1]
  /\ Put(Query("apply", 0, {apage.target}))
  /\ UNCHANGED <<present, analyses, storedJob>>

Done(a) == a.reply.is = "done"
\* A row of a kind the page does not know is dropped; the job is shown without it.
ParseRow(r) == r.row.status \in {"ok", "no_data", "error"}
ParseThresholdAnalysisJob(job) == [job EXCEPT !.results = SelectSeq(@, ParseRow)]
RestoreAnswered(a) ==
  IF Done(a) THEN apage' = SetJob(apage, ParseThresholdAnalysisJob(a.reply.job)) /\ UNCHANGED storedJob ELSE storedJob' = Nobody /\ UNCHANGED apage
Polled(a) == IF Done(a) THEN LET v == SetJob(apage, ParseThresholdAnalysisJob(a.reply.job)) IN [v EXCEPT !.due = Active(a.reply.job)]
             ELSE [apage EXCEPT !.due = TRUE]
PollAnswered(a) == apage' = Polled(a) /\ UNCHANGED storedJob
StartAnswered(a) ==
  /\ apage' = [(IF Done(a) THEN SetJob(apage, ParseThresholdAnalysisJob(a.reply.job)) ELSE apage) EXCEPT !.starting = FALSE]
  /\ storedJob' = IF Done(a) THEN a.reply.job.id ELSE storedJob
ApplyAnswered(a) ==
  /\ apage' = IF Done(a) THEN [apage EXCEPT !.saving = FALSE, !.target = Nobody,
                                  !.job.results = SelectSeq(@, LAMBDA r : r.device \notin a.devices)]
              ELSE [apage EXCEPT !.saving = FALSE]
  /\ UNCHANGED storedJob
AnalysisAnswered(a) ==
  /\ a.reply.is # "pending" /\ UNCHANGED <<present, analyses>>
  /\ \/ a.mount # apage.mount /\ a.kind = "apply" /\ UNCHANGED <<apage, storedJob>>
     \/ a.mount # apage.mount /\ a.kind = "restore" /\ UNCHANGED apage /\ storedJob' = IF Done(a) THEN storedJob ELSE Nobody
     \/ a.mount # apage.mount /\ a.kind = "start" /\ UNCHANGED apage /\ storedJob' = IF Done(a) THEN a.reply.job.id ELSE storedJob
     \/ a.mount = apage.mount /\ a.kind = "restore" /\ RestoreAnswered(a)
     \/ a.mount = apage.mount /\ a.kind = "poll" /\ PollAnswered(a)
     \/ a.mount = apage.mount /\ a.kind = "start" /\ StartAnswered(a)
     \/ a.mount = apage.mount /\ a.kind = "apply" /\ ApplyAnswered(a)
  /\ aasks' = {b \in aasks \ {a} : ~Cancelled(b, apage')}

-----------------------------------------------------------------------------
AnalysisInit ==
  /\ present = Machines
  /\ analyses = [next |-> 1, jobs |-> <<>>] /\ storedJob = Nobody
  /\ apage = NoPage /\ aasks = {}
AnalysisNext ==
  \/ MountAnalysisPage \/ LeaveAnalysisPage \/ StartAnalysis \/ Poll \/ CloseApply \/ ApplySuggestedThresholds \/ ServerRestarts
  \/ \E d \in present \cup {Nobody} : ChooseDevice(d)
  \/ \E d \in Machines : DeviceRemoved(d)
  \/ \E r \in Suggestions : OpenApply(r)
  \/ \E id \in Ids : ReadBatch(id) \/ FinishDevice(id) \/ Complete(id)
  \/ \E a \in aasks : AnalysisServe(a) \/ AnalysisLost(a) \/ AnalysisAnswered(a)
AnalysisFairness ==
  /\ WF_avars(Poll)
  /\ WF_avars(\E a \in aasks : AnalysisServe(a)) /\ WF_avars(\E a \in aasks : AnalysisAnswered(a))
AnalysisSpec == AnalysisInit /\ [][AnalysisNext]_avars /\ AnalysisFairness

-----------------------------------------------------------------------------
(* No suggestion, whatever the samples, lies below the band the machine is     *)
(* usually in, where its alarm would never be silent.                          *)
AboveUsual == \A s \in SampleRuns \ {<<>>} : LET row == AnalyzeThresholdSamples(s) IN row.suggested >= row.popular + 1

(* A completed job says something of every device it was asked for, once:      *)
(* also of one whose rows could not be read and of one removed meanwhile.      *)
CompletedTellsAll ==
  \A id \in Ids :
    LET j == analyses.jobs[id] IN
      j.status = "completed" =>
        /\ {r.device : r \in Range(j.results)} = DOMAIN j.devices
        /\ \A i, k \in DOMAIN j.results : j.results[i].device = j.results[k].device => i = k

(* Once a job has ended, a page that shows it running comes to show its end,   *)
(* whatever polls fail on the way, unless it is left, shows another job, or    *)
(* the server that ran the job is gone (then it polls for ever, and lets       *)
(* nobody start another).                                                      *)
ShowsEndedAsRunning == Viewing /\ apage.job # Nobody /\ Active(apage.job) /\ apage.job.id \in EndedJobs
=============================================================================
