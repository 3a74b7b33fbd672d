---------------------------- MODULE TelemetryStore ----------------------------
(***************************************************************************)
(* The telemetry of one device: MySqlTelemetryRepository, which stores the *)
(* points a device sends, keeps two tables of hourly summaries beside them *)
(* and answers histories from either, the export of a range of points to   *)
(* an archive (SgpDataExportWorker), the import of such an archive         *)
(* (importHistoryBatch and what the import worker does around it) and the  *)
(* job that clears a device's data (DELETE /api/devices/:deviceId/data).   *)
(*                                                                         *)
(* Every statement is a step, for each is awaited: a point is inserted,    *)
(* then counted in its hour, then in the metrics of its hour, and any      *)
(* other statement may run between.  A transaction is one step.  Time is   *)
(* counted in ticks, an hour is HourLen of them; of the metrics of a point *)
(* the model keeps one, with a value or NoVal.                             *)
(***************************************************************************)
EXTENDS Integers, Sequences, FiniteSets, FiniteSetsExt, SequencesExt

CONSTANTS
  HourLen, DayLen,  \* ticks of an hour and of a day
  Vals, NoVal,      \* values of the metric, and none
  Keys, NoId,       \* pairs of message id and telemetry uuid a point may have, NoId for none
  Ranges,           \* ranges <<from, to>> of exports and histories
  Limits,           \* limits of a history
  Batch,            \* rows of an export's batch and of a clearing DELETE
  Stored,           \* sets of rows an earlier server run may have left
  Archives,         \* archives downloaded from it
  StartTime,        \* of this one
  \* Bounds of the model.
  MaxTime, MaxPoints, MaxCrashes,
  MaxTasks          \* exports, imports, histories and clearing jobs, together

\* A point of an archive that has no id gets one made of its time.
Ids    == {NoId} \cup Int \cup UNION {{key[1], key[2]} : key \in Keys}
Values == Int \cup {NoVal}
Rows   == [id : Nat, at : Int, mid : Ids, uuid : Ids, val : Values]
ArchivePoints == [at : Int, mid : Ids, uuid : Ids, val : Values]

ASSUME StoreAssumption ==
  /\ HourLen \in Nat \ {0} /\ DayLen \in Nat \ {0} /\ DayLen % HourLen = 0
  /\ Vals \subseteq Int /\ NoVal \notin Int \cup (Int \X Int)
  /\ Ranges \subseteq Int \X Int /\ StartTime \in Int
  /\ \A S \in Stored : /\ S \subseteq Rows /\ IsFiniteSet(S)
                       /\ \A r \in S : r.id <= Cardinality(S)
                       /\ \A r, o \in S : r.id = o.id => r = o
  /\ \A a \in Archives : a.points \in Seq(ArchivePoints)
  /\ Batch \in Nat \ {0} /\ Limits \subseteq Nat \ {0}

VARIABLES
  now,
  datas,      \* device_datas: records [id, at, mid, uuid, val]
  nextId,
  hours,     \* device_telemetry_hour_summaries, by hour
  metrics,   \* device_telemetry_hour_metric_summaries, by hour
  pending,   \* points whose persist() has not ended; row, a history variable: the id of the row made
  query,     \* a history between its two statements, and its result
  export,    \* the export job with its file
  archive,   \* the archive someone has downloaded
  import,    \* where the import of the archive stands
  clear,     \* the job that clears the device's data
  sent, crashes, tasks,
  \* History variables, read by the properties only.
  off        \* hours whose summaries the code is known to leave wrong

tables == <<datas, nextId, hours, metrics>>
bounds == <<crashes, tasks>>
storeVars == <<now, tables, pending, query, export, archive, import, clear, sent, bounds, off>>

Hour(t) == t \div HourLen
HoursOf(S) == {Hour(p.at) : p \in S}
Within(S, r) == {p \in S : r[1] <= p.at /\ p.at <= r[2]}

(***************************************************************************)
(* The summaries of a set of rows, as the rebuild's GROUP BY computes      *)
(* them.  A mean is a fraction in lowest terms.                            *)
(***************************************************************************)
Reduced(f) ==
  LET d == Max({k \in 1..f[2] : f[1] % k = 0 /\ f[2] % k = 0})
  IN <<f[1] \div d, f[2] \div d>>

SummaryOf(S) ==
  [n |-> Cardinality(S), first |-> Min({r.at : r \in S}), last |-> Max({r.at : r \in S})]

MetricOf(S) ==
  LET V == {r \in S : r.val # NoVal} IN
  [n |-> Cardinality(S), count |-> Cardinality(V),
   mean |-> IF V = {} THEN NoVal ELSE Reduced(<<MapThenSumSet(LAMBDA r : r.val, V), Cardinality(V)>>)]

InHour(h) == {r \in datas : Hour(r.at) = h}
\* Hours of points that are in the table and not yet in both summaries.
Uncounted == HoursOf({p \in pending : p.step # "insert"})

(***************************************************************************)
(* Points a device sends: TelemetryService.ingest stamps the point and     *)
(* setLast starts persist(), which nobody awaits.                          *)
(***************************************************************************)
\* normalizePayload: what a payload says of its value once it is checked.
Readings == {[val |-> v, available |-> a] : v \in Vals \cup {NoVal}, a \in {TRUE, FALSE, NoVal}}
NormalizePayload(p) ==
  CASE p.available = FALSE -> [p EXCEPT !.val = NoVal]
    [] p.available = NoVal /\ p.val # NoVal -> [p EXCEPT !.available = TRUE]
    [] OTHER -> p
\* The columns a payload fills: a value that is said to be unavailable is none.
MetricValue(p) == IF p.available = FALSE THEN NoVal ELSE p.val

IngestPoint(key, reading) ==
  /\ sent < MaxPoints
  /\ sent' = sent + 1
  /\ pending' = pending \cup {[no |-> sent, at |-> now, mid |-> key[1], uuid |-> key[2],
                               val |-> MetricValue(NormalizePayload(reading)), step |-> "insert", row |-> 0]}
  /\ UNCHANGED <<now, tables, query, export, archive, import, clear, bounds, off>>

\* Rows a new one collides with: message ids and uuids are unique in a device.
Clash(T, p) == {r \in T : (p.mid # NoId /\ r.mid = p.mid) \/ (p.uuid # NoId /\ r.uuid = p.uuid)}
RowOf(i, p) == [id |-> i, at |-> p.at, mid |-> p.mid, uuid |-> p.uuid, val |-> p.val]
Moved(r, p) == r.at # p.at \/ r.val # p.val
Changed(r, p) == r # RowOf(r.id, p)

\* The job of a server run that has ended is over; what was under way is lost.
Ends ==
  /\ pending' = {} /\ query' = [step |-> "none"]
  /\ export' = IF export.status \in {"queued", "running"}
               THEN [export EXCEPT !.status = "failed", !.kept = FALSE] ELSE export
  /\ import' = [step |-> "none"] /\ clear' = [step |-> "none"]
  /\ off' = off \cup Uncounted

Insert(p) ==
  /\ p.step = "insert"
  /\ LET clash == Clash(datas, p) IN
     \/ /\ clash = {}
        /\ datas' = datas \cup {RowOf(nextId, p)} /\ nextId' = nextId + 1
        /\ pending' = (pending \ {p}) \cup {[p EXCEPT !.step = "hour", !.row = nextId]}
        /\ UNCHANGED <<query, export, import, clear, off>>
     \* A point that was stored already is written over, and not counted again,
     \* but when it changes nothing: the driver asks for FOUND_ROWS, and 1 is reported.
     \/ \E r \in clash :
        /\ Cardinality(clash) = 1
        /\ datas' = (datas \ {r}) \cup {RowOf(r.id, p)}
        /\ pending' = (pending \ {p}) \cup
                      (IF Changed(r, p) THEN {} ELSE {[p EXCEPT !.step = "hour", !.row = r.id]})
        /\ off' = IF Moved(r, p) \/ ~Changed(r, p) THEN off \cup HoursOf({r, p}) ELSE off
        /\ export' = [export EXCEPT !.steady = @ /\ ~Changed(r, p)]
        /\ UNCHANGED <<nextId, query, import, clear>>
     \* One that has the message id of one row and the uuid of another is
     \* refused, and the rejection, caught by nobody, ends the server run.
     \/ Cardinality(clash) > 1 /\ Ends /\ UNCHANGED <<datas, nextId>>
  /\ UNCHANGED <<now, hours, metrics, archive, sent, bounds>>

CountHour(p) ==
  /\ p.step = "hour"
  /\ LET h == Hour(p.at) IN
     hours' = [k \in DOMAIN hours \cup {h} |->
       IF k # h THEN hours[k]
       ELSE IF h \notin DOMAIN hours THEN [n |-> 1, first |-> p.at, last |-> p.at]
       ELSE [n |-> hours[h].n + 1, first |-> Min({hours[h].first, p.at}), last |-> Max({hours[h].last, p.at})]]
  /\ pending' = (pending \ {p}) \cup {[p EXCEPT !.step = "metric"]}
  /\ UNCHANGED <<now, datas, nextId, metrics, query, export, archive, import, clear, sent, bounds, off>>

\* Mutant: the counts are assigned first, and the mean reads the new one.
MeanAfterCount(m, v) ==
  IF v = NoVal THEN m.mean ELSE IF m.mean = NoVal THEN <<v, 1>>
  ELSE Reduced(<<m.mean[1] * (m.count + 1) + v * m.mean[2], m.mean[2] * (m.count + 2)>>)

\* The assignments of an upsert run in their order: the mean, then the counts.
MeanWith(m, v) ==
  IF v = NoVal THEN m.mean ELSE IF m.mean = NoVal THEN <<v, 1>>
  ELSE Reduced(<<m.mean[1] * m.count + v * m.mean[2], m.mean[2] * (m.count + 1)>>)

CountMetric(p) ==
  /\ p.step = "metric"
  /\ LET h == Hour(p.at)
         c == IF p.val = NoVal THEN 0 ELSE 1 IN
     metrics' = [k \in DOMAIN metrics \cup {h} |->
       IF k # h THEN metrics[k]
       ELSE IF h \notin DOMAIN metrics
            THEN [n |-> 1, count |-> c, mean |-> IF c = 0 THEN NoVal ELSE <<p.val, 1>>]
       ELSE [n |-> metrics[h].n + 1, count |-> metrics[h].count + c, mean |-> MeanWith(metrics[h], p.val)]]
  /\ pending' = pending \ {p}
  /\ UNCHANGED <<now, datas, nextId, hours, query, export, archive, import, clear, sent, bounds, off>>

Tick ==
  /\ now < MaxTime
  /\ now' = now + 1
  /\ UNCHANGED <<tables, pending, query, export, archive, import, clear, sent, bounds, off>>

(***************************************************************************)
(* Histories.  Where the buckets are shorter than an hour, the rows are    *)
(* counted by one statement and read by another; where they are hours or   *)
(* longer, one statement reads the summaries.                              *)
(***************************************************************************)
Newest(S, n) == Range(SubSeq(SetToSortSeq(S, LAMBDA a, b : a > b), 1, Min({n, Cardinality(S)})))

CountHistory(r, limit, bucket) ==
  /\ tasks < MaxTasks /\ query.step = "none"
  /\ tasks' = tasks + 1
  /\ query' = [step |-> "counted", range |-> r, limit |-> limit, bucket |-> bucket,
               total |-> Cardinality(Within(datas, r))]
  /\ UNCHANGED <<now, tables, pending, export, archive, import, clear, sent, crashes, off>>

\* The newest rows, as many as the limit allows.
RawItems(S, limit) ==
  IF Cardinality(S) <= limit THEN {S}
  ELSE {T \in SUBSET S : /\ Cardinality(T) = limit
                         /\ \A r \in T, o \in S \ T : r.at >= o.at}

\* The newest buckets, as many as the limit allows.
BucketItems(S, limit, bucket) ==
  LET B == {r.at \div bucket : r \in S}
  IN {r \in S : r.at \div bucket \in Newest(B, limit)}

\* Mutant: a page is told to be cut when it is longer than the limit.
TruncatedByPage(total, items, limit) == Cardinality(items) > limit

Truncated(total, items, limit) == total > Cardinality(items)

ReadHistory ==
  /\ query.step = "counted"
  /\ LET S == Within(datas, query.range) IN
     \E items \in IF query.bucket = 0 THEN RawItems(S, query.limit) ELSE {BucketItems(S, query.limit, query.bucket)} :
       query' = [step |-> "answered", matching |-> S, items |-> items, total |-> query.total,
                 complete |-> ~Truncated(query.total, items, query.limit)]
  /\ UNCHANGED <<now, tables, pending, export, archive, import, clear, sent, bounds, off>>

\* The answer is sent and forgotten.
Answer ==
  /\ query.step = "answered"
  /\ query' = [step |-> "none"]
  /\ UNCHANGED <<now, tables, pending, export, archive, import, clear, sent, bounds, off>>

\* The totals and the mean of the summarised hours a range touches, by bucket.
HoursBetween(T, from, to) ==
  {h \in DOMAIN T : (from = NoVal \/ h >= Hour(from)) /\ (to = NoVal \/ h <= Hour(to))}

HourlyHistory(T, from, to, width, limit) ==
  LET H == HoursBetween(T, from, to)
      all == {h \div width : h \in H}
      told == Newest(all, limit)
      In(b) == {h \in H : h \div width = b}
      Count(b) == MapThenSumSet(LAMBDA h : T[h].count, In(b))
      Weighted(b) ==
        LET V == {h \in In(b) : T[h].count > 0}
            D == FoldSet(LAMBDA h, d : d * T[h].mean[2], 1, V)
        IN <<MapThenSumSet(LAMBDA h : T[h].mean[1] * T[h].count * (D \div T[h].mean[2]), V), D * Count(b)>>
  IN [items |-> {[bucket |-> b, n |-> MapThenSumSet(LAMBDA h : T[h].n, In(b)),
                  mean |-> IF Count(b) = 0 THEN NoVal ELSE Reduced(Weighted(b))] : b \in told},
      complete |-> Cardinality(told) < limit]

(***************************************************************************)
(* The days a device has telemetry of, from the hours or from the rows:    *)
(* sets of [day, n, first, last], of the newest days.  A day is shifted by *)
(* the time zone of the one who asks.                                      *)
(***************************************************************************)
Day(t, shift) == (t + shift) \div DayLen

\* Mutant: the end of a range is taken for one that is left out.
IsHourlyUpTo(from, to, shift) ==
  /\ shift % HourLen = 0
  /\ from # NoVal => (from + shift) % HourLen = 0
  /\ to # NoVal => (to + shift) % HourLen = 0

IsHourlyAvailabilityRange(from, to, shift) ==
  /\ shift % HourLen = 0
  /\ from # NoVal => (from + shift) % HourLen = 0
  /\ to # NoVal => (to + shift + 1) % HourLen = 0

RawDays(from, to, shift, limit) ==
  LET S == {r \in datas : (from = NoVal \/ r.at >= from) /\ (to = NoVal \/ r.at <= to)}
  IN {[day |-> d] @@ SummaryOf({r \in S : Day(r.at, shift) = d})
        : d \in Newest({Day(r.at, shift) : r \in S}, limit)}

HourlyDays(from, to, shift, limit) ==
  LET H == HoursBetween(hours, from, to)
      In(d) == {h \in H : Day(h * HourLen, shift) = d}
  IN {[day |-> d, n |-> MapThenSumSet(LAMBDA h : hours[h].n, In(d)),
       first |-> Min({hours[h].first : h \in In(d)}), last |-> Max({hours[h].last : h \in In(d)})]
        : d \in Newest({Day(h * HourLen, shift) : h \in H}, limit)}

ListAvailableDays(from, to, shift, limit) ==
  IF IsHourlyAvailabilityRange(from, to, shift) THEN HourlyDays(from, to, shift, limit)
  ELSE RawDays(from, to, shift, limit)

(***************************************************************************)
(* The export of a range: the rows are counted, then read in batches in    *)
(* the order of their time and id, each batch from after the last row of   *)
(* the one before, and at the end the rows read must be as many as the     *)
(* rows counted.                                                           *)
(***************************************************************************)
NoExport == [status |-> "none", kept |-> FALSE, steady |-> FALSE]

CreateExport(r) ==
  /\ tasks < MaxTasks /\ export.status \notin {"queued", "running"}
  /\ export' = [status |-> "queued", range |-> r, kept |-> FALSE, steady |-> TRUE]
  /\ tasks' = tasks + 1
  /\ UNCHANGED <<now, tables, pending, query, archive, import, clear, sent, crashes, off>>

StartExport ==
  /\ export.status = "queued"
  /\ LET S == Within(datas, export.range) IN
     export' = [status |-> "running", range |-> export.range, kept |-> TRUE, steady |-> TRUE,
                total |-> Cardinality(S), counted |-> S, file |-> <<>>, ended |-> FALSE]
  /\ UNCHANGED <<now, tables, pending, query, archive, import, clear, sent, bounds, off>>

After(S, r) == {o \in S : o.at > r.at \/ (o.at = r.at /\ o.id > r.id)}

\* The row at a place has as many before it.
InOrder(S) ==
  [i \in 1..Cardinality(S) |-> CHOOSE r \in S : Cardinality({o \in S : r \in After(S, o)}) = i - 1]

ExportBatch ==
  /\ export.status = "running" /\ ~export.ended
  /\ LET S == Within(datas, export.range)
         rest == InOrder(IF export.file = <<>> THEN S ELSE After(S, Last(export.file)))
         read == SubSeq(rest, 1, Min({Batch, Len(rest)})) IN
     export' = [export EXCEPT !.file = @ \o read, !.ended = Len(read) < Batch]
  /\ UNCHANGED <<now, tables, pending, query, archive, import, clear, sent, bounds, off>>

CountsAgree == Len(export.file) = export.total

\* On a mismatch the job fails and its file is removed.
FinishExport ==
  /\ export.status = "running" /\ export.ended
  /\ export' = IF CountsAgree THEN [export EXCEPT !.status = "completed"]
               ELSE [export EXCEPT !.status = "failed", !.kept = FALSE]
  /\ UNCHANGED <<now, tables, pending, query, archive, import, clear, sent, bounds, off>>

\* cleanupExpired: the row of an old job is deleted, and its file.
ExpireExport ==
  /\ export.status \in {"completed", "failed"}
  /\ export' = NoExport
  /\ UNCHANGED <<now, tables, pending, query, archive, import, clear, sent, bounds, off>>

\* A row as a point of an archive: without a uuid it has one made of its time.
ToArchivePoint(r) == [at |-> r.at, mid |-> r.mid, val |-> r.val,
                      uuid |-> IF r.uuid = NoId THEN r.at ELSE r.uuid]

Download ==
  /\ export.status = "completed" /\ export.kept
  /\ archive' = [range |-> export.range,
                 points |-> [i \in 1..Len(export.file) |-> ToArchivePoint(export.file[i])]]
  /\ archive' # archive
  /\ UNCHANGED <<now, tables, pending, query, export, import, clear, sent, bounds, off>>

(***************************************************************************)
(* The import of an archive: in mode replace the range is deleted first,   *)
(* then the points are written in a transaction, and at the end the hours  *)
(* they touch are summarised anew.                                         *)
(***************************************************************************)
CreateImport(mode) ==
  /\ tasks < MaxTasks /\ import.step = "none" /\ archive.points # <<>>
  /\ import' = [step |-> IF mode = "replace" THEN "delete" ELSE "write", mode |-> mode]
  /\ tasks' = tasks + 1
  /\ UNCHANGED <<now, tables, pending, query, export, archive, clear, sent, crashes, off>>

\* The rows S leave the table; nothing is taken from the summaries.
Removed(S) ==
  /\ datas' = datas \ S
  /\ off' = off \cup HoursOf(S)
  /\ export' = IF S = {} THEN export ELSE [export EXCEPT !.steady = FALSE]

DeleteRange ==
  /\ import.step = "delete"
  /\ Removed(Within(datas, archive.range))
  /\ import' = [import EXCEPT !.step = "write"]
  /\ UNCHANGED <<now, nextId, hours, metrics, pending, query, archive, clear, sent, bounds>>

\* A point without a message id takes its uuid for one.
Keyed(p) == [p EXCEPT !.mid = IF p.mid = NoId THEN p.uuid ELSE p.mid]

\* Of the points of a batch that share an id only the first is written.
Unique(points) ==
  LET Seen(l, p) == \E q \in Range(l) : q.uuid = p.uuid \/ q.mid = p.mid
      kept[i \in 0..Len(points)] ==
        IF i = 0 THEN <<>>
        ELSE LET p == Keyed(points[i]) IN IF Seen(kept[i - 1], p) THEN kept[i - 1] ELSE Append(kept[i - 1], p)
  IN kept[Len(points)]

\* INSERT ... ON DUPLICATE KEY UPDATE of one point.
WithPoint(t, p) ==
  LET clash == Clash(t.rows, p) IN
  IF clash = {}
  THEN [t EXCEPT !.rows = @ \cup {RowOf(t.next, p)}, !.next = @ + 1, !.hours = @ \cup {Hour(p.at)}]
  ELSE IF Cardinality(clash) > 1 THEN [t EXCEPT !.refused = TRUE]
  ELSE LET r == CHOOSE r \in clash : TRUE IN
       [t EXCEPT !.rows = (@ \ {r}) \cup {RowOf(r.id, p)},
                 !.hours = IF Moved(r, p) THEN @ \cup HoursOf({r, p}) ELSE @,
                 !.changed = @ \/ Changed(r, p)]

\* One point after another.
Written(points) ==
  LET t[i \in 0..Len(points)] ==
        IF i = 0 THEN [rows |-> datas, next |-> nextId, hours |-> {}, changed |-> FALSE, refused |-> FALSE]
        ELSE WithPoint(t[i - 1], points[i])
  IN t[Len(points)]

ImportHistoryBatch ==
  /\ import.step = "write"
  /\ LET t == Written(Unique(archive.points)) IN
     IF t.refused  \* the transaction is rolled back and the job fails
     THEN import' = [step |-> "none"] /\ UNCHANGED <<datas, nextId, export, off>>
     ELSE /\ datas' = t.rows /\ nextId' = t.next
          /\ off' = off \cup t.hours
          /\ export' = [export EXCEPT !.steady = @ /\ ~t.changed]
          /\ import' = [import EXCEPT !.step = "rebuild"]
  /\ UNCHANGED <<now, hours, metrics, pending, query, archive, clear, sent, bounds>>

\* The times to summarise anew: of the points, in mode replace of the range.
RebuildRange ==
  IF import.mode = "replace" THEN archive.range
  ELSE LET A == {p.at : p \in Range(archive.points)} IN <<Min(A), Max(A)>>

\* Whole hours, up to and with the one the range ends in.
RebuiltHours(r) == Hour(r[1])..Hour(r[2])

\* made has the summary of every hour with rows.
Rebuilt(T, made, H) == [h \in (DOMAIN T \ H) \cup (DOMAIN made \cap H) |-> IF h \in H THEN made[h] ELSE T[h]]

RebuildHourlySummaries ==
  /\ import.step = "rebuild"
  /\ LET H == RebuiltHours(RebuildRange)
         meant == {h \in Hour(RebuildRange[1])..Hour(RebuildRange[2]) : TRUE} IN
     /\ hours' = Rebuilt(hours, [h \in HoursOf(datas) |-> SummaryOf(InHour(h))], H)
     /\ metrics' = Rebuilt(metrics, [h \in HoursOf(datas) |-> MetricOf(InHour(h))], H)
     \* A point that is being counted is counted once more.
     /\ off' = (off \ meant) \cup (meant \cap Uncounted)
  /\ import' = [step |-> "none"]
  /\ UNCHANGED <<now, datas, nextId, pending, query, export, archive, clear, sent, bounds>>

(***************************************************************************)
(* The job that clears a device's data up to the time of the request, some *)
(* rows at a time; it is over once a DELETE finds none.                    *)
(***************************************************************************)
ClearData ==
  /\ tasks < MaxTasks /\ clear.step = "none"
  /\ clear' = [step |-> "deleting", cutoff |-> now]
  /\ tasks' = tasks + 1
  /\ UNCHANGED <<now, tables, pending, query, export, archive, import, sent, crashes, off>>

ClearTelemetryDataBatch ==
  /\ clear.step = "deleting"
  /\ LET old == InOrder({r \in datas : r.at <= clear.cutoff}) IN
     /\ Removed(Range(SubSeq(old, 1, Min({Batch, Len(old)}))))
     /\ clear' = IF old = <<>> THEN [step |-> "none"] ELSE clear
  /\ UNCHANGED <<now, nextId, hours, metrics, pending, query, archive, import, sent, bounds>>

\* The server run ends, and the next one settles the export that was under way.
Crash ==
  /\ crashes < MaxCrashes
  /\ crashes' = crashes + 1
  /\ Ends
  /\ UNCHANGED <<now, tables, archive, sent, tasks>>

StoreInit ==
  /\ now = StartTime
  /\ datas \in Stored /\ nextId = 1 + Cardinality(datas)
  /\ hours = [h \in HoursOf(datas) |-> SummaryOf(InHour(h))]
  /\ metrics = [h \in HoursOf(datas) |-> MetricOf(InHour(h))]
  /\ pending = {} /\ query = [step |-> "none"]
  /\ export = NoExport /\ archive \in Archives
  /\ import = [step |-> "none"] /\ clear = [step |-> "none"]
  /\ sent = 0 /\ crashes = 0 /\ tasks = 0
  /\ off = {}

StoreNext ==
  \/ Tick \/ Crash
  \/ \E key \in Keys, reading \in Readings : IngestPoint(key, reading)
  \/ \E p \in pending : Insert(p) \/ CountHour(p) \/ CountMetric(p)
  \/ \E r \in Ranges : CreateExport(r) \/ \E l \in Limits, b \in {0, 1} : CountHistory(r, l, b)
  \/ ReadHistory \/ Answer
  \/ StartExport \/ ExportBatch \/ FinishExport \/ ExpireExport \/ Download
  \/ \E mode \in {"merge", "replace"} : CreateImport(mode)
  \/ DeleteRange \/ ImportHistoryBatch \/ RebuildHourlySummaries
  \/ ClearData \/ ClearTelemetryDataBatch

StoreSpec == StoreInit /\ [][StoreNext]_storeVars

(***************************************************************************)
(* Properties.                                                             *)
(***************************************************************************)
\* The summaries of an hour say what its rows say, however the statements of
\* points, an import and a rebuild interleave, unless something the code is
\* known to leave unrepaired happened in the hour: rows deleted or written
\* over, a point equal to a stored one, which counts again, a point whose counting a rebuild or the end of the run cut in two.
HourSumsMatch ==
  \A h \in (HoursOf(datas) \cup DOMAIN hours \cup DOMAIN metrics) \ (off \cup Uncounted) :
    /\ InHour(h) # {} /\ h \in DOMAIN hours \cap DOMAIN metrics
    /\ hours[h] = SummaryOf(InHour(h))
    /\ metrics[h] = MetricOf(InHour(h))

Times == {NoVal} \cup 0..MaxTime
Clean(from, to) ==
  {h \in off \cup Uncounted : (from = NoVal \/ h >= Hour(from)) /\ (to = NoVal \/ h <= Hour(to))} = {}

\* Which table answers makes no difference.  The days of any range, for any
\* time zone, are those of the rows, and the buckets of an hourly history are
\* those of the rows of the hours its range touches, all of them or else the
\* answer says so, as long as the summaries of those hours are whole.
SummariesAnswerAsRows ==
  \A from, to \in Times, limit \in Limits : Clean(from, to) =>
    /\ \A shift \in {0, 1, HourLen} :
         ListAvailableDays(from, to, shift, limit) = RawDays(from, to, shift, limit)
    /\ LET answer == HourlyHistory(metrics, from, to, 1, limit)
           found == {r \in datas : /\ from = NoVal \/ Hour(r.at) >= Hour(from)
                                   /\ to = NoVal \/ Hour(r.at) <= Hour(to)} IN
       /\ \A i \in answer.items :
            LET M == MetricOf({r \in found : Hour(r.at) = i.bucket}) IN i.n = M.n /\ i.mean = M.mean
       /\ answer.complete => {i.bucket : i \in answer.items} = HoursOf(found)

\* What calls itself complete is: a history holds every row of its range, or
\* there are more of them by now than were counted, and an export has the rows
\* that were counted, each once and in order, though points came in meanwhile,
\* unless rows were deleted or written over.
CompleteIsWhole ==
  /\ (query.step = "answered" /\ query.complete)
        => (query.items = query.matching \/ Cardinality(query.matching) > query.total)
  /\ (export.status = "completed" /\ export.steady) => export.kept /\ export.file = InOrder(export.counted)
=============================================================================
