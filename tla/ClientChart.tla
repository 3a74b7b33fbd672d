---------------------------- MODULE ClientChart ----------------------------
(***************************************************************************)
(* The readings a chart shows (useChartRangeController.ts and              *)
(* chart-range-controller.ts): a range is selected and its readings are    *)
(* asked for, a cache of the page may show an older answer meanwhile, and  *)
(* readings that the socket brings are merged into both.                   *)
(*                                                                         *)
(* Time is counted in ticks: a reading and a selection each have one of    *)
(* their own.  A reading is its device and its tick, and a bucket stands   *)
(* for the readings it averages.                                           *)
(***************************************************************************)
EXTENDS Integers, Sequences, FiniteSets, SequencesExt, FiniteSetsExt

CONSTANTS
  Devices, None,
  Presets,     \* the ranges that end now, ...
  Length,      \* ... how long they are, ...
  NextPreset,  \* ... and which is asked for ahead of its use, or None
  Initial,     \* the preset that was chosen last
  Days,        \* days and ranges of the user: [name, from, to]
  CacheSize,
  Budgets      \* bounds: how many readings, selections and switches a behaviour may have

ASSUME ChartAssumption ==
  /\ Length \in [Presets -> Nat \ {0}] /\ NextPreset \in [Presets -> Presets \cup {None}] /\ Initial \in Presets
  /\ CacheSize \in Nat \ {0}
  /\ Budgets \subseteq [{"readings", "picks", "switches"} -> Nat]

VARIABLES
  clock,
  readings,   \* those the server has told of, ...
  wire,       \* ... and those under way to the page
  device,     \* the device shown, or None before and after the chart is open
  chart,      \* what the hook keeps
  live,       \* the newest reading the page has of each device
  cache,      \* rangeCache: for each device, its entries, the one used last at the end
  asks,       \* the requests under way
  left,       \* what is left of the budget
  \* History variables, read by the properties only.
  heard,      \* the readings of the device shown that the socket brought
  base        \* the request whose answer was taken last

vars == <<clock, readings, wire, device, chart, live, cache, asks, left, heard, base>>

-----------------------------------------------------------------------------
(* Ranges and points.                                                      *)

Relative(preset, to) == [kind |-> "relative", name |-> preset, from |-> to - Length[preset], to |-> to]
Fixed(day) == [kind |-> "fixed", name |-> day.name, from |-> day.from, to |-> day.to]

IsRealtime(range) == range.kind = "relative"
SemanticKey(range) == <<range.kind, range.name>>

Overlaps(point, range) == range.from <= point.at /\ point.at <= range.to
Newest(points) == Max({p.at : p \in points})
Points(arrivals) == {a.point : a \in arrivals}

\* The readings come into the range; what is left outside goes.
MergeRealtimePoints(current, incoming, range) ==
  IF ~ IsRealtime(range) \/ incoming = {} THEN current
  ELSE {p \in current \cup incoming : Overlaps(p, range)}

\* Mutant: the answer is taken as the whole truth.
MergeFetchedAlone(fetched, arrivals, range, since) == fetched

MergeFetched(fetched, arrivals, range, since) ==
  MergeRealtimePoints(fetched, Points({a \in arrivals : a.at >= since}), range)

AdvanceRange(range, points) ==
  IF ~ IsRealtime(range) \/ points = {} \/ Newest(points) <= range.to THEN range
  ELSE [range EXCEPT !.from = Newest(points) - (range.to - range.from), !.to = Newest(points)]

-----------------------------------------------------------------------------
(* The cache of the page.                                                  *)

Exact(entries, range) == {i \in DOMAIN entries : entries[i].range = range}

\* Of the entries of the same meaning, the first of the newest.
Reusable(entries, range) ==
  LET same == {i \in DOMAIN entries : SemanticKey(entries[i].range) = SemanticKey(range)}
      newest == {i \in same : \A j \in same : entries[j].at <= entries[i].at}
  IN  IF newest = {} THEN {} ELSE {Min(newest)}

Cached(entries, range) ==
  IF Exact(entries, range) # {} THEN Exact(entries, range) ELSE Reusable(entries, range)

Touched(entries, hit) ==
  IF hit = {} THEN entries ELSE LET i == CHOOSE i \in hit : TRUE IN Append(RemoveAt(entries, i), entries[i])

Put(entries, entry) ==
  LET all == Append(SelectSeq(entries, LAMBDA e : e.range # entry.range), entry)
  IN  SubSeq(all, IF Len(all) > CacheSize THEN Len(all) - CacheSize + 1 ELSE 1, Len(all))

-----------------------------------------------------------------------------
(* The reducer.                                                            *)

Reset(c, range) ==
  [c EXCEPT !.active = range, !.pending = None, !.status = "idle", !.request = 0]

Select(c, range, id, cachedRange) ==
  [c EXCEPT !.active = IF cachedRange = None THEN c.active ELSE cachedRange,
            !.pending = range, !.status = IF cachedRange = None THEN "loading" ELSE "refreshing", !.request = id]

\* Mutant: the range asked for is always shown.
NeverMovedOn(active, range) == FALSE

\* A range that readings have moved on while it was asked for stays where it is.
MovedOn(active, range) ==
  IsRealtime(active) /\ IsRealtime(range) /\ active.name = range.name /\ active.to > range.to

Resolve(c, range, id) ==
  IF id # c.request THEN c
  ELSE [c EXCEPT !.active = IF MovedOn(c.active, range) THEN c.active ELSE range, !.pending = None, !.status = "idle"]

\* Mutant: a failed request leaves the range pending.
RejectNothing(c, id) == c

Reject(c, id) == IF id # c.request THEN c ELSE [c EXCEPT !.pending = None, !.status = "error"]

Advance(c, to) ==
  IF ~ IsRealtime(c.active) \/ to <= c.active.to THEN c
  ELSE [c EXCEPT !.active = Relative(c.active.name, to)]

\* No request but the last one may change the chart.
IsLatest(c, id) == id = c.latest

-----------------------------------------------------------------------------
(* The hook.                                                               *)

Closed == [active |-> None, pending |-> None, status |-> "idle", request |-> 0, latest |-> 0,
           data |-> {}, source |-> "empty", arrivals |-> {}, due |-> None]

\* What is asked for is cancelled: of an answer that was served, the page may see something still.
Abort(under) == {r \in under : r.answer # None}

Ask(kind, id, d, range) ==
  [kind |-> kind, id |-> id, device |-> d, range |-> range, since |-> clock', answer |-> None]

Hit(d, range) == Cached(cache[d], range)
CacheUsed(d, range) == [cache EXCEPT ![d] = Touched(cache[d], Hit(d, range))]

\* The range is asked for; what the cache has of it is shown at once, with the readings heard.
Asks(d, range, id) == Abort(asks) \cup {Ask("select", id, d, range)}

Selected(d, range, c) ==
  LET hit == Hit(d, range)
      entry == cache[d][CHOOSE i \in hit : TRUE]
      begun == [c EXCEPT !.latest = c.latest + 1, !.due = None]
  IN  IF hit = {} THEN Select(begun, range, begun.latest, None)
      ELSE LET known == Points(c.arrivals)
           IN  Select([begun EXCEPT !.source = "cache",
                                    !.data = MergeRealtimePoints(entry.points, known, AdvanceRange(range, known))],
                      range, begun.latest, entry.range)

\* Readings come in; active is the range shown when the effect runs.
Hear(c, active, point) ==
  LET moved == [active EXCEPT !.from = point.at - (active.to - active.from), !.to = Max({active.to, point.at})]
      all   == {a \in c.arrivals : a.point # point} \cup {[point |-> point, at |-> clock']}
  IN  IF ~ IsRealtime(active) THEN c
      ELSE [Advance(c, point.at) EXCEPT !.arrivals = {a \in all : Overlaps(a.point, moved)},
                                        !.data = MergeRealtimePoints(c.data, {point}, moved), !.source = "realtime"]

Heard(active, point) == [point |-> point, at |-> clock', kept |-> IsRealtime(active)]

\* The next longer range is asked for ahead, unless it is there or on its way.
Ahead(range) ==
  IF ~ IsRealtime(range) THEN None
  ELSE IF NextPreset[range.name] = None THEN None ELSE Relative(NextPreset[range.name], range.to)

PrefetchAdjacent(c, d, range) ==
  IF \/ Exact(cache'[d], Ahead(range)) # {}
     \/ \E r \in asks : r.kind = "prefetch" /\ r.device = d /\ r.range = Ahead(range)
  THEN c ELSE [c EXCEPT !.due = Ahead(range)]

-----------------------------------------------------------------------------
(* The server, the socket, and fetch.                                      *)

Spend(kind) == left[kind] > 0 /\ left' = [left EXCEPT ![kind] = @ - 1]

Emit(d) ==
  /\ Spend("readings")
  /\ clock' = clock + 1
  /\ readings' = readings \cup {[device |-> d, at |-> clock']}
  /\ wire' = Append(wire, [device |-> d, at |-> clock'])
  /\ UNCHANGED <<device, chart, live, cache, asks, heard, base>>

\* A reading is told of before it is stored: the answer has those that are by then.
InRange(r) == {p \in readings : p.device = r.device /\ r.range.from <= p.at /\ p.at < r.range.to}

Serve == \E r \in asks : \E found \in SUBSET InRange(r) :
  /\ r.answer = None /\ asks' = (asks \ {r}) \cup {[r EXCEPT !.answer = found]}
  /\ UNCHANGED <<clock, readings, wire, device, chart, live, cache, left, heard, base>>

-----------------------------------------------------------------------------
(* What happens to the page.                                               *)

\* The page shows the newest of the readings that were flushed together.
Deliver(n) ==
  LET new == {wire[i] : i \in 1 .. n}
      Of(d) == {p \in new : p.device = d}
  IN  /\ wire' = SubSeq(wire, n + 1, Len(wire))
      /\ live' = [d \in Devices |-> IF Of(d) = {} THEN live[d]
                                    ELSE [device |-> d, at |-> Newest(Of(d) \cup (IF live[d] = None THEN {} ELSE {live[d]}))]]
      /\ UNCHANGED <<clock, readings, device, cache, asks, left, base>>
      /\ IF device = None THEN UNCHANGED <<chart, heard>>
         ELSE IF live'[device] = live[device] THEN UNCHANGED <<chart, heard>>
         ELSE /\ chart' = Hear(chart, chart.active, live'[device])
              /\ heard' = heard \cup {Heard(chart.active, live'[device])}

\* The chart opens, or another device is shown in it: its newest reading is heard right after.
Show(d) ==
  LET range == IF device = None THEN Relative(Initial, clock')
               ELSE IF chart.pending = None THEN chart.active ELSE chart.pending
      active == IF device = None THEN range ELSE chart.active
      cleared == [Reset(chart, range) EXCEPT !.data = {}, !.source = "empty", !.arrivals = {}, !.latest = chart.latest + 1]
      selected == Selected(d, range, cleared)
  IN  /\ d # device /\ Spend("switches") /\ clock' = clock + 1 /\ device' = d
      /\ chart' = IF live[d] = None THEN selected ELSE Hear(selected, active, live[d])
      /\ cache' = CacheUsed(d, range) /\ asks' = Asks(d, range, cleared.latest + 1)
      /\ heard' = IF live[d] = None THEN {} ELSE {Heard(active, live[d])}
      /\ base' = None
      /\ UNCHANGED <<readings, wire, live>>

\* The chart goes, and its requests are of no use to the next one.
Close ==
  /\ device # None /\ Spend("switches") /\ device' = None
  /\ chart' = [Closed EXCEPT !.latest = chart.latest + 1] /\ asks' = Abort(asks)
  /\ heard' = {} /\ base' = None
  /\ UNCHANGED <<clock, readings, wire, live, cache>>

\* The user selects a range, which ends now, or one of the days.
Pick(range) ==
  /\ device # None /\ Spend("picks")
  /\ clock' = clock + 1
  /\ chart' = Selected(device, range, chart)
  /\ cache' = CacheUsed(device, range) /\ asks' = Asks(device, range, chart.latest + 1)
  /\ UNCHANGED <<readings, wire, device, live, heard, base>>

PrefetchDue ==
  /\ chart.due # None /\ chart' = [chart EXCEPT !.due = None]
  /\ UNCHANGED clock
  /\ asks' = asks \cup {Ask("prefetch", 0, device, chart.due)}
  /\ UNCHANGED <<readings, wire, device, live, cache, left, heard, base>>

Entry(r, points) == [range |-> r.range, points |-> points, at |-> clock]

\* The request of the chart was answered.
Answered(r) ==
  IF ~ IsLatest(chart, r.id) THEN UNCHANGED <<chart, cache, base>>
  ELSE LET range == AdvanceRange(r.range, Points(chart.arrivals))
           merged == MergeFetched(r.answer, chart.arrivals, range, r.since)
           entries == Put(cache[r.device], Entry(r, merged))
       IN  /\ cache' = [cache EXCEPT ![r.device] = Touched(entries, Exact(entries, Ahead(r.range)))]
           /\ chart' = PrefetchAdjacent(Resolve([chart EXCEPT !.data = merged, !.source = "fetch"], r.range, r.id),
                                        r.device, r.range)
           /\ base' = [served |-> r.answer, since |-> r.since]

Failed(r) ==
  /\ chart' = IF IsLatest(chart, r.id) THEN Reject(chart, r.id) ELSE chart
  /\ UNCHANGED <<cache, base>>

\* A prefetch that was served goes to the cache, whatever the chart shows by then.
Arrive(r) ==
  /\ asks' = asks \ {r}
  /\ UNCHANGED <<clock, readings, wire, device, live, left, heard>>
  /\ \/ r.kind = "select" /\ r.answer # None /\ Answered(r)
     \/ r.kind = "select" /\ Failed(r)
     \/ /\ r.kind = "prefetch"
        /\ \/ r.answer # None /\ cache' = [cache EXCEPT ![r.device] = Put(@, Entry(r, r.answer))]
           \/ UNCHANGED cache
        /\ UNCHANGED <<chart, base>>

-----------------------------------------------------------------------------

Init ==
  /\ clock = 0 /\ readings = {} /\ wire = <<>>
  /\ device = None /\ chart = Closed /\ live = [d \in Devices |-> None]
  /\ cache = [d \in Devices |-> <<>>] /\ asks = {} /\ left \in Budgets
  /\ heard = {} /\ base = None

Next ==
  \/ \E d \in Devices : Emit(d) \/ Show(d)
  \/ Serve \/ Close \/ PrefetchDue
  \/ \E n \in DOMAIN wire : Deliver(n)
  \/ \E p \in Presets : Pick(Relative(p, clock + 1))
  \/ \E day \in Days : Pick(Fixed(day))
  \/ \E r \in asks : Arrive(r)

\* Requests are served, and answered or failed.
Spec == Init /\ [][Next]_vars /\ WF_vars(Serve) /\ WF_vars(\E r \in asks : Arrive(r))

-----------------------------------------------------------------------------
(* Properties.                                                             *)

\* A chart at rest shows every reading of its range that the answer taken last had, and, when the
\* range ends now, every one heard since that was asked for: no merge and no order of the two loses
\* one (mergeFetchedRangeWithRealtime, selectRange).  And what it shows, and what the cache has of a
\* device, are readings of that device: an answer for the one shown before does not get in
\* (LatestChartRangeRequest).
NothingDropped ==
  /\ base # None /\ chart.status = "idle" =>
       LET since == {h.point : h \in {h \in heard : h.kept /\ h.at >= base.since /\ IsRealtime(chart.active)}}
       IN  {p \in base.served \cup since : Overlaps(p, chart.active)} \subseteq chart.data
  /\ device # None => \A p \in chart.data : p.device = device
  /\ \A d \in Devices : \A i \in DOMAIN cache[d] : \A p \in cache[d][i].points : p.device = d

\* The answer to a request never takes the chart back to before a reading it has moved on to
\* (chartRangeReducer, "resolve").
AnswerKeepsUp ==
  [][(\E r \in asks : Arrive(r)) /\ device # None =>
       (SemanticKey(chart'.active) = SemanticKey(chart.active) => chart'.active.to >= chart.active.to)]_vars

=============================================================================
