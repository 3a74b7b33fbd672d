------------------------------ MODULE Dashboard ------------------------------
(***************************************************************************)
(* The state that App.tsx keeps for every page of the dashboard: the       *)
(* devices, their newest reading and spectra, the devices with an alert.   *)
(* It is fed by messages of the socket, which are collected and flushed    *)
(* together, and by answers to HTTP requests, which arrive in any order.   *)
(*                                                                         *)
(* The server is the environment: it changes, sends a message, and answers *)
(* a request from what it is when it serves it, which may be long before   *)
(* the answer arrives.  Readings and frames are the server's time at which *)
(* they came in; every caller asks for one reading, so a device has one.   *)
(***************************************************************************)
EXTENDS Integers, Sequences, FiniteSets, SequencesExt, FiniteSetsExt

CONSTANTS
  Devices, Axes,
  None,
  Buffer,      \* SPECTRUM_OVERVIEW_BUFFER_SIZE
  Scenarios,   \* how a behaviour starts and what happens in it: see Scenario
  MaxWire      \* bound: messages under way

Requests == {"inventory", "alerts", "history", "check"}
Changes  == {"beat", "lost", "name", "fault", "alert", "point", "frame"}

\* opening: the page has just been opened, else it is connected and lists every device; changes: the
\* kinds of change of the server; most: how many, and how many requests by kind (lists of devices
\* are asked for one at a time); polls: they are asked for every thirty seconds.
Scenario == [opening : BOOLEAN, polls : BOOLEAN, changes : SUBSET Changes,
             most : [{"change", "alerts", "history", "check"} -> Nat]]

ASSUME DashboardAssumption ==
  /\ Buffer \in Nat \ {0} /\ MaxWire \in Nat
  /\ Scenarios \subseteq Scenario

VARIABLES
  server,      \* what the server knows of each device, and its clock
  wire,        \* the messages of the socket under way, in order
  link,        \* the socket is connected
  asks,        \* the requests under way
  visible,     \* the tab is
  queue,       \* what the next flush will show
  timer,       \* a flush is due
  inventory,   \* the devices listed, or None for one that is not
  signature,   \* of the last list taken over
  busy,        \* a list is asked for
  alerts,      \* the devices with an alert
  shown,       \* the newest reading of each device, or 0
  spectra,     \* the frames of each device
  loading,     \* a device's reading is said to be on its way
  pending,     \* the requests counted for a device
  seq,         \* the number of its last request
  control,     \* the request its next one aborts, or 0
  attempt,     \* when it was last asked for: "never", "recent", "past", or "barred" for a while
  prefetched,  \* its card: "no", "due", or "done"
  asked,       \* the requests made so far, by kind
  \* History variables, read by the properties only.
  source,      \* the request that brought the reading shown, or 0 for the socket
  barrier      \* the requests made when the data of the device was last cleared

vars == <<server, wire, link, asks, visible, queue, timer, inventory, signature, busy, alerts, shown, spectra,
          loading, pending, seq, control, attempt, prefetched, asked, source, barrier>>

page   == <<visible, queue, timer, inventory, signature, busy, alerts, shown, spectra,
            loading, pending, seq, control, attempt, prefetched, source, barrier>>
reading == <<shown, loading, pending, seq, control, attempt, source>>

Nothing == [points |-> [d \in Devices |-> 0],
            frames |-> [da \in Devices \X Axes |-> 0],
            patches |-> [d \in Devices |-> [beat |-> 0, name |-> 0, fault |-> None]]]

-----------------------------------------------------------------------------
(* The server, and the ways to the page and back.                          *)

Send(message) == wire' = IF link THEN Append(wire, message) ELSE wire

Change(d, kind) ==
  LET t == server.clock + 1
      now == [server EXCEPT !.clock = t]
  IN  /\ kind \in server.scenario.changes /\ server.clock < server.scenario.most["change"] /\ Len(wire) < MaxWire
      /\ UNCHANGED <<page, link, asks, asked>>
      /\ \/ /\ kind = "beat"
            /\ server' = [now EXCEPT !.online[d] = TRUE, !.beat[d] = t]
            /\ Send([kind |-> kind, device |-> d, at |-> t])
         \/ /\ kind = "lost" /\ server.online[d]  \* the dashboard is not told
            /\ server' = [now EXCEPT !.online[d] = FALSE] /\ UNCHANGED wire
         \/ /\ kind = "name"
            /\ server' = [now EXCEPT !.name[d] = t]
            /\ Send([kind |-> kind, device |-> d, at |-> t])
         \/ /\ kind = "fault"
            /\ server' = [now EXCEPT !.fault[d] = ~server.fault[d]]
            /\ Send([kind |-> kind, device |-> d, at |-> t, fault |-> ~server.fault[d]])
         \/ /\ kind = "alert"
            /\ server' = [now EXCEPT !.alarm[d] = ~server.alarm[d]]
            /\ Send([kind |-> kind, device |-> d, at |-> t, resolved |-> server.alarm[d]])
         \/ /\ kind = "point"
            /\ server' = [now EXCEPT !.latest[d] = t]
            /\ Send([kind |-> kind, device |-> d, at |-> t])
         \/ \E x \in Axes : /\ kind = "frame" /\ server' = now
                            /\ Send([kind |-> kind, device |-> d, at |-> t, axis |-> x])

\* What the server answers to a request that it serves now.
Answer(r) ==
  CASE r.kind = "inventory" -> [d \in Devices |-> [online |-> server.online[d], beat |-> server.beat[d],
                                                   name |-> server.name[d], fault |-> server.fault[d]]]
    [] r.kind = "alerts"    -> {d \in Devices : server.alarm[d]}
    [] OTHER                -> server.latest[r.device]

Serve == \E r \in asks : /\ r.answer = None /\ ~ r.aborted
                         /\ asks' = (asks \ {r}) \cup {[r EXCEPT !.answer = <<Answer(r)>>]}
                         /\ UNCHANGED <<server, wire, link, page, asked>>

Ask(kind, d, n) ==
  [id |-> IF kind = "inventory" THEN 1 ELSE asked[kind] + 1, kind |-> kind, device |-> d, seq |-> n,
   answer |-> None, aborted |-> FALSE]

MayRequest(kind) == kind # "inventory" => asked[kind] < server.scenario.most[kind]

RequestJson(new, under) ==
  /\ MayRequest(new.kind) /\ asks' = under \cup {new}
  /\ asked' = IF new.kind = "inventory" THEN asked ELSE [asked EXCEPT ![new.kind] = @ + 1]

-----------------------------------------------------------------------------
(* Sorted lists of readings or frames, and what a payload becomes.         *)

LastOnes(s, n) == SubSeq(s, IF Len(s) > n THEN Len(s) - n + 1 ELSE 1, Len(s))

\* incoming takes the place of the one of the same key (telemetryKey, spectrumKey: all that is kept of
\* either here), or comes in by time; the oldest go.
InsertRealtimePoint(current, incoming, max) ==
  LET n == Len(current)
      low == Cardinality({i \in 1 .. n : current[i].at < incoming.at})
      Same(i) == i \in 1 .. n /\ current[i] = incoming
  IN  IF Same(n) THEN [current EXCEPT ![n] = incoming]
      ELSE IF n = 0 \/ incoming.at >= current[n].at THEN LastOnes(Append(current, incoming), max)
      ELSE IF Same(low + 1) THEN [current EXCEPT ![low + 1] = incoming]
      ELSE LastOnes(InsertAt(current, low + 1, incoming), max)

MergeTelemetryPoints(current, point) ==
  LET before == IF current = 0 THEN <<>> ELSE <<[at |-> current]>>
  IN  Last(InsertRealtimePoint(before, [at |-> point], 1)).at

MergeSpectrumPoints(current, frame) == InsertRealtimePoint(current, frame, Buffer)

\* The newest of what is shown and what the answer has.
MergeTelemetryHistory(current, points) == Max({current} \cup points)

\* A history of one reading, or of none.
ParseTelemetryHistory(answer) == IF answer = 0 THEN {} ELSE {answer}

ParseDevices(list) == list

\* Mutant: lists count as the same when the devices are as present as before.
PresenceSignature(list) == [d \in Devices |-> [online |-> list[d].online, beat |-> list[d].beat]]

DeviceSignature(list) == [d \in Devices |-> [online |-> list[d].online, beat |-> list[d].beat, name |-> list[d].name]]

-----------------------------------------------------------------------------
(* The queue of what the socket brought.                                   *)

\* Mutant: each frame is merged into what was shown before the batch.
MergeAllFromPrevious(d, frames, previous) ==
  IF frames = <<>> THEN previous ELSE MergeSpectrumPoints(previous, Last(frames))

MergeAll(d, frames, previous) == FoldLeft(MergeSpectrumPoints, previous, frames)

\* The map keeps the place of a key that is set again, so any order of the axes can be met.
Batches(d) ==
  LET due == {x \in Axes : queue.frames[<<d, x>>] # 0}
  IN  {[i \in DOMAIN order |-> [axis |-> order[i], at |-> queue.frames[<<d, order[i]>>]]] : order \in SetToSeqs(due)}

Patched(device, patch) ==
  IF device = None THEN None
  ELSE [online |-> device.online \/ patch.beat # 0,
        beat   |-> IF patch.beat # 0 THEN patch.beat ELSE device.beat,
        name   |-> IF patch.name # 0 THEN patch.name ELSE device.name,
        fault  |-> IF patch.fault # None THEN patch.fault ELSE device.fault]

FlushRealtimeUpdates ==
  /\ queue' = Nothing
  /\ shown' = [d \in Devices |-> IF queue.points[d] = 0 THEN shown[d] ELSE MergeTelemetryPoints(shown[d], queue.points[d])]
  /\ source' = [d \in Devices |-> IF shown'[d] # shown[d] THEN 0 ELSE source[d]]
  /\ loading' = [d \in Devices |-> loading[d] /\ queue.points[d] = 0]
  /\ \E order \in [Devices -> UNION {Batches(d) : d \in Devices}] :
       /\ \A d \in Devices : order[d] \in Batches(d)
       /\ spectra' = [d \in Devices |-> MergeAll(d, order[d], spectra[d])]
  /\ inventory' = [d \in Devices |-> Patched(inventory[d], queue.patches[d])]

FlushDue ==
  /\ timer /\ timer' = FALSE
  /\ IF visible THEN FlushRealtimeUpdates ELSE UNCHANGED <<queue, shown, source, loading, spectra, inventory>>
  /\ UNCHANGED <<server, wire, link, asks, asked, visible, signature, busy, alerts, pending, seq, control, attempt,
                 prefetched, barrier>>

ScheduleRealtimeFlush == timer' = (timer \/ visible)

EnqueueTelemetryPoint(d, point) == queue' = [queue EXCEPT !.points[d] = point]
EnqueueSpectrumPoint(d, x, at)  == queue' = [queue EXCEPT !.frames[<<d, x>>] = at]
PatchInventoryDevice(d, fields) ==
  queue' = [queue EXCEPT !.patches[d] = [f \in DOMAIN @ |-> IF f \in DOMAIN fields THEN fields[f] ELSE @[f]]]

-----------------------------------------------------------------------------
(* The messages.                                                           *)

OnTelemetry(m) == EnqueueTelemetryPoint(m.device, m.at)
OnSpectrum(m)  == EnqueueSpectrumPoint(m.device, m.axis, m.at)
OnHeartbeat(m) == PatchInventoryDevice(m.device, [beat |-> m.at])
OnMetadata(m)  == PatchInventoryDevice(m.device, [name |-> m.at])
OnSensorStatus(m) == PatchInventoryDevice(m.device, [fault |-> m.fault])

OnAlert(m) ==
  IF m.resolved
  THEN RequestJson(Ask("alerts", None, 0), asks) /\ UNCHANGED alerts
  ELSE alerts' = alerts \cup {m.device} /\ UNCHANGED <<asks, asked>>

Receive ==
  /\ wire # <<>> /\ wire' = Tail(wire)
  /\ LET m == Head(wire)
     IN  \/ /\ m.kind = "alert" /\ OnAlert(m) /\ UNCHANGED <<queue, timer>>
         \/ /\ \/ m.kind = "point" /\ OnTelemetry(m)
               \/ m.kind = "frame" /\ OnSpectrum(m)
               \/ m.kind = "beat"  /\ OnHeartbeat(m)
               \/ m.kind = "name"  /\ OnMetadata(m)
               \/ m.kind = "fault" /\ OnSensorStatus(m)
            /\ ScheduleRealtimeFlush /\ UNCHANGED <<alerts, asks, asked>>
  /\ UNCHANGED <<server, link, visible, inventory, signature, busy, spectra, reading, prefetched, barrier>>

OnDisconnect == /\ link /\ link' = FALSE /\ wire' = <<>>
                /\ UNCHANGED <<server, asks, page, asked>>

\* Both lists are asked for again, the devices unless they are being asked for.
OnConnect ==
  LET listed == ~ busy /\ visible
      kinds == {"alerts"} \cup (IF listed THEN {"inventory"} ELSE {})
  IN  /\ ~ link /\ link' = TRUE /\ MayRequest("alerts")
      /\ asks' = asks \cup {Ask(k, None, 0) : k \in kinds}
      /\ asked' = [asked EXCEPT !["alerts"] = @ + 1]
      /\ busy' = (busy \/ listed)
      /\ UNCHANGED <<server, wire, visible, queue, timer, inventory, signature, alerts, spectra, reading, prefetched, barrier>>

-----------------------------------------------------------------------------
(* The list of devices and the list of alerts.                             *)

LoadDeviceInventory ==
  /\ server.scenario.polls /\ ~ busy /\ visible /\ busy' = TRUE
  /\ RequestJson(Ask("inventory", None, 0), asks)
  /\ UNCHANGED <<server, wire, link, visible, queue, timer, inventory, signature, alerts, spectra, reading, prefetched, barrier>>

InventoryAnswered(r) ==
  /\ busy' = FALSE
  /\ IF r.answer = <<>> \/ DeviceSignature(r.answer[1]) = signature
     THEN UNCHANGED <<inventory, signature>>
     ELSE /\ inventory' = ParseDevices(r.answer[1])
          /\ signature' = DeviceSignature(r.answer[1])
  /\ UNCHANGED <<alerts, reading>>

AlertsAnswered(r) ==
  /\ alerts' = IF r.answer = <<>> THEN alerts ELSE r.answer[1]
  /\ UNCHANGED <<busy, inventory, signature, reading>>

\* The tab is hidden or comes back: what was queued is shown and the devices are asked for.
VisibilityChange ==
  /\ visible' = ~ visible
  /\ IF visible THEN UNCHANGED <<queue, shown, source, loading, spectra, inventory, busy, asks, asked, timer>>
     ELSE /\ FlushRealtimeUpdates /\ timer' = FALSE
          /\ IF busy THEN UNCHANGED <<busy, asks, asked>>
             ELSE busy' = TRUE /\ RequestJson(Ask("inventory", None, 0), asks)
  /\ UNCHANGED <<server, wire, link, signature, alerts, pending, seq, control, attempt, prefetched, barrier>>

UpdateInventoryDeviceFromSensor(d) ==
  /\ inventory[d] # None /\ inventory' = [inventory EXCEPT ![d].name = server.name[d]]
  /\ UNCHANGED <<server, wire, link, asks, asked, visible, queue, timer, signature, busy, alerts, spectra, reading, prefetched, barrier>>

-----------------------------------------------------------------------------
(* The newest reading of a device, asked for.                              *)

MayAsk(d) == attempt[d] \in {"never", "past"}

AbortLast(d, under) == {IF r.kind = "history" /\ r.id = control[d] THEN [r EXCEPT !.aborted = TRUE] ELSE r : r \in under}

\* under: the requests under way besides the new one.
RequestTelemetryHistory(d, under) ==
  /\ attempt' = [attempt EXCEPT ![d] = "recent"]
  /\ seq' = [seq EXCEPT ![d] = @ + 1]
  /\ pending' = [pending EXCEPT ![d] = @ + 1]
  /\ loading' = [loading EXCEPT ![d] = TRUE]
  /\ RequestJson(Ask("history", d, seq[d] + 1), AbortLast(d, under))
  /\ control' = [control EXCEPT ![d] = asked["history"] + 1]

\* The ten seconds, or the time the server asked for, are over.
AttemptPast(d) ==
  /\ attempt[d] \in {"recent", "barred"} /\ attempt' = [attempt EXCEPT ![d] = "past"]
  /\ UNCHANGED <<server, wire, link, asks, asked, visible, queue, timer, inventory, signature, busy, alerts, spectra,
                 shown, loading, pending, seq, control, source, prefetched, barrier>>

\* Mutant: an answer counts whatever was asked or cleared since it was asked for.
AnyAnswer(r) == r.answer # <<>>

Current(r) == r.answer # <<>> /\ ~ r.aborted /\ seq[r.device] = r.seq

Settled(r) ==
  /\ pending' = [pending EXCEPT ![r.device] = IF @ <= 1 THEN 0 ELSE @ - 1]
  /\ loading' = [loading EXCEPT ![r.device] = @ /\ pending[r.device] > 1]

HistoryAnswered(r) ==
  LET d == r.device
      points == IF Current(r) THEN ParseTelemetryHistory(r.answer[1]) ELSE {}
  IN  /\ shown' = IF points = {} THEN shown ELSE [shown EXCEPT ![d] = MergeTelemetryHistory(@, points)]
      /\ source' = IF shown'[d] = shown[d] THEN source ELSE [source EXCEPT ![d] = r.id]
      /\ \/ UNCHANGED attempt
         \/ r.answer = <<>> /\ ~ r.aborted /\ attempt' = [attempt EXCEPT ![d] = "barred"]
      /\ Settled(r)
      /\ control' = [control EXCEPT ![d] = IF @ = r.id THEN 0 ELSE @]
      /\ UNCHANGED <<busy, inventory, signature, alerts, seq>>

\* The fetch fails, is aborted, or is refused: what arrives has no payload.
Failed(r) == [r EXCEPT !.answer = <<>>]
Outcomes(r) == {Failed(r)} \cup (IF r.answer # None THEN {r} ELSE {})

Arrive(kind) ==
  \E r \in asks : \E out \in Outcomes(r) :
    /\ r.kind = kind /\ asks' = asks \ {r}
    /\ \/ kind = "inventory" /\ InventoryAnswered(out)
       \/ kind = "alerts" /\ AlertsAnswered(out)
       \/ kind = "history" /\ HistoryAnswered(out)
    /\ UNCHANGED <<server, wire, link, visible, queue, timer, spectra, prefetched, asked, barrier>>

\* A card without a reading has it asked for, once; the requests of several cards are spread out.
CardEffect(d) ==
  /\ inventory[d] # None /\ shown[d] = 0 /\ ~ loading[d] /\ prefetched[d] = "no"
  /\ prefetched' = [prefetched EXCEPT ![d] = "due"]
  /\ UNCHANGED <<server, wire, link, asks, asked, visible, queue, timer, inventory, signature, busy, alerts, spectra,
                 reading, barrier>>

CardPrefetch(d) ==
  /\ prefetched[d] = "due" /\ prefetched' = [prefetched EXCEPT ![d] = "done"]
  /\ IF MayAsk(d) THEN RequestTelemetryHistory(d, asks) ELSE UNCHANGED <<asks, asked, attempt, seq, pending, loading, control>>
  /\ UNCHANGED <<server, wire, link, visible, queue, timer, inventory, signature, busy, alerts, shown, source, spectra, barrier>>

\* Every two minutes the reading shown is compared with the newest one stored.
Reconcile(d) ==
  /\ shown[d] # 0 /\ RequestJson(Ask("check", d, shown[d]), asks)
  /\ UNCHANGED <<server, wire, link, page>>

ReconcileAnswered ==
  \E r \in asks : \E out \in Outcomes(r) :
    /\ r.kind = "check"
    /\ IF out.answer # <<>> /\ ParseTelemetryHistory(out.answer[1]) \notin {{}, {r.seq}} /\ MayAsk(r.device)
       THEN RequestTelemetryHistory(r.device, asks \ {r})
       ELSE asks' = asks \ {r} /\ UNCHANGED <<asked, attempt, seq, pending, loading, control>>
    /\ UNCHANGED <<server, wire, link, visible, queue, timer, inventory, signature, busy, alerts, shown, source, spectra,
                   prefetched, barrier>>

\* The data of the device was cleared: nothing of it is shown, and no answer under way counts.
ClearDeviceChartData(d) ==
  /\ server.latest[d] # 0 /\ barrier[d] = 0  \* bound: once
  /\ server' = [server EXCEPT !.latest[d] = 0]
  /\ attempt' = [attempt EXCEPT ![d] = "never"]
  /\ pending' = [pending EXCEPT ![d] = 0] /\ loading' = [loading EXCEPT ![d] = FALSE]
  /\ asks' = AbortLast(d, asks) /\ control' = [control EXCEPT ![d] = 0]
  /\ seq' = [seq EXCEPT ![d] = @ + 1]
  /\ shown' = [shown EXCEPT ![d] = 0] /\ spectra' = [spectra EXCEPT ![d] = <<>>]
  /\ source' = [source EXCEPT ![d] = 0] /\ barrier' = [barrier EXCEPT ![d] = asked["history"] + 1]
  /\ UNCHANGED <<wire, link, asked, visible, queue, timer, inventory, signature, busy, alerts, prefetched>>

-----------------------------------------------------------------------------
\* The page is being opened, and has asked for both lists, or has been open for a while.
Init ==
  /\ \E scenario \in Scenarios :
       LET opening == scenario.opening
           listed == [d \in Devices |-> [online |-> FALSE, beat |-> 0, name |-> 0, fault |-> FALSE]]
       IN  /\ server = [scenario |-> scenario, clock |-> 0, online |-> [d \in Devices |-> FALSE],
                        beat |-> [d \in Devices |-> 0], name |-> [d \in Devices |-> 0],
                        fault |-> [d \in Devices |-> FALSE], alarm |-> [d \in Devices |-> FALSE],
                        latest |-> [d \in Devices |-> 0]]
           /\ wire = <<>> /\ link = ~ opening /\ busy = opening
           /\ asked = [alerts |-> IF opening THEN 1 ELSE 0, history |-> 0, check |-> 0]
           /\ asks = IF opening THEN {[id |-> 1, kind |-> k, device |-> None, seq |-> 0, answer |-> None, aborted |-> FALSE] :
                                       k \in {"inventory", "alerts"}} ELSE {}
           /\ inventory = [d \in Devices |-> IF opening THEN None ELSE listed[d]]
           /\ signature = IF opening THEN None ELSE DeviceSignature(listed)
  /\ visible = TRUE /\ queue = Nothing /\ timer = FALSE
  /\ alerts = {} /\ shown = [d \in Devices |-> 0] /\ spectra = [d \in Devices |-> <<>>]
  /\ loading = [d \in Devices |-> FALSE] /\ pending = [d \in Devices |-> 0] /\ seq = [d \in Devices |-> 0]
  /\ control = [d \in Devices |-> 0] /\ attempt = [d \in Devices |-> "never"]
  /\ prefetched = [d \in Devices |-> "no"]
  /\ source = [d \in Devices |-> 0] /\ barrier = [d \in Devices |-> 0]

Next ==
  \/ Serve \/ Receive \/ OnDisconnect \/ OnConnect \/ FlushDue \/ \E kind \in Requests : Arrive(kind)
  \/ LoadDeviceInventory \/ VisibilityChange \/ ReconcileAnswered
  \/ \E d \in Devices : \/ \E kind \in Changes : Change(d, kind)
                         \/ CardEffect(d) \/ CardPrefetch(d) \/ AttemptPast(d) \/ Reconcile(d) \/ ClearDeviceChartData(d)
                         \/ UpdateInventoryDeviceFromSensor(d)

\* An answer that comes in is worth something again and again, if the page goes on asking.
Listed == \E r \in asks : r.kind = "inventory" /\ r.answer # None /\ Arrive("inventory") /\ InventoryAnswered(r)

Fairness ==
  /\ SF_vars(Serve) /\ WF_vars(Receive) /\ WF_vars(FlushDue) /\ WF_vars(LoadDeviceInventory)
  /\ WF_vars(\E kind \in Requests : Arrive(kind)) /\ SF_vars(Listed)

Spec == Init /\ [][Next]_vars /\ Fairness

-----------------------------------------------------------------------------
\* A device whose reading is said to be loading has a request under way: what an aborted, cleared
\* or failed request leaves behind never keeps a card loading (App.tsx 1086).
LoadingMeansAsking ==
  \A d \in Devices : loading[d] => \E r \in asks : r.kind = "history" /\ r.device = d

\* What is shown of a device whose data were cleared comes from no request of before (App.tsx 1101).
ClearedStaysCleared == \A d \in Devices : source[d] # 0 => source[d] >= barrier[d]

\* A reading gives way to a newer one only, unless the data are cleared, whichever of socket and
\* answers is first; and a flush shows the frame of every axis that came in since the last one,
\* as its comment says (App.tsx 897).
NewestIsShown ==
  [][/\ \A d \in Devices : shown'[d] >= shown[d] \/ barrier'[d] # barrier[d]
     /\ queue' = Nothing =>
          \A d \in Devices, x \in Axes :
            queue.frames[<<d, x>>] # 0 => Contains(spectra'[d], [axis |-> x, at |-> queue.frames[<<d, x>>]])]_vars

\* While the socket stays connected and the tab visible, a name that was changed ends up in the list,
\* whatever the order of its message, of the flush and of lists answered from before (App.tsx 1236).
NamesCatchUp ==
  \A d \in Devices : ([]link /\ <>[]visible) => <>[](inventory[d] # None => inventory[d].name = server.name[d])

=============================================================================
