# TLA+ models and proofs of the SGP vibration datacenter

This directory holds TLA+ specifications of the server in `src/server/src` and
of its React client in `src/server/client/src`, the configurations with which
TLC checks them on small instances, and theorems about them that TLAPS proves
for every value of their constants. Paths below are relative to the root of the
repository; `modules/` stands for `src/server/src/modules/` and `client/` for
`src/server/client/src/`.

Contents: [the system](#the-system), [how it is modelled](#how-it-is-modelled),
[modules](#modules), [runs](#runs), [proofs](#proofs),
[findings](#findings-and-behaviour-to-know-of),
[not modelled](#what-is-not-modelled), [plan](#plan),
[running](#running-the-checks).

## The system

A Fastify and Socket.IO server receives telemetry, spectra and acknowledgements
from vibration sensors (ESP32 devices), stores them in MySQL and on disk, and
serves a React client. `src/server/src/index.ts` wires it up. Node runs it on
one thread: code between two `await`s is atomic, and what interleaves are the
steps between them, of handlers, of fire-and-forget writes, of intervals and of
workers. MySQL is reached through a connection pool, so two statements sent one
after the other may be executed in either order. The client mounts one page at
a time (`client/App.tsx`); its requests are answered in any order, or never.

### The server

| Component | State | Operations | Talks to | Hard because |
|---|---|---|---|---|
| Commands (`command/`) | Map of records, table `device_commands` | create, acknowledge, timeout sweep, delete with device, reload | command and session handlers, device service, routes | acks, sweep and deletion overlap in read-write-set sequences; a statement fails after it was stored; restarts |
| Device presence (`device/in-memory-device.repository.ts`, `realtime/session.handlers.ts`) | session map, `socket_datas`, `device_status_history`, `server_runtime_history` | connect, heartbeat, disconnect, boot repair, clearing, shutdown | gateway, runtime tracker | fire-and-forget tasks of several statements; reconnects before the old socket closes; crashes |
| Device metadata and zones (`device/device.service.ts`, `zone/`) | metadata map, `devices`, `zones` | register, update, ADXL health, zone assignment, removal; zones with unique codes | nearly everybody | a cached record is read before an await and written whole after it; foreign keys |
| Alerts (`alert/`) | rules, alerts, index of open alerts, table `alerts` | evaluate, acknowledge, resolve, change rule, delete with device, reload | telemetry handler, routes, device metadata | messages wait for the metadata and resume out of order; writes are not awaited |
| Telemetry ingress guard (`reliability/telemetry-ingress-guard.ts`) | three maps of times | evaluate, prune | telemetry handler | sliding windows with boundaries, pruned only on arrival |
| Telemetry storage (`telemetry/`) and archive export (`sgpdata/sgpdata-export.*`, `data-export/`) | `device_datas`, two tables of hourly summaries, export jobs and files | persist, delete range, clear in batches, rebuild, histories, export | telemetry handler, import, routes | three statements for a point, a rebuild beside them, ranges read batch by batch |
| Archive import (`sgpdata/sgpdata-import.*`, `sgpdata-job.repository.ts`) | `data_import_jobs`, files, queue, worker | upload, preview, request, import, expiry sweep, boot | telemetry, spectrum, zones, devices | whole-row upserts of stale copies; a sweep that deletes while others work; partial failure |
| Spectrum frames (`spectrum/`) | pending frames, files, `device_spectrum_frames` | assemble, flush, persist, export, merge, purge | spectrum handler, import and export, routes | axes in any order, timers, a file and a row for each frame |
| Threshold analysis (`analysis/`) | jobs in memory | start, run device by device, look up | routes | one job at a time beside a polling page; integer arithmetic |
| Display screenshots (`display-screenshot/`) | an image and a record per display | store, list, reload request | routes | two files, replaced one after the other |
| Persistence and schema (`persistence/`) | pool, every table | connect, run the schema script, fall back to memory | everybody | a long script whose statements are each committed on its own, on databases of any age, restarted after a crash anywhere |
| Runtime tracker (`reliability/server-runtime-tracker.ts`) | `server_runtime_history` | start, beat, stop | boot | tells the next boot when the last run ended |
| Realtime gateway and HTTP routes (`realtime/`, `http/`) | sockets, clearing jobs | dispatch, broadcast, validate and call; device deletion | all services | decide what is awaited; the deletion calls six components one after the other |
| Archive format, authentication, audit, tools | none that several steps share | | | |

### The client

| Component | State | Hard because |
|---|---|---|
| Dashboard (`App.tsx`, `app/data/`) | inventory, newest readings and spectra, alerts, queues that are flushed together, requests with counters and aborts | socket messages and answers overtake each other; a hidden tab flushes nothing; data are cleared meanwhile |
| Range of a chart (`sensor-chart-modal/useChartRangeController.ts`, `chart-range-controller.ts`) | range, readings, cache, one request and one prefetch | answers to earlier ranges; live readings during a load |
| Trend view (`SensorChartModal.tsx`, `chart-parts.tsx`, `telemetry-tiles.ts`, `telemetry-continuity.ts`) | window, gestures, tiles under way, playback | tiles of superseded passes; gaps told from buckets |
| Spectrum panel and dialogs of a chart (`SensorChartModal.tsx`) | frame shown, caches; axis names and placement, clearing job, calendar | late answers; one device's dialog while another's card is clicked |
| Device, zone, firmware and analysis pages, import and export panels | filters, dialogs, uploads, jobs followed by polls | answers for the dialog before; polls that fail or overlap; reloads |
| Wall displays (`DisplayScreenshotReporter.tsx`, `AppVersionWatcher.tsx`) | retries, checks, reload | timers, becoming visible and coming online all retry |

What makes each correct:

- **Commands**: a record tells one outcome; memory and table agree when nothing
  is under way; an accepted ack is not lost; an outcome is final; a command
  nobody acknowledges is timed out in the end.
- **Presence**: the session is the one of the newest socket; the history tells
  what memory tells, covers no time the device was away, and a boot closes what
  a crash left open.
- **Devices and zones**: memory tells what the table tells once writes are in;
  an answered update is kept; a removed device stays away.
- **Alerts**: one open alert at most for a rule and a device, open exactly when
  the last reading was above the setpoint; the index never names a closed one.
- **Ingress guard**: it answers as if it remembered everything, although it
  prunes; so rates and dedupe windows are kept, in bounded memory.
- **Telemetry**: summaries say what the rows say, whichever table answers; what
  calls itself complete is.
- **Import**: a preview has its file and no file is leaked, a completed job is
  stored, outcomes stand, and a queued job ends.
- **Spectrum**: a frame joins axes of one capture, none waits for good, and a
  row's file can be read.
- **Schema**: a served database is current, and nothing of the old one is lost.
- **Client**: an answer finds the page, dialog and device that asked; the newest
  is shown and what was cleared stays away; what was begun ends on the screen
  too; what a chart draws is so.

## How it is modelled

The modules share some conventions.

- **One action per atomic stretch of code.** An operation with an `await` is a
  chain of actions. A statement is sent, executed and answered in different
  steps; statements that are not awaited are members of a set (`writes`,
  `tasks`, `persists`), executed in any order. In the client a request is asked
  for, served from what the server is at that moment, and answered later.
- **A failing statement** is an action of its own where the code has a path for
  it. `CommandLifecycle`, deletions included, and `SpectrumFrames` let a statement
  also fail *after* it was executed (a lost answer). A request of the client may be lost or refused.
- **A crash** loses every map, queue and task and keeps tables and files; the
  boot's reads and repairs are actions or the rest of `Restart`. An
  unhandled rejection ends the process (there is no handler), which is a crash.
- **Time** is a counter. `Date.now()` is assumed not to go back. Where code
  compares times of different events only their order and distance matter.
- **Data** is kept as far as a property tells it apart: an ack is its id, a
  telemetry point is a model value, a spectrum axis is its time of receipt.
- **Bounds** are constants named `Max...` or `...Budget`, spent by `left` and
  the like; they appear in guards only and stand for the environment (how many
  messages and clicks come, how often a server crashes), never for the code.
- **History variables** are written but never read by guards. Where a property
  excuses overlapping operations, it names exactly them by such a variable
  (`raced`, `unsure`, `spoilt`, `loose`, `calm`, `contested`, `off`, `lost`,
  `early`). What such an overlap does to the data is then in the model and not in
  the property: an overlap that went wrong in another way would not be noticed.
- **Mutants**: definitions marked `Mutant` are slips the code could have made (a
  condition dropped, a comparison turned, a key left out). With the definition
  they stand beside replaced by them, the property named in `PROJECT.json`
  fails. They show that each property depends on the code.

## Modules

### CommandLifecycle

`modules/command/*`, `realtime/command.handlers.ts`, the sweep interval of
`index.ts` and the device deletion route.

| State | Code |
|---|---|
| `mem`, `place`, `inserted` | `MySqlCommandRepository.records` and its insertion order |
| `db`, `deviceRow` | `device_commands`, `devices` |
| `known` | the metadata map of `InMemoryDeviceRepository` |
| `writes` | upserts between call and answer |
| `sweeping`, `snapshot`, `sweepNow` | `commandTimeoutSweepRunning` and the loop of `markTimeouts` |
| `deletion` | where a deletion of a device stands |

`Create` and `Acknowledge` check and send; `StoreWrite`/`FailWrite` are MySQL;
`FinishCreate`, `FinishAcknowledge`, `SweepNext` and `SweepEnd` are what follows
the `await`: the map is set only after the statement. `SweepTick` is the
interval with its guard. Deletion first removes rows and map entries, then, in
the FK-safe purge, rows again and the device. `Restart` reloads the map from the
table. `FailDeletion` ends a deletion at any of its statements, before or after it
ran: the route answers 500, and a DELETE of commands whose reply was lost leaves in
memory what the table no longer has. Such a command is `unsure`, as is one whose
write was executed and reported failed, until a write, a deletion or a boot sets
memory and table both.

### DevicePresence

`realtime/session.handlers.ts`, `socket-io.gateway.ts`,
`in-memory-device.repository.ts` and `server-runtime-tracker.ts`, for one
device with several sockets. `Accept`, `Heartbeat` and `Drop` change memory at
once and start a task; a task is the list of statements of the method behind it
(`next`), of which any may fail. `Boot` reads what is open and repairs it,
`ClearSessions` empties `socket_datas`; `Shutdown`, `StopRun` and `Exit` are the
signal handler; `Exit` from any phase is a crash. `ServerHeartbeat` updates the
time a later boot takes for the end of this run.

### AlertLifecycle

`alert.service.ts` and its repository for one rule on one device, with
`telemetry-ingest.handlers.ts`. `Receive` is the handler up to the await of
`updateAdxlHealth`, `Resume` the evaluation after it, which may come out of
order. `LandWrite` is MySQL executing an upsert nobody waits for. Operator
actions, setpoint and rule changes, deletion of the device in its four stages
and the reload at boot are the other actions.

### TelemetryIngressGuard and IngressPolicy

`IngressPolicy` says what the guard promises: a message is refused if its id
was accepted within the window, or if the accepted messages of the last minute
reach a limit; it keeps *all* times. `TelemetryIngressGuard` is the code: keys
made from device and id, pruned lists and maps. It instantiates the policy with
its history variables as the refinement mapping, and `ImplementsPolicy` states
that `evaluate` gives the policy's answer to every message.

### ImportJobs

`sgpdata-import.service.ts`, `sgpdata-import.worker.ts` and the import side of
`sgpdata-job.repository.ts`, with as much of the telemetry table as the promises
of a job need. Uploads, requests, the sweep of expired uploads and the worker
are four kinds of tasks; each holds the copy of the row it read, and every
update writes that whole copy back (`Persist`), rows that are gone included.
`Ingest` is the device sending telemetry in the middle.

### SpectrumFrames

`spectrum-storage.service.ts` for one device. `Ingest` finds or makes the frame
of a message; a complete one becomes a `persists` task: temporary file, rename,
row. `Flush` is the timer. `Export` and the `Import...` actions are the archive
side, `Purge...` the three purges, which differ in what they delete
(`ToDelete`). The foreign key to `devices` refuses late rows.
`purgeDeviceFramesBatchUntil` takes `BatchSize` rows at a time (1000 in the code),
the oldest first, and the route repeats it until nothing was deleted
(`PurgeRead`, `PurgeDelete`, `PurgeUnlink`, `PurgeNext`). Rows without a uuid may
name one path twice, once an archive of the device itself was merged: a batch that
ends between two such rows unlinks the file of the second. `purge.parted` has
these paths. The next batch takes the second row; if the job ends early the path
is `spoilt`, as is one that an import and a purge were at work on at once.
A device is taken not to repeat an axis of a frame within one millisecond.

### DeviceRegistry

`modules/device/device.service.ts` and `in-memory-device.repository.ts`,
`modules/zone/zone.service.ts`, the routes of both and the handlers of
registration, device state and sensor status. A task of `tasks` is a request or
a message between two awaits; `RequestStep` and `TaskStep` take it on, and the
write of a record a step of its own (`Stored`). A record is a name (all that
users may edit), a zone and the sensor's health. The removal route is
`Delete`, `DeleteNext`, `DeleteRow` and `Forget`, statement by statement, against
`Arrive`: rows of other tables that refer to the device. Zones follow the foreign keys
(`Follows`): a rename cascades into the rows, not into memory.

### TelemetryStore

`mysql-telemetry.repository.ts` for one device and one metric, with the export
worker, the part of the import that writes telemetry and the clearing job. A
point is `Insert`, `CountHour`, `CountMetric`; a history is `CountHistory`,
`ReadHistory`, `Answer`; an export reads batch after batch by its cursor.
`RebuildHourlySummaries` is one step, as its transaction is under InnoDB's locks.
`off` has the hours the code is known to leave wrong: rows deleted or
overwritten without a rebuild, an identical point counted again, points whose
counting a rebuild or the end of the run cut in two.

### SchemaBoot

`mysql-schema.ts` and `mysql-access.ts`. `Script` is the script in its order;
statements that only add or take away a name are data of it (`Create`, `Add`,
`DropTable`, `Rename`), statements that rewrite rows are actions. Each asks
first, as the SQL asks `information_schema`, and is refused by rows that
contradict a key it adds. `StatementFails`, `Unreachable` and `Crash` end a boot
anywhere; `Serve` is the end of it, `StartUp` the next. `AddZone`, `PlaceDevice`
and `Ingest` are the server at work between boots.

### Dashboard

`client/App.tsx` and the data helpers it parses with, for a device with two
axes. `Receive` takes a socket message into the queues, `FlushDue` is the timer
that merges and shows them, `Ask...`/`Serve`/`Arrive` are requests, of which the
server answers each from what it is when it serves it. `CardPrefetch` and
`Reconcile` belong to the device page, `ClearDeviceChartData` is the clear.

### ClientChart and TrendView

`ClientChart` is the hook that selects ranges (`Pick`, `Show`, `Close`), with its
cache of some ranges for each device, the request of which only the latest
counts, prefetch and live readings (`Deliver`, `Hear`). `TrendView` is what the
chart makes of the loaded range: which window is looked at, which tiles are asked
for (`BuildTileRequests`, `TileTimerFires`, `TileAnswered`), rows and buckets with
the gaps between them, the points drawn, and the playback.

### SpectrumPanel and ChartDialogs

`SpectrumPanel` is the frame under the pointer: requests numbered so that only
the latest is heard, the cache, the bars and the division of the dialog's body.
The cache is a JavaScript `Map`: a key stored again keeps its place, so it may be
the next one dropped (`Remember`). `ChartDialogs` has the dialogs over the chart:
axis names with the placement of the sensor, setpoints, the clearing job that is
polled, the calendar. `early` has the devices renamed before their placement was
heard.

### The pages

`ZonePage`, `OtaPage` (the routes of firmware and campaigns with it),
`ThresholdAnalysis` (service and page), `JobPanels` (the hooks of import and
export), `Kiosk` (screenshots and version checks) and `DevicePage` (cards,
filters, dialogs). Each has its gestures, its requests (a set), what the server
does with them, and the answers, which may come when the page shows another
thing or is gone. `ClientPages` composes them with `Dashboard` and the two
modules above: a behaviour visits one, as the client mounts one. `MCClientPages`
gives them a small world.

## Runs

| Run | Module, configuration | Question |
|---|---|---|
| `commands` | `MCCommandLifecycle`, `Commands.cfg` | Do acks, sweep, deletion, failure and restart keep memory and table in step, acks kept, outcomes final, and is a command nobody acknowledges timed out? |
| `commands_sweep_blocked` | `MCCommandLifecycle`, `CommandSweepBlocked.cfg` | The same with one device deletion: it is not (finding) |
| `server_boot` | `MCServerBoot`, `ServerBoot.cfg` | Do session, tables and history tell the truth through reconnects, failures and crashes? Does a boot that dies anywhere leave a schema the next one brings up to date, without loss? |
| `device_registry` | `MCDeviceRegistry`, `DeviceRegistry.cfg` | Do memory and table agree, are answered updates kept, does a removed device stay away? |
| `alerts` | `MCAlertLifecycle`, `AlertLifecycle.cfg` | Do alerts follow readings, once each, and tables follow memory? |
| `ingress_guard` | `MCTelemetryIngressGuard`, `IngressGuard.cfg` | Does the guard refine the policy? |
| `telemetry_store` | `MCTelemetryStore`, `TelemetryStore.cfg` | Do summaries, histories and exports say what the rows say? |
| `imports` | `MCImportJobs`, `ImportJobs.cfg` | Do import jobs keep their promises beside sweep, second requests, errors, restart and live telemetry? |
| `imports_end` | `MCImportJobs`, `ImportEnds.cfg` | Does every queued job end? |
| `spectrum_frames` | `MCSpectrumFrames`, `SpectrumFrames.cfg` | Do frames join what belongs together, and can every row be read? |
| `client_pages` | `MCClientPages`, `ClientPages.cfg` | Do answers find their page, is the newest shown and the end of what was begun? |
| `client_chart` | `MCClientChart`, `ClientChart.cfg` | Does a chart show every reading of its range, and does what it draws hold? |

`commands`, `server_boot`, `client_pages` and `client_chart` ask about several
modules or plans at once: a variable of the MC module (`plan`, `followed`,
`visited`, `looked`) is chosen at the start and never changes, so the behaviours
of one choice are those of a run of its own.

### Bounds, and why they are enough

- `commands`: the plan "outcomes" has one command, three acks and a history of
  two, so that an ack displaces another; one deletion, one failure, one restart,
  clock up to 1 with a timeout of 1. Commands share no record, so one shows
  every overlap on a record. The plan "timeouts" has two commands, one of them
  OTA with the longer timeout, one ack, one failure, one restart, clock up to 2:
  a sweep that fails at the first must reach the second in a later tick.
- `server_boot`: two sockets (old and new), one heartbeat, two tasks at a
  time, one failed statement, two ends of a server run, so that a boot repairs
  what an interrupted boot left; devices share nothing there. Databases of four
  ages (none, first release, between, last; with orphan points too), each with the rows its
  statements look for, three cuts and three uses between boots.
- `device_registry`: two devices, two names, a zone with two codes and one more,
  two tasks at a time, three requests, one restart, one row that arrives during
  a removal; it starts from any tables an earlier run may have left.
- `alerts`: three alert ids, readings 1 and 2, setpoints 0 (none, so default 2)
  and 1, three messages, two operator actions, one change, two writes under way,
  one deletion, one restart.
- `ingress_guard`: two devices, two ids and none, limits 2 and 3, windows of 1
  and 2, times to 5: every list fills, expires and fills again, at the exact
  boundary and beside it.
- `telemetry_store`: an hour is two ticks, a day four; up to two rows stored
  before, an archive of an earlier day or none, one new point, two tasks, one
  crash, an export at a time in batches of one, so that a cursor crosses every
  change.
- `imports`: two uploads with overlapping ranges, two requests of either mode,
  two points, and one fault, which is a failed statement or a restart.
  `imports_end` has the same jobs, requests and faults with empty archives and
  no ranges, as what a file holds does not decide whether its job ends.
- `spectrum_frames`: two axes, of the code's three, so that four messages are
  two frames (a resend of the same id, or one with an id and one without);
  clock up to 2, match window 1, flush after 2; one merge, purge, error and
  restart each; a batch purge takes two rows, so that a batch may end between the
  two rows of a path.
- `client_pages`: the dashboard has one device, two axes (three in the code) and
  a buffer of two frames (six), so that one frame is pushed out, and small
  numbers of server changes for each scenario; a page has a budget of two to
  five gestures and losses, enough for a request, another thing shown, and the
  late answer. Equal requests of one kind are one. Months, faces and names of
  the dialogs are one each, jobs one, as nothing compares two of them.
- `client_chart`: two devices, presets of 4 and 6 ticks and one day, a cache of
  two ranges for each device (twelve in the code), and two mixes of gestures: one
  reading, two picks and a switch, or two readings and two switches. The presets are long against the ticks because
  arrivals are pruned by the window before. The trend view has two histories of
  sixteen ticks, with an outage and an offline time each crossing tiles, two
  levels of tiles and two gestures.

`CHECK_DEADLOCK FALSE` is set where bounds on the environment run out and the
server then waits for messages that do not come.

### Fairness

Safety holds without any. Liveness is checked under these:

- `commands`: the clock advances, Node fires the interval of the sweep
  (`setInterval` in `index.ts`), MySQL answers each statement of the sweep with
  a result or an error, and Node resumes the sweep after it. Devices, operators
  and crashes are not fair.
- `imports_end`: each statement of the worker and of a request is answered and
  `drain` goes on while the queue is not empty, which its loop does; uploads,
  sweeps and devices are not fair.
- `client_pages`: messages that came are handled, the flush timer fires, an
  answer that is on its way arrives (weak). The server serves a request that is
  asked again and again, and lists that are asked again and again are not lost
  for ever (strong: the browser or the abort timer ends each attempt, and the
  interval of `loadDeviceInventory` starts the next). Polling intervals fire,
  the queue of a firmware campaign goes on, the check of the version is due
  every 15 s and has a timeout of 5 s, and a reload that was started happens.
  Users, devices and jobs are not fair.
- `client_chart`: the server answers and answers arrive (weak), also the timer
  of the playback.

## Proofs

TLAPS proves 41 listed theorems, for any number of commands, acks, devices,
sockets, alerts, jobs, archives, axes and requests, any windows, limits and
bounds. Those in bold state a property that a run checks.

| Module | Theorem | Says |
|---|---|---|
| `CommandLifecycleProofs` | `TypeCorrect`, `RecordsAlwaysCoherent` | types; no record mixes two outcomes |
| | **`MemoryAgreesWithTable`**, **`AcceptedAcksStay`**, **`OutcomesAreFinal`** | all safety properties of `commands` |
| `DevicePresenceProofs` | `TypeCorrect`, **`SessionFollowsSocket`**, **`BootLeavesNobodyOnline`**, **`HistoryTellsAlways`** | types; the session is that of the newest socket, a boot repairs, the history tells what happened |
| `AlertLifecycleProofs` | `TypeCorrect`, `ActiveAlwaysOpen`, `AlertsMoveOn`, **`OneOpenAlertOnly`**, **`AlertFollowsReading`**, **`TableFollowsMemory`** | types, the index, the order of statuses, and all properties of `alerts` |
| `TelemetryIngressGuardProofs` | `TypeCorrect`, **`RateAlwaysKept`**, `IdsOncePerWindow`, **`MemoryAlwaysBounded`**, **`GuardImplementsPolicy`** | types; rates and windows are kept in bounded memory; the guard refines the policy |
| `SpectrumFramesProofs` | `TypeCorrect`, **`AxesAlwaysBelongTogether`**, **`RowsAlwaysMatchFiles`** | types, and all properties of `spectrum_frames` |
| `StoredTelemetryProofs` | `TypeCorrect`, **`FilesAlwaysMatchRows`**, **`CompletedAlwaysStored`**, **`OutcomesStand`** | of `ImportJobs`: types, and all properties of `imports` |
| | **`SumsAlwaysMatch`**, **`CompleteAlwaysWhole`** | of `TelemetryStore`: summaries are those of the rows; what calls itself complete is |
| `DeviceRegistryProofs` | `TypeCorrect`, **`MemoryMatchesTableAlways`**, **`AnsweredNameKeptAlways`**, **`RemovedStaysAwayAlways`** | types, and all properties of `device_registry` |
| `ClientPagesProofs` | **`AnswersFindTheirPageAlways`**, **`NamesFollowPlacementAlways`**, **`ClearedStaysClearedAlways`**, **`SpectrumAlwaysOfTarget`**, **`WorkIsAccountedForAlways`**, `LoadingAlwaysAsks`, `CompletedAlwaysTellsAll`, `PicturesAlwaysOnTheirWay` | the safety properties of `client_pages` but for `NewestIsShown`, and parts of one of them |

**Assumptions** are those named in the modules: types of the constants and
distinct markers (`CommandAssumption`, `PresenceAssumption`, `AlertAssumption`,
`GuardAssumption`, `SyntheticAssumption`, `ImportAssumption`,
`RegistryAssumption`, `PagesAssumption`, `StoreAssumption`, which also has the
rows an earlier run left finitely many, with ids of their own); in `DeviceRegistry` also that the
devices are finitely many and that a task is not the marker for none
(`JobAssumption`); in `ClientPages` that frames hold numbers and that there is a
bar to draw (`SpectrumAssumption`), that samples are magnitudes and a bin is wider
than none (`SamplesAssumption`), and that the devices of the page are finitely
many, numbered in their order, and a page has room for a card (`CardsAssumption`). `GuardImplementsPolicy` alone also assumes
`KeysDistinct`: no two pairs of device and message id are joined to one key. The
code does not make sure of that (see the findings below).

The arguments. No property is inductive as it stands; each needs to know what
the steps under way carry.

- **Commands.** A write in flight is stored later, and the sweep writes from
  records it read earlier. `CommandInv` adds that what is in flight is coherent
  and that the sweep's candidates were sent and overdue when read
  (`InFlightCoherent`), that a record which is not `raced` has one write in
  flight at most, computed from what memory still holds (`Unraced`), that its row
  is then one write or one DELETE ahead of memory (`InStep`), and that an
  accepted ack is in memory, in the row and in the write between them, or as many
  as the limit came after it (`AcksHeld`). The proof sees every action as one of
  seven steps of a single command (`StepOf`).
- **Presence.** `PresenceInv`: each task carries what its statements need, and
  while the server is down nothing is connected. `BootInv` adds for the boot that
  open online intervals and a session row are left only while the statement that
  removes them is still to come (`Loading`), that boot tasks exist only then, and
  that until the first connect nothing else is under way
  (`QuietUntilConnected`). `HistoryInv` has what the tables tell in the middle of
  each kind of task, statement by statement (`ConnectTells`, `TouchTells`,
  `CloseTells`, `BootTells`), and between tasks (`Settled`).
- **Alerts.** `ActiveIsOpen` needs only the shape of the repository: records,
  index and what a step does to both. `OneOpenAlert` and `AlertTellsReading`
  need that the verdict is cleared by whatever changes rule, setpoint or alert;
  `TableTellsMemory` that the last pending write of an alert that is not `loose`
  carries the record memory has.
- **Guard.** Each pruned list is what is `LeftOf` the history, the suffix
  younger than the window; by time order the count of the last minute is the
  same in both. For keys the map holds the time of the last acceptance where it
  is younger than the window. With distinct keys, answers agree. That memory is
  bounded follows from an injection: every key has an accepted message of its own
  in the list of all recent ones (`KeyPlaces`).
- **Spectra.** `FramesInv`: whatever names a path means the same content by it
  (`OneContent`), a path still to be given is a new one (`PathsGiven`, from which
  `FreshPath`), and a path that a task writes to is in no row yet and in nobody
  else's hands (`TasksOwnPaths`). So a row loses its file only to a purge and an
  import at work on one path, or to a batch that took the other row of its path
  (`PurgeInv`, `ImportInv`). The theorem has the second case in full: while the
  purge goes on, the row is in its scope and ahead of it.
- **Imports.** `JobInv` says how far an upload is (`UploadStage`), what the
  worker has stored of the file and left of the range it replaces
  (`WorkerStores`), that the queue names a job once (`QueueOnce`), and for a job
  that no two contended for that whoever holds a copy of its row may write it
  (`JobStage`). A settled row is written again only for `contested` jobs.
- **Telemetry.** `StoreInv`: in an hour that is not marked `off`, every point that
  is stored and not yet counted has a row of its own with its time and value
  (`RowsOfPoints`), and the summaries of the hour are those of its rows without
  the rows such points still owe (`HourTold`, `MetricTold`). So counting a point
  adds its row to the set a summary is of, and a step that writes, removes or
  overwrites rows keeps in the hours it does not mark what summaries see of them
  (`SameHour`, `WrittenOver`, `WithPointGood`). Under it lie what one row more
  does to count, ends and mean: a sum by recursion over sets is independent of
  the order (`PartialSums`, `AnyFirst`, `SumAdds`), and the upsert's running mean
  is the mean of all in lowest terms (`Lowest`, `SameFraction`, `MeanCountsOn`,
  `MetricAdds`). `StoreWhole`: an export that nothing disturbed has read, in
  order, rows of its range, and whatever was counted and is not read lies behind
  the last row read (`ExportRunning`); at the end the file has the counted rows
  and as many, so it is they in order (`OrderIsForced`).
- **Devices.** `RegistryInv`: tasks that met at a device are marked
  (`Crossings`); what an unmarked task is to write is what memory holds
  (`SetInMemory`); a device that is clean is in the table as in memory, or a task
  is about to make it so (`CleanMatches`); after an answered removal no task
  holds the device, and its row went before the answer (`GoneAway`); an answered
  name is in memory, in the row and in whatever a task may yet write
  (`ToldKept`).
- **Pages.** A page is proved on its own and the composition from the fact that
  a step of one page leaves the others alone. The invariants (`OtaInv`,
  `DeviceInv`, `PanelInv`, `ZoneInv`, `DialogInv`) say which requests under way
  are still heard: those with the number of the dialog that is open. `ClearInv`
  says that requests have numbers, and one older than the last clear of its
  device is dropped when its answer comes; `PendingInv` that no card counts more
  requests than are under way for it, and a loading one counts at least one. `AxisInv` has the names of the axes
  fit the placement also in what a dialog read and in what it is about to write.
  `CardsInv` has the page sized and the devices of its list numbered; the place
  of a card is the number of those before it, and places are a bijection to
  1 .. n (`PlacesDiffer`, `PlacesAreTaken`), which pages cut in intervals
  (`PageOfPlace`, `FullPages`).
  `AnalysisInv` has a device of a job done exactly when one row of its results
  tells of it; `KioskInv` has a timer or an attempt for every picture.
- **Spectrum panel.** `SpectrumInv`: only the request with the latest number is
  heard, it asks for the row pointed at (`AskedFor`), and what the cache holds under a key is
  of that key (`FramesKept`, `FrameOfKey`), also after it was replaced in place. That each
  share of the bins contributes its highest is shown by least counterexample:
  the places of a sequence are naturals, whose subsets have a least element
  (`LeastOfNaturals`). `LayoutInv` with the division of integers
  (`SharesFit`) gives the layout.

**Only model-checked**, and why:

- *Liveness* (`UndisturbedTimesOut`, `QueuedEnds`, `NamesCatchUp`,
  `EndsAreShown`, `ChartSettles`) rests on fairness, and the prover does not
  handle `ENABLED`.
- *Answers made of many rows* (`SummariesAnswerAsRows` of `TelemetryStore`;
  `NothingDropped`, `GapsAreTrue`, `ReadyMeansLoaded`, `AnswerKeepsUp` of the
  chart; `NewestIsShown` of `Dashboard`, which merges batches by a fold). They
  add, sort or merge what several hours, buckets or batches hold. The library's
  induction theorems take an operator as a parameter, which the provers cannot
  instantiate, so each such fold needs an induction of its own by a least
  counterexample, as the sums of `TelemetryStore` and its upserts have (`Fold`).
- *The schema script* (`ServedSchemaIsCurrent`, `NothingLost`): the script is one
  fixed sequence of some 150 statements, and what varies is the age of the
  database it finds. The run goes through every statement from databases of four
  ages with a crash at any of them; a proof would repeat the script, statement by
  statement, and generalise only over rows.

## Findings and behaviour to know of

- **Finding** (`commands_sweep_blocked`): a deletion that removes a device but
  leaves a command in memory makes every later sweep fail at that command, as
  its upsert hits the foreign key; commands behind it in the map are never timed
  out until a restart.

The following came up while modelling. The modules have these behaviours and
the properties leave exactly them out; most are under "hazards" in
`PROJECT.json` with a note.

*Server.* The ingress guard joins device and id by a colon, so that `a` with
`b:1` and `a:b` with `1` share a key (`telemetry-ingress-guard.ts:106`, against
`README.en.md:394`). Two requests for one upload may both read `preview_ready`
and both be accepted (`sgpdata-import.service.ts:181`, `:198`). On a database of
the first release with points of a device that is gone the script is refused at
its hourly summary (`mysql-schema.ts:925`), before the clean-up its comment at
1486 promises. The new code of a zone reaches its devices' rows by the foreign
key and not the memory: a removal that was not forced goes through as if the
zone were empty, and the next whole-record write of such a device is refused;
where that is a sensor status nobody catches the refusal. A removal is half done
when rows arrive between its statements. `POST /api/devices` and imports drop
the sensor health of a known device. Clearing and retention leave the hourly
summaries as they are, a failed import does not rebuild them. A merge enters
exported points without a key a second time, and such points of one millisecond
collapse. A point with the message id of one row and the uuid of another is
refused, uncaught. The export file of a run that crashed is never unlinked. A
purge and an import may leave a spectrum row without its file, and so may a purge
in batches that stops where the two rows of a merged frame without a uuid fall in
two batches (`spectrum-storage.service.ts:434`); an import and a
crash files without a row. A point that repeats a stored one to
the last value is counted again in its hour: mysql2 asks for `FOUND_ROWS` by
default, so an upsert that changes nothing reports one row
(`mysql-telemetry.repository.ts:1182`). A deletion of a device's commands whose
reply is lost leaves them in memory (`mysql-command.repository.ts:144`).
Two screenshots of one display stored at once may end
as the image of one with the record of the other.

*Client.* A heartbeat queued before an inventory answer and flushed after it
shows a device online again; health and axis labels are not in the signature that
decides whether an answer is taken (`App.tsx:1222`). The first load of alerts may
overwrite a later alert message. A device that registers again after its removal
stays hidden until a reload. Ranges in the chart's cache are not dropped when
data are cleared (`clearDevice` has no caller). Readings heard while a fixed
range is active and a live one is loading are not kept for it
(`useChartRangeController.ts:387`). A tile left out by a newer pass because an
older one had it under way is lost with the older one (`SensorChartModal.tsx:3127`),
and tiles that failed are not asked for again until the view moves. An aborted
spectrum request that is then throttled leaves the panel loading. A rename of an
axis whose read of the placement fails overwrites the placement
(`SensorChartModal.tsx:1352`); one before the placement was heard names the wrong
axis. The zone list has no sequence number: an older answer may be shown. A late
answer to a restored analysis replaces the one just started; after a restart of
the server the page polls a job that is gone. A late `track` of a restored import
or export replaces the new one.

## What is not modelled

- *Payloads*: parsing and validation of messages, units, signal processing,
  drawing. They are functions of their input that unit tests reach. The
  arithmetic of thresholds, tiles, buckets and gaps is modelled, on integers.
- *Archive format* (`sgpdata-parser.ts`): bytes, a checksum and JSON lines in one
  pass over a file.
- *MySQL itself*: statements are atomic and obey unique and foreign keys; lock
  timeouts appear as retries (`InsertRetried`).
- *Broadcasts to dashboards* change no server state; the client modules have
  them as messages that may be lost with the connection.
- *Authentication, audit, tools*: no or hardly any state that several steps
  share.
- *Telemetry*: rounding of means, `applyRetention` and the mode "idempotent"
  (nobody calls them), two clearing jobs of one device at once.
- *Client*: the 3D scene of the motor, the zoom of the vertical axis, the bands
  of the overview, the fetch of the status history (debounced), the dialog with
  a device's own web page, peak labels and marks of the spectrum, suppression of
  the brush while it is synchronised, the speed of the playback, fading of
  dialogs. Of the analysis one metric of the four; its zone and day filters are
  one choice of devices.

Status and reason for every component are in `PROJECT.json`.

## Plan

Written, in this order: commands, presence, alerts, the guard and its policy,
imports, spectra; then schema and boot, devices and zones, telemetry storage
with exports, the dashboard, the chart and its dialogs, the pages; then the
proofs, server first. Left:

1. A proof of `SummariesAnswerAsRows` from `SumsAlwaysMatch` and the arithmetic of
   hours and days; then the rows and buckets of the chart.
2. An abstract job (queued, running, settled for good) that `ImportJobs` and the
   export of `TelemetryStore` implement where requests do not overlap.
3. The fetch of the status history with its debounce, and the vertical axis.

## Running the checks

    tlc -workers 2 -config AlertLifecycle.cfg MCAlertLifecycle
    tlapm AlertLifecycleProofs.tla

`PROJECT.json` lists runs, mutants, theorems, hazards and, for every definition
that models code, the lines it stands for.
