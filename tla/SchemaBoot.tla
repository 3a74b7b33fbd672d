------------------------------- MODULE SchemaBoot -------------------------------
(***************************************************************************)
(* The schema script that a server runs at every boot (MYSQL_SCHEMA_SQL by *)
(* MySqlAccess.ensureReady) on a database of any age, and what the server  *)
(* then does with it.  MySQL commits each statement of the script on its   *)
(* own: a server that dies leaves the tables as the last statement left    *)
(* them, and the next boot starts over from the first.                     *)
(*                                                                         *)
(* A table is what it has (columns, keys and foreign keys, by name) and    *)
(* its rows.  A row keeps the columns some statement of the script looks   *)
(* at.  Statements that only add a name or take one away are data of the   *)
(* Script; a statement that rewrites rows is an action.                    *)
(***************************************************************************)
EXTENDS Integers, Sequences, FiniteSets, FiniteSetsExt

CONSTANTS
  Databases,   \* the databases a first boot may find
  Zones,       \* codes of zones the users may add
  NoZone, Null,
  Blank,       \* an empty string, or the word for none
  Fallback,    \* DB_FALLBACK_ON_UNAVAILABLE
  \* Bounds of the model.
  MaxCuts, MaxUses

ASSUME SchemaAssumption ==
  /\ NoZone \notin Zones /\ Null \notin Zones /\ Fallback \in BOOLEAN
  /\ MaxCuts \in Nat /\ MaxUses \in Nat

VARIABLES
  stage,     \* "down", "script", "mysql", "memory" or "failed"
  pc,        \* the statement to run
  counted,   \* @hour_metric_counts_preexisting, of the connection
  db,        \* the tables there are
  allowed,      \* what is left of the bounded events
  \* History variables, read by the properties only.
  first,     \* the database of the first boot
  placed,    \* the zone last given to each device by a server
  cut        \* a run ended between adding the count columns and filling them

svars == <<stage, pc, counted, db, allowed, first, placed, cut>>

-----------------------------------------------------------------------------
(* The script.                                                             *)

Rename(from, table) == <<[op |-> "rename", table |-> table, arg |-> from]>>
Create(table)       == <<[op |-> "create", table |-> table, arg |-> table]>>
Do(table, arg)      == <<[op |-> "do", table |-> table, arg |-> arg]>>

Each(op, table, args) == [i \in DOMAIN args |-> [op |-> op, table |-> table, arg |-> args[i]]]

Add(table, args)  == Each("add", table, args)
DropTable(table, args) == Each("drop", table, args)

\* What CREATE TABLE gives a table that was not there.
Created ==
  [devices |-> {"id", "uuid_not_null", "adxl", "uq_device_id", "uq_uuid", "axis_label_ax", "axis_label_ay",
                "axis_label_az", "vibration_setpoint", "acceleration_setpoint", "displacement_setpoint",
                "temperature_setpoint", "pk_id"},
   zones |-> {"uq_code"},
   socket_datas |-> {"id", "uq_device_id", "pk_id", "fk_device"},
   server_runtime_history |-> {}, device_status_history |-> {"uq_interval", "fk_device"},
   alert_rules |-> {}, alerts |-> {"fk_rule", "fk_device"},
   audit_logs |-> {"device_nullable", "fk_device"}, device_commands |-> {"fk_device"},
   data_export_jobs |-> {"fk_device"}, data_import_jobs |-> {},
   device_datas |-> {"telemetry_uuid", "adxl", "uq_message_id", "vrms_x", "vrms_y", "vrms_z", "vrms_unit",
                     "drms_x", "drms_y", "drms_z", "drms_band_min", "drms_band_max", "drms_unit",
                     "uq_telemetry_uuid", "idx_received_at", "fk_device"},
   hour_summaries |-> {"fk_device"}, hour_metric_summaries |-> {"counts", "fk_device"},
   app_schema_migrations |-> {},
   spectrum_frames |-> {"uq_device_uuid", "device_data_id", "idx_data_id", "idx_captured_at", "idx_size",
                        "fk_device", "fk_data"}]

RenameSteps ==
  Rename("device_metadata", "devices") \o Rename("device_sessions", "socket_datas")
    \o Rename("socket_disconnect_events", "device_history_connection")

FirstTables ==
  Create("devices") \o Create("zones") \o Create("socket_datas") \o Create("server_runtime_history")
    \o Create("device_status_history")

HistorySteps ==
  Do("device_history_connection", "online") \o Do("device_history_connection", "offline")
    \o Do("device_history_connection", "drop") \o Do("socket_disconnect_events", "online")
    \o Do("socket_disconnect_events", "offline") \o Do("socket_disconnect_events", "drop")
    \o Do("device_status_history", "close") \o Do("device_status_history", "open")

DeviceKeySteps ==
  Add("devices", <<"id">>) \o Do("devices", "fill_uuid")
    \o Add("devices", <<"uuid_not_null", "adxl", "uq_device_id", "uq_uuid">>)

DeviceColumnSteps ==
  DropTable("devices", <<"zone_wide">>)
    \o Add("devices", <<"axis_label_ax", "axis_label_ay", "axis_label_az", "vibration_setpoint",
                        "acceleration_setpoint", "displacement_setpoint", "temperature_setpoint">>)

DeviceRetiredSteps ==
  DropTable("devices", <<"idx_archived_at", "archived_at", "sensor_version">>)
    \o Each("swap", "devices", <<"pk_id">>)

SessionKeySteps ==
  Add("socket_datas", <<"id", "uq_device_id">>) \o Each("swap", "socket_datas", <<"pk_id">>)

AlertSteps ==
  Create("alert_rules") \o Create("alerts") \o Do("alert_rules", "seed") \o Do("alerts", "resolve")
    \o Do("alerts", "temperature") \o Do("alerts", "velocity") \o Do("alert_rules", "retire")

LogTables == Create("audit_logs") \o Create("device_commands") \o Create("data_export_jobs")

TelemetryRenames ==
  Rename("telemetry_messages", "device_datas") \o Rename("sensor_readings", "device_datas")
    \o Rename("sensor_datas", "device_datas")

TelemetryTables ==
  Create("device_datas") \o Create("data_import_jobs") \o Create("hour_summaries")
    \o Create("hour_metric_summaries")

AvailabilitySteps ==
  Create("app_schema_migrations") \o Do("hour_summaries", "availability")
    \o Do("app_schema_migrations", "availability_done")

SessionRetiredSteps ==
  DropTable("socket_datas", <<"client_ip", "socket_connected", "sta_connected", "signal_strength", "uptime_sec">>)

TelemetryRetiredSteps == DropTable("device_datas", <<"sample_rate_hz", "lsb_per_g", "available", "uuid">>)

CountSteps ==
  Add("device_datas", <<"telemetry_uuid">>) \o Do("hour_metric_summaries", "counts_preexist")
    \o Add("hour_metric_summaries", <<"counts">>) \o Do("hour_metric_summaries", "fill_counts")
    \o Add("device_datas", <<"adxl">>)

MessageSteps ==
  Do("device_datas", "empty_messages") \o Do("device_datas", "same_messages")
    \o Add("device_datas", <<"uq_message_id">>)

VelocityColumns ==
  Add("device_datas", <<"vrms_x", "vrms_y", "vrms_z", "vrms_unit", "drms_x", "drms_y", "drms_z",
                        "drms_band_min", "drms_band_max", "drms_unit">>)

UuidSteps ==
  Do("device_datas", "empty_uuids") \o Do("device_datas", "same_uuids")
    \o Add("device_datas", <<"uq_telemetry_uuid">>)

\* Mutant: an index that only new tables get.
SpectrumColumnsWithoutSize ==
  Add("spectrum_frames", <<"device_data_id", "idx_data_id">>) \o Add("device_datas", <<"idx_received_at">>)
    \o Add("spectrum_frames", <<"idx_captured_at">>)

SpectrumColumns ==
  Add("spectrum_frames", <<"device_data_id", "idx_data_id">>) \o Add("device_datas", <<"idx_received_at">>)
    \o Add("spectrum_frames", <<"idx_captured_at", "idx_size">>)

AuditSteps == Add("audit_logs", <<"device_nullable">>) \o Do("audit_logs", "no_device")

OrphanSteps ==
  Do("socket_datas", "orphans") \o Do("alerts", "orphans") \o Do("audit_logs", "orphans")
    \o Do("device_datas", "orphans") \o Do("spectrum_frames", "orphans")

LinkSteps == Do("spectrum_frames", "link") \o Do("spectrum_frames", "unlink")

ZoneSteps == Do("devices", "reset_zones") \o Do("devices", "valid_zones")

ForeignKeySteps ==
  Add("socket_datas", <<"fk_device">>) \o Add("alerts", <<"fk_rule", "fk_device">>)
    \o Add("audit_logs", <<"fk_device">>) \o Add("device_commands", <<"fk_device">>)

DataForeignKeySteps ==
  Add("device_datas", <<"fk_device">>) \o Add("spectrum_frames", <<"fk_device", "fk_data">>)
    \o Add("devices", <<"fk_zone">>)

Script ==
  RenameSteps \o FirstTables \o HistorySteps \o DeviceKeySteps \o DeviceColumnSteps \o DeviceRetiredSteps
    \o SessionKeySteps \o AlertSteps \o LogTables \o TelemetryRenames \o TelemetryTables
    \o AvailabilitySteps \o Create("spectrum_frames") \o SessionRetiredSteps \o TelemetryRetiredSteps
    \o CountSteps \o MessageSteps \o VelocityColumns \o UuidSteps \o SpectrumColumns \o AuditSteps
    \o OrphanSteps \o LinkSteps \o ZoneSteps \o ForeignKeySteps \o DataForeignKeySteps

-----------------------------------------------------------------------------
(* Statements.                                                             *)

Step == Script[pc]

Running(op) == stage = "script" /\ pc <= Len(Script) /\ Step.op = op

At(table, arg) == Running("do") /\ Step.table = table /\ Step.arg = arg

Next1 == pc' = pc + 1 /\ UNCHANGED <<stage, allowed, first, placed, cut>>

Leaves(db1) == db' = db1 /\ Next1 /\ UNCHANGED counted

Rows(table) == db[table].rows

With(table, rows) == [db EXCEPT ![table].rows = rows]

Writes(table, rows) == Leaves(With(table, rows))

Has(table, name) == name \in db[table].has

Known == {r.device : r \in Rows("devices")}

Without(table) == [t \in DOMAIN db \ {table} |-> db[t]]

\* A table of the old name becomes the new one, unless there is one.
RenameTable ==
  /\ Running("rename")
  /\ IF Step.arg \in DOMAIN db /\ Step.table \notin DOMAIN db
     THEN Leaves([t \in (DOMAIN db \ {Step.arg}) \cup {Step.table} |->
                    db[IF t = Step.table THEN Step.arg ELSE t]])
     ELSE Leaves(db)

CreateTable ==
  /\ Running("create")
  /\ IF Step.table \in DOMAIN db THEN Leaves(db)
     ELSE Leaves([t \in DOMAIN db \cup {Step.table} |->
                    IF t = Step.table THEN [has |-> Created[t], rows |-> {}] ELSE db[t]])

\* Rows that do not let MySQL add a constraint.
Breaks(table, name) ==
  \/ name = "fk_device" /\ \E r \in Rows(table) : r.device \notin Known \cup {Null}
  \/ name = "fk_rule" /\ \E r \in Rows(table) : r.rule \notin Rows("alert_rules")
  \/ name = "fk_zone" /\ \E r \in Rows(table) : r.zone \notin Rows("zones") \cup {NoZone}
  \/ name = "fk_data" /\ \E r \in Rows(table) : r.data \notin {Null} \cup {q.id : q \in Rows("device_datas")}
  \/ name = "uuid_not_null" /\ \E r \in Rows(table) : ~r.filled
  \/ name = "uq_message_id" /\ \E r, q \in Rows(table) : r # q /\ r.device = q.device /\ r.msg = q.msg /\ r.msg # Null
  \/ name = "uq_telemetry_uuid"
       /\ \E r, q \in Rows(table) : r # q /\ r.device = q.device /\ r.uuid = q.uuid /\ r.uuid # Null

AddMissing ==
  /\ Running("add")
  /\ ~Has(Step.table, Step.arg) => ~Breaks(Step.table, Step.arg)
  /\ Leaves([db EXCEPT ![Step.table].has = @ \cup {Step.arg}])

DropPresent == Running("drop") /\ Leaves([db EXCEPT ![Step.table].has = @ \ {Step.arg}])

SwapKey == Running("swap") /\ Leaves([db EXCEPT ![Step.table].has = (@ \ {"pk_device_id"}) \cup {Step.arg}])

-----------------------------------------------------------------------------
(* Statements that rewrite rows.                                           *)

\* INSERT IGNORE leaves out what a key or foreign key refuses.
InsertIgnored(new) ==
  Rows("device_status_history")
    \cup {n \in new : n.device \in Known /\ \A r \in Rows("device_status_history") :
                        <<r.device, r.status, r.from>> # <<n.device, n.status, n.from>>}

Online(e) == [device |-> e.device, status |-> "online", from |-> e.from, to |-> e.to]

Reconnects(events, e) == {n.from : n \in {n \in events : n.device = e.device /\ n.from > e.to}}

Offline(events, e) ==
  [device |-> e.device, status |-> "offline", from |-> e.to,
   to |-> IF Reconnects(events, e) = {} THEN Null
          ELSE CHOOSE t \in Reconnects(events, e) : \A u \in Reconnects(events, e) : t <= u]

ConnectionTables == {"device_history_connection", "socket_disconnect_events"}

HistoryOnline(table) ==
  /\ At(table, "online")
  /\ IF table \in DOMAIN db
     THEN Writes("device_status_history", InsertIgnored({Online(e) : e \in Rows(table)}))
     ELSE Leaves(db)

HistoryOffline(table) ==
  /\ At(table, "offline")
  /\ IF table \in DOMAIN db
     THEN Writes("device_status_history", InsertIgnored({Offline(Rows(table), e) : e \in Rows(table)}))
     ELSE Leaves(db)

HistoryDrop(table) == At(table, "drop") /\ Leaves(Without(table))

\* An interval that was open when a later connection began ends there.
HistoryClose ==
  /\ At("device_status_history", "close")
  /\ Writes("device_status_history",
       {LET later == {s \in Rows("socket_datas") : s.device = h.device /\ h.to = Null /\ h.from < s.from}
        IN IF later = {} THEN h ELSE [h EXCEPT !.to = (CHOOSE s \in later : TRUE).from]
        : h \in Rows("device_status_history")})

HistoryOpen ==
  /\ At("device_status_history", "open")
  /\ Writes("device_status_history",
       InsertIgnored({[device |-> s.device, status |-> "online", from |-> s.from, to |-> Null] : s \in Rows("socket_datas")}))

FillUuids == At("devices", "fill_uuid") /\ Writes("devices", {[r EXCEPT !.filled = TRUE] : r \in Rows("devices")})

SetpointRules == {"device-acceleration-setpoint", "device-vibration-setpoint",
                  "device-displacement-setpoint", "device-temperature-setpoint"}
TemperatureRules == {"temperature-warning", "temperature-critical"}
VibrationRules   == {"vibration-warning", "vibration-critical"}

SeedRules == At("alert_rules", "seed") /\ Writes("alert_rules", Rows("alert_rules") \cup SetpointRules)

ResolveLegacy ==
  /\ At("alerts", "resolve")
  /\ Writes("alerts", {IF a.rule \in TemperatureRules \cup VibrationRules THEN [a EXCEPT !.open = FALSE] ELSE a
                       : a \in Rows("alerts")})

Remap(rules, old, rule, metric) ==
  {IF a.rule \in rules \/ (a.rule = "device-vibration-setpoint" /\ a.metric = old)
   THEN [a EXCEPT !.rule = rule, !.metric = metric] ELSE a : a \in Rows("alerts")}

RemapTemperature ==
  /\ At("alerts", "temperature")
  /\ Writes("alerts", Remap(TemperatureRules, "temperature", "device-temperature-setpoint", "temperature"))

RemapVelocity ==
  /\ At("alerts", "velocity")
  /\ Writes("alerts", Remap(VibrationRules, "vibration", "device-vibration-setpoint", "velocity"))

RetireRules ==
  /\ At("alert_rules", "retire")
  /\ Writes("alert_rules", Rows("alert_rules") \ (TemperatureRules \cup VibrationRules))

AvailabilityDone == "availability" \in Rows("app_schema_migrations")

OrphanTelemetry == \E r \in Rows("device_datas") : r.device \notin Known

\* Points by device; the model has one hour.
Availability ==
  LET counted1 == {r.device : r \in Rows("device_datas")}
  IN {h \in Rows("hour_summaries") : h.device \notin counted1}
       \cup {[device |-> d, n |-> Cardinality({r \in Rows("device_datas") : r.device = d})] : d \in counted1}

FillAvailability ==
  /\ At("hour_summaries", "availability")
  /\ IF AvailabilityDone THEN Leaves(db) ELSE ~OrphanTelemetry /\ Writes("hour_summaries", Availability)

MarkAvailability ==
  /\ At("app_schema_migrations", "availability_done")
  /\ Writes("app_schema_migrations", Rows("app_schema_migrations") \cup {"availability"})

CountsPreexist ==
  /\ At("hour_metric_summaries", "counts_preexist")
  /\ counted' = Has("hour_metric_summaries", "counts")
  /\ Next1 /\ UNCHANGED db

FillCounts ==
  /\ At("hour_metric_summaries", "fill_counts")
  /\ IF counted THEN Leaves(db)
     ELSE Writes("hour_metric_summaries", {[h EXCEPT !.counted = h.n] : h \in Rows("hour_metric_summaries")})

EmptyMessages ==
  /\ At("device_datas", "empty_messages")
  /\ Writes("device_datas", {[r EXCEPT !.msg = IF @ = Blank THEN Null ELSE @] : r \in Rows("device_datas")})

\* Frames of the points that go lose their link, by the foreign key if there is one.
Keeping(kept) ==
  LET ids == {r.id : r \in kept}
      cleared == {IF f.data \in ids THEN f ELSE [f EXCEPT !.data = Null] : f \in Rows("spectrum_frames")}
  IN IF Has("spectrum_frames", "fk_data")
     THEN [With("device_datas", kept) EXCEPT !["spectrum_frames"].rows = cleared]
     ELSE With("device_datas", kept)

\* Mutant: two points without an id are taken for the same message.
SameMessagesOrNone ==
  /\ At("device_datas", "same_messages")
  /\ Leaves(Keeping({r \in Rows("device_datas") :
       ~\E q \in Rows("device_datas") : q.device = r.device /\ q.msg = r.msg /\ r.id < q.id}))

SameMessages ==
  /\ At("device_datas", "same_messages")
  /\ Leaves(Keeping({r \in Rows("device_datas") :
       ~\E q \in Rows("device_datas") : q.device = r.device /\ q.msg = r.msg /\ r.msg # Null /\ r.id < q.id}))

EmptyUuids ==
  /\ At("device_datas", "empty_uuids")
  /\ Writes("device_datas", {[r EXCEPT !.uuid = IF @ = Blank THEN Null ELSE @] : r \in Rows("device_datas")})

SameUuids ==
  /\ At("device_datas", "same_uuids")
  /\ Leaves(Keeping({r \in Rows("device_datas") :
       ~\E q \in Rows("device_datas") : q.device = r.device /\ q.uuid = r.uuid /\ r.uuid # Null /\ r.id < q.id}))

AuditNoDevice ==
  /\ At("audit_logs", "no_device")
  /\ Writes("audit_logs", {[r EXCEPT !.device = IF @ = Blank THEN Null ELSE @] : r \in Rows("audit_logs")})

OrphanTables == {"socket_datas", "alerts", "audit_logs", "device_datas", "spectrum_frames"}

Owned(table) ==
  {r \in Rows(table) : /\ r.device \in Known \/ (table = "audit_logs" /\ r.device = Null)
                       /\ table = "alerts" => r.rule \in Rows("alert_rules")}

DropOrphans(table) ==
  /\ At(table, "orphans")
  /\ IF table = "device_datas" THEN Leaves(Keeping(Owned(table))) ELSE Writes(table, Owned(table))

LinkFrames ==
  /\ At("spectrum_frames", "link")
  /\ Writes("spectrum_frames",
       {LET points == {r \in Rows("device_datas") : r.device = f.device /\ r.uuid = f.uuid /\ f.uuid # Null}
        IN IF f.data = Null /\ points # {} THEN [f EXCEPT !.data = (CHOOSE r \in points : TRUE).id] ELSE f
        : f \in Rows("spectrum_frames")})

UnlinkFrames ==
  /\ At("spectrum_frames", "unlink")
  /\ Writes("spectrum_frames",
       {[f EXCEPT !.data = IF \E r \in Rows("device_datas") : r.id = f.data THEN @ ELSE Null]
        : f \in Rows("spectrum_frames")})

\* The free texts of old go once, before there is a foreign key.
ResetZones ==
  /\ At("devices", "reset_zones")
  /\ IF Has("devices", "fk_zone") THEN Leaves(db)
     ELSE Writes("devices", {[r EXCEPT !.zone = NoZone] : r \in Rows("devices")})

ValidZones ==
  /\ At("devices", "valid_zones")
  /\ Writes("devices", {[r EXCEPT !.zone = IF @ \in Rows("zones") THEN @ ELSE NoZone] : r \in Rows("devices")})

-----------------------------------------------------------------------------
(* Runs of the server.                                                     *)

Spend(event) == allowed[event] > 0 /\ allowed' = [allowed EXCEPT ![event] = @ - 1]

\* MySqlAccess.initialize: one query, of all statements.
StartUp ==
  /\ stage = "down" /\ stage' = "script" /\ pc' = 1 /\ counted' = FALSE
  /\ UNCHANGED <<db, allowed, first, placed, cut>>

Serve ==
  /\ stage = "script" /\ pc > Len(Script) /\ stage' = "mysql" /\ pc' = 0
  /\ UNCHANGED <<counted, db, allowed, first, placed, cut>>

\* A statement MySQL refuses ends the script, and the server with it.
StatementFails ==
  /\ \/ Running("add") /\ ~Has(Step.table, Step.arg) /\ Breaks(Step.table, Step.arg)
     \/ At("hour_summaries", "availability") /\ ~AvailabilityDone /\ OrphanTelemetry
  /\ stage' = "failed" /\ pc' = 0
  /\ UNCHANGED <<counted, db, allowed, first, placed, cut>>

CutsCounts == At("hour_metric_summaries", "fill_counts") /\ ~counted

\* MySQL is out of reach, or lost on the way: the server may work from memory.
Unreachable ==
  /\ stage = "script" /\ Spend("crashes")
  /\ stage' = (IF Fallback THEN "memory" ELSE "failed") /\ pc' = 0 /\ cut' = (cut \/ CutsCounts)
  /\ UNCHANGED <<counted, db, first, placed>>

Crash ==
  /\ stage # "down" /\ Spend("crashes")
  /\ stage' = "down" /\ pc' = 0 /\ cut' = (cut \/ CutsCounts)
  /\ UNCHANGED <<counted, db, first, placed>>

Uses(db1) == stage = "mysql" /\ Spend("uses") /\ db' = db1 /\ UNCHANGED <<stage, pc, counted, first, cut>>

AddZone(z) == Uses(With("zones", Rows("zones") \cup {z})) /\ UNCHANGED placed

PlaceDevice(d, z) ==
  /\ d \in Known /\ z \in Rows("zones")
  /\ Uses(With("devices", {IF r.device = d THEN [r EXCEPT !.zone = z] ELSE r : r \in Rows("devices")}))
  /\ placed' = {p \in placed : p[1] # d} \cup {<<d, z>>}

FreshId == Max({r.id : r \in Rows("device_datas")} \cup {0}) + 1

\* A point adds to the summaries of its hour.
Ingest(d) ==
  /\ d \in Known
  /\ LET old == {h \in Rows("hour_metric_summaries") : h.device = d}
         new == IF old = {} THEN {[device |-> d, n |-> 1, counted |-> 1]}
                ELSE {[h EXCEPT !.n = @ + 1, !.counted = @ + 1] : h \in old}
     IN Uses([With("device_datas", Rows("device_datas") \cup
                     {[id |-> FreshId, device |-> d, msg |-> Null, uuid |-> Null]})
                EXCEPT !["hour_metric_summaries"].rows = (@ \ old) \cup new])
  /\ UNCHANGED placed

SchemaInit ==
  /\ stage = "down" /\ pc = 0 /\ counted = FALSE /\ db \in Databases /\ first = db
  /\ placed = {} /\ cut = FALSE /\ allowed = [crashes |-> MaxCuts, uses |-> MaxUses]

Statement ==
  \/ RenameTable \/ CreateTable \/ AddMissing \/ DropPresent \/ SwapKey
  \/ \E t \in ConnectionTables : HistoryOnline(t) \/ HistoryOffline(t) \/ HistoryDrop(t)
  \/ HistoryClose \/ HistoryOpen \/ FillUuids \/ SeedRules \/ ResolveLegacy \/ RemapTemperature
  \/ RemapVelocity \/ RetireRules \/ FillAvailability \/ MarkAvailability \/ CountsPreexist \/ FillCounts
  \/ EmptyMessages \/ SameMessages \/ EmptyUuids \/ SameUuids \/ AuditNoDevice
  \/ \E t \in OrphanTables : DropOrphans(t)
  \/ LinkFrames \/ UnlinkFrames \/ ResetZones \/ ValidZones

SchemaNext ==
  \/ StartUp \/ Statement \/ StatementFails \/ Serve \/ Unreachable \/ Crash
  \/ \E z \in Zones : AddZone(z)
  \/ \E z \in Zones : stage = "mysql" /\ \E d \in Known : PlaceDevice(d, z)
  \/ stage = "mysql" /\ \E d \in Known : Ingest(d)

SchemaSpec == SchemaInit /\ [][SchemaNext]_svars

-----------------------------------------------------------------------------
(* Properties.                                                             *)

\* A served database has every table, with all that a new one would have and nothing of the old ones:
\* the statements that bring an old table up to date add up to the one that creates it, in whatever
\* statement earlier boots died.  And MySQL refuses no statement of the script, except over points
\* without a device.
ServedSchemaIsCurrent ==
  /\ stage = "mysql" =>
       /\ DOMAIN db = DOMAIN Created
       /\ \A t \in DOMAIN db : db[t].has = Created[t] \cup (IF t = "devices" THEN {"fk_zone"} ELSE {})
  /\ stage = "failed" => ~Fallback \/ OrphanTelemetry

FirstRows(tables) == UNION {first[t].rows : t \in tables \cap DOMAIN first}

FirstDevices == {r.device : r \in FirstRows({"device_metadata", "devices"})}

FirstPoints ==
  {r \in FirstRows({"telemetry_messages", "sensor_readings", "sensor_datas", "device_datas"}) :
     r.device \in FirstDevices}

\* A later point of the same message, or of the same uuid, stands for it.
Superseded(r) ==
  \E q \in FirstPoints : /\ q.device = r.device /\ r.id < q.id
                         /\ (q.msg = r.msg /\ r.msg \notin {Null, Blank}) \/ (q.uuid = r.uuid /\ r.uuid \notin {Null, Blank})

PointsKept ==
  \A r \in FirstPoints : Superseded(r) \/ \E q \in Rows("device_datas") : q.id = r.id /\ q.device = r.device

\* Connections and the times between them have become intervals.
HistoryKept ==
  \A e \in FirstRows(ConnectionTables) : e.device \in FirstDevices =>
    \A i \in {Online(e), Offline(FirstRows(ConnectionTables), e)} :
      \E h \in Rows("device_status_history") :
        h.device = i.device /\ h.status = i.status /\ h.from = i.from /\ i.to \in {Null, h.to}

\* No alert is open under a rule that is gone.
AlertsClosed ==
  \A a \in FirstRows({"alerts"}) : a.device \in FirstDevices /\ a.rule \notin SetpointRules =>
    \E b \in Rows("alerts") : b.alert = a.alert /\ ~b.open /\ b.rule \in SetpointRules

\* Hours summed up before there were counts have them, unless a run ended between the two statements
\* that make and fill the columns: then the next finds the columns and leaves them at zero.
CountsFilled == cut \/ \A h \in Rows("hour_metric_summaries") : h.counted = h.n

\* What was in the first database is in the served one, under its new names, and a zone given to a
\* device by a server outlives every later boot.
ZonesKept == \A p \in placed : \E r \in Rows("devices") : r.device = p[1] /\ r.zone = p[2]
NothingLost == stage = "mysql" => PointsKept /\ HistoryKept /\ AlertsClosed /\ CountsFilled /\ ZonesKept

=============================================================================
