------------------------------ MODULE MCServerBoot ------------------------------
(* What a server finds when it starts and what it makes of it: the database of *)
(* an earlier release, or of none (SchemaBoot), and the sessions of earlier    *)
(* runs (DevicePresence: a device that connects with two sockets over two or   *)
(* three server runs).  The second begins on the schema the first has brought  *)
(* up to date; a behaviour follows one of the two.                             *)
EXTENDS DevicePresence, SchemaBoot, TLC

CONSTANTS s1, s2, d1, d2, gone, z1, m1, u1, u2
VARIABLE followed

MCSockets == {s1, s2}

MCZones == {z1}

Table(has, rows) == [has |-> has, rows |-> rows]

Point(id, d, msg, uuid) == [id |-> id, device |-> d, msg |-> msg, uuid |-> uuid]
Alert(id, d, rule, metric) == [alert |-> id, device |-> d, rule |-> rule, metric |-> metric, open |-> TRUE]

\* The tables of the first release, under their first names and without keys.
FirstRelease(points) ==
  [device_metadata |-> Table({"pk_device_id", "archived_at", "idx_archived_at", "sensor_version", "zone_wide"},
                             {[device |-> d1, filled |-> FALSE, zone |-> z1], [device |-> d2, filled |-> FALSE, zone |-> NoZone]}),
   device_sessions |-> Table({"pk_device_id", "client_ip", "socket_connected", "sta_connected", "signal_strength", "uptime_sec"},
                             {[device |-> d1, from |-> 5], [device |-> gone, from |-> 5]}),
   socket_disconnect_events |-> Table({}, {[device |-> d1, from |-> 1, to |-> 2], [device |-> d1, from |-> 3, to |-> 4]}),
   alert_rules |-> Table({}, {"temperature-warning", "vibration-critical"}),
   alerts |-> Table({}, {Alert(1, d1, "temperature-warning", "temperature"), Alert(2, d1, "vibration-critical", "vibration"),
                         Alert(3, gone, "vibration-critical", "vibration")}),
   audit_logs |-> Table({}, {[device |-> Blank], [device |-> gone], [device |-> d1]}),
   telemetry_messages |-> Table({"sample_rate_hz", "lsb_per_g", "available", "uuid"}, points)]

\* A middle release: new names, telemetry in sensor_datas, frames without their points.
MiddleRelease(points) ==
  [devices |-> Table(Created.devices \ {"adxl", "displacement_setpoint"}, {[device |-> d1, filled |-> TRUE, zone |-> NoZone]}),
   zones |-> Table(Created.zones, {}),
   socket_datas |-> Table(Created.socket_datas, {[device |-> d1, from |-> 5]}),
   device_history_connection |-> Table({}, {[device |-> d1, from |-> 1, to |-> 2]}),
   alert_rules |-> Table({}, SetpointRules),
   alerts |-> Table(Created.alerts, {Alert(1, d1, "device-vibration-setpoint", "temperature")}),
   audit_logs |-> Table({"fk_device"}, {[device |-> d1]}),
   sensor_datas |-> Table({"fk_device", "telemetry_uuid"}, points),
   spectrum_frames |-> Table({"uq_device_uuid"}, {[device |-> d1, uuid |-> u1, data |-> Null], [device |-> gone, uuid |-> u2, data |-> Null]})]

\* The release before: hours are summed up but not counted by column.
LastRelease ==
  [t \in DOMAIN Created |->
     Table(CASE t = "hour_metric_summaries" -> Created[t] \ {"counts"}
             [] t = "devices" -> Created[t] \cup {"fk_zone"}
             [] OTHER -> Created[t],
           CASE t = "devices" -> {[device |-> d1, filled |-> TRUE, zone |-> z1]}
             [] t = "zones" -> {z1}
             [] t = "alert_rules" -> SetpointRules
             [] t = "hour_metric_summaries" -> {[device |-> d1, n |-> 3, counted |-> 0]}
             [] t = "app_schema_migrations" -> {"availability"}
             [] OTHER -> {})]

Points == {Point(1, d1, m1, u1), Point(2, d1, m1, u2), Point(3, d1, Blank, u1), Point(4, d1, Blank, u1), Point(5, d2, m1, Blank)}

\* Points of a device that is no longer there.
OrphanDatabases == {FirstRelease({Point(1, gone, m1, u1)})}

MCDatabases ==
  {<<>>, FirstRelease(Points), MiddleRelease({p \in Points : p.device = d1}), LastRelease} \cup OrphanDatabases

-----------------------------------------------------------------------------
BootsInit ==
  /\ followed \in {"schema", "presence"}
  /\ Init /\ SchemaInit
  /\ followed = "presence" => db = <<>>
BootsNext ==
  \/ followed = "presence" /\ Next /\ UNCHANGED <<followed, svars>>
  \/ followed = "schema" /\ SchemaNext /\ UNCHANGED <<followed, vars>>
BootsSpec == BootsInit /\ [][BootsNext]_<<followed, vars, svars>>

\* No action tells one socket id from another.
SocketSymmetry == Permutations(MCSockets)

=============================================================================
