---------------------------- MODULE AlertLifecycle ----------------------------
(***************************************************************************)
(* The alerts of one rule on one device: AlertService, which raises and    *)
(* resolves them as telemetry comes in, the repository that keeps them in  *)
(* memory with an index of the open one, and the alerts table behind it.   *)
(* Other rules and devices share none of this state.                       *)
(*                                                                         *)
(* A telemetry message is evaluated at once, unless it reports the health  *)
(* of the sensor: its handler then awaits updateAdxlHealth first, and the  *)
(* messages behind it are not kept waiting.  Every change of an alert is   *)
(* written by an upsert of the whole record that nobody awaits, nor        *)
(* catches: a write that fails ends the process.                           *)
(***************************************************************************)
EXTENDS Integers, FiniteSets, Functions

CONSTANTS
  Alerts,           \* alert ids
  NoAlert,
  Values,           \* readings of the rule's metric
  Setpoints,        \* setpoints a device may be given; 0 is none
  DefaultSetpoint,
  \* Bounds of the model.
  MaxMessages,      \* telemetry messages
  MaxActions,       \* acknowledgements and resolutions by operators
  MaxChanges,       \* changes of the setpoint or of the rule
  MaxWrites,        \* writes under way at a time
  MaxDeletions,     \* deletions of the device
  MaxRestarts       \* ends of a server run

ASSUME AlertAssumption ==
  /\ NoAlert \notin Alerts
  /\ Values \subseteq Nat /\ Setpoints \subseteq Nat /\ DefaultSetpoint \in Nat \ {0}
  /\ MaxMessages \in Nat /\ MaxActions \in Nat /\ MaxChanges \in Nat
  /\ MaxWrites \in Nat /\ MaxDeletions \in Nat /\ MaxRestarts \in Nat

VARIABLES
  alerts,     \* the repository's records, by id
  active,     \* activeByRuleAndDevice, this rule and device
  rows,       \* the rows of alerts, by id
  writes,     \* upserts that MySQL has not executed yet
  deviceRow,  \* devices has the device
  deletion,   \* where a deletion of the device stands: step, and the ids it read
  handlers,   \* messages that wait for updateAdxlHealth
  received,   \* number of messages received; it also tells their time
  enabled,    \* of the rule
  setpoint,   \* configured for the device
  left,       \* what is left of the bounded events
  \* History variables, read by the properties only.
  verdict,    \* what the last evaluation said, if nothing intervened
  loose,      \* alerts whose row may differ from the record: see Update
  neat        \* FALSE once a deletion or a restart met a change under way

vars == <<alerts, active, rows, writes, deviceRow, deletion, handlers, received, enabled,
          setpoint, left, verdict, loose, neat>>

\* since is triggeredAt, count the occurrenceCount, acks tells one
\* acknowledgement (by whom, with which note) from the next.
Record  == [status : {"active", "acknowledged", "resolved"}, since : Nat, count : Nat \ {0}, acks : Nat]
Write   == [alert : Alerts, record : Record]
Message == [at : Nat, value : Values]

IsOpen(r) == r.status # "resolved"

Pending(a) == {w \in writes : w.alert = a}

NoDeletion == [step |-> "none", ids |-> {}]

-----------------------------------------------------------------------------
(* The repository.                                                         *)

\* What updateAlert writes: an acknowledgement of an acknowledged alert
\* changes the record and is not written.
ShouldPersist(old, new) ==
  ~IsOpen(new) \/ old.status # new.status \/ old.count # new.count

\* saveAlert.
Save(a, r) ==
  /\ alerts' = [x \in DOMAIN alerts \cup {a} |-> IF x = a THEN r ELSE alerts[x]]
  /\ active' = a
  /\ writes' = writes \cup {[alert |-> a, record |-> r]}
  /\ loose'  = loose \ {a}
  /\ neat'   = (neat /\ deletion.step # "alerts")

\* Mutant: only a change of the status is written.
UpdateWritesStatus(a, r) ==
  /\ alerts' = [alerts EXCEPT ![a] = r]
  /\ active' = IF IsOpen(r) THEN a ELSE NoAlert
  /\ IF alerts[a].status # r.status
     THEN /\ writes' = writes \cup {[alert |-> a, record |-> r]}
          /\ loose'  = IF Pending(a) = {} THEN loose \ {a} ELSE loose \cup {a}
     ELSE UNCHANGED <<writes, loose>>
  /\ UNCHANGED neat

\* updateAlert.  Two writes of one alert may be executed in either order,
\* so its row is loose until a write starts with no other under way.
Update(a, r) ==
  /\ alerts' = [alerts EXCEPT ![a] = r]
  /\ active' = IF IsOpen(r) THEN a ELSE NoAlert
  /\ IF ShouldPersist(alerts[a], r)
     THEN /\ writes' = writes \cup {[alert |-> a, record |-> r]}
          /\ loose'  = IF Pending(a) = {} THEN loose \ {a} ELSE loose \cup {a}
     ELSE UNCHANGED <<writes, loose>>
  /\ UNCHANGED neat

CanWrite == Cardinality(writes) < MaxWrites

-----------------------------------------------------------------------------
(* Telemetry.                                                              *)

Threshold == IF setpoint > 0 THEN setpoint ELSE DefaultSetpoint

Repeat(r) == [r EXCEPT !.count = @ + 1]

\* Mutant: an acknowledged alert is left to its operator.
ResolveActive(r) == IF r.status = "acknowledged" THEN r ELSE [r EXCEPT !.status = "resolved"]

Resolve(r) == [r EXCEPT !.status = "resolved"]

\* evaluateMetric.
Evaluate(m) ==
  IF ~enabled
  THEN UNCHANGED <<alerts, active, writes, verdict, loose, neat>>
  ELSE /\ verdict' = IF m.value > Threshold THEN "above" ELSE "below"
       /\ \/ /\ m.value > Threshold /\ active # NoAlert
             /\ Update(active, Repeat(alerts[active]))
          \/ /\ m.value > Threshold /\ active = NoAlert
             /\ \E a \in Alerts \ (DOMAIN alerts \cup DOMAIN rows) :
                  /\ Pending(a) = {}
                  /\ Save(a, [status |-> "active", since |-> m.at, count |-> 1, acks |-> 0])
          \/ /\ m.value <= Threshold /\ active # NoAlert
             /\ Update(active, Resolve(alerts[active]))
          \/ /\ m.value <= Threshold /\ active = NoAlert
             /\ UNCHANGED <<alerts, active, writes, loose, neat>>

\* A message comes in: evaluated at once, or left waiting for its health report.
Receive(value) ==
  /\ received < MaxMessages
  /\ CanWrite
  /\ received' = received + 1
  /\ LET m == [at |-> received', value |-> value] IN
       \/ Evaluate(m) /\ UNCHANGED handlers
       \/ /\ handlers' = handlers \cup {m}
          /\ UNCHANGED <<alerts, active, writes, verdict, loose, neat>>
  /\ UNCHANGED <<rows, deviceRow, deletion, enabled, setpoint, left>>

\* updateAdxlHealth returns, in whatever order the device's messages wait for it.
Resume(m) ==
  /\ m \in handlers
  /\ CanWrite
  /\ handlers' = handlers \ {m}
  /\ Evaluate(m)
  /\ UNCHANGED <<rows, deviceRow, deletion, received, enabled, setpoint, left>>

-----------------------------------------------------------------------------
(* Operators and configuration.                                            *)

Acknowledged(r) == [r EXCEPT !.status = "acknowledged", !.acks = @ + 1]

\* acknowledgeAlert.
Acknowledge(a) ==
  /\ a \in DOMAIN alerts
  /\ IsOpen(alerts[a])
  /\ CanWrite
  /\ left.actions > 0
  /\ left' = [left EXCEPT !.actions = @ - 1]
  /\ Update(a, Acknowledged(alerts[a]))
  /\ UNCHANGED <<rows, deviceRow, deletion, handlers, received, enabled, setpoint, verdict>>

\* resolveAlert.
ResolveByOperator(a) ==
  /\ a \in DOMAIN alerts
  /\ IsOpen(alerts[a])
  /\ CanWrite
  /\ left.actions > 0
  /\ left' = [left EXCEPT !.actions = @ - 1]
  /\ Update(a, Resolve(alerts[a]))
  /\ verdict' = "none"
  /\ UNCHANGED <<rows, deviceRow, deletion, handlers, received, enabled, setpoint>>

\* updateRule and updateStrict: what later evaluations read.
Configure ==
  /\ left.changes > 0
  /\ left' = [left EXCEPT !.changes = @ - 1]
  /\ enabled' \in BOOLEAN
  /\ setpoint' \in Setpoints
  /\ UNCHANGED <<alerts, active, rows, writes, deviceRow, deletion, handlers, received,
                 verdict, loose, neat>>

-----------------------------------------------------------------------------
(* The table, the deletion of the device, and restarts.                    *)

WithRow(a, r) == [x \in DOMAIN rows \cup {a} |-> IF x = a THEN r ELSE rows[x]]

\* writeAlert: MySQL executes an upsert.
LandWrite(w) ==
  /\ deviceRow
  /\ rows'   = WithRow(w.alert, w.record)
  /\ writes' = writes \ {w}
  /\ UNCHANGED <<alerts, active, deviceRow, deletion, handlers, received, enabled, setpoint,
                 left, verdict, loose, neat>>

\* DELETE /api/devices, one at a time: deleteByDeviceId reads the ids and
\* sends its DELETE.
StartDeletion ==
  /\ deviceRow
  /\ deletion.step = "none"
  /\ left.deletions > 0
  /\ left'     = [left EXCEPT !.deletions = @ - 1]
  /\ deletion' = [step |-> "alerts", ids |-> DOMAIN alerts]
  /\ UNCHANGED <<alerts, active, rows, writes, deviceRow, handlers, received, enabled,
                 setpoint, verdict, loose, neat>>

\* The DELETE has been executed: the records go, those read when it was
\* sent, and for each of them the index of its rule and device.
DeleteAlerts ==
  /\ deletion.step = "alerts"
  /\ rows'     = << >>
  /\ alerts'   = Restrict(alerts, DOMAIN alerts \ deletion.ids)
  /\ active'   = IF deletion.ids # {} THEN NoAlert ELSE active
  /\ deletion' = [step |-> "purge", ids |-> {}]
  /\ verdict'  = "none"
  /\ loose'    = loose \cup {w.alert : w \in writes} \cup (DOMAIN alerts \ deletion.ids)
  /\ neat'     = (neat /\ writes = {})
  /\ UNCHANGED <<writes, deviceRow, handlers, received, enabled, setpoint, left>>

\* removeMetadata: a second DELETE of the alerts; the records stay now.
DeleteRows ==
  /\ deletion.step = "purge"
  /\ rows'     = << >>
  /\ deletion' = [deletion EXCEPT !.step = "device"]
  /\ loose'    = loose \cup DOMAIN alerts \cup DOMAIN rows \cup {w.alert : w \in writes}
  /\ neat'     = (neat /\ writes = {})
  /\ UNCHANGED <<alerts, active, writes, deviceRow, handlers, received, enabled, setpoint,
                 left, verdict>>

\* DELETE FROM devices, refused while an alert refers to the device.
DeleteDevice ==
  /\ deletion.step = "device"
  /\ deletion'  = NoDeletion
  /\ deviceRow' = (DOMAIN rows # {})
  /\ UNCHANGED <<alerts, active, rows, writes, handlers, received, enabled, setpoint, left,
                 verdict, loose, neat>>

\* The device connects and is registered anew.
Register ==
  /\ ~deviceRow
  /\ deviceRow' = TRUE
  /\ UNCHANGED <<alerts, active, rows, writes, deletion, handlers, received, enabled,
                 setpoint, left, verdict, loose, neat>>

OpenRows == {a \in DOMAIN rows : IsOpen(rows[a])}

\* Mutant: the index is not built again.
NoneOpen == {}

\* loadFromPersistence reads by triggered_at, so the last open one stays indexed.
LatestOpenRow == {a \in OpenRows : \A b \in OpenRows : rows[b].since <= rows[a].since}

\* The process ends, killed or by a write that failed or was refused, and
\* starts again.
Restart ==
  /\ left.restarts > 0
  /\ left'     = [left EXCEPT !.restarts = @ - 1]
  /\ alerts'   = rows
  /\ IF LatestOpenRow = {} THEN active' = NoAlert ELSE active' \in LatestOpenRow
  /\ writes'   = {}
  /\ deletion' = NoDeletion
  /\ handlers' = {}
  /\ verdict'  = "none"
  /\ loose'    = {}
  /\ neat'     = (neat /\ writes = {} /\ loose = {})
  /\ UNCHANGED <<rows, deviceRow, received, enabled, setpoint>>

-----------------------------------------------------------------------------
Init ==
  /\ alerts = << >> /\ active = NoAlert
  /\ rows = << >> /\ writes = {}
  /\ deviceRow = TRUE
  /\ deletion = NoDeletion
  /\ handlers = {} /\ received = 0
  /\ enabled = TRUE /\ setpoint \in Setpoints
  /\ left = [actions |-> MaxActions, changes |-> MaxChanges, deletions |-> MaxDeletions,
             restarts |-> MaxRestarts]
  /\ verdict = "none" /\ loose = {} /\ neat = TRUE

Next ==
  \/ \E value \in Values : Receive(value)
  \/ \E m \in handlers : Resume(m)
  \/ \E a \in Alerts : Acknowledge(a) \/ ResolveByOperator(a)
  \/ Configure
  \/ \E w \in writes : LandWrite(w)
  \/ StartDeletion \/ DeleteAlerts \/ DeleteRows \/ DeleteDevice
  \/ Register
  \/ Restart

Spec == Init /\ [][Next]_vars

-----------------------------------------------------------------------------
(* Properties.                                                             *)

\* A function from some of the alerts.
IsTable(f) == DOMAIN f \subseteq Alerts /\ \A a \in DOMAIN f : f[a] \in Record

\* Every variable has its type.
TypeOK ==
  /\ IsTable(alerts)
  /\ active \in Alerts \cup {NoAlert}
  /\ IsTable(rows)
  /\ writes \subseteq Write
  /\ deviceRow \in BOOLEAN
  /\ deletion \in [step : {"none", "alerts", "purge", "device"}, ids : SUBSET Alerts]
  /\ handlers \subseteq Message
  /\ received \in Nat
  /\ enabled \in BOOLEAN
  /\ setpoint \in Setpoints
  /\ left \in [actions : Nat, changes : Nat, deletions : Nat, restarts : Nat]
  /\ verdict \in {"none", "above", "below"}
  /\ loose \subseteq Alerts
  /\ neat \in BOOLEAN

\* The index of open alerts never names a resolved or a deleted one, whatever
\* deletions, restarts and operators do between two messages: the next
\* message would revive it, or fail on it.
ActiveIsOpen == active # NoAlert => active \in DOMAIN alerts /\ IsOpen(alerts[active])

\* A rule has at most one open alert on a device, the indexed one, unless a
\* deletion of the device or a restart met a change that was under way.
OneOpenAlert == neat => \A a \in DOMAIN alerts : IsOpen(alerts[a]) => a = active

\* The device has an open alert exactly when the reading evaluated last was
\* above its setpoint, no matter in which order the messages were resumed.
AlertTellsReading ==
  /\ verdict = "above" => active # NoAlert
  /\ verdict = "below" /\ neat => \A a \in DOMAIN alerts : ~IsOpen(alerts[a])

\* When the writes of an alert did not overlap each other or a deletion, the
\* table agrees with memory once they are done, but for the details of an
\* acknowledgement that was repeated.
TableTellsMemory ==
  \A a \in Alerts \ loose :
    Pending(a) = {} =>
      /\ a \in DOMAIN rows <=> a \in DOMAIN alerts
      /\ a \in DOMAIN rows =>
           \/ rows[a] = alerts[a]
           \/ alerts[a].acks > 1 /\ rows[a] = [alerts[a] EXCEPT !.acks = rows[a].acks]

Rank == [active |-> 0, acknowledged |-> 1, resolved |-> 2]

\* Within a server run an alert only moves on: a repeated alarm does not undo
\* an acknowledgement, and nothing changes an alert that was resolved.
StatusMovesOn ==
  [][left'.restarts = left.restarts =>
       \A a \in DOMAIN alerts \cap DOMAIN alerts' :
         /\ Rank[alerts[a].status] <= Rank[alerts'[a].status]
         /\ ~IsOpen(alerts[a]) => alerts'[a] = alerts[a]]_vars

=============================================================================
