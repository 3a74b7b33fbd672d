----------------------------- MODULE DeviceRegistry -----------------------------
(***************************************************************************)
(* The devices and zones of the server: DeviceService and ZoneService over *)
(* InMemoryDeviceRepository.  What the server knows of a device it reads   *)
(* from a map in memory; a change replaces the record of the map at once   *)
(* and is then written to the table `devices` as a whole.  Zones live in   *)
(* the table only.  Requests, messages of devices and background writes    *)
(* run at the same time and meet at every await, which is a step here.     *)
(*                                                                         *)
(* A device's record is cut down to a name (all that users may edit), its  *)
(* zone and its sensor's health; its uuid is taken to be its own.          *)
(***************************************************************************)
EXTENDS Integers, Sequences, FiniteSets

CONSTANTS
  Devices, Names, Codes, Tasks,
  Statuses,      \* of a sensor
  None,          \* no zone, no health, no task
  Absent,        \* a field a request does not have
  Default,       \* the name a device gets from its id
  Free,          \* for a code, the codes that a new zone of it may get, in order
  FirstZone,     \* the code of the zone there is at first
  Arriving,      \* the tables in which rows of a device turn up
  \* Bounds of the model.
  MaxZones, MaxRequests, MaxCrashes, MaxArrivals

ASSUME RegistryAssumption ==
  /\ None \notin Names \cup Codes \cup Statuses /\ Absent \notin Names \cup Codes \cup {None} /\ Default \in Names
  /\ Free \in [Codes -> Seq(Codes)] /\ FirstZone \in Codes
  /\ MaxZones \in Nat /\ MaxRequests \in Nat /\ MaxCrashes \in Nat /\ MaxArrivals \in Nat

VARIABLES
  mem,       \* the record of each device in memory, or None
  sessions,  \* the devices with a session in memory
  row,       \* the rows of devices
  zones,     \* the rows of zones by id: a code, "new" before and "removed" after
  kids,      \* <<device, table>>: the table has rows of the device
  task,      \* what is under way
  left,      \* what is left of the bounded events
  \* History variables, read by the properties only.
  crossed,   \* the tasks that met another task for the same device
  clean,     \* the devices nothing happened to that memory or table missed
  told,      \* the name of a device that a request was last told to be stored, if it stands
  gone       \* the devices whose removal was answered, if nothing asked for them since

vars == <<mem, sessions, row, zones, kids, task, left, crossed, clean, told, gone>>

Ids    == 1 .. MaxZones
Health == Statuses \cup {None}
Record == [name : Names, zone : Codes \cup {None}, health : Health]
Tables == {"audit", "alert", "command", "point", "frame", "session"}

\* Foreign keys that refuse to lose the device; the others go with it.
Restricting == {"audit", "alert", "command", "point"}

Known(d)  == mem[d] # None
InUse(c)  == \E i \in Ids : zones[i] = c
Or(x, y)  == IF x = Absent THEN y ELSE x
Zoneless(rec) == [rec EXCEPT !.zone = None]

-----------------------------------------------------------------------------
(* Tasks.                                                                  *)

Targets(job) == {job.targets[i].dev : i \in DOMAIN job.targets}

DevicesOf(job) ==
  IF job = None THEN {}
  ELSE CASE job.op \in {"write", "socket", "session", "delete"} -> {job.dev}
         [] job.op = "drop_zone" -> Targets(job)
         [] OTHER -> {}

\* Sessions only ever add a row that is missing.
Meet(a, b) ==
  /\ DevicesOf(a) \cap DevicesOf(b) # {}
  /\ "session" \in {a.op, b.op} => "delete" \in {a.op, b.op}

MeetingTasks(t, job) == {u \in Tasks \ {t} : task[u] # None /\ Meet(task[u], job)}

\* Task t goes on as job, which may be the first that others meet it.
Become(t, job) ==
  LET met == MeetingTasks(t, job)
  IN /\ task' = [task EXCEPT ![t] = job]
     /\ crossed' = IF met = {} THEN crossed ELSE crossed \cup met \cup {t}
     /\ clean' = IF met = {} THEN clean ELSE clean \ DevicesOf(job)

End(t) == task' = [task EXCEPT ![t] = None] /\ crossed' = crossed \ {t}

Request(t) == task[t] = None /\ left.requests > 0 /\ left' = [left EXCEPT !.requests = @ - 1]

Wanted(d) == gone' = gone \ {d}
Renamed(d, name) == told' = IF mem[d] # None /\ mem[d].name = name THEN told ELSE [told EXCEPT ![d] = Absent]

\* Memory has the record at once, the table when the statement has run.
Write(t, d, rec, how) ==
  /\ mem' = [mem EXCEPT ![d] = rec]
  /\ Become(t, [op |-> "write", dev |-> d, rec |-> rec, how |-> how])
  /\ Renamed(d, rec.name) /\ Wanted(d)

Registered(d, name, zone) ==
  LET old == IF Known(d) THEN mem[d] ELSE [name |-> Default, zone |-> None, health |-> None]
  IN [name |-> Or(name, old.name), zone |-> Or(zone, old.zone), health |-> None]

\* An archive that is merged keeps what it does not tell, one that replaces does not.
Merged(d, name, zone)   == Registered(d, name, zone)
Replaced(d, name, zone) == [name |-> name, zone |-> zone, health |-> None]
Updated(d, name, zone)  == [mem[d] EXCEPT !.name = Or(name, @), !.zone = Or(zone, @)]
WithHealth(d, health)   == [mem[d] EXCEPT !.health = health]

\* POST /api/devices.
Register(t, d) ==
  \E name \in Names, zone \in Codes \cup {Absent} :
    /\ Request(t)
    /\ Write(t, d, Registered(d, name, zone), "answer")
    /\ UNCHANGED <<sessions, row, zones, kids>>

\* PUT of a device, and of its placement, which carries only axis labels.
Update(t, d) ==
  \E name \in Names \cup {Absent}, zone \in Codes \cup {None, Absent} :
    /\ Request(t) /\ Known(d)
    /\ Write(t, d, Updated(d, name, zone), "answer")
    /\ UNCHANGED <<sessions, row, zones, kids>>

\* device:sensor-status; nobody catches what its write throws.
UpdateAdxlHealth(t, d) ==
  \E health \in Statuses :
    /\ Request(t) /\ d \in sessions /\ Known(d) /\ mem[d].health # health
    /\ Write(t, d, WithHealth(d, health), "status")
    /\ UNCHANGED <<sessions, row, zones, kids>>

\* A device of an archive.
ImportDevice(t, d) ==
  \E name \in Names, zone \in Codes \cup {None}, merge \in BOOLEAN :
    /\ Request(t)
    /\ Write(t, d, IF merge THEN Merged(d, name, zone) ELSE Replaced(d, name, zone), "import")
    /\ UNCHANGED <<sessions, row, zones, kids>>

\* A name with the code of no zone is refused.
Refused(rec) == rec.zone # None /\ ~InUse(rec.zone)

\* Mutant: the statement forgets a column of a row there is.
StoredWithoutZone(t, d, rec) ==
  /\ row' = [row EXCEPT ![d] = IF row[d] = None THEN rec ELSE [rec EXCEPT !.zone = row[d].zone]]
  /\ clean' = IF t \in crossed THEN clean ELSE clean \cup {d}
  /\ End(t)

Stored(t, d, rec) ==
  /\ row' = [row EXCEPT ![d] = rec]
  /\ clean' = IF t \in crossed THEN clean ELSE clean \cup {d}
  /\ End(t)

\* The server runs again, with what the tables hold.
Reload ==
  /\ mem' = row /\ sessions' = {} /\ task' = [t \in Tasks |-> None] /\ crossed' = {} /\ clean' = Devices
  /\ kids' = {k \in kids : k[2] # "session"}
  /\ UNCHANGED <<row, zones, told, gone>>

WriteDone(t) ==
  /\ task[t] # None /\ task[t].op = "write" /\ ~Refused(task[t].rec)
  /\ Stored(t, task[t].dev, task[t].rec)
  /\ told' = IF task[t].how = "answer" /\ t \notin crossed
             THEN [told EXCEPT ![task[t].dev] = task[t].rec.name] ELSE told
  /\ UNCHANGED <<mem, sessions, zones, kids, left, gone>>

\* The caller is told, or there is none; memory keeps what the table does not have.
WriteRefused(t) ==
  /\ task[t] # None /\ task[t].op = "write" /\ Refused(task[t].rec)
  /\ task[t].how \in {"answer", "quiet"}
  /\ End(t) /\ clean' = clean \ {task[t].dev}
  /\ UNCHANGED <<mem, sessions, row, zones, kids, left, told, gone>>

\* An import tries once more without the zone.
ImportRefused(t) ==
  /\ task[t] # None /\ task[t].op = "write" /\ Refused(task[t].rec) /\ task[t].how = "import"
  /\ LET d == task[t].dev
         rec == Zoneless(task[t].rec)
     IN /\ mem' = [mem EXCEPT ![d] = rec]
        /\ Become(t, [task[t] EXCEPT !.rec = rec])
        /\ Renamed(d, rec.name)
  /\ UNCHANGED <<sessions, row, zones, kids, left, gone>>

\* A rejection that no handler awaits ends the process.
StatusRefused(t) ==
  /\ task[t] # None /\ task[t].op = "write" /\ Refused(task[t].rec) /\ task[t].how = "status"
  /\ Reload /\ UNCHANGED left

-----------------------------------------------------------------------------
(* Messages and sessions of devices.                                       *)

\* device:metadata reads the record, looks for the zone, and then writes all of it.
SocketMetadata(t, d) ==
  \E name \in Names \cup {Absent}, zone \in Codes :
    /\ Request(t) /\ d \in sessions /\ Known(d)
    /\ Become(t, [op |-> "socket", dev |-> d, old |-> mem[d], name |-> name, zone |-> zone, looked |-> FALSE])
    /\ told' = IF name = Absent THEN told ELSE [told EXCEPT ![d] = Absent]
    /\ UNCHANGED <<mem, sessions, row, zones, kids, gone>>

ResolveSocketZone(t) ==
  /\ task[t] # None /\ task[t].op = "socket" /\ ~task[t].looked
  /\ task' = [task EXCEPT ![t].looked = TRUE, ![t].zone = IF InUse(@) THEN @ ELSE Absent]
  /\ UNCHANGED <<mem, sessions, row, zones, kids, left, crossed, clean, told, gone>>

Given(job) == [job.old EXCEPT !.name = Or(job.name, @), !.zone = Or(job.zone, @)]

UpsertFromSocket(t) ==
  /\ task[t] # None /\ task[t].op = "socket" /\ task[t].looked
  /\ LET job == task[t]
         next == Given(job)
     IN IF next = job.old
        THEN End(t) /\ UNCHANGED <<mem, clean, told, gone>>
        ELSE Write(t, job.dev, next, "quiet")
  /\ UNCHANGED <<sessions, row, zones, kids, left>>

SessionTask(d) == [op |-> "session", dev |-> d, rec |-> None]

\* A device that is not known is registered on the way.
Connect(t, d) ==
  /\ Request(t)
  /\ sessions' = sessions \cup {d}
  /\ IF Known(d)
     THEN Become(t, SessionTask(d)) /\ Wanted(d) /\ UNCHANGED <<mem, told>>
     ELSE \E u \in Tasks \ {t} :
            /\ task[u] = None
            /\ mem' = [mem EXCEPT ![d] = Registered(d, Default, Absent)]
            /\ LET reg == [op |-> "write", dev |-> d, rec |-> mem'[d], how |-> "quiet"]
                   met == MeetingTasks(t, SessionTask(d)) \cup MeetingTasks(t, reg)
               IN /\ task' = [task EXCEPT ![t] = SessionTask(d), ![u] = reg]
                  /\ crossed' = IF met = {} THEN crossed ELSE crossed \cup met \cup {t, u}
                  /\ clean' = IF met = {} THEN clean ELSE clean \ {d}
            /\ told' = [told EXCEPT ![d] = Absent] /\ Wanted(d)
  /\ UNCHANGED <<row, zones, kids>>

Heartbeat(t, d) ==
  /\ Request(t) /\ d \in sessions
  /\ Become(t, SessionTask(d))
  /\ UNCHANGED <<mem, sessions, row, zones, kids, told, gone>>

Disconnect(d) ==
  /\ d \in sessions
  /\ sessions' = sessions \ {d} /\ kids' = kids \ {<<d, "session">>}
  /\ UNCHANGED <<mem, row, zones, task, left, crossed, clean, told, gone>>

PersistSession(t) ==
  /\ task[t] # None /\ task[t].op = "session" /\ task[t].rec = None
  /\ LET d == task[t].dev
     IN IF row[d] # None
        THEN End(t) /\ kids' = kids \cup {<<d, "session">>} /\ UNCHANGED mem
        ELSE /\ mem' = IF Known(d) THEN mem ELSE [mem EXCEPT ![d] = Registered(d, Default, Absent)]
             /\ task' = [task EXCEPT ![t].rec = mem'[d]]
             /\ UNCHANGED <<kids, crossed>>
  /\ UNCHANGED <<sessions, row, zones, left, clean, told, gone>>

\* Mutant: the row of a session's device is written anew.
EnsureDeviceRowAnew(t) ==
  /\ task[t] # None /\ task[t].op = "session" /\ task[t].rec # None
  /\ LET d == task[t].dev
         rec == [task[t].rec EXCEPT !.name = Default, !.health = None]
     IN /\ row' = [row EXCEPT ![d] = rec]
        /\ kids' = IF row'[d] # None THEN kids \cup {<<d, "session">>} ELSE kids
        /\ clean' = IF row'[d] = mem[d] THEN clean ELSE clean \ {d}
  /\ End(t)
  /\ UNCHANGED <<mem, sessions, zones, left, told, gone>>

EnsureDeviceRowForSession(t) ==
  /\ task[t] # None /\ task[t].op = "session" /\ task[t].rec # None
  /\ LET d == task[t].dev
         rec == [task[t].rec EXCEPT !.health = None]
     IN /\ row' = IF row[d] # None \/ Refused(rec) THEN row ELSE [row EXCEPT ![d] = rec]
        /\ kids' = IF row'[d] # None THEN kids \cup {<<d, "session">>} ELSE kids
        /\ clean' = IF row'[d] = mem[d] THEN clean ELSE clean \ {d}
  /\ End(t)
  /\ UNCHANGED <<mem, sessions, zones, left, told, gone>>

\* A row that arrives is refused without the row of its device.
Arrive(d, table) ==
  /\ left.arrivals > 0 /\ left' = [left EXCEPT !.arrivals = @ - 1]
  /\ row[d] # None
  /\ kids' = kids \cup {<<d, table>>}
  /\ UNCHANGED <<mem, sessions, row, zones, task, crossed, clean, told, gone>>

-----------------------------------------------------------------------------
(* Removal of a device, one statement after the other.                     *)

\* What is deleted at each await of the route; at "known" it looks into memory once more.
RemovalPlan ==
  <<{}, {"command", "alert", "audit"}, {"frame"}, {"known"}, {"audit"}, {"alert"}, {"command"},
    {"frame"}, {"point"}, {"session"}>>

Delete(t, d) ==
  /\ Request(t) /\ Known(d)
  /\ Become(t, [op |-> "delete", dev |-> d, next |-> 1])
  /\ told' = [told EXCEPT ![d] = Absent]
  /\ UNCHANGED <<mem, sessions, row, zones, kids, gone>>

\* After the first look the device is disconnected.
DeleteNext(t) ==
  /\ task[t] # None /\ task[t].op = "delete" /\ task[t].next \in DOMAIN RemovalPlan
  /\ LET d == task[t].dev
         n == task[t].next
     IN IF n \in {1, 4} /\ ~Known(d)
        THEN End(t) /\ UNCHANGED <<sessions, kids>>
        ELSE /\ task' = [task EXCEPT ![t].next = n + 1]
             /\ sessions' = IF n = 1 THEN sessions \ {d} ELSE sessions
             /\ kids' = kids \ ({d} \X IF n = 1 THEN {"session"} ELSE RemovalPlan[n])
             /\ UNCHANGED crossed
  /\ UNCHANGED <<mem, row, zones, left, clean, told, gone>>

\* Rows that came after their table was emptied have the last statement refused.
DeleteRow(t) ==
  /\ task[t] # None /\ task[t].op = "delete" /\ task[t].next = Len(RemovalPlan) + 1
  /\ LET d == task[t].dev
     IN IF \E table \in Restricting : <<d, table>> \in kids
        THEN End(t) /\ UNCHANGED <<row, kids>>
        ELSE /\ row' = [row EXCEPT ![d] = None]
             /\ kids' = kids \ ({d} \X Tables)
             /\ task' = [task EXCEPT ![t].next = @ + 1]
             /\ UNCHANGED crossed
  /\ UNCHANGED <<mem, sessions, zones, left, clean, told, gone>>

\* Mutant: the record stays in memory.
ForgetSessionOnly(t) ==
  /\ task[t] # None /\ task[t].op = "delete" /\ task[t].next = Len(RemovalPlan) + 2
  /\ LET d == task[t].dev
     IN /\ sessions' = sessions \ {d}
        /\ gone' = IF t \in crossed THEN gone ELSE gone \cup {d}
        /\ clean' = IF row[d] = None THEN clean ELSE clean \ {d}
  /\ End(t)
  /\ UNCHANGED <<mem, row, zones, kids, left, told>>

Forget(t) ==
  /\ task[t] # None /\ task[t].op = "delete" /\ task[t].next = Len(RemovalPlan) + 2
  /\ LET d == task[t].dev
     IN /\ mem' = [mem EXCEPT ![d] = None] /\ sessions' = sessions \ {d}
        /\ gone' = IF t \in crossed THEN gone ELSE gone \cup {d}
        /\ clean' = IF row[d] = None THEN clean ELSE clean \ {d}
  /\ End(t)
  /\ UNCHANGED <<row, zones, kids, left, told>>

-----------------------------------------------------------------------------
(* Zones.                                                                  *)

\* The first code that no zone has, of those a zone may get for it.
FreeCode(c, id) ==
  LET usable == {k \in DOMAIN Free[c] : \A i \in Ids : zones[i] = Free[c][k] => i = id}
  IN IF usable = {} THEN None ELSE Free[c][CHOOSE k \in usable : \A l \in usable : k <= l]

NewId == {i \in Ids : zones[i] = "new" /\ \A j \in Ids : j < i => zones[j] # "new"}

CreateZone(t) ==
  \E c \in Codes :
    /\ Request(t) /\ FreeCode(c, 0) # None
    /\ task' = [task EXCEPT ![t] = [op |-> "new_zone", code |-> FreeCode(c, 0)]]
    /\ UNCHANGED <<mem, sessions, row, zones, kids, crossed, clean, told, gone>>

\* The unique key refuses a code that another request took meanwhile.
CreateZoneDone(t) ==
  /\ task[t] # None /\ task[t].op = "new_zone"
  /\ IF InUse(task[t].code) THEN UNCHANGED zones
     ELSE \E i \in NewId : zones' = [zones EXCEPT ![i] = task[t].code]
  /\ End(t)
  /\ UNCHANGED <<mem, sessions, row, kids, left, clean, told, gone>>

\* An import writes a zone by its code, in one statement.
ImportZone(t) ==
  /\ Request(t)
  /\ \E c \in Codes, i \in NewId : ~InUse(c) /\ zones' = [zones EXCEPT ![i] = c]
  /\ UNCHANGED <<mem, sessions, row, kids, task, crossed, clean, told, gone>>

UpdateZone(t) ==
  \E i \in Ids, c \in Codes :
    /\ Request(t) /\ zones[i] \in Codes /\ FreeCode(c, i) # None
    /\ task' = [task EXCEPT ![t] = [op |-> "zone", id |-> i, code |-> FreeCode(c, i)]]
    /\ UNCHANGED <<mem, sessions, row, zones, kids, crossed, clean, told, gone>>

Follows(d, old) == row[d] # None /\ row[d].zone = old

\* The table of devices follows a new code; memory does not.
UpdateZoneDone(t) ==
  /\ task[t] # None /\ task[t].op = "zone"
  /\ LET i == task[t].id
         old == zones[i]
         new == task[t].code
     IN IF old \notin Codes \/ old = new \/ InUse(new)
        THEN UNCHANGED <<zones, row, clean>>
        ELSE /\ zones' = [zones EXCEPT ![i] = new]
             /\ row' = [d \in Devices |-> IF Follows(d, old) THEN [row[d] EXCEPT !.zone = new] ELSE row[d]]
             /\ clean' = clean \ {d \in Devices : Follows(d, old) \/ (Known(d) /\ mem[d].zone = old)}
  /\ End(t)
  /\ UNCHANGED <<mem, sessions, kids, left, told, gone>>

DropZone(t) ==
  \E i \in Ids, force \in BOOLEAN :
    /\ Request(t) /\ zones[i] \in Codes
    /\ task' = [task EXCEPT ![t] = [op |-> "drop_zone", id |-> i, code |-> zones[i], force |-> force,
                                    asked |-> FALSE, targets |-> <<>>]]
    /\ UNCHANGED <<mem, sessions, row, zones, kids, crossed, clean, told, gone>>

InZone(c) == {d \in Devices : Known(d) /\ mem[d].zone = c}

\* Memory tells which devices the zone has: without force they keep it.
DropZoneAsked(t) ==
  /\ task[t] # None /\ task[t].op = "drop_zone" /\ ~task[t].asked
  /\ LET found == InZone(task[t].code)
         first(order) == IF order = <<>> THEN mem ELSE [mem EXCEPT ![order[1].dev] = order[1].rec]
     IN IF found # {} /\ ~task[t].force
        THEN End(t) /\ UNCHANGED <<mem, clean>>
        ELSE \E order \in [1 .. Cardinality(found) -> found] :
               /\ {order[i] : i \in DOMAIN order} = found
               /\ LET targets == [i \in DOMAIN order |-> [dev |-> order[i], rec |-> Zoneless(mem[order[i]])]]
                  IN /\ Become(t, [task[t] EXCEPT !.asked = TRUE, !.targets = targets])
                     /\ mem' = first(targets)
  /\ UNCHANGED <<sessions, row, zones, kids, left, told, gone>>

\* The records were read at the start: what changed meanwhile is written over.
ClearZoneAssignment(t) ==
  /\ task[t] # None /\ task[t].op = "drop_zone" /\ task[t].targets # <<>>
  /\ LET done == Head(task[t].targets)
         rest == Tail(task[t].targets)
     IN /\ row' = [row EXCEPT ![done.dev] = done.rec]
        /\ mem' = IF rest = <<>> THEN mem ELSE [mem EXCEPT ![rest[1].dev] = rest[1].rec]
        /\ clean' = IF t \in crossed THEN clean ELSE clean \cup {done.dev}
        /\ task' = [task EXCEPT ![t].targets = rest]
  /\ UNCHANGED <<sessions, zones, kids, left, crossed, told, gone>>

\* The rows of devices in the zone lose it.
RemoveZone(t) ==
  /\ task[t] # None /\ task[t].op = "drop_zone" /\ task[t].asked /\ task[t].targets = <<>>
  /\ LET i == task[t].id
         old == zones[i]
     IN /\ zones' = [zones EXCEPT ![i] = "removed"]
        /\ row' = [d \in Devices |-> IF old \in Codes /\ Follows(d, old) THEN Zoneless(row[d]) ELSE row[d]]
        /\ clean' = clean \ {d \in Devices : old \in Codes /\ (Follows(d, old) \/ (Known(d) /\ mem[d].zone = old))}
  /\ End(t)
  /\ UNCHANGED <<mem, sessions, kids, left, told, gone>>

-----------------------------------------------------------------------------

Crash == left.crashes > 0 /\ left' = [left EXCEPT !.crashes = @ - 1] /\ Reload

\* A boot on the tables of an earlier run.
Init ==
  /\ zones = [i \in Ids |-> IF i = 1 THEN FirstZone ELSE "new"]
  /\ row \in [Devices -> {None} \cup {[name |-> Default, zone |-> z, health |-> None] :
                                         z \in {None, FirstZone}}]
  /\ mem = row /\ sessions = {} /\ kids = {} /\ task = [t \in Tasks |-> None]
  /\ left = [requests |-> MaxRequests, crashes |-> MaxCrashes, arrivals |-> MaxArrivals]
  /\ crossed = {} /\ clean = Devices /\ told = [d \in Devices |-> Absent] /\ gone = {}

RequestStep(t) ==
  \/ \E d \in Devices :
       \/ Register(t, d) \/ Update(t, d) \/ UpdateAdxlHealth(t, d) \/ ImportDevice(t, d)
       \/ SocketMetadata(t, d) \/ Connect(t, d) \/ Heartbeat(t, d) \/ Delete(t, d)
  \/ CreateZone(t) \/ ImportZone(t) \/ UpdateZone(t) \/ DropZone(t)

TaskStep(t) ==
  \/ WriteDone(t) \/ WriteRefused(t) \/ ImportRefused(t) \/ StatusRefused(t)
  \/ ResolveSocketZone(t) \/ UpsertFromSocket(t) \/ PersistSession(t) \/ EnsureDeviceRowForSession(t)
  \/ DeleteNext(t) \/ DeleteRow(t) \/ Forget(t)
  \/ CreateZoneDone(t) \/ UpdateZoneDone(t) \/ DropZoneAsked(t) \/ ClearZoneAssignment(t) \/ RemoveZone(t)

Next ==
  \/ \E t \in Tasks : RequestStep(t) \/ TaskStep(t)
  \/ \E d \in Devices : Disconnect(d) \/ (\E table \in Arriving : Arrive(d, table))
  \/ Crash

Spec == Init /\ [][Next]_vars

-----------------------------------------------------------------------------

TypeOK ==
  /\ mem \in [Devices -> Record \cup {None}] /\ row \in [Devices -> Record \cup {None}]
  /\ sessions \subseteq Devices /\ kids \subseteq Devices \X Tables
  /\ zones \in [Ids -> Codes \cup {"new", "removed"}]
  /\ crossed \subseteq Tasks /\ clean \subseteq Devices /\ gone \subseteq Devices
  /\ told \in [Devices -> Names \cup {Absent}]

\* When nothing is under way for a device, memory and table tell the same of it,
\* unless two tasks met at it, a write was refused or the code of its zone changed
\* (in-memory-device.repository.ts, upsertMetadata and removeMetadata).
MemoryMatchesTable ==
  \A d \in clean : (\A t \in Tasks : d \notin DevicesOf(task[t])) => mem[d] = row[d]

\* The name that a request was told to be stored stays, through messages of the device,
\* its sessions, changes of zones and restarts, until somebody gives it another one
\* (device.service.ts, updateStrict and registerStrict).
AnsweredNameKept ==
  \A d \in Devices : told[d] # Absent => Known(d) /\ mem[d].name = told[d]

\* A removed device leaves nothing and comes back only when it connects or is
\* registered, unless a task of before its removal met it (removeMetadata).
RemovedStaysAway ==
  \A d \in gone : ~Known(d) /\ row[d] = None /\ ~\E k \in kids : k[1] = d

-----------------------------------------------------------------------------
(* The invariant the proofs induct on.                                     *)

WriteJob   == [op : {"write"}, dev : Devices, rec : Record, how : {"answer", "quiet", "import", "status"}]
SocketJob  == [op : {"socket"}, dev : Devices, old : Record, name : Names \cup {Absent},
               zone : Codes \cup {Absent}, looked : BOOLEAN]
SessionJob == [op : {"session"}, dev : Devices, rec : Record \cup {None}]
DeleteJob  == [op : {"delete"}, dev : Devices, next : 1 .. Len(RemovalPlan) + 2]
ZoneJob    == [op : {"new_zone"}, code : Codes] \cup [op : {"zone"}, id : Ids, code : Codes]
Target     == [dev : Devices, rec : Record]
DropJob    == [op : {"drop_zone"}, id : Ids, code : Codes, force : BOOLEAN, asked : BOOLEAN, targets : Seq(Target)]
Job        == WriteJob \cup SocketJob \cup SessionJob \cup DeleteJob \cup ZoneJob \cup DropJob

\* A task or a record is told from its absence; memory can list its devices;
\* what turns up is a row of a table that refers to devices.
ASSUME JobAssumption == None \notin Record \cup Job /\ IsFiniteSet(Devices) /\ Arriving \subseteq Tables

\* Tasks have their type; a removed zone clears each of its devices once.
JobsOK ==
  /\ task \in [Tasks -> Job \cup {None}]
  /\ \A t \in Tasks : task[t] # None /\ task[t].op = "drop_zone" =>
       /\ ~task[t].asked => task[t].targets = <<>>
       /\ \A i, j \in DOMAIN task[t].targets : task[t].targets[i].dev = task[t].targets[j].dev => i = j

\* Tasks that meet are marked, and what they meet at is not clean.
Crossings ==
  /\ \A t \in Tasks : task[t] = None => t \notin crossed
  /\ \A t, u \in Tasks : t # u /\ task[t] # None /\ task[u] # None /\ Meet(task[t], task[u]) =>
       /\ t \in crossed
       /\ clean \cap DevicesOf(task[t]) \cap DevicesOf(task[u]) = {}

\* The task has put a record into memory that the table is to get.
Setting(job, d) ==
  /\ job # None
  /\ \/ job.op = "write" /\ job.dev = d
     \/ job.op = "drop_zone" /\ job.targets # <<>> /\ job.targets[1].dev = d
SetTo(job) == IF job.op = "write" THEN job.rec ELSE job.targets[1].rec

\* The row is deleted and the record is next; a session is about to enter its device.
Removing(job, d) == job # None /\ job.op = "delete" /\ job.dev = d /\ job.next = Len(RemovalPlan) + 2
Entering(job, d) == job # None /\ job.op = "session" /\ job.dev = d /\ job.rec # None

SetInMemory ==
  \A t \in Tasks, d \in Devices :
    Setting(task[t], d) /\ (t \notin crossed \/ d \in clean) => mem[d] = SetTo(task[t])

Matches(d) ==
  (\A t \in Tasks : ~Setting(task[t], d) /\ ~Removing(task[t], d)) =>
    mem[d] = row[d] \/ \E t \in Tasks : Entering(task[t], d)

CleanMatches == \A d \in clean : Matches(d)

Rowless(d) == row[d] = None /\ \A k \in kids : k[1] # d
Away(d) == Rowless(d) /\ mem[d] = None /\ d \notin sessions /\ \A t \in Tasks : d \notin DevicesOf(task[t])

GoneAway ==
  /\ \A t \in Tasks, d \in Devices : Removing(task[t], d) /\ t \notin crossed => Rowless(d)
  /\ \A d \in gone : Away(d)

\* What the task may yet write has the name.
Keeps(job, d, name) ==
  job # None /\ d \in DevicesOf(job) =>
    /\ job.op # "delete"
    /\ job.op = "write" => job.rec.name = name
    /\ job.op = "socket" => job.name = Absent /\ job.old.name = name
    /\ job.op = "drop_zone" => \A i \in DOMAIN job.targets : job.targets[i].dev = d => job.targets[i].rec.name = name

NameKept(d) ==
  /\ mem[d] # None /\ mem[d].name = told[d]
  /\ row[d] # None /\ row[d].name = told[d]
  /\ \A t \in Tasks : Keeps(task[t], d, told[d])

ToldKept == \A d \in Devices : told[d] # Absent => NameKept(d)

RegistryInv == Crossings /\ SetInMemory /\ CleanMatches /\ GoneAway /\ ToldKept

=============================================================================
