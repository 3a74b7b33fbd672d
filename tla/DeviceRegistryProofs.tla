------------------------- MODULE DeviceRegistryProofs -------------------------
(***************************************************************************)
(* Theorems about DeviceRegistry for any devices, names, zones, tasks and  *)
(* bounds: types, that memory and table agree when nothing is under way,   *)
(* that a name a request was told to be stored stays, and that a removed   *)
(* device stays away.                                                      *)
(***************************************************************************)
EXTENDS DeviceRegistry, FiniteSetTheorems, SequenceTheorems, WellFoundedInduction, TLAPS

Inv == TypeOK /\ JobsOK /\ RegistryInv

-----------------------------------------------------------------------------
(* Lemmas about jobs and records.                                          *)

LEMMA PlanLength == Len(RemovalPlan) = 10 /\ DOMAIN RemovalPlan = 1 .. 10
  BY DEF RemovalPlan

\* What an operation's job looks like.
LEMMA JobShape ==
  ASSUME NEW job \in Job
  PROVE  /\ job # None
         /\ job.op = "write" => job \in WriteJob
         /\ job.op = "socket" => job \in SocketJob
         /\ job.op = "session" => job \in SessionJob
         /\ job.op = "delete" => job \in DeleteJob
         /\ job.op \in {"new_zone", "zone"} => job \in ZoneJob
         /\ job.op = "drop_zone" => job \in DropJob
         /\ job.op \in {"write", "socket", "session", "delete", "new_zone", "zone", "drop_zone"}
  BY JobAssumption DEF Job, WriteJob, SocketJob, SessionJob, DeleteJob, ZoneJob, DropJob

\* The devices of a job.
LEMMA JobDevices ==
  ASSUME NEW job \in Job
  PROVE  /\ job.op \in {"write", "socket", "session", "delete"} => DevicesOf(job) = {job.dev} /\ job.dev \in Devices
         /\ job.op = "drop_zone" => DevicesOf(job) = Targets(job)
         /\ job.op \in {"new_zone", "zone"} => DevicesOf(job) = {}
  BY JobShape DEF DevicesOf, WriteJob, SocketJob, SessionJob, DeleteJob

LEMMA NoDevices == DevicesOf(None) = {}
  BY DEF DevicesOf

LEMMA TypeOfRecord ==
  ASSUME NEW rec \in Record
  PROVE  /\ rec # None /\ rec.name \in Names /\ rec.zone \in Codes \cup {None} /\ rec.health \in Health
         /\ Zoneless(rec) \in Record /\ Zoneless(rec).name = rec.name
  BY JobAssumption DEF Record, Zoneless

LEMMA RecordsMade ==
  ASSUME mem \in [Devices -> Record \cup {None}], NEW d \in Devices
  PROVE  /\ \A name \in Names \cup {Absent}, zone \in Codes \cup {Absent} :
              /\ Registered(d, name, zone) \in Record
              /\ name # Absent => Registered(d, name, zone).name = name
         /\ \A name \in Names, zone \in Codes \cup {None} :
              Merged(d, name, zone) \in Record /\ Replaced(d, name, zone) \in Record
         /\ Known(d) => \A name \in Names \cup {Absent}, zone \in Codes \cup {None, Absent} : Updated(d, name, zone) \in Record
         /\ Known(d) => \A health \in Statuses : WithHealth(d, health) \in Record
<1> DEFINE old == IF Known(d) THEN mem[d] ELSE [name |-> Default, zone |-> None, health |-> None]
<1>1. old \in Record /\ old.name \in Names /\ old.zone \in Codes \cup {None}
  BY RegistryAssumption, TypeOfRecord DEF Record, Health, Known
<1>2. \A name, zone : Registered(d, name, zone) = [name |-> Or(name, old.name), zone |-> Or(zone, old.zone), health |-> None]
  BY DEF Registered
<1> HIDE DEF old
<1>3. \A name, zone : Or(name, old.name) \in {name, old.name} /\ (name # Absent => Or(name, old.name) = name)
                      /\ (name = Absent => Or(name, old.name) = old.name)
                      /\ Or(zone, old.zone) \in {zone, old.zone} /\ (zone = Absent => Or(zone, old.zone) = old.zone)
  BY DEF Or
<1>4. ASSUME NEW name \in Names \cup {Absent}, NEW zone \in Codes \cup {None, Absent}
      PROVE  /\ Registered(d, name, zone) \in Record
             /\ name # Absent => Registered(d, name, zone).name = name
  <2>1. Or(name, old.name) \in Names /\ Or(zone, old.zone) \in Codes \cup {None}
    BY <1>1 DEF Or
  <2>2. QED
    BY <1>2, <1>3, <2>1 DEF Record, Health
<1>5. \A name \in Names, zone \in Codes \cup {None} :
        Merged(d, name, zone) \in Record /\ Replaced(d, name, zone) \in Record
  BY <1>4 DEF Merged, Replaced, Record, Health
<1>6. ASSUME Known(d), NEW name \in Names \cup {Absent}, NEW zone \in Codes \cup {None, Absent}
      PROVE  Updated(d, name, zone) \in Record
  BY <1>6 DEF Updated, Or, Known, Record
<1>7. ASSUME Known(d), NEW health \in Statuses PROVE WithHealth(d, health) \in Record
  BY <1>7 DEF WithHealth, Known, Record, Health
<1>8. QED
  BY <1>4, <1>5, <1>6, <1>7

-----------------------------------------------------------------------------
(* Tasks that meet.                                                        *)

LEMMA MeetSymmetric ==
  ASSUME NEW x, NEW y
  PROVE  Meet(x, y) <=> Meet(y, x)
  BY DEF Meet

\* Two tasks meet at a device of both, unless one is a session and neither a removal.
LEMMA MeetAt ==
  ASSUME NEW x, NEW y, NEW d, d \in DevicesOf(x), d \in DevicesOf(y),
         (x.op # "session" /\ y.op # "session") \/ x.op = "delete" \/ y.op = "delete"
  PROVE  Meet(x, y)
  BY DEF Meet

LEMMA BecomeCrosses ==
  ASSUME TypeOK, JobsOK, Crossings, NEW t \in Tasks, NEW job \in Job, Become(t, job)
  PROVE  /\ Crossings' /\ crossed \subseteq crossed' /\ clean' \subseteq clean /\ crossed' \subseteq Tasks
         /\ task' = [task EXCEPT ![t] = job] /\ task'[t] = job /\ \A u \in Tasks : u # t => task'[u] = task[u]
         /\ \A u \in Tasks : u # t /\ task[u] # None /\ Meet(task[u], job) =>
              u \in crossed' /\ t \in crossed' /\ clean' \cap DevicesOf(job) = {}
<1> DEFINE met == MeetingTasks(t, job)
<1>1. /\ task' = [task EXCEPT ![t] = job]
      /\ crossed' = IF met = {} THEN crossed ELSE crossed \cup met \cup {t}
      /\ clean' = IF met = {} THEN clean ELSE clean \ DevicesOf(job)
  BY DEF Become
<1>2. \A u \in Tasks : u \in met <=> u # t /\ task[u] # None /\ Meet(task[u], job)
  BY DEF MeetingTasks
<1>3. met \subseteq Tasks
  BY DEF MeetingTasks
<1> HIDE DEF met
<1>4. task'[t] = job /\ \A u \in Tasks : u # t => task'[u] = task[u]
  BY <1>1 DEF JobsOK
<1>5. job # None
  BY JobShape
<1>6. crossed \subseteq crossed' /\ clean' \subseteq clean /\ crossed' \subseteq Tasks
  BY <1>1, <1>3 DEF TypeOK
<1>7. \A u \in Tasks : u # t /\ task[u] # None /\ Meet(task[u], job) =>
        u \in crossed' /\ t \in crossed' /\ clean' \cap DevicesOf(job) = {}
  BY <1>1, <1>2
<1>8. ASSUME NEW u \in Tasks, task'[u] = None PROVE u \notin crossed'
  BY <1>1, <1>2, <1>4, <1>5, <1>8 DEF Crossings
<1>9. ASSUME NEW u \in Tasks, NEW v \in Tasks, u # v, task'[u] # None, task'[v] # None, Meet(task'[u], task'[v])
      PROVE  u \in crossed' /\ clean' \cap DevicesOf(task'[u]) \cap DevicesOf(task'[v]) = {}
  <2>1. CASE u = t
    BY <1>4, <1>7, <1>9, <2>1, MeetSymmetric
  <2>2. CASE v = t
    BY <1>4, <1>7, <1>9, <2>2
  <2>3. CASE u # t /\ v # t
    BY <1>4, <1>6, <1>9, <2>3 DEF Crossings
  <2>4. QED
    BY <2>1, <2>2, <2>3
<1>10. Crossings'
  BY <1>8, <1>9 DEF Crossings
<1>11. QED
  BY <1>1, <1>4, <1>6, <1>7, <1>10

\* A task that ends, or goes on with no device that it did not have.
LEMMA ShrinkCrosses ==
  ASSUME Crossings, NEW t \in Tasks, \A u \in Tasks : u # t => task'[u] = task[u],
         DevicesOf(task'[t]) \subseteq DevicesOf(task[t]),
         task'[t] = None => t \notin crossed',
         task'[t] # None /\ DevicesOf(task'[t]) # {} =>
           task[t] # None /\ task'[t].op = task[t].op /\ (t \in crossed => t \in crossed'),
         \A u \in Tasks : u # t => (u \in crossed' <=> u \in crossed),
         clean' \subseteq clean \cup (DevicesOf(task[t]) \ DevicesOf(task'[t])),
         t \in crossed \/ (task[t] # None /\ task[t].op = "session") => clean' \subseteq clean
  PROVE  Crossings'
<1>1. \A u \in Tasks : task'[u] = None => u \notin crossed'
  BY DEF Crossings
<1>2. ASSUME NEW u \in Tasks, NEW v \in Tasks, u # v, task'[u] # None, task'[v] # None, Meet(task'[u], task'[v])
      PROVE  u \in crossed' /\ clean' \cap DevicesOf(task'[u]) \cap DevicesOf(task'[v]) = {}
  <2>1. CASE u = t
    <3>1. DevicesOf(task'[u]) # {} /\ task'[v] = task[v]
      BY <1>2, <2>1 DEF Meet
    <3>2. Meet(task[u], task[v])
      BY <1>2, <2>1, <3>1 DEF Meet
    <3>3. QED
      BY <1>2, <2>1, <3>1, <3>2 DEF Crossings
  <2>2. CASE v = t
    <3>1. DevicesOf(task'[v]) # {} /\ task'[u] = task[u]
      BY <1>2, <2>2 DEF Meet
    <3>2. Meet(task[u], task[v])
      BY <1>2, <2>2, <3>1 DEF Meet
    <3>3. QED
      BY <1>2, <2>2, <3>1, <3>2 DEF Crossings
  <2>3. CASE u # t /\ v # t
    <3>1. u \in crossed /\ clean \cap DevicesOf(task[u]) \cap DevicesOf(task[v]) = {} /\ task'[u] = task[u] /\ task'[v] = task[v]
          /\ Meet(task[u], task[v])
      BY <1>2, <2>3 DEF Crossings
    <3>2. CASE clean' \subseteq clean
      BY <2>3, <3>1, <3>2
    <3>3. ASSUME NEW d \in clean', d \notin clean, d \in DevicesOf(task[u]), d \in DevicesOf(task[v]) PROVE FALSE
      <4>1. t \notin crossed /\ d \in DevicesOf(task[t]) /\ task[t] # None /\ task[t].op # "session"
        BY <3>3, NoDevices
      <4>2. ~Meet(task[t], task[u]) /\ ~Meet(task[t], task[v])
        BY <1>2, <2>3, <3>1, <4>1 DEF Crossings
      <4>3. QED
        BY <3>1, <3>3, <4>1, <4>2 DEF Meet
    <3>4. QED
      BY <2>3, <3>1, <3>3
  <2>4. QED
    BY <2>1, <2>2, <2>3
<1>3. QED
  BY <1>1, <1>2 DEF Crossings

-----------------------------------------------------------------------------
(* What each part of the invariant asks of a step in which one task moves. *)

LEMMA SetKept ==
  ASSUME SetInMemory, NEW t \in Tasks, \A u \in Tasks : u # t => task'[u] = task[u],
         \A u \in Tasks : u # t /\ u \in crossed => u \in crossed',
         \A d \in Devices, u \in Tasks : u # t /\ Setting(task[u], d) =>
           \/ mem'[d] = mem[d] /\ (d \in clean' => d \in clean)
           \/ u \in crossed' /\ d \notin clean',
         \A d \in Devices : Setting(task'[t], d) /\ (t \notin crossed' \/ d \in clean') => mem'[d] = SetTo(task'[t])
  PROVE  SetInMemory'
<1> SUFFICES ASSUME NEW u \in Tasks, NEW d \in Devices, Setting(task'[u], d), u \notin crossed' \/ d \in clean'
             PROVE  mem'[d] = SetTo(task'[u])
  BY DEF SetInMemory
<1>1. CASE u = t
  BY <1>1
<1>2. CASE u # t
  BY <1>2 DEF SetInMemory
<1>3. QED
  BY <1>1, <1>2

LEMMA MatchKept ==
  ASSUME NEW t \in Tasks, \A u \in Tasks : u # t => task'[u] = task[u],
         NEW d, Matches(d), mem'[d] = mem[d], row'[d] = row[d],
         Setting(task[t], d) => Setting(task'[t], d), Removing(task[t], d) => Removing(task'[t], d),
         Entering(task[t], d) => Entering(task'[t], d)
  PROVE  Matches(d)'
<1>1. SUFFICES ASSUME \A u \in Tasks : ~Setting(task'[u], d) /\ ~Removing(task'[u], d)
               PROVE  mem'[d] = row'[d] \/ \E u \in Tasks : Entering(task'[u], d)
  BY DEF Matches
<1>2. \A u \in Tasks : ~Setting(task[u], d) /\ ~Removing(task[u], d)
  BY <1>1
<1>3. mem[d] = row[d] \/ \E u \in Tasks : Entering(task[u], d)
  BY <1>2 DEF Matches
<1>4. QED
  BY <1>3

LEMMA NameStays ==
  ASSUME NEW t \in Tasks, \A u \in Tasks : u # t => task'[u] = task[u],
         NEW d, NameKept(d), told'[d] = told[d],
         mem'[d] # None, mem'[d].name = told[d], row'[d] # None, row'[d].name = told[d], Keeps(task'[t], d, told[d])
  PROVE  NameKept(d)'
<1>1. \A u \in Tasks : Keeps(task'[u], d, told[d])
  BY DEF NameKept
<1>2. QED
  BY <1>1 DEF NameKept

\* A step that only moves a task which has nothing in memory that is not in
\* the table, to something that changes neither.
LEMMA Quiet ==
  ASSUME Inv, NEW t \in Tasks, NEW job \in Job \cup {None}, task' = [task EXCEPT ![t] = job],
         UNCHANGED <<mem, row, told, gone>>, clean' \subseteq clean, sessions' \subseteq sessions, kids' \subseteq kids,
         zones' \in [Ids -> Codes \cup {"new", "removed"}],
         (job # None /\ crossed' = crossed) \/ (job = None /\ crossed' = crossed \ {t}),
         DevicesOf(job) \subseteq DevicesOf(task[t]),
         job # None /\ DevicesOf(job) # {} => task[t] # None /\ job.op = task[t].op,
         job # None /\ job.op = "drop_zone" =>
           /\ ~job.asked => job.targets = <<>>
           /\ \A i, j \in DOMAIN job.targets : job.targets[i].dev = job.targets[j].dev => i = j,
         \A d \in Devices : ~Setting(job, d) /\ ~Removing(job, d),
         \A d \in clean' : ~Setting(task[t], d) /\ ~Removing(task[t], d) /\ ~Entering(task[t], d),
         \A d \in Devices : Keeps(task[t], d, told[d]) => Keeps(job, d, told[d])
  PROVE  Inv'
<1>1. TypeOK /\ JobsOK /\ Crossings /\ SetInMemory /\ CleanMatches /\ GoneAway /\ ToldKept
  BY DEF Inv, RegistryInv
<1>2. task'[t] = job /\ \A u \in Tasks : u # t => task'[u] = task[u]
  BY <1>1 DEF JobsOK
<1>3. TypeOK'
  BY <1>1 DEF TypeOK
<1>4. JobsOK'
  <2>1. task' \in [Tasks -> Job \cup {None}]
    BY <1>1 DEF JobsOK
  <2>2. ASSUME NEW u \in Tasks, task'[u] # None, task'[u].op = "drop_zone"
        PROVE  /\ ~task'[u].asked => task'[u].targets = <<>>
               /\ \A i, j \in DOMAIN task'[u].targets : task'[u].targets[i].dev = task'[u].targets[j].dev => i = j
    BY <1>1, <1>2, <2>2 DEF JobsOK
  <2>3. QED
    BY <2>1, <2>2 DEF JobsOK
<1>5. Crossings'
  BY <1>1, <1>2, ShrinkCrosses
<1>6. SetInMemory'
  BY <1>1, <1>2, SetKept
<1>7. CleanMatches'
  <2>1. ASSUME NEW d \in clean' PROVE Matches(d)'
    <3>1. Matches(d) /\ d \in Devices
      BY <1>1 DEF CleanMatches, TypeOK
    <3>2. QED
      BY <1>2, <3>1, MatchKept
  <2>2. QED
    BY <2>1 DEF CleanMatches
<1>8. GoneAway'
  <2>1. ASSUME NEW u \in Tasks, NEW d \in Devices, Removing(task'[u], d), u \notin crossed' PROVE Rowless(d)'
    <3>1. u # t
      BY <1>2, <2>1
    <3>2. Rowless(d)
      BY <1>1, <1>2, <2>1, <3>1 DEF GoneAway
    <3>3. QED
      BY <3>2 DEF Rowless
  <2>2. ASSUME NEW d \in gone' PROVE Away(d)'
    <3>1. Away(d)
      BY <1>1 DEF GoneAway
    <3>2. QED
      BY <1>2, <3>1 DEF Away, Rowless
  <2>3. QED
    BY <2>1, <2>2 DEF GoneAway
<1>9. ToldKept'
  <2>1. ASSUME NEW d \in Devices, told'[d] # Absent PROVE NameKept(d)'
    <3>1. NameKept(d)
      BY <1>1, <2>1 DEF ToldKept
    <3>2. Keeps(task'[t], d, told[d])
      BY <1>2, <3>1 DEF NameKept
    <3>3. mem[d] # None /\ mem[d].name = told[d] /\ row[d] # None /\ row[d].name = told[d]
      BY <3>1 DEF NameKept
    <3>4. QED
      BY <1>2, <3>1, <3>2, <3>3, NameStays
  <2>2. QED
    BY <2>1 DEF ToldKept
<1>10. QED
  BY <1>3, <1>4, <1>5, <1>6, <1>7, <1>8, <1>9 DEF Inv, RegistryInv

\* A task begins that changes nothing in memory but the sessions.
LEMMA Beginning ==
  ASSUME Inv, NEW t \in Tasks, task[t] = None, NEW d \in Devices,
         NEW job \in SocketJob \cup SessionJob \cup DeleteJob, job.dev = d, Become(t, job),
         job.op = "session" => job.rec = None, job.op = "delete" => job.next = 1,
         UNCHANGED <<mem, row, zones, kids>>, sessions' \subseteq sessions \cup {d}, gone' \subseteq gone, d \notin gone',
         told' \in [Devices -> Names \cup {Absent}], \A e \in Devices : told'[e] = told[e] \/ told'[e] = Absent,
         told'[d] # Absent => Keeps(job, d, told'[d])
  PROVE  Inv'
<1>1. TypeOK /\ JobsOK /\ Crossings /\ SetInMemory /\ CleanMatches /\ GoneAway /\ ToldKept
  BY DEF Inv, RegistryInv
<1>2. job \in Job /\ job # None /\ DevicesOf(job) = {d} /\ job.op \in {"socket", "session", "delete"}
  <2>1. job \in Job /\ job.op \in {"socket", "session", "delete"}
    BY DEF Job, SocketJob, SessionJob, DeleteJob
  <2>2. QED
    BY <2>1, JobShape, JobDevices
<1>3. /\ Crossings' /\ crossed \subseteq crossed' /\ clean' \subseteq clean /\ crossed' \subseteq Tasks
      /\ task' = [task EXCEPT ![t] = job] /\ task'[t] = job /\ \A u \in Tasks : u # t => task'[u] = task[u]
      /\ \A u \in Tasks : u # t /\ task[u] # None /\ Meet(task[u], job) =>
           u \in crossed' /\ t \in crossed' /\ clean' \cap DevicesOf(job) = {}
  BY <1>1, <1>2, BecomeCrosses
<1>4. \A e \in Devices : ~Setting(job, e) /\ ~Removing(job, e) /\ ~Setting(task[t], e) /\ ~Removing(task[t], e) /\ ~Entering(task[t], e)
  BY <1>2, PlanLength DEF Setting, Removing, Entering
<1>5. TypeOK'
  BY <1>1, <1>3 DEF TypeOK
<1>6. JobsOK'
  <2>1. task' \in [Tasks -> Job \cup {None}]
    BY <1>1, <1>2, <1>3 DEF JobsOK
  <2>2. QED
    BY <1>1, <1>2, <1>3, <2>1 DEF JobsOK
<1>7. SetInMemory'
  BY <1>1, <1>3, <1>4, SetKept
<1>8. CleanMatches'
  <2>1. ASSUME NEW e \in clean' PROVE Matches(e)'
    <3>1. Matches(e) /\ e \in Devices
      BY <1>1, <1>3, <2>1 DEF CleanMatches, TypeOK
    <3>2. QED
      BY <1>3, <1>4, <3>1, MatchKept
  <2>2. QED
    BY <2>1 DEF CleanMatches
<1>9. GoneAway'
  <2>1. ASSUME NEW u \in Tasks, NEW e \in Devices, Removing(task'[u], e), u \notin crossed' PROVE Rowless(e)'
    <3>1. u # t
      BY <1>3, <1>4, <2>1
    <3>2. Rowless(e)
      BY <1>1, <1>3, <2>1, <3>1 DEF GoneAway
    <3>3. QED
      BY <3>2 DEF Rowless
  <2>2. ASSUME NEW e \in gone' PROVE Away(e)'
    <3>1. Away(e) /\ e # d
      BY <1>1, <2>2 DEF GoneAway
    <3>2. e \notin sessions' /\ e \notin DevicesOf(task'[t])
      BY <1>2, <1>3, <3>1 DEF Away
    <3>3. QED
      BY <1>3, <3>1, <3>2 DEF Away, Rowless
  <2>3. QED
    BY <2>1, <2>2 DEF GoneAway
<1>10. ToldKept'
  <2>1. ASSUME NEW e \in Devices, told'[e] # Absent PROVE NameKept(e)'
    <3>1. told'[e] = told[e] /\ NameKept(e)
      BY <1>1, <2>1 DEF ToldKept
    <3>2. Keeps(task'[t], e, told[e])
      BY <1>2, <1>3, <2>1, <3>1 DEF Keeps
    <3>3. mem[e] # None /\ mem[e].name = told[e] /\ row[e] # None /\ row[e].name = told[e]
      BY <3>1 DEF NameKept
    <3>4. QED
      BY <1>3, <3>1, <3>2, <3>3, NameStays
  <2>2. QED
    BY <2>1 DEF ToldKept
<1>11. QED
  BY <1>3, <1>5, <1>6, <1>7, <1>8, <1>9, <1>10 DEF Inv, RegistryInv

\* A record is changed in memory, and a task is to write it.
LEMMA Writing ==
  ASSUME Inv, NEW t \in Tasks, NEW d \in Devices, NEW rec \in Record, NEW how \in {"answer", "quiet", "import", "status"},
         Write(t, d, rec, how), UNCHANGED <<sessions, row, zones, kids>>,
         task[t] = None \/ (task[t] # None /\ task[t].op \in {"write", "socket"} /\ task[t].dev = d)
  PROVE  Inv'
<1>1. TypeOK /\ JobsOK /\ Crossings /\ SetInMemory /\ CleanMatches /\ GoneAway /\ ToldKept
  BY DEF Inv, RegistryInv
<1>2. PICK job : job = [op |-> "write", dev |-> d, rec |-> rec, how |-> how]
  OBVIOUS
<1>3. job \in WriteJob /\ job.op = "write" /\ job.dev = d /\ job.rec = rec
  BY <1>2 DEF WriteJob
<1>4. job \in Job /\ job # None /\ DevicesOf(job) = {d}
  BY <1>3, JobShape, JobDevices DEF Job
<1>5. Become(t, job) /\ mem' = [mem EXCEPT ![d] = rec] /\ Renamed(d, rec.name) /\ gone' = gone \ {d}
  BY <1>2 DEF Write, Wanted
<1>6. /\ Crossings' /\ crossed \subseteq crossed' /\ clean' \subseteq clean /\ crossed' \subseteq Tasks
      /\ task' = [task EXCEPT ![t] = job] /\ task'[t] = job /\ \A u \in Tasks : u # t => task'[u] = task[u]
      /\ \A u \in Tasks : u # t /\ task[u] # None /\ Meet(task[u], job) =>
           u \in crossed' /\ t \in crossed' /\ clean' \cap DevicesOf(job) = {}
  BY <1>1, <1>4, <1>5, BecomeCrosses
<1>7. \A e \in Devices : e # d => /\ ~Setting(job, e) /\ ~Setting(task[t], e)
                                  /\ ~Removing(task[t], e) /\ ~Entering(task[t], e)
  BY <1>3 DEF Setting, Removing, Entering
<1>8. Setting(job, d) /\ SetTo(job) = rec /\ \A e \in Devices : ~Removing(job, e)
  BY <1>3, <1>4 DEF Setting, SetTo, Removing
<1>9. mem'[d] = rec /\ \A e \in Devices : e # d => mem'[e] = mem[e]
  BY <1>1, <1>5 DEF TypeOK
<1>10. rec # None /\ rec.name \in Names
  BY TypeOfRecord
<1>11. TypeOK'
  BY <1>1, <1>5, <1>6, <1>10 DEF TypeOK, Renamed
<1>12. JobsOK'
  <2>1. task' \in [Tasks -> Job \cup {None}]
    BY <1>1, <1>4, <1>6 DEF JobsOK
  <2>2. QED
    BY <1>1, <1>3, <1>6, <2>1 DEF JobsOK
<1>13. SetInMemory'
  <2>1. ASSUME NEW u \in Tasks, u # t, Setting(task[u], d) PROVE u \in crossed' /\ d \notin clean'
    <3>1. task[u] \in Job /\ task[u] # None
      BY <1>1, <2>1 DEF JobsOK, Setting
    <3>2. d \in DevicesOf(task[u]) /\ task[u].op # "session"
      BY <2>1, <3>1, JobShape, JobDevices DEF Setting, Targets, DropJob
    <3>3. Meet(task[u], job)
      BY <1>3, <1>4, <3>2, MeetAt
    <3>4. QED
      BY <1>4, <1>6, <2>1, <3>1, <3>3
  <2>2. QED
    BY <1>1, <1>6, <1>7, <1>8, <1>9, <2>1, SetKept
<1>14. CleanMatches'
  <2>1. ASSUME NEW e \in clean', e # d PROVE Matches(e)'
    <3>1. Matches(e) /\ e \in Devices
      BY <1>1, <1>6, <2>1 DEF CleanMatches, TypeOK
    <3>2. QED
      BY <1>6, <1>7, <1>9, <2>1, <3>1, MatchKept
  <2>2. Matches(d)'
    BY <1>6, <1>8 DEF Matches
  <2>3. QED
    BY <2>1, <2>2 DEF CleanMatches
<1>15. GoneAway'
  <2>1. ASSUME NEW u \in Tasks, NEW e \in Devices, Removing(task'[u], e), u \notin crossed' PROVE Rowless(e)'
    <3>1. u # t
      BY <1>6, <1>8, <2>1
    <3>2. Rowless(e)
      BY <1>1, <1>6, <2>1, <3>1 DEF GoneAway
    <3>3. QED
      BY <3>2 DEF Rowless
  <2>2. ASSUME NEW e \in gone' PROVE Away(e)'
    <3>1. Away(e) /\ e # d /\ e \in Devices
      BY <1>1, <1>5, <2>2 DEF GoneAway, TypeOK
    <3>2. e \notin DevicesOf(task'[t])
      BY <1>4, <1>6, <3>1
    <3>3. QED
      BY <1>6, <1>9, <3>1, <3>2 DEF Away, Rowless
  <2>3. QED
    BY <2>1, <2>2 DEF GoneAway
<1>16. ToldKept'
  <2>1. ASSUME NEW e \in Devices, told'[e] # Absent PROVE NameKept(e)'
    <3>1. told'[e] = told[e] /\ NameKept(e) /\ (e = d => rec.name = told[d])
      BY <1>1, <1>5, <2>1 DEF ToldKept, Renamed, TypeOK, NameKept
    <3>2. Keeps(task'[t], e, told[e])
      BY <1>3, <1>4, <1>6, <3>1 DEF Keeps
    <3>3. mem'[e] # None /\ mem'[e].name = told[e] /\ row'[e] # None /\ row'[e].name = told[e]
      BY <1>9, <1>10, <3>1 DEF NameKept
    <3>4. QED
      BY <1>6, <3>1, <3>2, <3>3, NameStays
  <2>2. QED
    BY <2>1 DEF ToldKept
<1>17. QED
  BY <1>6, <1>11, <1>12, <1>13, <1>14, <1>15, <1>16 DEF Inv, RegistryInv

\* Where a task is not marked it is alone with sessions, and without them while it removes.
LEMMA Sole ==
  ASSUME Crossings, NEW t \in Tasks, NEW u \in Tasks, t # u, task[t] # None, task[u] # None,
         NEW d, d \in DevicesOf(task[t]), d \in DevicesOf(task[u]),
         t \notin crossed \/ u \notin crossed \/ d \in clean, task[t].op # "session"
  PROVE  task[u].op = "session" /\ task[t].op # "delete"
<1>1. ~Meet(task[t], task[u]) /\ ~Meet(task[u], task[t])
  BY MeetSymmetric DEF Crossings
<1>2. QED
  BY <1>1, MeetAt

LEMMA SettingDevice ==
  ASSUME JobsOK, NEW u \in Tasks, NEW d, Setting(task[u], d)
  PROVE  /\ task[u] \in Job /\ task[u] # None /\ d \in DevicesOf(task[u]) /\ task[u].op \in {"write", "drop_zone"}
         /\ SetTo(task[u]) \in Record
<1>1. task[u] \in Job /\ task[u] # None
  BY DEF JobsOK, Setting
<1>2. CASE task[u].op = "write"
  BY <1>1, <1>2, JobShape, JobDevices DEF Setting, SetTo, WriteJob
<1>3. CASE task[u].op = "drop_zone"
  <2>1. task[u] \in DropJob /\ task[u].targets # <<>> /\ task[u].targets[1].dev = d
    BY <1>1, <1>3, JobShape DEF Setting
  <2>2. task[u].targets[1] \in Target /\ 1 \in DOMAIN task[u].targets
    BY <2>1 DEF DropJob
  <2>3. QED
    BY <1>1, <1>3, <2>1, <2>2, JobDevices DEF SetTo, Target, Targets
<1>4. QED
  BY <1>2, <1>3 DEF Setting

LEMMA RemovingDevice ==
  ASSUME JobsOK, NEW u \in Tasks, NEW d, Removing(task[u], d)
  PROVE  task[u] \in Job /\ task[u] # None /\ d \in DevicesOf(task[u]) /\ task[u].op = "delete"
<1>1. task[u] \in Job /\ task[u] # None
  BY DEF JobsOK, Removing
<1>2. QED
  BY <1>1, JobDevices DEF Removing

LEMMA EndTask ==
  ASSUME JobsOK, NEW t \in Tasks, End(t)
  PROVE  /\ JobsOK' /\ task'[t] = None /\ \A u \in Tasks : u # t => task'[u] = task[u]
         /\ crossed' = crossed \ {t}
<1>1. task' = [task EXCEPT ![t] = None] /\ crossed' = crossed \ {t}
  BY DEF End
<1>2. task' \in [Tasks -> Job \cup {None}] /\ task'[t] = None /\ \A u \in Tasks : u # t => task'[u] = task[u]
  BY <1>1 DEF JobsOK
<1>3. JobsOK'
  BY <1>2 DEF JobsOK
<1>4. QED
  BY <1>1, <1>2, <1>3

LEMMA Nothing == \A d : ~Setting(None, d) /\ ~Removing(None, d) /\ ~Entering(None, d) /\ \A name : Keeps(None, d, name)
  BY DEF Setting, Removing, Entering, Keeps

\* The statement of a write.
LEMMA WriteDoneKeeps ==
  ASSUME Inv, NEW t \in Tasks, WriteDone(t)
  PROVE  Inv'
<1>1. TypeOK /\ JobsOK /\ Crossings /\ SetInMemory /\ CleanMatches /\ GoneAway /\ ToldKept
  BY DEF Inv, RegistryInv
<1>2. PICK d, rec : d = task[t].dev /\ rec = task[t].rec
  OBVIOUS
<1>3. task[t] \in Job /\ task[t] # None /\ task[t].op = "write" /\ DevicesOf(task[t]) = {d} /\ d \in Devices /\ rec \in Record
  <2>1. task[t] \in Job /\ task[t] # None /\ task[t].op = "write"
    BY <1>1 DEF WriteDone, JobsOK
  <2>2. QED
    BY <1>2, <2>1, JobShape, JobDevices DEF WriteJob
<1>4. /\ row' = [row EXCEPT ![d] = rec] /\ clean' = (IF t \in crossed THEN clean ELSE clean \cup {d}) /\ End(t)
      /\ UNCHANGED <<mem, sessions, zones, kids, gone>>
      /\ told' = IF task[t].how = "answer" /\ t \notin crossed THEN [told EXCEPT ![d] = rec.name] ELSE told
  BY <1>2 DEF WriteDone, Stored
<1>5. /\ JobsOK' /\ task'[t] = None /\ crossed' = crossed \ {t} /\ \A u \in Tasks : u # t => task'[u] = task[u]
  BY <1>1, <1>4, EndTask
<1>6. Setting(task[t], d) /\ SetTo(task[t]) = rec /\ \A e : e # d => ~Setting(task[t], e)
  BY <1>2, <1>3 DEF Setting, SetTo
<1>7. \A e : ~Removing(task[t], e) /\ ~Entering(task[t], e)
  BY <1>3 DEF Removing, Entering
<1>8. t \notin crossed \/ d \in clean => mem[d] = rec
  BY <1>1, <1>3, <1>6 DEF SetInMemory
<1>9. row'[d] = rec /\ \A e \in Devices : e # d => row'[e] = row[e]
  BY <1>1, <1>3, <1>4 DEF TypeOK
<1>10. rec # None /\ rec.name \in Names
  BY <1>3, TypeOfRecord
<1>11. TypeOK'
  <2>1. row' \in [Devices -> Record \cup {None}]
    BY <1>1, <1>3, <1>4 DEF TypeOK
  <2>2. QED
    BY <1>1, <1>3, <1>4, <1>5, <1>10, <2>1 DEF TypeOK
<1>12. Crossings'
  BY <1>1, <1>3, <1>4, <1>5, NoDevices, ShrinkCrosses
<1>13. SetInMemory'
  <2>1. ASSUME NEW u \in Tasks, u # t, Setting(task[u], d), t \notin crossed PROVE FALSE
    <3>1. task[u] # None /\ d \in DevicesOf(task[u]) /\ task[u].op # "session"
      BY <1>1, <2>1, SettingDevice
    <3>2. QED
      BY <1>1, <1>3, <2>1, <3>1, Sole
  <2>2. QED
    BY <1>1, <1>4, <1>5, <2>1, Nothing, SetKept
<1>14. CleanMatches'
  <2>1. ASSUME NEW e \in clean', e # d PROVE Matches(e)'
    <3>1. Matches(e) /\ e \in Devices
      BY <1>1, <1>4, <2>1 DEF CleanMatches, TypeOK
    <3>2. QED
      BY <1>4, <1>5, <1>6, <1>7, <1>9, <2>1, <3>1, MatchKept
  <2>2. ASSUME d \in clean' PROVE Matches(d)'
    <3>1. mem'[d] = row'[d]
      BY <1>4, <1>8, <1>9, <2>2
    <3>2. QED
      BY <3>1 DEF Matches
  <2>3. QED
    BY <2>1, <2>2 DEF CleanMatches
<1>15. GoneAway'
  <2>1. ASSUME NEW u \in Tasks, NEW e \in Devices, Removing(task'[u], e), u \notin crossed' PROVE Rowless(e)'
    <3>1. u # t /\ Removing(task[u], e) /\ u \notin crossed
      BY <1>5, <2>1, Nothing
    <3>2. Rowless(e)
      BY <1>1, <3>1 DEF GoneAway
    <3>3. e # d
      BY <1>1, <1>3, <3>1, RemovingDevice, Sole
    <3>4. QED
      BY <1>4, <1>9, <3>2, <3>3 DEF Rowless
  <2>2. ASSUME NEW e \in gone' PROVE Away(e)'
    <3>1. Away(e) /\ e \in Devices
      BY <1>1, <1>4, <2>2 DEF GoneAway, TypeOK
    <3>2. e # d
      BY <1>3, <3>1 DEF Away
    <3>3. QED
      BY <1>4, <1>5, <1>9, <3>1, <3>2, NoDevices DEF Away, Rowless
  <2>3. QED
    BY <2>1, <2>2 DEF GoneAway
<1>16. ToldKept'
  <2>1. ASSUME NEW e \in Devices, told'[e] # Absent, told'[e] = told[e] PROVE NameKept(e)'
    <3>1. NameKept(e)
      BY <1>1, <2>1 DEF ToldKept
    <3>2. e = d => rec.name = told[d]
      BY <1>2, <1>3, <3>1 DEF NameKept, Keeps
    <3>3. mem[e] # None /\ mem[e].name = told[e] /\ row[e] # None /\ row[e].name = told[e]
      BY <3>1 DEF NameKept
    <3>4. mem'[e] # None /\ mem'[e].name = told[e] /\ row'[e] # None /\ row'[e].name = told[e]
      BY <1>4, <1>9, <1>10, <3>2, <3>3
    <3>5. QED
      BY <1>5, <2>1, <3>1, <3>4, Nothing, NameStays
  <2>2. ASSUME told'[d] # told[d] PROVE NameKept(d)'
    <3>1. t \notin crossed /\ told'[d] = rec.name
      BY <1>1, <1>3, <1>4, <2>2 DEF TypeOK
    <3>2. mem'[d] = rec /\ row'[d] = rec
      BY <1>4, <1>8, <1>9, <3>1
    <3>3. ASSUME NEW u \in Tasks PROVE Keeps(task'[u], d, rec.name)
      <4>1. CASE u = t
        BY <1>5, <4>1, Nothing
      <4>2. CASE u # t
        <5>1. task[u] # None /\ d \in DevicesOf(task[u]) => task[u].op = "session"
          BY <1>1, <1>3, <3>1, <4>2, Sole
        <5>2. QED
          BY <1>5, <4>2, <5>1 DEF Keeps
      <4>3. QED
        BY <4>1, <4>2
    <3>4. QED
      BY <1>10, <3>1, <3>2, <3>3 DEF NameKept
  <2>3. ASSUME NEW e \in Devices, e # d PROVE told'[e] = told[e]
    BY <1>1, <1>4, <2>3 DEF TypeOK
  <2>4. QED
    BY <2>1, <2>2, <2>3 DEF ToldKept
<1>17. QED
  BY <1>5, <1>11, <1>12, <1>13, <1>14, <1>15, <1>16 DEF Inv, RegistryInv

LEMMA WriteRefusedKeeps ==
  ASSUME Inv, NEW t \in Tasks, WriteRefused(t)
  PROVE  Inv'
<1>1. TypeOK /\ JobsOK
  BY DEF Inv
<1>2. PICK d : d = task[t].dev
  OBVIOUS
<1>3. task[t] # None /\ task[t].op = "write" /\ clean' = clean \ {d} /\ task' = [task EXCEPT ![t] = None] /\ crossed' = crossed \ {t}
      /\ UNCHANGED <<mem, sessions, row, zones, kids, told, gone>>
  BY <1>2 DEF WriteRefused, End
<1>4. \A e \in clean' : ~Setting(task[t], e) /\ ~Removing(task[t], e) /\ ~Entering(task[t], e)
  BY <1>2, <1>3 DEF Setting, Removing, Entering
<1>5. QED
  BY <1>1, <1>3, <1>4, Nothing, NoDevices, Quiet DEF TypeOK

LEMMA ImportRefusedKeeps ==
  ASSUME Inv, NEW t \in Tasks, ImportRefused(t)
  PROVE  Inv'
<1>1. TypeOK /\ JobsOK /\ GoneAway
  BY DEF Inv, RegistryInv
<1>2. PICK d, rec : d = task[t].dev /\ rec = Zoneless(task[t].rec)
  OBVIOUS
<1>3. task[t] \in WriteJob /\ task[t] # None /\ task[t].op = "write" /\ task[t].how = "import" /\ task[t] \in Job
  <2>1. task[t] \in Job /\ task[t] # None /\ task[t].op = "write" /\ task[t].how = "import"
    BY <1>1 DEF ImportRefused, JobsOK
  <2>2. QED
    BY <2>1, JobShape
<1>4. rec \in Record /\ d \in Devices /\ DevicesOf(task[t]) = {d}
  BY <1>2, <1>3, TypeOfRecord, JobDevices DEF WriteJob
<1>5. [task[t] EXCEPT !.rec = rec] = [op |-> "write", dev |-> d, rec |-> rec, how |-> "import"]
  BY <1>2, <1>3 DEF WriteJob
<1>6. d \notin gone
  BY <1>1, <1>4 DEF GoneAway, Away
<1>7. Write(t, d, rec, "import")
  BY <1>2, <1>5, <1>6 DEF ImportRefused, Write, Wanted
<1>8. QED
  BY <1>2, <1>3, <1>4, <1>7, Writing DEF ImportRefused

\* A server that runs again.
LEMMA ReloadKeeps ==
  ASSUME Inv, Reload
  PROVE  Inv'
<1>1. TypeOK /\ JobsOK /\ GoneAway /\ ToldKept
  BY DEF Inv, RegistryInv
<1>2. /\ mem' = row /\ row' = row /\ sessions' = {} /\ crossed' = {} /\ clean' = Devices /\ kids' \subseteq kids
      /\ task' = [t \in Tasks |-> None] /\ UNCHANGED <<zones, told, gone>>
  BY DEF Reload
<1>3. \A t \in Tasks : task'[t] = None
  BY <1>2
<1>4. TypeOK' /\ JobsOK'
  BY <1>1, <1>2 DEF TypeOK, JobsOK
<1>5. Crossings' /\ SetInMemory' /\ CleanMatches'
  BY <1>2, <1>3, Nothing DEF Crossings, SetInMemory, CleanMatches, Matches
<1>6. GoneAway'
  <2>1. ASSUME NEW d \in gone' PROVE Away(d)'
    <3>1. Away(d)
      BY <1>1, <1>2, <2>1 DEF GoneAway
    <3>2. QED
      BY <1>2, <1>3, <3>1, NoDevices DEF Away, Rowless
  <2>2. QED
    BY <1>3, <2>1, Nothing DEF GoneAway
<1>7. ToldKept'
  <2>1. ASSUME NEW d \in Devices, told'[d] # Absent PROVE NameKept(d)'
    <3>1. NameKept(d)
      BY <1>1, <1>2, <2>1 DEF ToldKept
    <3>2. QED
      BY <1>2, <1>3, <3>1, Nothing DEF NameKept
  <2>2. QED
    BY <2>1 DEF ToldKept
<1>8. QED
  BY <1>4, <1>5, <1>6, <1>7 DEF Inv, RegistryInv

\* Rows of the device turn up: sessions of its tasks, and what others write.
LEMMA RowsArrive ==
  ASSUME GoneAway, JobsOK, Crossings, TypeOK, NEW d \in Devices, kids' \subseteq kids \cup ({d} \X Tables), gone' = gone,
         \A e \in Devices : e # d => row'[e] = row[e] /\ mem'[e] = mem[e], sessions' \subseteq sessions,
         \A t \in Tasks : DevicesOf(task'[t]) \subseteq DevicesOf(task[t]),
         \A t \in Tasks, e \in Devices : Removing(task'[t], e) /\ t \notin crossed' => Removing(task[t], e) /\ t \notin crossed,
         row[d] # None \/ \E t \in Tasks : task[t] # None /\ task[t].op = "session" /\ d \in DevicesOf(task[t])
  PROVE  GoneAway'
<1>1. d \notin gone
  BY DEF GoneAway, Away, Rowless
<1>2. ASSUME NEW t \in Tasks, Removing(task[t], d), t \notin crossed PROVE FALSE
  <2>1. Rowless(d) /\ task[t] # None /\ task[t].op = "delete" /\ d \in DevicesOf(task[t])
    BY <1>2, RemovingDevice DEF GoneAway
  <2>2. PICK u \in Tasks : task[u] # None /\ task[u].op = "session" /\ d \in DevicesOf(task[u])
    BY <2>1 DEF Rowless
  <2>3. QED
    BY <1>2, <2>1, <2>2, Sole
<1>3. ASSUME NEW t \in Tasks, NEW e \in Devices, Removing(task'[t], e), t \notin crossed' PROVE Rowless(e)'
  <2>1. e # d /\ Rowless(e)
    BY <1>2, <1>3 DEF GoneAway
  <2>2. \A k \in kids' : k[1] # e
    BY <2>1 DEF Rowless
  <2>3. QED
    BY <2>1, <2>2 DEF Rowless
<1>4. ASSUME NEW e \in gone' PROVE Away(e)'
  <2>1. e # d /\ Away(e) /\ e \in Devices
    BY <1>1, <1>4 DEF GoneAway, TypeOK
  <2>2. \A k \in kids' : k[1] # e
    BY <2>1 DEF Away, Rowless
  <2>3. QED
    BY <2>1, <2>2 DEF Away, Rowless
<1>5. QED
  BY <1>3, <1>4 DEF GoneAway

LEMMA ArriveKeeps ==
  ASSUME Inv, NEW d \in Devices, NEW table \in Arriving, Arrive(d, table)
  PROVE  Inv'
<1>1. TypeOK /\ JobsOK /\ Crossings /\ SetInMemory /\ CleanMatches /\ GoneAway /\ ToldKept
  BY DEF Inv, RegistryInv
<1>2. UNCHANGED <<mem, sessions, row, zones, task, crossed, clean, told, gone>> /\ row[d] # None
      /\ kids' = kids \cup {<<d, table>>} /\ table \in Tables
  BY JobAssumption DEF Arrive
<1>3. TypeOK' /\ JobsOK' /\ Crossings' /\ SetInMemory' /\ CleanMatches' /\ ToldKept'
  BY <1>1, <1>2 DEF TypeOK, JobsOK, Crossings, SetInMemory, CleanMatches, Matches, ToldKept, NameKept
<1>4. GoneAway'
  BY <1>1, <1>2, RowsArrive
<1>5. QED
  BY <1>3, <1>4 DEF Inv, RegistryInv

\* The session of a device that has its row.
LEMMA SessionEntered ==
  ASSUME Inv, NEW t \in Tasks, PersistSession(t), row[task[t].dev] # None
  PROVE  Inv'
<1>1. TypeOK /\ JobsOK /\ Crossings /\ SetInMemory /\ CleanMatches /\ GoneAway /\ ToldKept
  BY DEF Inv, RegistryInv
<1>2. PICK d : d = task[t].dev
  OBVIOUS
<1>3. task[t] \in Job /\ task[t] # None /\ task[t].op = "session" /\ task[t].rec = None /\ DevicesOf(task[t]) = {d} /\ d \in Devices
  <2>1. task[t] \in Job /\ task[t] # None /\ task[t].op = "session" /\ task[t].rec = None
    BY <1>1 DEF PersistSession, JobsOK
  <2>2. QED
    BY <1>2, <2>1, JobDevices
<1>4. End(t) /\ kids' = kids \cup {<<d, "session">>} /\ UNCHANGED <<mem, sessions, row, zones, clean, told, gone>>
  BY <1>2 DEF PersistSession
<1>5. /\ JobsOK' /\ task'[t] = None /\ crossed' = crossed \ {t} /\ \A u \in Tasks : u # t => task'[u] = task[u]
  BY <1>1, <1>4, EndTask
<1>6. \A e : ~Setting(task[t], e) /\ ~Removing(task[t], e) /\ ~Entering(task[t], e)
  BY <1>3 DEF Setting, Removing, Entering
<1>7. TypeOK'
  BY <1>1, <1>3, <1>4, <1>5 DEF TypeOK, Tables
<1>8. Crossings'
  BY <1>1, <1>4, <1>5, NoDevices, ShrinkCrosses
<1>9. SetInMemory'
  BY <1>1, <1>4, <1>5, Nothing, SetKept
<1>10. CleanMatches'
  BY <1>1, <1>4, <1>5, <1>6, MatchKept DEF CleanMatches
<1>11. GoneAway'
  <2>1. \A u \in Tasks : DevicesOf(task'[u]) \subseteq DevicesOf(task[u])
    BY <1>5, NoDevices
  <2>2. \A u \in Tasks, e \in Devices : Removing(task'[u], e) /\ u \notin crossed' => Removing(task[u], e) /\ u \notin crossed
    BY <1>5, Nothing
  <2>3. kids' \subseteq kids \cup ({d} \X Tables)
    BY <1>4 DEF Tables
  <2>4. QED
    BY <1>1, <1>3, <1>4, <2>1, <2>2, <2>3, RowsArrive
<1>12. ToldKept'
  <2>1. ASSUME NEW e \in Devices, told'[e] # Absent PROVE NameKept(e)'
    <3>1. NameKept(e) /\ told'[e] = told[e]
      BY <1>1, <1>4, <2>1 DEF ToldKept
    <3>2. mem'[e] # None /\ mem'[e].name = told[e] /\ row'[e] # None /\ row'[e].name = told[e]
      BY <1>4, <3>1 DEF NameKept
    <3>3. QED
      BY <1>5, <3>1, <3>2, Nothing, NameStays
  <2>2. QED
    BY <2>1 DEF ToldKept
<1>13. QED
  BY <1>5, <1>7, <1>8, <1>9, <1>10, <1>11, <1>12 DEF Inv, RegistryInv

\* ... and of one that has none: the record is fetched, or made.
LEMMA SessionFetches ==
  ASSUME Inv, NEW t \in Tasks, PersistSession(t), row[task[t].dev] = None
  PROVE  Inv'
<1>1. TypeOK /\ JobsOK /\ Crossings /\ SetInMemory /\ CleanMatches /\ GoneAway /\ ToldKept
  BY DEF Inv, RegistryInv
<1>2. PICK d, rec : d = task[t].dev /\ rec = mem'[d]
  OBVIOUS
<1>3. /\ task[t] \in Job /\ task[t] # None /\ task[t].op = "session" /\ DevicesOf(task[t]) = {d} /\ d \in Devices
      /\ task[t] \in SessionJob
  <2>1. task[t] \in Job /\ task[t] # None /\ task[t].op = "session"
    BY <1>1 DEF PersistSession, JobsOK
  <2>2. QED
    BY <1>2, <2>1, JobShape, JobDevices
<1>4. /\ mem' = IF Known(d) THEN mem ELSE [mem EXCEPT ![d] = Registered(d, Default, Absent)]
      /\ task' = [task EXCEPT ![t].rec = rec] /\ UNCHANGED <<sessions, row, zones, kids, crossed, clean, told, gone>>
      /\ row[d] = None
  BY <1>2 DEF PersistSession
<1>5. /\ rec \in Record /\ (mem[d] # None => mem'[d] = mem[d]) /\ \A e \in Devices : e # d => mem'[e] = mem[e]
      /\ mem' \in [Devices -> Record \cup {None}]
  <2>1. mem \in [Devices -> Record \cup {None}]
    BY <1>1 DEF TypeOK
  <2>2. Registered(d, Default, Absent) \in Record
    BY <1>3, <2>1, RecordsMade, RegistryAssumption
  <2>3. QED
    BY <1>2, <1>3, <1>4, <2>1, <2>2 DEF Known
<1>6. PICK job : job = [task[t] EXCEPT !.rec = rec]
  OBVIOUS
<1>7. job \in SessionJob /\ job.op = "session" /\ job.dev = d /\ job.rec = rec /\ rec # None
  BY <1>2, <1>3, <1>5, <1>6, TypeOfRecord DEF SessionJob
<1>8. job \in Job /\ job # None /\ DevicesOf(job) = {d}
  BY <1>7, JobShape, JobDevices DEF Job
<1>9. /\ task' = [task EXCEPT ![t] = job] /\ task'[t] = job /\ \A u \in Tasks : u # t => task'[u] = task[u]
  BY <1>1, <1>4, <1>6 DEF JobsOK
<1>10. \A e : ~Setting(task[t], e) /\ ~Removing(task[t], e) /\ ~Setting(job, e) /\ ~Removing(job, e)
              /\ (Entering(task[t], e) => e = d) /\ Entering(job, d)
  BY <1>2, <1>3, <1>7, <1>8 DEF Setting, Removing, Entering
<1>11. TypeOK'
  BY <1>1, <1>4, <1>5 DEF TypeOK
<1>12. JobsOK'
  <2>1. task' \in [Tasks -> Job \cup {None}]
    BY <1>1, <1>8, <1>9 DEF JobsOK
  <2>2. QED
    BY <1>1, <1>7, <1>9, <2>1 DEF JobsOK
<1>13. Crossings'
  BY <1>1, <1>3, <1>4, <1>7, <1>8, <1>9, ShrinkCrosses
<1>14. SetInMemory'
  <2>1. ASSUME NEW u \in Tasks, Setting(task[u], d), mem'[d] # mem[d] PROVE u \in crossed' /\ d \notin clean'
    <3>1. mem[d] = None /\ SetTo(task[u]) # None
      BY <1>1, <1>5, <2>1, SettingDevice, TypeOfRecord
    <3>2. QED
      BY <1>1, <1>3, <1>4, <2>1, <3>1 DEF SetInMemory
  <2>2. QED
    BY <1>1, <1>3, <1>4, <1>5, <1>9, <1>10, <2>1, SetKept
<1>15. CleanMatches'
  <2>1. ASSUME NEW e \in clean', e # d PROVE Matches(e)'
    <3>1. Matches(e) /\ e \in Devices
      BY <1>1, <1>4, <2>1 DEF CleanMatches, TypeOK
    <3>2. QED
      BY <1>4, <1>5, <1>9, <1>10, <2>1, <3>1, MatchKept
  <2>2. Matches(d)'
    BY <1>9, <1>10 DEF Matches
  <2>3. QED
    BY <2>1, <2>2 DEF CleanMatches
<1>16. GoneAway'
  <2>1. \A u \in Tasks : DevicesOf(task'[u]) \subseteq DevicesOf(task[u])
    BY <1>3, <1>8, <1>9
  <2>2. \A u \in Tasks, e \in Devices : Removing(task'[u], e) /\ u \notin crossed' => Removing(task[u], e) /\ u \notin crossed
    BY <1>4, <1>9, <1>10
  <2>3. QED
    BY <1>1, <1>3, <1>4, <1>5, <2>1, <2>2, RowsArrive
<1>17. ToldKept'
  <2>1. ASSUME NEW e \in Devices, told'[e] # Absent PROVE NameKept(e)'
    <3>1. NameKept(e) /\ told'[e] = told[e] /\ e # d
      BY <1>1, <1>4, <2>1 DEF ToldKept, NameKept
    <3>2. mem'[e] # None /\ mem'[e].name = told[e] /\ row'[e] # None /\ row'[e].name = told[e]
      BY <1>4, <1>5, <3>1 DEF NameKept
    <3>3. Keeps(task'[t], e, told[e])
      BY <1>7, <1>9 DEF Keeps
    <3>4. QED
      BY <1>9, <3>1, <3>2, <3>3, NameStays
  <2>2. QED
    BY <2>1 DEF ToldKept
<1>18. QED
  BY <1>11, <1>12, <1>13, <1>14, <1>15, <1>16, <1>17 DEF Inv, RegistryInv

LEMMA EnsureKeeps ==
  ASSUME Inv, NEW t \in Tasks, EnsureDeviceRowForSession(t)
  PROVE  Inv'
<1>1. TypeOK /\ JobsOK /\ Crossings /\ SetInMemory /\ CleanMatches /\ GoneAway /\ ToldKept
  BY DEF Inv, RegistryInv
<1>2. PICK d, rec : d = task[t].dev /\ rec = [task[t].rec EXCEPT !.health = None]
  OBVIOUS
<1>3. /\ task[t] \in Job /\ task[t] # None /\ task[t].op = "session" /\ DevicesOf(task[t]) = {d} /\ d \in Devices
      /\ task[t].rec \in Record
  <2>1. task[t] \in Job /\ task[t] # None /\ task[t].op = "session" /\ task[t].rec # None
    BY <1>1 DEF EnsureDeviceRowForSession, JobsOK
  <2>2. QED
    BY <1>2, <2>1, JobShape, JobDevices DEF SessionJob
<1>4. /\ row' = IF row[d] # None \/ Refused(rec) THEN row ELSE [row EXCEPT ![d] = rec]
      /\ kids' = IF row'[d] # None THEN kids \cup {<<d, "session">>} ELSE kids
      /\ clean' = IF row'[d] = mem[d] THEN clean ELSE clean \ {d}
      /\ End(t) /\ UNCHANGED <<mem, sessions, zones, told, gone>>
  BY <1>2 DEF EnsureDeviceRowForSession
<1>5. /\ JobsOK' /\ task'[t] = None /\ crossed' = crossed \ {t} /\ \A u \in Tasks : u # t => task'[u] = task[u]
  BY <1>1, <1>4, EndTask
<1>6. \A e : ~Setting(task[t], e) /\ ~Removing(task[t], e) /\ (e # d => ~Entering(task[t], e))
  BY <1>2, <1>3 DEF Setting, Removing, Entering
<1>7. rec \in Record
  BY <1>2, <1>3 DEF Record, Health
<1>8. /\ row' \in [Devices -> Record \cup {None}] /\ \A e \in Devices : e # d => row'[e] = row[e]
      /\ row[d] # None => row'[d] = row[d]
  BY <1>1, <1>3, <1>4, <1>7 DEF TypeOK
<1>9. TypeOK'
  BY <1>1, <1>3, <1>4, <1>5, <1>8 DEF TypeOK, Tables
<1>10. Crossings'
  BY <1>1, <1>4, <1>5, NoDevices, ShrinkCrosses
<1>11. SetInMemory'
  BY <1>1, <1>4, <1>5, Nothing, SetKept
<1>12. CleanMatches'
  <2>1. ASSUME NEW e \in clean', e # d PROVE Matches(e)'
    <3>1. Matches(e) /\ e \in Devices
      BY <1>1, <1>4, <2>1 DEF CleanMatches, TypeOK
    <3>2. QED
      BY <1>4, <1>5, <1>6, <1>8, <2>1, <3>1, MatchKept
  <2>2. ASSUME d \in clean' PROVE Matches(d)'
    BY <1>4, <2>2 DEF Matches
  <2>3. QED
    BY <2>1, <2>2 DEF CleanMatches
<1>13. GoneAway'
  <2>1. \A u \in Tasks : DevicesOf(task'[u]) \subseteq DevicesOf(task[u])
    BY <1>5, NoDevices
  <2>2. \A u \in Tasks, e \in Devices : Removing(task'[u], e) /\ u \notin crossed' => Removing(task[u], e) /\ u \notin crossed
    BY <1>5, Nothing
  <2>3. kids' \subseteq kids \cup ({d} \X Tables)
    BY <1>4 DEF Tables
  <2>4. QED
    BY <1>1, <1>3, <1>4, <1>8, <2>1, <2>2, <2>3, RowsArrive
<1>14. ToldKept'
  <2>1. ASSUME NEW e \in Devices, told'[e] # Absent PROVE NameKept(e)'
    <3>1. NameKept(e) /\ told'[e] = told[e]
      BY <1>1, <1>4, <2>1 DEF ToldKept
    <3>2. mem'[e] # None /\ mem'[e].name = told[e] /\ row'[e] # None /\ row'[e].name = told[e]
      BY <1>4, <1>8, <3>1 DEF NameKept
    <3>3. QED
      BY <1>5, <3>1, <3>2, Nothing, NameStays
  <2>2. QED
    BY <2>1 DEF ToldKept
<1>15. QED
  BY <1>5, <1>9, <1>10, <1>11, <1>12, <1>13, <1>14 DEF Inv, RegistryInv

-----------------------------------------------------------------------------
(* Zones.                                                                  *)

\* A code that is free is one, and the first of its kind.
LEMMA FreeCodeType ==
  ASSUME NEW c \in Codes, NEW id, FreeCode(c, id) # None
  PROVE  FreeCode(c, id) \in Codes
<1> DEFINE usable == {k \in DOMAIN Free[c] : \A i \in Ids : zones[i] = Free[c][k] => i = id}
<1>1. usable # {} /\ FreeCode(c, id) = Free[c][CHOOSE k \in usable : \A l \in usable : k <= l]
  BY DEF FreeCode
<1>2. Free[c] \in Seq(Codes)
  BY RegistryAssumption
<1>3. usable \subseteq Nat /\ usable \subseteq DOMAIN Free[c]
  BY <1>2
<1> HIDE DEF usable
<1>4. \E k \in usable : \A l \in usable : k <= l
  <2>1. PICK k \in usable : \A l \in usable : ~(<<l, k>> \in OpToRel(<, Nat))
    BY <1>1, <1>3, NatLessThanWellFounded, WFMin
  <2>2. \A l \in usable : ~(l < k)
    BY <1>3, <2>1 DEF OpToRel
  <2>3. QED
    BY <1>3, <2>2
<1>5. PICK m : m = CHOOSE k \in usable : \A l \in usable : k <= l
  OBVIOUS
<1>6. m \in DOMAIN Free[c]
  BY <1>3, <1>4, <1>5
<1>7. Free[c][m] \in Codes
  BY <1>2, <1>6
<1>8. QED
  BY <1>1, <1>5, <1>7

\* The requests for zones have no devices yet.
LEMMA ZoneRequestKeeps ==
  ASSUME Inv, NEW t \in Tasks, CreateZone(t) \/ UpdateZone(t) \/ DropZone(t)
  PROVE  Inv'
<1>1. TypeOK /\ JobsOK
  BY DEF Inv
<1>2. PICK job : /\ task' = [task EXCEPT ![t] = job] /\ task[t] = None
                 /\ UNCHANGED <<mem, sessions, row, zones, kids, crossed, clean, told, gone>>
                 /\ \/ job \in ZoneJob
                    \/ job \in DropJob /\ job.targets = <<>>
  <2>1. CASE CreateZone(t)
    <3>1. PICK c \in Codes : FreeCode(c, 0) # None /\ task' = [task EXCEPT ![t] = [op |-> "new_zone", code |-> FreeCode(c, 0)]]
      BY <2>1 DEF CreateZone
    <3>2. [op |-> "new_zone", code |-> FreeCode(c, 0)] \in ZoneJob
      BY <3>1, FreeCodeType DEF ZoneJob
    <3>3. QED
      BY <2>1, <3>1, <3>2 DEF CreateZone, Request
  <2>2. CASE UpdateZone(t)
    <3>1. PICK i \in Ids, c \in Codes : FreeCode(c, i) # None /\ task' = [task EXCEPT ![t] = [op |-> "zone", id |-> i, code |-> FreeCode(c, i)]]
      BY <2>2 DEF UpdateZone
    <3>2. [op |-> "zone", id |-> i, code |-> FreeCode(c, i)] \in ZoneJob
      BY <3>1, FreeCodeType DEF ZoneJob
    <3>3. QED
      BY <2>2, <3>1, <3>2 DEF UpdateZone, Request
  <2>3. CASE DropZone(t)
    <3>1. PICK i \in Ids, force \in BOOLEAN :
            /\ zones[i] \in Codes
            /\ task' = [task EXCEPT ![t] = [op |-> "drop_zone", id |-> i, code |-> zones[i], force |-> force,
                                            asked |-> FALSE, targets |-> <<>>]]
      BY <2>3 DEF DropZone
    <3>2. PICK job : job = [op |-> "drop_zone", id |-> i, code |-> zones[i], force |-> force, asked |-> FALSE, targets |-> <<>>]
      OBVIOUS
    <3>3. <<>> \in Seq(Target)
      OBVIOUS
    <3>4. job \in DropJob /\ job.targets = <<>>
      BY <3>1, <3>2, <3>3 DEF DropJob
    <3>5. QED
      BY <2>3, <3>1, <3>2, <3>4 DEF DropZone, Request
  <2>4. QED
    BY <2>1, <2>2, <2>3
<1>3. job \in Job /\ job # None /\ DevicesOf(job) = {} /\ (job.op \in {"zone", "new_zone"} \/ (job.op = "drop_zone" /\ job.targets = <<>>))
  <2>1. job \in Job /\ (job.op \in {"zone", "new_zone"} \/ (job.op = "drop_zone" /\ job.targets = <<>>))
    BY <1>2 DEF Job, ZoneJob, DropJob
  <2>2. QED
    BY <2>1, JobShape, JobDevices DEF Targets
<1>4. \A d \in Devices : ~Setting(job, d) /\ ~Removing(job, d) /\ Keeps(job, d, told[d])
  BY <1>3 DEF Setting, Removing, Keeps
<1>5. job.op = "drop_zone" => job.targets = <<>> /\ \A i, j \in DOMAIN job.targets : i = j
  BY <1>3
<1>6. \A d : ~Setting(task[t], d) /\ ~Removing(task[t], d) /\ ~Entering(task[t], d)
  BY <1>2, Nothing
<1>7. zones' \in [Ids -> Codes \cup {"new", "removed"}]
  BY <1>1, <1>2 DEF TypeOK
<1>8. QED
  BY <1>2, <1>3, <1>4, <1>5, <1>6, <1>7, Quiet

LEMMA ImportZoneKeeps ==
  ASSUME Inv, NEW t \in Tasks, ImportZone(t)
  PROVE  Inv'
<1>1. TypeOK /\ JobsOK /\ Crossings /\ SetInMemory /\ CleanMatches /\ GoneAway /\ ToldKept
  BY DEF Inv, RegistryInv
<1>2. UNCHANGED <<mem, sessions, row, kids, task, crossed, clean, told, gone>>
      /\ \E i \in Ids, c \in Codes : zones' = [zones EXCEPT ![i] = c]
  BY DEF ImportZone, NewId
<1>3. QED
  BY <1>1, <1>2 DEF Inv, RegistryInv, TypeOK, JobsOK, Crossings, SetInMemory, CleanMatches, Matches, ToldKept, NameKept,
     GoneAway, Away, Rowless

LEMMA CreateZoneDoneKeeps ==
  ASSUME Inv, NEW t \in Tasks, CreateZoneDone(t)
  PROVE  Inv'
<1>1. TypeOK /\ JobsOK
  BY DEF Inv
<1>2. /\ task[t] # None /\ task[t].op = "new_zone" /\ task[t] \in Job /\ task' = [task EXCEPT ![t] = None] /\ crossed' = crossed \ {t}
      /\ UNCHANGED <<mem, sessions, row, kids, clean, told, gone>>
  BY <1>1 DEF CreateZoneDone, End, JobsOK
<1>3. zones' \in [Ids -> Codes \cup {"new", "removed"}]
  <2>1. task[t].code \in Codes
    BY <1>2, JobShape DEF ZoneJob
  <2>2. zones' = zones \/ \E i \in Ids : zones' = [zones EXCEPT ![i] = task[t].code]
    BY DEF CreateZoneDone, NewId
  <2>3. QED
    BY <1>1, <2>1, <2>2 DEF TypeOK
<1>4. \A d : ~Setting(task[t], d) /\ ~Removing(task[t], d) /\ ~Entering(task[t], d)
  BY <1>2 DEF Setting, Removing, Entering
<1>5. QED
  BY <1>1, <1>2, <1>3, <1>4, Nothing, NoDevices, Quiet

\* A statement gives rows another zone, and what it gives one to is not clean.
LEMMA RowsFollow ==
  ASSUME Inv, NEW t \in Tasks, End(t), DevicesOf(task[t]) = {}, clean' \subseteq clean,
         UNCHANGED <<mem, sessions, kids, told, gone>>, zones' \in [Ids -> Codes \cup {"new", "removed"}],
         row' \in [Devices -> Record \cup {None}],
         \A d \in Devices : \/ row'[d] = row[d]
                            \/ row[d] # None /\ row'[d] # None /\ row'[d].name = row[d].name /\ d \notin clean'
  PROVE  Inv'
<1>1. TypeOK /\ JobsOK /\ Crossings /\ SetInMemory /\ CleanMatches /\ GoneAway /\ ToldKept
  BY DEF Inv, RegistryInv
<1>2. /\ JobsOK' /\ task'[t] = None /\ crossed' = crossed \ {t} /\ \A u \in Tasks : u # t => task'[u] = task[u]
  BY <1>1, EndTask
<1>3. task[t] = None \/ task[t] \in Job
  BY <1>1 DEF JobsOK
<1>4. \A d \in Devices : ~Setting(task[t], d) /\ ~Removing(task[t], d) /\ ~Entering(task[t], d)
  <2>1. \A d \in Devices : ~Setting(task[t], d)
    BY <1>1, SettingDevice
  <2>2. \A d \in Devices : ~Removing(task[t], d)
    BY <1>1, RemovingDevice
  <2>3. \A d \in Devices : ~Entering(task[t], d)
    BY <1>3, JobDevices DEF Entering
  <2>4. QED
    BY <2>1, <2>2, <2>3
<1>5. TypeOK'
  BY <1>1, <1>2 DEF TypeOK
<1>6. Crossings'
  BY <1>1, <1>2, NoDevices, ShrinkCrosses
<1>7. SetInMemory'
  BY <1>1, <1>2, Nothing, SetKept
<1>8. CleanMatches'
  <2>1. ASSUME NEW d \in clean' PROVE Matches(d)'
    <3>1. Matches(d) /\ d \in Devices
      BY <1>1, <2>1 DEF CleanMatches, TypeOK
    <3>2. QED
      BY <1>2, <1>4, <2>1, <3>1, MatchKept
  <2>2. QED
    BY <2>1 DEF CleanMatches
<1>9. GoneAway'
  <2>1. ASSUME NEW d \in Devices, Rowless(d) PROVE Rowless(d)'
    BY <2>1 DEF Rowless
  <2>2. \A u \in Tasks, d \in Devices : Removing(task'[u], d) /\ u \notin crossed' => Removing(task[u], d) /\ u \notin crossed
    BY <1>2, Nothing
  <2>3. ASSUME NEW d \in gone' PROVE Away(d)'
    <3>1. Away(d) /\ d \in Devices
      BY <1>1, <2>3 DEF GoneAway, TypeOK
    <3>2. \A u \in Tasks : d \notin DevicesOf(task'[u])
      BY <1>2, <3>1, NoDevices DEF Away
    <3>3. QED
      BY <2>1, <3>1, <3>2 DEF Away
  <2>4. QED
    BY <1>1, <2>1, <2>2, <2>3 DEF GoneAway
<1>10. ToldKept'
  <2>1. ASSUME NEW d \in Devices, told'[d] # Absent PROVE NameKept(d)'
    <3>1. NameKept(d) /\ told'[d] = told[d]
      BY <1>1, <2>1 DEF ToldKept
    <3>2. mem'[d] # None /\ mem'[d].name = told[d] /\ row'[d] # None /\ row'[d].name = told[d]
      BY <3>1 DEF NameKept
    <3>3. QED
      BY <1>2, <3>1, <3>2, Nothing, NameStays
  <2>2. QED
    BY <2>1 DEF ToldKept
<1>11. QED
  BY <1>2, <1>5, <1>6, <1>7, <1>8, <1>9, <1>10 DEF Inv, RegistryInv

LEMMA UpdateZoneDoneKeeps ==
  ASSUME Inv, NEW t \in Tasks, UpdateZoneDone(t)
  PROVE  Inv'
<1>1. TypeOK /\ JobsOK
  BY DEF Inv
<1>2. task[t] \in Job /\ task[t] # None /\ task[t].op = "zone"
  BY <1>1 DEF UpdateZoneDone, JobsOK
<1>3. DevicesOf(task[t]) = {} /\ task[t].id \in Ids /\ task[t].code \in Codes
  BY <1>2, JobShape, JobDevices DEF ZoneJob
<1>4. PICK i, old, new : i = task[t].id /\ old = zones[i] /\ new = task[t].code
  OBVIOUS
<1>5. End(t) /\ UNCHANGED <<mem, sessions, kids, told, gone>>
  BY DEF UpdateZoneDone
<1>6. CASE UNCHANGED <<zones, row, clean>>
  BY <1>1, <1>3, <1>5, <1>6, RowsFollow DEF TypeOK
<1>7. CASE /\ zones' = [zones EXCEPT ![i] = new]
           /\ row' = [d \in Devices |-> IF Follows(d, old) THEN [row[d] EXCEPT !.zone = new] ELSE row[d]]
           /\ clean' = clean \ {d \in Devices : Follows(d, old) \/ (Known(d) /\ mem[d].zone = old)}
  <2>1. zones' \in [Ids -> Codes \cup {"new", "removed"}]
    BY <1>1, <1>3, <1>4, <1>7 DEF TypeOK
  <2>2. ASSUME NEW d \in Devices
        PROVE  /\ row'[d] \in Record \cup {None}
               /\ \/ row'[d] = row[d]
                  \/ row[d] # None /\ row'[d] # None /\ row'[d].name = row[d].name /\ d \notin clean'
    <3>1. CASE ~Follows(d, old)
      BY <1>1, <1>7, <3>1 DEF TypeOK
    <3>2. CASE Follows(d, old)
      <4>1. row[d] \in Record /\ row'[d] = [row[d] EXCEPT !.zone = new]
        BY <1>1, <1>7, <3>2 DEF TypeOK, Follows
      <4>2. row'[d] \in Record /\ row'[d].name = row[d].name
        BY <1>3, <1>4, <4>1 DEF Record
      <4>3. QED
        BY <1>7, <3>2, <4>1, <4>2, TypeOfRecord
    <3>3. QED
      BY <3>1, <3>2
  <2>3. row' \in [Devices -> Record \cup {None}]
    BY <1>7, <2>2
  <2>4. QED
    BY <1>3, <1>5, <1>7, <2>1, <2>2, <2>3, RowsFollow
<1>8. QED
  BY <1>4, <1>6, <1>7 DEF UpdateZoneDone

LEMMA RemoveZoneKeeps ==
  ASSUME Inv, NEW t \in Tasks, RemoveZone(t)
  PROVE  Inv'
<1>1. TypeOK /\ JobsOK
  BY DEF Inv
<1>2. task[t] \in Job /\ task[t] # None /\ task[t].op = "drop_zone" /\ task[t].targets = <<>>
  BY <1>1 DEF RemoveZone, JobsOK
<1>3. DevicesOf(task[t]) = {} /\ task[t].id \in Ids
  BY <1>2, JobShape, JobDevices DEF DropJob, Targets
<1>4. PICK i, old : i = task[t].id /\ old = zones[i]
  OBVIOUS
<1>5. /\ End(t) /\ UNCHANGED <<mem, sessions, kids, told, gone>>
      /\ zones' = [zones EXCEPT ![i] = "removed"]
      /\ row' = [d \in Devices |-> IF old \in Codes /\ Follows(d, old) THEN Zoneless(row[d]) ELSE row[d]]
      /\ clean' = clean \ {d \in Devices : old \in Codes /\ (Follows(d, old) \/ (Known(d) /\ mem[d].zone = old))}
  BY <1>4 DEF RemoveZone
<1>6. zones' \in [Ids -> Codes \cup {"new", "removed"}]
  BY <1>1, <1>5 DEF TypeOK
<1>7. ASSUME NEW d \in Devices
      PROVE  /\ row'[d] \in Record \cup {None}
             /\ \/ row'[d] = row[d]
                \/ row[d] # None /\ row'[d] # None /\ row'[d].name = row[d].name /\ d \notin clean'
  <2>1. CASE ~(old \in Codes /\ Follows(d, old))
    BY <1>1, <1>5, <2>1 DEF TypeOK
  <2>2. CASE old \in Codes /\ Follows(d, old)
    <3>1. row[d] \in Record /\ row'[d] = Zoneless(row[d])
      BY <1>1, <1>5, <2>2 DEF TypeOK, Follows
    <3>2. QED
      BY <1>5, <2>2, <3>1, TypeOfRecord
  <2>3. QED
    BY <2>1, <2>2
<1>8. row' \in [Devices -> Record \cup {None}]
  BY <1>5, <1>7
<1>9. QED
  BY <1>3, <1>5, <1>6, <1>7, <1>8, RowsFollow

-----------------------------------------------------------------------------
(* Requests and messages of devices.                                       *)

\* The requests that write a device's record.
LEMMA WriteRequestsKeep ==
  ASSUME Inv, NEW t \in Tasks, NEW d \in Devices,
         Register(t, d) \/ Update(t, d) \/ UpdateAdxlHealth(t, d) \/ ImportDevice(t, d)
  PROVE  Inv'
<1>1. mem \in [Devices -> Record \cup {None}]
  BY DEF Inv, TypeOK
<1>2. CASE Register(t, d)
  <2>1. PICK name \in Names, zone \in Codes \cup {Absent} :
          Request(t) /\ Write(t, d, Registered(d, name, zone), "answer") /\ UNCHANGED <<sessions, row, zones, kids>>
    BY <1>2 DEF Register
  <2>2. Registered(d, name, zone) \in Record
    BY <1>1, RecordsMade
  <2>3. QED
    BY <2>1, <2>2, Writing DEF Request
<1>3. CASE Update(t, d)
  <2>1. PICK name \in Names \cup {Absent}, zone \in Codes \cup {None, Absent} :
          /\ Request(t) /\ Known(d) /\ Write(t, d, Updated(d, name, zone), "answer")
          /\ UNCHANGED <<sessions, row, zones, kids>>
    BY <1>3 DEF Update
  <2>2. Updated(d, name, zone) \in Record
    BY <1>1, <2>1, RecordsMade
  <2>3. QED
    BY <2>1, <2>2, Writing DEF Request
<1>4. CASE UpdateAdxlHealth(t, d)
  <2>1. PICK health \in Statuses :
          Request(t) /\ Known(d) /\ Write(t, d, WithHealth(d, health), "status") /\ UNCHANGED <<sessions, row, zones, kids>>
    BY <1>4 DEF UpdateAdxlHealth
  <2>2. WithHealth(d, health) \in Record
    BY <1>1, <2>1, RecordsMade
  <2>3. QED
    BY <2>1, <2>2, Writing DEF Request
<1>5. CASE ImportDevice(t, d)
  <2>1. PICK name \in Names, zone \in Codes \cup {None}, merge \in BOOLEAN :
          /\ Request(t) /\ Write(t, d, IF merge THEN Merged(d, name, zone) ELSE Replaced(d, name, zone), "import")
          /\ UNCHANGED <<sessions, row, zones, kids>>
    BY <1>5 DEF ImportDevice
  <2>2. (IF merge THEN Merged(d, name, zone) ELSE Replaced(d, name, zone)) \in Record
    BY <1>1, RecordsMade
  <2>3. QED
    BY <2>1, <2>2, Writing DEF Request
<1>6. QED
  BY <1>2, <1>3, <1>4, <1>5

LEMMA SocketMetadataKeeps ==
  ASSUME Inv, NEW t \in Tasks, NEW d \in Devices, SocketMetadata(t, d)
  PROVE  Inv'
<1>1. TypeOK /\ GoneAway /\ ToldKept
  BY DEF Inv, RegistryInv
<1>2. PICK name \in Names \cup {Absent}, zone \in Codes :
        /\ Request(t) /\ Known(d)
        /\ Become(t, [op |-> "socket", dev |-> d, old |-> mem[d], name |-> name, zone |-> zone, looked |-> FALSE])
        /\ told' = IF name = Absent THEN told ELSE [told EXCEPT ![d] = Absent]
        /\ UNCHANGED <<mem, sessions, row, zones, kids, gone>>
  BY DEF SocketMetadata
<1>3. PICK job : job = [op |-> "socket", dev |-> d, old |-> mem[d], name |-> name, zone |-> zone, looked |-> FALSE]
  OBVIOUS
<1>4. job \in SocketJob /\ job.op = "socket" /\ job.dev = d /\ job.old = mem[d] /\ job.name = name
  BY <1>1, <1>2, <1>3 DEF TypeOK, Known, SocketJob
<1>5. d \notin gone
  BY <1>1, <1>2 DEF GoneAway, Away, Known
<1>6. told' \in [Devices -> Names \cup {Absent}] /\ \A e \in Devices : told'[e] = told[e] \/ told'[e] = Absent
  BY <1>1, <1>2 DEF TypeOK
<1>7. ASSUME told'[d] # Absent PROVE Keeps(job, d, told'[d])
  <2>1. name = Absent /\ told'[d] = told[d]
    BY <1>1, <1>2, <1>7 DEF TypeOK
  <2>2. mem[d].name = told[d]
    BY <1>1, <1>7, <2>1 DEF ToldKept, NameKept
  <2>3. QED
    BY <1>4, <2>1, <2>2 DEF Keeps
<1>8. QED
  BY <1>2, <1>3, <1>4, <1>5, <1>6, <1>7, Beginning DEF Request

LEMMA ResolveKeeps ==
  ASSUME Inv, NEW t \in Tasks, ResolveSocketZone(t)
  PROVE  Inv'
<1>1. TypeOK /\ JobsOK
  BY DEF Inv
<1>2. task[t] \in SocketJob /\ task[t] \in Job /\ task[t] # None /\ task[t].op = "socket"
  BY <1>1, JobShape DEF ResolveSocketZone, JobsOK
<1>3. PICK zone : zone = IF InUse(task[t].zone) THEN task[t].zone ELSE Absent
  OBVIOUS
<1>4. PICK job : job = [task[t] EXCEPT !.looked = TRUE, !.zone = zone]
  OBVIOUS
<1>5. task' = [task EXCEPT ![t] = job]
  BY <1>1, <1>2, <1>3, <1>4 DEF ResolveSocketZone, JobsOK
<1>6. /\ job \in SocketJob /\ job.op = "socket" /\ job.dev = task[t].dev /\ job.old = task[t].old /\ job.name = task[t].name
  BY <1>2, <1>3, <1>4 DEF SocketJob
<1>7. job \in Job /\ job # None /\ DevicesOf(job) = DevicesOf(task[t])
  BY <1>2, <1>6, JobShape, JobDevices DEF Job
<1>8. \A d : /\ ~Setting(task[t], d) /\ ~Removing(task[t], d) /\ ~Entering(task[t], d) /\ ~Setting(job, d) /\ ~Removing(job, d)
             /\ \A name : Keeps(task[t], d, name) => Keeps(job, d, name)
  BY <1>2, <1>6, <1>7 DEF Setting, Removing, Entering, Keeps
<1>9. /\ UNCHANGED <<mem, sessions, row, zones, kids, crossed, clean, told, gone>>
      /\ zones' \in [Ids -> Codes \cup {"new", "removed"}]
  BY <1>1 DEF ResolveSocketZone, TypeOK
<1>10. QED
  BY <1>2, <1>5, <1>6, <1>7, <1>8, <1>9, Quiet

LEMMA UpsertKeeps ==
  ASSUME Inv, NEW t \in Tasks, UpsertFromSocket(t)
  PROVE  Inv'
<1>1. TypeOK /\ JobsOK
  BY DEF Inv
<1>2. /\ task[t] \in SocketJob /\ task[t] \in Job /\ task[t] # None /\ task[t].op = "socket" /\ task[t].dev \in Devices
      /\ task[t].old \in Record
  BY <1>1, JobShape DEF UpsertFromSocket, JobsOK, SocketJob
<1>3. PICK next : next = Given(task[t])
  OBVIOUS
<1>4. next \in Record
  BY <1>2, <1>3 DEF Given, Or, SocketJob, Record
<1>5. UNCHANGED <<sessions, row, zones, kids>>
  BY DEF UpsertFromSocket
<1>6. CASE next = task[t].old
  <2>1. /\ task' = [task EXCEPT ![t] = None] /\ crossed' = crossed \ {t} /\ UNCHANGED <<mem, clean, told, gone>>
    BY <1>3, <1>6 DEF UpsertFromSocket, End
  <2>2. \A d : ~Setting(task[t], d) /\ ~Removing(task[t], d) /\ ~Entering(task[t], d)
    BY <1>2 DEF Setting, Removing, Entering
  <2>3. zones' \in [Ids -> Codes \cup {"new", "removed"}]
    BY <1>1, <1>5 DEF TypeOK
  <2>4. QED
    BY <1>5, <2>1, <2>2, <2>3, Nothing, NoDevices, Quiet
<1>7. CASE next # task[t].old
  <2>1. Write(t, task[t].dev, next, "quiet")
    BY <1>3, <1>7 DEF UpsertFromSocket
  <2>2. QED
    BY <1>2, <1>4, <1>5, <2>1, Writing
<1>8. QED
  BY <1>6, <1>7

LEMMA SessionJobs ==
  ASSUME NEW d \in Devices
  PROVE  /\ SessionTask(d) \in SessionJob /\ SessionTask(d).op = "session" /\ SessionTask(d).dev = d
         /\ SessionTask(d).rec = None /\ \A name : Keeps(SessionTask(d), d, name)
  BY DEF SessionTask, SessionJob, Keeps

LEMMA HeartbeatKeeps ==
  ASSUME Inv, NEW t \in Tasks, NEW d \in Devices, Heartbeat(t, d)
  PROVE  Inv'
<1>1. TypeOK /\ GoneAway
  BY DEF Inv, RegistryInv
<1>2. /\ task[t] = None /\ d \in sessions /\ Become(t, SessionTask(d)) /\ UNCHANGED <<mem, sessions, row, zones, kids, told, gone>>
  BY DEF Heartbeat, Request
<1>3. d \notin gone
  BY <1>1, <1>2 DEF GoneAway, Away
<1>4. told' \in [Devices -> Names \cup {Absent}]
  BY <1>1, <1>2 DEF TypeOK
<1>5. QED
  BY <1>2, <1>3, <1>4, SessionJobs, Beginning

LEMMA ConnectKnownKeeps ==
  ASSUME Inv, NEW t \in Tasks, NEW d \in Devices, Connect(t, d), Known(d)
  PROVE  Inv'
<1>1. TypeOK
  BY DEF Inv
<1>2. /\ task[t] = None /\ sessions' = sessions \cup {d} /\ Become(t, SessionTask(d)) /\ gone' = gone \ {d}
      /\ UNCHANGED <<mem, row, zones, kids, told>>
  BY DEF Connect, Request, Wanted
<1>3. told' \in [Devices -> Names \cup {Absent}]
  BY <1>1, <1>2 DEF TypeOK
<1>4. QED
  BY <1>2, <1>3, SessionJobs, Beginning

LEMMA DeleteKeeps ==
  ASSUME Inv, NEW t \in Tasks, NEW d \in Devices, Delete(t, d)
  PROVE  Inv'
<1>1. TypeOK /\ GoneAway
  BY DEF Inv, RegistryInv
<1>2. PICK job : job = [op |-> "delete", dev |-> d, next |-> 1]
  OBVIOUS
<1>3. job \in DeleteJob /\ job.op = "delete" /\ job.dev = d /\ job.next = 1
  BY <1>2, PlanLength DEF DeleteJob
<1>4. /\ task[t] = None /\ Known(d) /\ Become(t, job) /\ told' = [told EXCEPT ![d] = Absent]
      /\ UNCHANGED <<mem, sessions, row, zones, kids, gone>>
  BY <1>2 DEF Delete, Request
<1>5. d \notin gone
  BY <1>1, <1>4 DEF GoneAway, Away, Known
<1>6. told' \in [Devices -> Names \cup {Absent}] /\ told'[d] = Absent /\ \A e \in Devices : e # d => told'[e] = told[e]
  BY <1>1, <1>4 DEF TypeOK
<1>7. QED
  BY <1>3, <1>4, <1>5, <1>6, Beginning

\* A device that nobody knows is registered beside its session.
LEMMA ConnectUnknownKeeps ==
  ASSUME Inv, NEW t \in Tasks, NEW d \in Devices, Connect(t, d), ~Known(d)
  PROVE  Inv'
<1>1. TypeOK /\ JobsOK /\ Crossings /\ SetInMemory /\ CleanMatches /\ GoneAway /\ ToldKept
  BY DEF Inv, RegistryInv
<1>2. PICK rec, job, reg : /\ rec = Registered(d, Default, Absent) /\ job = SessionTask(d)
                           /\ reg = [op |-> "write", dev |-> d, rec |-> rec, how |-> "quiet"]
  OBVIOUS
<1>3. PICK met : met = MeetingTasks(t, job) \cup MeetingTasks(t, reg)
  OBVIOUS
<1>4. PICK u \in Tasks \ {t} :
        /\ task[t] = None /\ task[u] = None
        /\ mem' = [mem EXCEPT ![d] = rec]
        /\ task' = [task EXCEPT ![t] = job, ![u] = reg]
        /\ crossed' = IF met = {} THEN crossed ELSE crossed \cup met \cup {t, u}
        /\ clean' = IF met = {} THEN clean ELSE clean \ {d}
        /\ told' = [told EXCEPT ![d] = Absent] /\ gone' = gone \ {d} /\ sessions' = sessions \cup {d}
        /\ UNCHANGED <<row, zones, kids>>
  <2>1. mem' = [mem EXCEPT ![d] = rec] => mem'[d] = rec
    BY <1>1 DEF TypeOK
  <2>2. QED
    BY <1>2, <1>3, <2>1 DEF Connect, Request, Wanted
<1>5. rec \in Record /\ rec # None
  <2>1. mem \in [Devices -> Record \cup {None}]
    BY <1>1 DEF TypeOK
  <2>2. QED
    BY <1>2, <2>1, RecordsMade, RegistryAssumption, TypeOfRecord
<1>6. reg \in WriteJob /\ reg.op = "write" /\ reg.dev = d /\ reg.rec = rec /\ job \in SessionJob /\ job.op = "session" /\ job.dev = d
      /\ job.rec = None
  BY <1>2, <1>5, SessionJobs DEF WriteJob
<1>7. reg \in Job /\ job \in Job /\ reg # None /\ job # None /\ DevicesOf(reg) = {d} /\ DevicesOf(job) = {d}
  BY <1>6, JobShape, JobDevices DEF Job
<1>8. task'[t] = job /\ task'[u] = reg /\ t # u /\ \A v \in Tasks : v # t /\ v # u => task'[v] = task[v]
  BY <1>1, <1>4 DEF JobsOK
<1>9. mem'[d] = rec /\ (\A e \in Devices : e # d => mem'[e] = mem[e]) /\ told'[d] = Absent
      /\ \A e \in Devices : e # d => told'[e] = told[e]
  BY <1>1, <1>4 DEF TypeOK
<1>10. \A v \in Tasks : v # t /\ v # u /\ task[v] # None /\ (Meet(task[v], job) \/ Meet(task[v], reg)) =>
         v \in crossed' /\ t \in crossed' /\ u \in crossed' /\ d \notin clean'
  BY <1>3, <1>4 DEF MeetingTasks
<1>11. met \subseteq Tasks /\ \A v \in met : task[v] # None
  BY <1>3 DEF MeetingTasks
<1>12. crossed \subseteq crossed' /\ clean' \subseteq clean /\ crossed' \subseteq Tasks
  BY <1>1, <1>4, <1>11 DEF TypeOK
<1>13. \A e : ~Setting(job, e) /\ ~Removing(job, e) /\ ~Removing(reg, e) /\ (Setting(reg, e) <=> e = d) /\ SetTo(reg) = rec
  BY <1>6, <1>7 DEF Setting, Removing, SetTo
<1>14. TypeOK'
  BY <1>1, <1>4, <1>5, <1>12 DEF TypeOK
<1>15. JobsOK'
  <2>1. task' \in [Tasks -> Job \cup {None}]
    BY <1>1, <1>4, <1>7 DEF JobsOK
  <2>2. QED
    BY <1>1, <1>6, <1>8, <2>1 DEF JobsOK
<1>16. Crossings'
  <2>1. ASSUME NEW v \in Tasks, task'[v] = None PROVE v \notin crossed'
    <3>1. v # t /\ v # u /\ task[v] = None
      BY <1>7, <1>8, <2>1
    <3>2. v \notin crossed /\ v \notin met
      BY <1>1, <1>11, <3>1 DEF Crossings
    <3>3. QED
      BY <1>4, <3>1, <3>2
  <2>2. ~Meet(job, reg) /\ ~Meet(reg, job)
    BY <1>6 DEF Meet
  <2>3. ASSUME NEW v \in Tasks, NEW w \in Tasks, v # w, task'[v] # None, task'[w] # None, Meet(task'[v], task'[w])
        PROVE  v \in crossed' /\ clean' \cap DevicesOf(task'[v]) \cap DevicesOf(task'[w]) = {}
    <3>1. CASE v \in {t, u} /\ w \notin {t, u}
      <4>1. task'[v] \in {job, reg} /\ task'[w] = task[w]
        BY <1>8, <3>1
      <4>2. Meet(task[w], job) \/ Meet(task[w], reg)
        BY <2>3, <4>1, MeetSymmetric
      <4>3. QED
        BY <1>7, <1>10, <2>3, <3>1, <4>1, <4>2
    <3>2. CASE v \notin {t, u} /\ w \in {t, u}
      <4>1. task'[w] \in {job, reg} /\ task'[v] = task[v]
        BY <1>8, <3>2
      <4>2. Meet(task[v], job) \/ Meet(task[v], reg)
        BY <2>3, <4>1
      <4>3. QED
        BY <1>7, <1>10, <2>3, <3>2, <4>1, <4>2
    <3>3. CASE v \notin {t, u} /\ w \notin {t, u}
      BY <1>1, <1>8, <1>12, <2>3, <3>3 DEF Crossings
    <3>4. QED
      BY <1>8, <2>2, <2>3, <3>1, <3>2, <3>3
  <2>4. QED
    BY <2>1, <2>3 DEF Crossings
<1>17. SetInMemory'
  <2>1. SUFFICES ASSUME NEW v \in Tasks, NEW e \in Devices, Setting(task'[v], e), v \notin crossed' \/ e \in clean'
                 PROVE  mem'[e] = SetTo(task'[v])
    BY DEF SetInMemory
  <2>2. CASE v \in {t, u}
    BY <1>8, <1>9, <1>13, <2>1, <2>2
  <2>3. CASE v \notin {t, u}
    <3>1. Setting(task[v], e) /\ task'[v] = task[v]
      BY <1>8, <2>1, <2>3
    <3>2. e # d
      BY <1>1, <1>6, <1>7, <1>10, <2>1, <2>3, <3>1, SettingDevice, MeetAt
    <3>3. QED
      BY <1>1, <1>9, <1>12, <2>1, <3>1, <3>2 DEF SetInMemory
  <2>4. QED
    BY <2>2, <2>3
<1>18. CleanMatches'
  <2>1. ASSUME NEW e \in clean', e # d PROVE Matches(e)'
    <3>1. Matches(e) /\ e \in Devices /\ mem'[e] = mem[e] /\ row'[e] = row[e]
      BY <1>1, <1>4, <1>9, <1>12, <2>1 DEF CleanMatches, TypeOK
    <3>2. \A v \in Tasks : /\ Setting(task[v], e) => Setting(task'[v], e)
                           /\ Removing(task[v], e) => Removing(task'[v], e)
                           /\ Entering(task[v], e) => Entering(task'[v], e)
      BY <1>4, <1>8, Nothing
    <3>3. QED
      BY <3>1, <3>2 DEF Matches
  <2>2. Matches(d)'
    BY <1>8, <1>13 DEF Matches
  <2>3. QED
    BY <2>1, <2>2 DEF CleanMatches
<1>19. GoneAway'
  <2>1. ASSUME NEW v \in Tasks, NEW e \in Devices, Removing(task'[v], e), v \notin crossed' PROVE Rowless(e)'
    <3>1. v \notin {t, u}
      BY <1>8, <1>13, <2>1
    <3>2. Rowless(e)
      BY <1>1, <1>8, <1>12, <2>1, <3>1 DEF GoneAway
    <3>3. QED
      BY <1>4, <3>2 DEF Rowless
  <2>2. ASSUME NEW e \in gone' PROVE Away(e)'
    <3>1. Away(e) /\ e # d /\ e \in Devices
      BY <1>1, <1>4, <2>2 DEF GoneAway, TypeOK
    <3>2. \A v \in Tasks : e \notin DevicesOf(task'[v])
      BY <1>7, <1>8, <3>1 DEF Away
    <3>3. QED
      BY <1>4, <1>9, <3>1, <3>2 DEF Away, Rowless
  <2>3. QED
    BY <2>1, <2>2 DEF GoneAway
<1>20. ToldKept'
  <2>1. ASSUME NEW e \in Devices, told'[e] # Absent PROVE NameKept(e)'
    <3>1. e # d /\ told'[e] = told[e] /\ NameKept(e) /\ mem'[e] = mem[e]
      BY <1>1, <1>9, <2>1 DEF ToldKept
    <3>2. \A v \in Tasks : Keeps(task'[v], e, told[e])
      <4>1. Keeps(job, e, told[e]) /\ Keeps(reg, e, told[e])
        BY <1>7, <3>1 DEF Keeps
      <4>2. QED
        BY <1>8, <3>1, <4>1 DEF NameKept
    <3>3. QED
      BY <1>4, <3>1, <3>2 DEF NameKept
  <2>2. QED
    BY <2>1 DEF ToldKept
<1>21. QED
  BY <1>14, <1>15, <1>16, <1>17, <1>18, <1>19, <1>20 DEF Inv, RegistryInv

-----------------------------------------------------------------------------
(* Removal of a device.                                                    *)

\* What a removal looks like, and its plan.
LEMMA DeleteTask ==
  ASSUME JobsOK, NEW t \in Tasks, task[t] # None, task[t].op = "delete"
  PROVE  /\ task[t] \in Job /\ task[t] \in DeleteJob /\ task[t].dev \in Devices /\ task[t].next \in 1 .. 12
         /\ DevicesOf(task[t]) = {task[t].dev}
<1>1. task[t] \in Job
  BY DEF JobsOK
<1>2. QED
  BY <1>1, JobShape, JobDevices, PlanLength DEF DeleteJob

LEMMA DeleteNextKeeps ==
  ASSUME Inv, NEW t \in Tasks, DeleteNext(t)
  PROVE  Inv'
<1>1. TypeOK /\ JobsOK
  BY DEF Inv
<1>2. PICK d, n : d = task[t].dev /\ n = task[t].next
  OBVIOUS
<1>3. /\ task[t] # None /\ task[t].op = "delete" /\ n \in 1 .. 10
      /\ UNCHANGED <<mem, row, zones, clean, told, gone>>
      /\ zones' \in [Ids -> Codes \cup {"new", "removed"}]
  BY <1>1, <1>2, PlanLength DEF DeleteNext, TypeOK
<1>4. task[t] \in Job /\ task[t] \in DeleteJob /\ DevicesOf(task[t]) = {d} /\ d \in Devices
  BY <1>1, <1>2, <1>3, DeleteTask
<1>5. \A e : ~Setting(task[t], e) /\ ~Removing(task[t], e) /\ ~Entering(task[t], e)
  BY <1>2, <1>3, PlanLength DEF Setting, Removing, Entering
<1>6. sessions' \subseteq sessions /\ kids' \subseteq kids
  BY DEF DeleteNext
<1>7. CASE End(t)
  BY <1>3, <1>5, <1>6, <1>7, Nothing, NoDevices, Quiet DEF End
<1>8. CASE task' = [task EXCEPT ![t].next = n + 1] /\ crossed' = crossed
  <2>1. PICK job : job = [task[t] EXCEPT !.next = n + 1]
    OBVIOUS
  <2>2. task' = [task EXCEPT ![t] = job]
    BY <1>1, <1>8, <2>1 DEF JobsOK
  <2>3. job \in DeleteJob /\ job.op = "delete" /\ job.dev = d /\ job.next = n + 1
    BY <1>2, <1>3, <1>4, <2>1, PlanLength DEF DeleteJob
  <2>4. job \in Job /\ job # None /\ DevicesOf(job) = {d}
    BY <2>3, JobShape, JobDevices DEF Job
  <2>5. \A e : ~Setting(job, e) /\ ~Removing(job, e)
    BY <1>3, <2>3, PlanLength DEF Setting, Removing
  <2>6. \A e : \A name : Keeps(task[t], e, name) => Keeps(job, e, name)
    BY <1>3, <1>4, <2>3, <2>4 DEF Keeps
  <2>7. QED
    BY <1>3, <1>4, <1>5, <1>6, <1>8, <2>2, <2>3, <2>4, <2>5, <2>6, Quiet
<1>9. QED
  BY <1>2, <1>7, <1>8 DEF DeleteNext

\* The row goes, and all that refers to it.
LEMMA DeleteRowKeeps ==
  ASSUME Inv, NEW t \in Tasks, DeleteRow(t)
  PROVE  Inv'
<1>1. TypeOK /\ JobsOK /\ Crossings /\ SetInMemory /\ CleanMatches /\ GoneAway /\ ToldKept
  BY DEF Inv, RegistryInv
<1>2. PICK d : d = task[t].dev
  OBVIOUS
<1>3. /\ task[t] # None /\ task[t].op = "delete" /\ task[t].next = 11
      /\ UNCHANGED <<mem, sessions, zones, clean, told, gone>>
      /\ zones' \in [Ids -> Codes \cup {"new", "removed"}]
  BY <1>1, PlanLength DEF DeleteRow, TypeOK
<1>4. task[t] \in Job /\ task[t] \in DeleteJob /\ DevicesOf(task[t]) = {d} /\ d \in Devices
  BY <1>1, <1>2, <1>3, DeleteTask
<1>5. \A e : ~Setting(task[t], e) /\ ~Removing(task[t], e) /\ ~Entering(task[t], e)
  BY <1>3, PlanLength DEF Setting, Removing, Entering
<1>6. CASE End(t) /\ UNCHANGED <<row, kids>>
  BY <1>3, <1>5, <1>6, Nothing, NoDevices, Quiet DEF End
<1>7. CASE /\ row' = [row EXCEPT ![d] = None] /\ kids' = kids \ ({d} \X Tables)
           /\ task' = [task EXCEPT ![t].next = @ + 1] /\ UNCHANGED crossed
  <2>1. PICK job : job = [task[t] EXCEPT !.next = 12]
    OBVIOUS
  <2>2. job \in DeleteJob /\ job.op = "delete" /\ job.dev = d /\ job.next = 12
    BY <1>2, <1>3, <1>4, <2>1, PlanLength DEF DeleteJob
  <2>3. job \in Job /\ job # None /\ DevicesOf(job) = {d}
    BY <2>2, JobShape, JobDevices DEF Job
  <2>4. task' = [task EXCEPT ![t] = job] /\ task'[t] = job /\ \A u \in Tasks : u # t => task'[u] = task[u]
    BY <1>1, <1>3, <1>7, <2>1 DEF JobsOK
  <2>5. \A e : ~Setting(job, e) /\ ~Entering(job, e) /\ (Removing(job, e) <=> e = d)
    BY <2>2, <2>3, PlanLength DEF Setting, Removing, Entering
  <2>6. row'[d] = None /\ \A e \in Devices : e # d => row'[e] = row[e]
    BY <1>1, <1>4, <1>7 DEF TypeOK
  <2>7. TypeOK'
    <3>1. row' \in [Devices -> Record \cup {None}]
      BY <1>1, <1>7 DEF TypeOK
    <3>2. QED
      BY <1>1, <1>3, <1>7, <3>1 DEF TypeOK
  <2>8. JobsOK'
    <3>1. task' \in [Tasks -> Job \cup {None}]
      BY <1>1, <2>3, <2>4 DEF JobsOK
    <3>2. QED
      BY <1>1, <2>2, <2>4, <3>1 DEF JobsOK
  <2>9. Crossings'
    BY <1>1, <1>3, <1>4, <1>7, <2>2, <2>3, <2>4, ShrinkCrosses
  <2>10. SetInMemory'
    BY <1>1, <1>3, <1>7, <2>4, <2>5, SetKept
  <2>11. CleanMatches'
    <3>1. ASSUME NEW e \in clean', e # d PROVE Matches(e)'
      <4>1. Matches(e) /\ e \in Devices
        BY <1>1, <1>3, <3>1 DEF CleanMatches, TypeOK
      <4>2. QED
        BY <1>3, <1>5, <2>4, <2>5, <2>6, <3>1, <4>1, MatchKept
    <3>2. Matches(d)'
      BY <2>4, <2>5 DEF Matches
    <3>3. QED
      BY <3>1, <3>2 DEF CleanMatches
  <2>12. GoneAway'
    <3>1. Rowless(d)'
      <4>1. \A k \in kids' : k[1] # d
        BY <1>1, <1>7 DEF TypeOK
      <4>2. QED
        BY <2>6, <4>1 DEF Rowless
    <3>2. ASSUME NEW e \in Devices, Rowless(e) PROVE Rowless(e)'
      <4>1. row'[e] = None
        BY <2>6, <3>2 DEF Rowless
      <4>2. \A k \in kids' : k[1] # e
        BY <1>7, <3>2 DEF Rowless
      <4>3. QED
        BY <4>1, <4>2 DEF Rowless
    <3>3. ASSUME NEW u \in Tasks, NEW e \in Devices, Removing(task'[u], e), u \notin crossed' PROVE Rowless(e)'
      <4>1. CASE u = t
        BY <2>4, <2>5, <3>1, <3>3, <4>1
      <4>2. CASE u # t
        BY <1>1, <1>7, <2>4, <3>2, <3>3, <4>2 DEF GoneAway
      <4>3. QED
        BY <4>1, <4>2
    <3>4. ASSUME NEW e \in gone' PROVE Away(e)'
      <4>1. Away(e) /\ e \in Devices
        BY <1>1, <1>3, <3>4 DEF GoneAway, TypeOK
      <4>2. e # d
        BY <1>4, <4>1 DEF Away
      <4>3. Rowless(e)' /\ \A u \in Tasks : e \notin DevicesOf(task'[u])
        BY <2>3, <2>4, <3>2, <4>1, <4>2 DEF Away
      <4>4. QED
        BY <1>3, <4>1, <4>3 DEF Away
    <3>5. QED
      BY <3>3, <3>4 DEF GoneAway
  <2>13. ToldKept'
    <3>1. ASSUME NEW e \in Devices, told'[e] # Absent PROVE NameKept(e)'
      <4>1. NameKept(e) /\ told'[e] = told[e]
        BY <1>1, <1>3, <3>1 DEF ToldKept
      <4>2. e # d
        BY <1>3, <1>4, <4>1 DEF NameKept, Keeps
      <4>3. mem'[e] # None /\ mem'[e].name = told[e] /\ row'[e] # None /\ row'[e].name = told[e]
        BY <1>3, <2>6, <4>1, <4>2 DEF NameKept
      <4>4. Keeps(task'[t], e, told[e])
        BY <2>3, <2>4, <4>2 DEF Keeps
      <4>5. QED
        BY <2>4, <4>1, <4>3, <4>4, NameStays
    <3>2. QED
      BY <3>1 DEF ToldKept
  <2>14. QED
    BY <2>7, <2>8, <2>9, <2>10, <2>11, <2>12, <2>13 DEF Inv, RegistryInv
<1>8. QED
  BY <1>2, <1>6, <1>7 DEF DeleteRow

\* Memory forgets the device.
LEMMA ForgetKeeps ==
  ASSUME Inv, NEW t \in Tasks, Forget(t)
  PROVE  Inv'
<1>1. TypeOK /\ JobsOK /\ Crossings /\ SetInMemory /\ CleanMatches /\ GoneAway /\ ToldKept
  BY DEF Inv, RegistryInv
<1>2. PICK d : d = task[t].dev
  OBVIOUS
<1>3. /\ task[t] # None /\ task[t].op = "delete" /\ task[t].next = Len(RemovalPlan) + 2
      /\ mem' = [mem EXCEPT ![d] = None] /\ sessions' = sessions \ {d}
      /\ gone' = IF t \in crossed THEN gone ELSE gone \cup {d}
      /\ clean' = IF row[d] = None THEN clean ELSE clean \ {d}
      /\ End(t) /\ UNCHANGED <<row, zones, kids, told>>
  BY <1>2 DEF Forget
<1>4. task[t] \in Job /\ DevicesOf(task[t]) = {d} /\ d \in Devices /\ Removing(task[t], d)
  BY <1>1, <1>2, <1>3, DeleteTask DEF Removing
<1>5. /\ JobsOK' /\ task'[t] = None /\ crossed' = crossed \ {t} /\ \A u \in Tasks : u # t => task'[u] = task[u]
  BY <1>1, <1>3, EndTask
<1>6. mem'[d] = None /\ \A e \in Devices : e # d => mem'[e] = mem[e]
  BY <1>1, <1>3, <1>4 DEF TypeOK
<1>7. \A e : ~Setting(task[t], e) /\ ~Entering(task[t], e) /\ (e # d => ~Removing(task[t], e))
  BY <1>2, <1>3 DEF Setting, Removing, Entering
<1>8. TypeOK'
  <2>1. mem' \in [Devices -> Record \cup {None}]
    BY <1>1, <1>3 DEF TypeOK
  <2>2. QED
    BY <1>1, <1>3, <1>4, <1>5, <2>1 DEF TypeOK
<1>9. Crossings'
  BY <1>1, <1>3, <1>5, NoDevices, ShrinkCrosses
<1>10. SetInMemory'
  <2>1. ASSUME NEW u \in Tasks, u # t, Setting(task[u], d) PROVE u \in crossed' /\ d \notin clean'
    <3>1. task[u] # None /\ d \in DevicesOf(task[u]) /\ task[u].op # "session"
      BY <1>1, <2>1, SettingDevice
    <3>2. Meet(task[u], task[t])
      BY <1>3, <1>4, <3>1, MeetAt
    <3>3. u \in crossed /\ d \notin clean
      BY <1>1, <1>3, <1>4, <2>1, <3>1, <3>2 DEF Crossings
    <3>4. QED
      BY <1>3, <1>5, <2>1, <3>3
  <2>2. QED
    BY <1>1, <1>3, <1>5, <1>6, <2>1, Nothing, SetKept
<1>11. CleanMatches'
  <2>1. ASSUME NEW e \in clean', e # d PROVE Matches(e)'
    <3>1. Matches(e) /\ e \in Devices
      BY <1>1, <1>3, <2>1 DEF CleanMatches, TypeOK
    <3>2. QED
      BY <1>3, <1>5, <1>6, <1>7, <2>1, <3>1, MatchKept
  <2>2. ASSUME d \in clean' PROVE Matches(d)'
    BY <1>3, <1>6, <2>2 DEF Matches
  <2>3. QED
    BY <2>1, <2>2 DEF CleanMatches
<1>12. GoneAway'
  <2>1. ASSUME NEW u \in Tasks, NEW e \in Devices, Removing(task'[u], e), u \notin crossed' PROVE Rowless(e)'
    <3>1. Rowless(e)
      BY <1>1, <1>5, <2>1, Nothing DEF GoneAway
    <3>2. QED
      BY <1>3, <3>1 DEF Rowless
  <2>2. ASSUME NEW e \in gone' PROVE Away(e)'
    <3>1. CASE e # d
      <4>1. Away(e) /\ e \in Devices
        BY <1>1, <1>3, <2>2, <3>1 DEF GoneAway, TypeOK
      <4>2. \A u \in Tasks : e \notin DevicesOf(task'[u])
        BY <1>5, <4>1, NoDevices DEF Away
      <4>3. QED
        BY <1>3, <1>6, <3>1, <4>1, <4>2 DEF Away, Rowless
    <3>2. CASE e = d
      <4>1. t \notin crossed
        BY <1>1, <1>3, <1>4, <2>2, <3>2 DEF GoneAway, Away
      <4>2. Rowless(d)
        BY <1>1, <1>4, <4>1 DEF GoneAway
      <4>3. \A u \in Tasks : u # t => d \notin DevicesOf(task[u])
        BY <1>1, <1>3, <1>4, <4>1, NoDevices, Sole
      <4>4. \A u \in Tasks : d \notin DevicesOf(task'[u])
        BY <1>5, <4>3, NoDevices
      <4>5. QED
        BY <1>3, <1>6, <3>2, <4>2, <4>4 DEF Away, Rowless
    <3>3. QED
      BY <3>1, <3>2
  <2>3. QED
    BY <2>1, <2>2 DEF GoneAway
<1>13. ToldKept'
  <2>1. ASSUME NEW e \in Devices, told'[e] # Absent PROVE NameKept(e)'
    <3>1. NameKept(e) /\ told'[e] = told[e]
      BY <1>1, <1>3, <2>1 DEF ToldKept
    <3>2. e # d
      BY <1>3, <1>4, <3>1 DEF NameKept, Keeps
    <3>3. mem'[e] # None /\ mem'[e].name = told[e] /\ row'[e] # None /\ row'[e].name = told[e]
      BY <1>3, <1>6, <3>1, <3>2 DEF NameKept
    <3>4. QED
      BY <1>5, <3>1, <3>3, Nothing, NameStays
  <2>2. QED
    BY <2>1 DEF ToldKept
<1>14. QED
  BY <1>5, <1>8, <1>9, <1>10, <1>11, <1>12, <1>13 DEF Inv, RegistryInv

LEMMA DisconnectKeeps ==
  ASSUME Inv, NEW d \in Devices, Disconnect(d)
  PROVE  Inv'
<1>1. TypeOK /\ JobsOK /\ Crossings /\ SetInMemory /\ CleanMatches /\ GoneAway /\ ToldKept
  BY DEF Inv, RegistryInv
<1>2. /\ UNCHANGED <<mem, row, zones, task, crossed, clean, told, gone>>
      /\ sessions' = sessions \ {d} /\ kids' = kids \ {<<d, "session">>}
  BY DEF Disconnect
<1>3. TypeOK' /\ JobsOK' /\ Crossings' /\ SetInMemory' /\ CleanMatches' /\ ToldKept'
  BY <1>1, <1>2 DEF TypeOK, JobsOK, Crossings, SetInMemory, CleanMatches, Matches, ToldKept, NameKept
<1>4. \A e : Rowless(e) => Rowless(e)'
  BY <1>2 DEF Rowless
<1>5. GoneAway'
  BY <1>1, <1>2, <1>4 DEF GoneAway, Away
<1>6. QED
  BY <1>3, <1>5 DEF Inv, RegistryInv

-----------------------------------------------------------------------------
(* Removal of a zone from its devices.                                     *)

\* An order of all devices of a set has each of them once.
LEMMA OnceEach ==
  ASSUME NEW found, IsFiniteSet(found), NEW order \in [1 .. Cardinality(found) -> found],
         {order[i] : i \in DOMAIN order} = found
  PROVE  /\ order \in Seq(found) /\ DOMAIN order = 1 .. Cardinality(found)
         /\ \A i, j \in DOMAIN order : order[i] = order[j] => i = j
<1>1. PICK n : n = Cardinality(found)
  OBVIOUS
<1>2. n \in Nat
  BY <1>1, FS_CardinalityType
<1>3. IsFiniteSet(1 .. n) /\ Cardinality(1 .. n) = n
  BY <1>2, FS_Interval
<1>4. order \in [1 .. n -> found] /\ DOMAIN order = 1 .. n
  BY <1>1
<1>5. \A x \in found : \E i \in 1 .. n : order[i] = x
  BY <1>4
<1>6. order \in Surjection(1 .. n, found)
  BY <1>4, <1>5 DEF Surjection
<1>7. order \in Injection(1 .. n, found)
  BY <1>1, <1>3, <1>6, FS_SurjSameCardinalityImpliesInj
<1>8. QED
  BY <1>1, <1>2, <1>4, <1>7 DEF Injection, IsInjective

\* Unless nothing comes of it, a removal of a zone learns its devices from memory.
LEMMA AskedTargets ==
  ASSUME TypeOK, JobsOK, NEW t \in Tasks, DropZoneAsked(t)
  PROVE  \/ End(t) /\ UNCHANGED <<mem, clean>>
         \/ \E targets \in Seq(Target) :
              /\ Become(t, [task[t] EXCEPT !.asked = TRUE, !.targets = targets])
              /\ mem' = IF targets = <<>> THEN mem ELSE [mem EXCEPT ![targets[1].dev] = targets[1].rec]
              /\ \A i \in DOMAIN targets : Known(targets[i].dev) /\ targets[i].rec.name = mem[targets[i].dev].name
              /\ \A i, j \in DOMAIN targets : targets[i].dev = targets[j].dev => i = j
<1>1. PICK found : found = InZone(task[t].code)
  OBVIOUS
<1>2. IsFiniteSet(found) /\ found \subseteq Devices /\ \A d \in found : mem[d] \in Record
  <2>1. found \subseteq Devices /\ \A d \in found : Known(d)
    BY <1>1 DEF InZone
  <2>2. QED
    BY <2>1, JobAssumption, FS_Subset DEF TypeOK, Known
<1>3. SUFFICES ASSUME NEW order \in [1 .. Cardinality(found) -> found], {order[i] : i \in DOMAIN order} = found,
                      NEW targets, targets = [i \in DOMAIN order |-> [dev |-> order[i], rec |-> Zoneless(mem[order[i]])]],
                      Become(t, [task[t] EXCEPT !.asked = TRUE, !.targets = targets]),
                      mem' = IF targets = <<>> THEN mem ELSE [mem EXCEPT ![targets[1].dev] = targets[1].rec]
               PROVE  /\ targets \in Seq(Target)
                      /\ \A i \in DOMAIN targets : Known(targets[i].dev) /\ targets[i].rec.name = mem[targets[i].dev].name
                      /\ \A i, j \in DOMAIN targets : targets[i].dev = targets[j].dev => i = j
  BY <1>1 DEF DropZoneAsked
<1>4. /\ DOMAIN order = 1 .. Cardinality(found) /\ \A i, j \in DOMAIN order : order[i] = order[j] => i = j
      /\ Cardinality(found) \in Nat
  BY <1>2, <1>3, OnceEach, FS_CardinalityType
<1>5. ASSUME NEW i \in DOMAIN order
      PROVE  /\ targets[i] \in Target /\ targets[i].dev = order[i] /\ Known(order[i])
             /\ targets[i].rec.name = mem[order[i]].name
  <2>1. order[i] \in found /\ order[i] \in Devices /\ mem[order[i]] \in Record
    BY <1>2, <1>3, <1>4
  <2>2. QED
    BY <1>3, <2>1, TypeOfRecord DEF Target, Known
<1>6. DOMAIN targets = DOMAIN order
  BY <1>3
<1>7. targets \in Seq(Target)
  BY <1>3, <1>4, <1>5, <1>6
<1>8. QED
  BY <1>4, <1>5, <1>6, <1>7

LEMMA DropZoneAskedKeeps ==
  ASSUME Inv, NEW t \in Tasks, DropZoneAsked(t)
  PROVE  Inv'
<1>1. TypeOK /\ JobsOK /\ Crossings /\ SetInMemory /\ CleanMatches /\ GoneAway /\ ToldKept
  BY DEF Inv, RegistryInv
<1>2. /\ task[t] \in DropJob /\ task[t] \in Job /\ task[t] # None /\ task[t].op = "drop_zone" /\ task[t].targets = <<>>
      /\ UNCHANGED <<sessions, row, zones, kids, told, gone>>
  BY <1>1, JobShape DEF DropZoneAsked, JobsOK
<1>3. DevicesOf(task[t]) = {} /\ \A e : ~Setting(task[t], e) /\ ~Removing(task[t], e) /\ ~Entering(task[t], e)
  BY <1>2, JobDevices DEF Targets, Setting, Removing, Entering
<1>4. zones' \in [Ids -> Codes \cup {"new", "removed"}]
  BY <1>1, <1>2 DEF TypeOK
<1>5. CASE End(t) /\ UNCHANGED <<mem, clean>>
  BY <1>2, <1>3, <1>4, <1>5, Nothing, NoDevices, Quiet DEF End
<1>6. ASSUME NEW targets \in Seq(Target),
             Become(t, [task[t] EXCEPT !.asked = TRUE, !.targets = targets]),
             mem' = IF targets = <<>> THEN mem ELSE [mem EXCEPT ![targets[1].dev] = targets[1].rec],
             \A i \in DOMAIN targets : Known(targets[i].dev) /\ targets[i].rec.name = mem[targets[i].dev].name,
             \A i, j \in DOMAIN targets : targets[i].dev = targets[j].dev => i = j
      PROVE  Inv'
  <2>1. PICK job : job = [task[t] EXCEPT !.asked = TRUE, !.targets = targets]
    OBVIOUS
  <2>2. job \in DropJob /\ job.op = "drop_zone" /\ job.asked = TRUE /\ job.targets = targets
    BY <1>2, <1>6, <2>1 DEF DropJob
  <2>3. job \in Job /\ job # None /\ DevicesOf(job) = Targets(job)
    BY <2>2, JobShape, JobDevices DEF Job
  <2>4. /\ Crossings' /\ crossed \subseteq crossed' /\ clean' \subseteq clean /\ crossed' \subseteq Tasks
        /\ task' = [task EXCEPT ![t] = job] /\ task'[t] = job /\ \A u \in Tasks : u # t => task'[u] = task[u]
        /\ \A u \in Tasks : u # t /\ task[u] # None /\ Meet(task[u], job) =>
             u \in crossed' /\ t \in crossed' /\ clean' \cap DevicesOf(job) = {}
    BY <1>1, <1>6, <2>1, <2>3, BecomeCrosses
  <2>5. \A e : ~Removing(job, e) /\ (Setting(job, e) <=> targets # <<>> /\ targets[1].dev = e) /\ SetTo(job) = targets[1].rec
    BY <2>2, <2>3 DEF Removing, Setting, SetTo
  <2>6. targets # <<>> => /\ 1 \in DOMAIN targets /\ targets[1].dev \in Devices /\ targets[1].rec \in Record
                          /\ mem[targets[1].dev] # None /\ targets[1].rec.name = mem[targets[1].dev].name
                          /\ targets[1].dev \in DevicesOf(job)
    <3>1. SUFFICES ASSUME targets # <<>> PROVE 1 \in DOMAIN targets /\ targets[1] \in Target
      BY <1>6, <2>2, <2>3 DEF Target, Targets, Known
    <3>2. QED
      BY <1>6, <3>1
  <2>7. ASSUME NEW e \in Devices
        PROVE  /\ Setting(job, e) => mem'[e] = SetTo(job) /\ e \in DevicesOf(job)
               /\ ~Setting(job, e) => mem'[e] = mem[e]
               /\ mem[e] # None => mem'[e] # None /\ mem'[e].name = mem[e].name
    <3>1. CASE Setting(job, e)
      <4>1. mem'[e] = targets[1].rec /\ e = targets[1].dev /\ targets # <<>>
        BY <1>1, <1>6, <2>5, <3>1 DEF TypeOK
      <4>2. QED
        BY <2>5, <2>6, <3>1, <4>1, TypeOfRecord
    <3>2. CASE ~Setting(job, e)
      BY <1>1, <1>6, <2>5, <2>6, <3>2 DEF TypeOK
    <3>3. QED
      BY <3>1, <3>2
  <2>8. TypeOK'
    <3>1. mem' \in [Devices -> Record \cup {None}]
      BY <1>1, <1>6, <2>6 DEF TypeOK
    <3>2. QED
      BY <1>1, <1>2, <2>4, <3>1 DEF TypeOK
  <2>9. JobsOK'
    <3>1. task' \in [Tasks -> Job \cup {None}]
      BY <1>1, <2>3, <2>4 DEF JobsOK
    <3>2. QED
      BY <1>1, <1>6, <2>2, <2>4, <3>1 DEF JobsOK
  <2>10. SetInMemory'
    <3>1. ASSUME NEW u \in Tasks, NEW e \in Devices, u # t, Setting(task[u], e), Setting(job, e)
          PROVE  u \in crossed' /\ e \notin clean'
      <4>1. task[u] # None /\ e \in DevicesOf(task[u]) /\ task[u].op # "session"
        BY <1>1, <3>1, SettingDevice
      <4>2. e \in DevicesOf(job)
        BY <2>7, <3>1
      <4>3. QED
        BY <2>2, <2>4, <3>1, <4>1, <4>2, MeetAt
    <3>2. QED
      BY <1>1, <2>4, <2>7, <3>1, SetKept
  <2>11. CleanMatches'
    <3>1. ASSUME NEW e \in clean' PROVE Matches(e)'
      <4>1. Matches(e) /\ e \in Devices
        BY <1>1, <2>4, <3>1 DEF CleanMatches, TypeOK
      <4>2. CASE Setting(job, e)
        BY <2>4, <4>2 DEF Matches
      <4>3. CASE ~Setting(job, e)
        BY <1>2, <1>3, <2>4, <2>7, <4>1, <4>3, MatchKept
      <4>4. QED
        BY <4>2, <4>3
    <3>2. QED
      BY <3>1 DEF CleanMatches
  <2>12. GoneAway'
    <3>1. ASSUME NEW u \in Tasks, NEW e \in Devices, Removing(task'[u], e), u \notin crossed' PROVE Rowless(e)'
      <4>1. u # t
        BY <2>4, <2>5, <3>1
      <4>2. Rowless(e)
        BY <1>1, <2>4, <3>1, <4>1 DEF GoneAway
      <4>3. QED
        BY <1>2, <4>2 DEF Rowless
    <3>2. ASSUME NEW e \in gone' PROVE Away(e)'
      <4>1. Away(e) /\ e \in Devices
        BY <1>1, <1>2, <3>2 DEF GoneAway, TypeOK
      <4>2. e \notin DevicesOf(job)
        BY <1>6, <2>2, <2>3, <4>1 DEF Targets, Away, Known
      <4>3. \A u \in Tasks : e \notin DevicesOf(task'[u])
        BY <2>4, <4>1, <4>2 DEF Away
      <4>4. mem'[e] = None /\ Rowless(e)'
        BY <1>2, <2>7, <4>1, <4>2 DEF Away, Rowless
      <4>5. QED
        BY <1>2, <4>1, <4>3, <4>4 DEF Away
    <3>3. QED
      BY <3>1, <3>2 DEF GoneAway
  <2>13. ToldKept'
    <3>1. ASSUME NEW e \in Devices, told'[e] # Absent PROVE NameKept(e)'
      <4>1. NameKept(e) /\ told'[e] = told[e]
        BY <1>1, <1>2, <3>1 DEF ToldKept
      <4>2. mem'[e] # None /\ mem'[e].name = told[e] /\ row'[e] # None /\ row'[e].name = told[e]
        BY <1>2, <2>7, <4>1 DEF NameKept
      <4>3. Keeps(task'[t], e, told[e])
        BY <1>6, <2>2, <2>4, <4>1 DEF Keeps, NameKept
      <4>4. QED
        BY <2>4, <4>1, <4>2, <4>3, NameStays
    <3>2. QED
      BY <3>1 DEF ToldKept
  <2>14. QED
    BY <2>4, <2>8, <2>9, <2>10, <2>11, <2>12, <2>13 DEF Inv, RegistryInv
<1>7. QED
  BY <1>1, <1>5, <1>6, AskedTargets

\* A removal of a zone after its next statement.
Cleared(job) == [job EXCEPT !.targets = Tail(job.targets)]

\* What it has in memory before and after.
LEMMA RestOfTargets ==
  ASSUME JobsOK, NEW t \in Tasks, task[t] # None, task[t].op = "drop_zone", task[t].targets # <<>>
  PROVE  LET job  == Cleared(task[t])
             done == Head(task[t].targets)
         IN /\ job \in DropJob /\ job \in Job /\ job # None /\ job.op = "drop_zone" /\ job.asked = TRUE
            /\ job.targets = Tail(task[t].targets)
            /\ done \in Target /\ done.dev \notin DevicesOf(job) /\ DevicesOf(job) \subseteq DevicesOf(task[t])
            /\ done.dev \in DevicesOf(task[t])
            /\ Setting(task[t], done.dev) /\ SetTo(task[t]) = done.rec /\ \A e : e # done.dev => ~Setting(task[t], e)
            /\ \A i, j \in DOMAIN job.targets : job.targets[i].dev = job.targets[j].dev => i = j
            /\ \A e \in Devices : Keeps(task[t], e, told[e]) =>
                 Keeps(job, e, told[e]) /\ (e = done.dev => done.rec.name = told[e])
<1>0. PICK job, done : job = Cleared(task[t]) /\ done = Head(task[t].targets)
  OBVIOUS
<1>1. task[t] \in Job /\ task[t] \in DropJob /\ DevicesOf(task[t]) = Targets(task[t])
  BY JobShape, JobDevices DEF JobsOK
<1>2. PICK old, rest : old = task[t].targets /\ rest = Tail(old)
  OBVIOUS
<1>3. old \in Seq(Target) /\ old # <<>> /\ task[t].asked = TRUE
      /\ \A i, j \in DOMAIN old : old[i].dev = old[j].dev => i = j
  BY <1>1, <1>2 DEF DropJob, JobsOK
<1>4. /\ rest \in Seq(Target) /\ done = Head(old) /\ done = old[1] /\ done \in Target /\ 1 \in DOMAIN old
      /\ \A i \in DOMAIN rest : rest[i] = old[i + 1] /\ i + 1 \in DOMAIN old /\ i \in Nat \ {0}
  <2>1. /\ Head(old) \in Target /\ rest \in Seq(Target) /\ Len(rest) = Len(old) - 1
        /\ \A i \in 1 .. Len(rest) : rest[i] = old[i + 1]
    BY <1>2, <1>3, HeadTailProperties
  <2>2. Len(old) \in Nat /\ Len(old) # 0 /\ DOMAIN old = 1 .. Len(old) /\ DOMAIN rest = 1 .. Len(rest)
    BY <1>3, <2>1, EmptySeq
  <2>3. QED
    BY <1>0, <1>2, <1>3, <2>1, <2>2
<1>5. job \in DropJob /\ job.op = "drop_zone" /\ job.asked = TRUE /\ job.targets = rest
  BY <1>0, <1>1, <1>2, <1>3, <1>4 DEF DropJob, Cleared
<1>6. job \in Job /\ job # None /\ DevicesOf(job) = Targets(job)
  BY <1>5, JobShape, JobDevices DEF Job
<1>7. \A i \in DOMAIN rest : old[i + 1].dev # old[1].dev
  BY <1>3, <1>4
<1>8. done.dev \notin DevicesOf(job) /\ DevicesOf(job) \subseteq DevicesOf(task[t]) /\ done.dev \in DevicesOf(task[t])
  <2>1. DevicesOf(job) = {rest[i].dev : i \in DOMAIN rest} /\ DevicesOf(task[t]) = {old[i].dev : i \in DOMAIN old}
    BY <1>1, <1>2, <1>5, <1>6 DEF Targets
  <2>2. \A i \in DOMAIN rest : rest[i].dev # done.dev /\ \E j \in DOMAIN old : old[j].dev = rest[i].dev
    BY <1>4, <1>7
  <2>3. done.dev = old[1].dev /\ 1 \in DOMAIN old
    BY <1>4
  <2>4. QED
    BY <2>1, <2>2, <2>3
<1>9. Setting(task[t], done.dev) /\ SetTo(task[t]) = done.rec /\ \A e : e # done.dev => ~Setting(task[t], e)
  BY <1>2, <1>3, <1>4 DEF Setting, SetTo
<1>10. ASSUME NEW i \in DOMAIN rest, NEW j \in DOMAIN rest, rest[i].dev = rest[j].dev PROVE i = j
  <2>1. i + 1 \in DOMAIN old /\ j + 1 \in DOMAIN old /\ i \in Nat /\ j \in Nat /\ old[i + 1].dev = old[j + 1].dev
    BY <1>4, <1>10
  <2>2. i + 1 = j + 1
    BY <1>3, <2>1
  <2>3. QED
    BY <2>1, <2>2
<1>11. ASSUME NEW e \in Devices, Keeps(task[t], e, told[e])
       PROVE  Keeps(job, e, told[e]) /\ (e = done.dev => done.rec.name = told[e])
  <2>1. e \in DevicesOf(task[t]) => \A i \in DOMAIN old : old[i].dev = e => old[i].rec.name = told[e]
    BY <1>2, <1>11 DEF Keeps
  <2>2. e \in DevicesOf(job) => \A i \in DOMAIN rest : rest[i].dev = e => rest[i].rec.name = told[e]
    BY <1>4, <1>8, <2>1
  <2>3. QED
    BY <1>4, <1>5, <1>8, <2>1, <2>2 DEF Keeps
<1>12. \A i, j \in DOMAIN job.targets : job.targets[i].dev = job.targets[j].dev => i = j
  BY <1>5, <1>10
<1>13. \A e \in Devices : Keeps(task[t], e, told[e]) => Keeps(job, e, told[e]) /\ (e = done.dev => done.rec.name = told[e])
  BY <1>11
<1>14. job \in DropJob /\ job \in Job /\ job # None /\ job.op = "drop_zone" /\ job.asked = TRUE /\ done \in Target
  BY <1>4, <1>5, <1>6
<1>15. job.targets = Tail(task[t].targets)
  BY <1>2, <1>5
<1>16. QED
  BY <1>0, <1>8, <1>9, <1>12, <1>13, <1>14, <1>15

LEMMA ClearZoneKeeps ==
  ASSUME Inv, NEW t \in Tasks, ClearZoneAssignment(t)
  PROVE  Inv'
<1>1. TypeOK /\ JobsOK /\ Crossings /\ SetInMemory /\ CleanMatches /\ GoneAway /\ ToldKept
  BY DEF Inv, RegistryInv
<1>2. PICK done, rest, job, d : /\ done = Head(task[t].targets) /\ rest = Tail(task[t].targets) /\ d = done.dev
                                /\ job = Cleared(task[t])
  OBVIOUS
<1>3. /\ task[t] # None /\ task[t].op = "drop_zone" /\ task[t].targets # <<>>
      /\ row' = [row EXCEPT ![d] = done.rec]
      /\ mem' = IF rest = <<>> THEN mem ELSE [mem EXCEPT ![rest[1].dev] = rest[1].rec]
      /\ clean' = IF t \in crossed THEN clean ELSE clean \cup {d}
      /\ UNCHANGED <<sessions, zones, kids, crossed, told, gone>>
  BY <1>2 DEF ClearZoneAssignment
<1>4. /\ job \in DropJob /\ job \in Job /\ job # None /\ job.op = "drop_zone" /\ job.asked = TRUE
      /\ done \in Target /\ d \notin DevicesOf(job) /\ DevicesOf(job) \subseteq DevicesOf(task[t])
      /\ d \in DevicesOf(task[t])
      /\ Setting(task[t], d) /\ SetTo(task[t]) = done.rec /\ \A e : e # d => ~Setting(task[t], e)
  BY <1>1, <1>2, <1>3, RestOfTargets
<1>5. \A i, j \in DOMAIN job.targets : job.targets[i].dev = job.targets[j].dev => i = j
  BY <1>1, <1>2, <1>3, RestOfTargets
<1>6. \A e \in Devices : Keeps(task[t], e, told[e]) => Keeps(job, e, told[e]) /\ (e = d => done.rec.name = told[e])
  BY <1>1, <1>2, <1>3, RestOfTargets
<1>7. task' = [task EXCEPT ![t] = job] /\ task'[t] = job /\ \A u \in Tasks : u # t => task'[u] = task[u]
  BY <1>1, <1>2 DEF ClearZoneAssignment, JobsOK, Cleared
<1>8. d \in Devices /\ done.rec \in Record /\ done.rec # None
  BY <1>2, <1>4, TypeOfRecord DEF Target
<1>9. row'[d] = done.rec /\ \A e \in Devices : e # d => row'[e] = row[e]
  BY <1>1, <1>3, <1>8 DEF TypeOK
<1>10. job.targets = rest /\ rest \in Seq(Target) /\ DevicesOf(job) = Targets(job)
  <2>1. job.targets = rest
    BY <1>1, <1>2, <1>3, RestOfTargets
  <2>2. QED
    BY <1>4, <2>1, JobDevices DEF DropJob
<1>11. \A e : /\ ~Removing(job, e) /\ ~Removing(task[t], e) /\ ~Entering(task[t], e)
              /\ (Setting(job, e) <=> rest # <<>> /\ rest[1].dev = e)
  BY <1>3, <1>4, <1>10 DEF Removing, Entering, Setting
<1>12. SetTo(job) = rest[1].rec
  BY <1>4, <1>10 DEF SetTo
<1>13. rest # <<>> => rest[1].dev \in Devices /\ rest[1].rec \in Record /\ rest[1].rec # None /\ rest[1].dev \in DevicesOf(job)
  <2>1. SUFFICES ASSUME rest # <<>> PROVE 1 \in DOMAIN rest /\ rest[1] \in Target
    BY <1>10, TypeOfRecord DEF Target, Targets
  <2>2. QED
    BY <1>10, <2>1
<1>14. ASSUME NEW e \in Devices
       PROVE  /\ Setting(job, e) => mem'[e] = SetTo(job) /\ e \in DevicesOf(job) /\ e # d
              /\ ~Setting(job, e) => mem'[e] = mem[e]
  <2>1. CASE Setting(job, e)
    BY <1>1, <1>3, <1>4, <1>11, <1>12, <1>13, <2>1 DEF TypeOK
  <2>2. CASE ~Setting(job, e)
    BY <1>1, <1>3, <1>11, <1>13, <2>2 DEF TypeOK
  <2>3. QED
    BY <2>1, <2>2
<1>15. TypeOK'
  <2>1. mem' \in [Devices -> Record \cup {None}]
    BY <1>1, <1>3, <1>13 DEF TypeOK
  <2>2. row' \in [Devices -> Record \cup {None}]
    BY <1>1, <1>3, <1>8 DEF TypeOK
  <2>3. QED
    BY <1>1, <1>3, <1>8, <2>1, <2>2 DEF TypeOK
<1>16. JobsOK'
  <2>1. task' \in [Tasks -> Job \cup {None}]
    BY <1>1, <1>4, <1>7 DEF JobsOK
  <2>2. QED
    BY <1>1, <1>4, <1>5, <1>7, <2>1 DEF JobsOK
<1>17. Crossings'
  BY <1>1, <1>3, <1>4, <1>7, ShrinkCrosses
<1>18. ASSUME NEW u \in Tasks, u # t, NEW e \in Devices, Setting(task[u], e), e \in DevicesOf(task[t])
       PROVE  t \in crossed /\ u \in crossed /\ e \notin clean
  <2>1. task[u] # None /\ e \in DevicesOf(task[u]) /\ task[u].op # "session"
    BY <1>1, <1>18, SettingDevice
  <2>2. Meet(task[u], task[t]) /\ Meet(task[t], task[u])
    BY <1>3, <1>18, <2>1, MeetAt
  <2>3. QED
    BY <1>1, <1>3, <1>18, <2>1, <2>2 DEF Crossings
<1>19. SetInMemory'
  <2>1. ASSUME NEW u \in Tasks, NEW e \in Devices, u # t, Setting(task[u], e)
        PROVE  \/ mem'[e] = mem[e] /\ (e \in clean' => e \in clean)
               \/ u \in crossed' /\ e \notin clean'
    <3>1. CASE e \in DevicesOf(task[t])
      BY <1>3, <1>18, <2>1, <3>1
    <3>2. CASE e \notin DevicesOf(task[t])
      BY <1>3, <1>4, <1>14, <3>2
    <3>3. QED
      BY <3>1, <3>2
  <2>2. QED
    BY <1>1, <1>3, <1>7, <1>14, <2>1, SetKept
<1>20. CleanMatches'
  <2>1. ASSUME NEW e \in clean', e # d PROVE Matches(e)'
    <3>1. Matches(e) /\ e \in Devices
      BY <1>1, <1>3, <2>1 DEF CleanMatches, TypeOK
    <3>2. CASE Setting(job, e)
      BY <1>7, <3>2 DEF Matches
    <3>3. CASE ~Setting(job, e)
      BY <1>4, <1>7, <1>9, <1>11, <1>14, <2>1, <3>1, <3>3, MatchKept
    <3>4. QED
      BY <3>2, <3>3
  <2>2. ASSUME d \in clean' PROVE Matches(d)'
    <3>1. mem[d] = done.rec
      BY <1>1, <1>3, <1>4, <1>8, <2>2 DEF SetInMemory
    <3>2. mem'[d] = row'[d]
      BY <1>8, <1>9, <1>14, <3>1
    <3>3. QED
      BY <3>2 DEF Matches
  <2>3. QED
    BY <2>1, <2>2 DEF CleanMatches
<1>21. GoneAway'
  <2>1. ASSUME NEW u \in Tasks, NEW e \in Devices, Removing(task'[u], e), u \notin crossed' PROVE Rowless(e)'
    <3>1. u # t /\ Removing(task[u], e) /\ u \notin crossed
      BY <1>3, <1>7, <1>11, <2>1
    <3>2. Rowless(e)
      BY <1>1, <3>1 DEF GoneAway
    <3>3. e # d
      <4>1. task[u] # None /\ e \in DevicesOf(task[u]) /\ task[u].op = "delete"
        BY <1>1, <3>1, RemovingDevice
      <4>2. QED
        BY <1>1, <1>3, <1>4, <3>1, <4>1, Sole
    <3>4. QED
      BY <1>3, <1>9, <3>2, <3>3 DEF Rowless
  <2>2. ASSUME NEW e \in gone' PROVE Away(e)'
    <3>1. Away(e) /\ e \in Devices
      BY <1>1, <1>3, <2>2 DEF GoneAway, TypeOK
    <3>2. e # d /\ ~Setting(job, e) /\ e \notin DevicesOf(job)
      BY <1>4, <1>14, <3>1 DEF Away
    <3>3. \A u \in Tasks : e \notin DevicesOf(task'[u])
      BY <1>7, <3>1, <3>2 DEF Away
    <3>4. mem'[e] = None /\ Rowless(e)'
      BY <1>3, <1>9, <1>14, <3>1, <3>2 DEF Away, Rowless
    <3>5. QED
      BY <1>3, <3>1, <3>3, <3>4 DEF Away
  <2>3. QED
    BY <2>1, <2>2 DEF GoneAway
<1>22. ToldKept'
  <2>1. ASSUME NEW e \in Devices, told'[e] # Absent PROVE NameKept(e)'
    <3>1. NameKept(e) /\ told'[e] = told[e]
      BY <1>1, <1>3, <2>1 DEF ToldKept
    <3>2. Keeps(task[t], e, told[e])
      BY <3>1 DEF NameKept
    <3>3. Keeps(job, e, told[e]) /\ (e = d => done.rec.name = told[e])
      BY <1>6, <3>2
    <3>4. row'[e] # None /\ row'[e].name = told[e]
      BY <1>8, <1>9, <3>1, <3>3 DEF NameKept
    <3>5. mem'[e] # None /\ mem'[e].name = told[e]
      <4>1. CASE Setting(job, e)
        <5>1. rest # <<>> /\ 1 \in DOMAIN rest /\ rest[1].dev = e /\ e \in DevicesOf(job)
          BY <1>10, <1>11, <1>14, <4>1
        <5>2. rest[1].rec.name = told[e]
          BY <1>4, <1>10, <3>3, <5>1 DEF Keeps
        <5>3. QED
          BY <1>12, <1>13, <1>14, <4>1, <5>1, <5>2
      <4>2. CASE ~Setting(job, e)
        BY <1>14, <3>1, <4>2 DEF NameKept
      <4>3. QED
        BY <4>1, <4>2
    <3>6. QED
      BY <1>7, <3>1, <3>3, <3>4, <3>5, NameStays
  <2>2. QED
    BY <2>1 DEF ToldKept
<1>23. QED
  BY <1>15, <1>16, <1>17, <1>19, <1>20, <1>21, <1>22 DEF Inv, RegistryInv

-----------------------------------------------------------------------------

LEMMA InitInv == Init => Inv
<1> SUFFICES ASSUME Init PROVE Inv
  OBVIOUS
<1>1. /\ zones = [i \in Ids |-> IF i = 1 THEN FirstZone ELSE "new"] /\ mem = row /\ sessions = {} /\ kids = {}
      /\ task = [t \in Tasks |-> None] /\ crossed = {} /\ clean = Devices /\ told = [d \in Devices |-> Absent] /\ gone = {}
      /\ row \in [Devices -> {None} \cup {[name |-> Default, zone |-> z, health |-> None] : z \in {None, FirstZone}}]
  BY DEF Init
<1>2. \A z \in {None, FirstZone} : [name |-> Default, zone |-> z, health |-> None] \in Record
  BY RegistryAssumption DEF Record, Health
<1>3. row \in [Devices -> Record \cup {None}]
  BY <1>1, <1>2
<1>4. zones \in [Ids -> Codes \cup {"new", "removed"}]
  BY <1>1, RegistryAssumption
<1>5. TypeOK
  BY <1>1, <1>3, <1>4 DEF TypeOK
<1>6. \A t \in Tasks : task[t] = None
  BY <1>1
<1>7. JobsOK
  BY <1>1 DEF JobsOK
<1>8. Crossings /\ SetInMemory /\ CleanMatches /\ GoneAway /\ ToldKept
  BY <1>1, <1>6, Nothing DEF Crossings, SetInMemory, CleanMatches, Matches, GoneAway, ToldKept
<1>9. QED
  BY <1>5, <1>7, <1>8 DEF Inv, RegistryInv

LEMMA StepInv == Inv /\ [Next]_vars => Inv'
<1> SUFFICES ASSUME Inv, [Next]_vars PROVE Inv'
  OBVIOUS
<1>1. ASSUME NEW t \in Tasks, RequestStep(t) PROVE Inv'
  <2>1. ASSUME NEW d \in Devices, Connect(t, d) PROVE Inv'
    BY <2>1, ConnectKnownKeeps, ConnectUnknownKeeps
  <2>2. QED
    BY <1>1, <2>1, WriteRequestsKeep, SocketMetadataKeeps, HeartbeatKeeps, DeleteKeeps, ZoneRequestKeeps, ImportZoneKeeps
       DEF RequestStep
<1>2. ASSUME NEW t \in Tasks, TaskStep(t) PROVE Inv'
  <2>1. CASE StatusRefused(t)
    BY <2>1, ReloadKeeps DEF StatusRefused
  <2>2. CASE PersistSession(t)
    BY <2>2, SessionEntered, SessionFetches
  <2>3. CASE WriteDone(t) \/ WriteRefused(t) \/ ImportRefused(t) \/ ResolveSocketZone(t) \/ UpsertFromSocket(t)
             \/ EnsureDeviceRowForSession(t)
    BY <2>3, WriteDoneKeeps, WriteRefusedKeeps, ImportRefusedKeeps, ResolveKeeps, UpsertKeeps, EnsureKeeps
  <2>4. CASE DeleteNext(t) \/ DeleteRow(t) \/ Forget(t)
    BY <2>4, DeleteNextKeeps, DeleteRowKeeps, ForgetKeeps
  <2>5. CASE CreateZoneDone(t) \/ UpdateZoneDone(t) \/ DropZoneAsked(t) \/ ClearZoneAssignment(t) \/ RemoveZone(t)
    BY <2>5, CreateZoneDoneKeeps, UpdateZoneDoneKeeps, DropZoneAskedKeeps, ClearZoneKeeps, RemoveZoneKeeps
  <2>6. QED
    BY <1>2, <2>1, <2>2, <2>3, <2>4, <2>5 DEF TaskStep
<1>3. ASSUME NEW d \in Devices, Disconnect(d) \/ \E table \in Arriving : Arrive(d, table) PROVE Inv'
  BY <1>3, DisconnectKeeps, ArriveKeeps
<1>4. CASE Crash
  BY <1>4, ReloadKeeps DEF Crash
<1>5. CASE UNCHANGED vars
  BY <1>5 DEF vars, Inv, RegistryInv, TypeOK, JobsOK, Crossings, SetInMemory, CleanMatches, Matches, GoneAway, Away, Rowless,
     ToldKept, NameKept
<1>6. QED
  BY <1>1, <1>2, <1>3, <1>4, <1>5 DEF Next

LEMMA InvAlways == Spec => []Inv
  BY InitInv, StepInv, PTL DEF Spec

\* Memory and table hold records of devices, tasks and histories what they may.
THEOREM TypeCorrect == Spec => []TypeOK
<1>1. Inv => TypeOK
  BY DEF Inv
<1>2. QED
  BY <1>1, InvAlways, PTL

\* When nothing is under way for a device, memory and table tell the same of it, unless two
\* tasks met at it, a write was refused or the code of its zone changed
\* (in-memory-device.repository.ts, upsertMetadata and removeMetadata).
THEOREM MemoryMatchesTableAlways == Spec => []MemoryMatchesTable
<1>1. Inv => MemoryMatchesTable
  <2>1. SUFFICES ASSUME Inv, NEW d \in clean, \A t \in Tasks : d \notin DevicesOf(task[t]) PROVE mem[d] = row[d]
    BY DEF MemoryMatchesTable
  <2>2. JobsOK /\ Matches(d) /\ d \in Devices
    BY <2>1 DEF Inv, RegistryInv, CleanMatches, TypeOK
  <2>3. \A t \in Tasks : ~Setting(task[t], d) /\ ~Removing(task[t], d)
    BY <2>1, <2>2, SettingDevice, RemovingDevice
  <2>4. ASSUME NEW t \in Tasks, Entering(task[t], d) PROVE FALSE
    <3>1. task[t] \in Job /\ task[t].op = "session" /\ task[t].dev = d
      BY <2>2, <2>4 DEF Entering, JobsOK
    <3>2. QED
      BY <2>1, <3>1, JobDevices
  <2>5. QED
    BY <2>2, <2>3, <2>4 DEF Matches
<1>2. QED
  BY <1>1, InvAlways, PTL

\* The name that a request was told to be stored stays in memory, through messages of the
\* device, its sessions, changes of zones and restarts, until somebody gives it another one
\* (device.service.ts, updateStrict and registerStrict).
THEOREM AnsweredNameKeptAlways == Spec => []AnsweredNameKept
<1>1. Inv => AnsweredNameKept
  BY DEF Inv, RegistryInv, ToldKept, NameKept, AnsweredNameKept, Known
<1>2. QED
  BY <1>1, InvAlways, PTL

\* A removed device has no record, no row and no rows that refer to it until it connects or
\* is registered, unless a task of before its removal met it (removeMetadata).
THEOREM RemovedStaysAwayAlways == Spec => []RemovedStaysAway
<1>1. Inv => RemovedStaysAway
  BY DEF Inv, RegistryInv, GoneAway, Away, Rowless, RemovedStaysAway, Known
<1>2. QED
  BY <1>1, InvAlways, PTL

=============================================================================
