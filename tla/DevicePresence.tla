---------------------------- MODULE DevicePresence ----------------------------
(***************************************************************************)
(* The presence of one device: the session that DeviceService keeps in     *)
(* memory, its row in socket_datas, the intervals of device_status_history *)
(* and the boot that puts the tables right after a server run ended.       *)
(* Devices share no state here, so the module follows one of them.         *)
(*                                                                         *)
(* The repository answers at once from memory and leaves the statements to *)
(* runPersistence, which nobody awaits.  Such a task is the sequence of    *)
(* its statements: next is the one that MySQL is executing.  A statement   *)
(* and the continuation that sends the next one are one action, because    *)
(* the continuations read and write nothing that others see.  Statements   *)
(* of different tasks interleave freely.                                   *)
(***************************************************************************)
EXTENDS Integers, FiniteSets

CONSTANTS
  Sockets,      \* socket ids the device may connect with
  NoSocket,     \* "no socket"
  NoSession,    \* "no session": an absent key of the map, an absent row
  \* Bounds of the model.
  MaxTime,      \* last value of the clock
  MaxBeats,     \* device heartbeats
  MaxTasks,     \* session tasks under way at a time
  MaxFailures,  \* statements that fail
  MaxCrashes    \* ends of a server run

Never == -1

Session  == [socket : Sockets, since : Nat, beat : Nat]
Interval == [status : {"online", "offline"}, socket : Sockets,
             start : Nat, end : Nat \cup {Never}]

Kinds == {"register", "connect", "touch", "close", "boot", "bootOpen"}
Statements == {"putDevice", "putSession", "ensureDevice", "putSessionAgain", "closeOpen",
               "insertOnline", "insertClosed", "insertOffline", "deleteSession", "clear"}

\* at is the time a close or a boot gives to the end of the session; rows
\* are the open intervals the boot has still to close.
Task == [kind : Kinds, session : Session \cup {NoSession}, at : Nat,
         rows : SUBSET Interval, next : Statements]

ASSUME PresenceAssumption ==
  /\ NoSocket \notin Sockets
  /\ NoSession \notin Session
  /\ MaxTime \in Nat /\ MaxBeats \in Nat /\ MaxTasks \in Nat
  /\ MaxFailures \in Nat /\ MaxCrashes \in Nat

VARIABLES
  clock,
  phase,       \* of the server process
  live,        \* the device's sockets that are connected
  session,     \* InMemoryDeviceRepository.sessions, this device's entry
  known,       \* metadata has the device
  deviceRow,   \* devices has the device
  socketRow,   \* the device's row of socket_datas
  history,     \* the device's rows of device_status_history
  run,         \* the newest row of server_runtime_history
  tasks,       \* persistence tasks under way
  used,        \* socket ids given out
  left,        \* what is left of the bounded events
  \* History variables, read by the properties only.
  latest,      \* the socket accepted last in this server run
  calm,        \* whether tasks ran one at a time: see Disturb
  onlineTicks  \* clock ticks during which there was a session

tables == <<deviceRow, socketRow, history, run>>
vars   == <<clock, phase, live, session, known, tables, tasks, used, left,
            latest, calm, onlineTicks>>

-----------------------------------------------------------------------------
(* Statements.                                                             *)

IsOpen(i) == i.end = Never

Unended == {i \in history : IsOpen(i)}

\* closeOpenStatus: every open interval of the device.
CloseOpen(at) == {IF IsOpen(i) THEN [i EXCEPT !.end = at] ELSE i : i \in history}

\* INSERT IGNORE: dropped when the unique key is taken.
InsertIgnore(h, i) ==
  IF \E j \in h : j.status = i.status /\ j.socket = i.socket /\ j.start = i.start
  THEN h ELSE h \cup {i}

OnlineInterval(s, end) == [status |-> "online", socket |-> s.socket, start |-> s.since, end |-> end]

OfflineInterval(s, start) ==
  [status |-> "offline", socket |-> s.socket, start |-> start, end |-> Never]

Later(a, b) == IF a > b THEN a ELSE b

\* latestIsoTimestamp: no interval ends before its session's last sign of
\* life; the boot's second loop takes the shutdown time as it is.
EndOf(t) ==
  IF t.kind = "bootOpen" THEN t.at ELSE Later(t.at, Later(t.session.since, t.session.beat))

NewTask(kind, s, at, next) ==
  [kind |-> kind, session |-> s, at |-> at, rows |-> {}, next |-> next]

Goto(t, next) == tasks' = (tasks \ {t}) \cup {[t EXCEPT !.next = next]}
Finish(t)     == tasks' = tasks \ {t}

\* A task disturbs another one it overlaps.  One that starts alone writes
\* what no earlier trouble can spoil; whether there was any is kept.
SessionTasks == {t \in tasks : t.kind # "register"}

CanBegin == Cardinality(SessionTasks) < MaxTasks

Begin == IF SessionTasks # {} THEN "no" ELSE IF calm = "always" THEN "always" ELSE "again"

-----------------------------------------------------------------------------
(* The handlers: what changes at once, and the task it leaves behind.      *)

\* A device socket is accepted: connect registers an unknown device, and
\* the session replaces the one of an older socket.
Accept(s) ==
  /\ phase = "up"
  /\ s \notin used
  /\ CanBegin
  /\ LET new == [socket |-> s, since |-> clock, beat |-> clock] IN
       /\ session' = new
       /\ tasks' = tasks \cup {NewTask("connect", new, clock, "putSession")}
                         \cup (IF known THEN {}
                               ELSE {NewTask("register", NoSession, clock, "putDevice")})
  /\ live'   = live \cup {s}
  /\ used'   = used \cup {s}
  /\ latest' = s
  /\ known'  = TRUE
  /\ calm'   = Begin
  /\ UNCHANGED <<clock, phase, tables, left, onlineTicks>>

\* heartbeat, from device:heartbeat or a telemetry message on any socket of
\* the device: touch does not ask which socket it came from.
Heartbeat(s) ==
  /\ s \in live
  /\ session # NoSession
  /\ CanBegin
  /\ left.beats > 0
  /\ left'    = [left EXCEPT !.beats = @ - 1]
  /\ session' = [session EXCEPT !.beat = clock]
  /\ tasks'   = tasks \cup {NewTask("touch", session', clock, "putSession")}
  /\ calm'    = IF SessionTasks # {} THEN "no" ELSE calm
  /\ UNCHANGED <<clock, phase, live, known, tables, used, latest, onlineTicks>>

CloseTask == NewTask("close", session, clock, "closeOpen")

\* Mutant: the session goes whichever of the device's sockets disconnects.
DropAny(s) ==
  /\ s \in live
  /\ CanBegin
  /\ live' = live \ {s}
  /\ session' = NoSession
  /\ IF session # NoSession
     THEN tasks' = tasks \cup {CloseTask} /\ calm' = Begin
     ELSE UNCHANGED <<tasks, calm>>
  /\ UNCHANGED <<clock, phase, known, tables, used, left, latest, onlineTicks>>

\* A socket disconnects: removeIfSocketMatches.
Drop(s) ==
  /\ s \in live
  /\ CanBegin
  /\ live' = live \ {s}
  /\ IF session # NoSession /\ session.socket = s
     THEN session' = NoSession /\ tasks' = tasks \cup {CloseTask} /\ calm' = Begin
     ELSE UNCHANGED <<session, tasks, calm>>
  /\ UNCHANGED <<clock, phase, known, tables, used, left, latest, onlineTicks>>

-----------------------------------------------------------------------------
(* The statements of the tasks, one action each.                           *)

\* persistMetadata of the registration.
PutDevice(t) ==
  /\ t.next = "putDevice"
  /\ deviceRow' = TRUE
  /\ Finish(t)
  /\ UNCHANGED <<clock, phase, live, session, known, socketRow, history, run, used, left,
                 latest, calm, onlineTicks>>

\* Mutant: the open interval of an earlier session is not closed.
PutSessionKeepsOpen(t) ==
  /\ t.next \in {"putSession", "putSessionAgain"}
  /\ deviceRow
  /\ socketRow' = t.session
  /\ IF t.kind = "connect" THEN Goto(t, "insertOnline") ELSE Finish(t)
  /\ UNCHANGED <<clock, phase, live, session, known, deviceRow, history, run, used, left,
                 latest, calm, onlineTicks>>

\* persistSession: the upsert of the one row a device has.
PutSession(t) ==
  /\ t.next \in {"putSession", "putSessionAgain"}
  /\ deviceRow
  /\ socketRow' = t.session
  /\ IF t.kind = "connect" THEN Goto(t, "closeOpen") ELSE Finish(t)
  /\ UNCHANGED <<clock, phase, live, session, known, deviceRow, history, run, used, left,
                 latest, calm, onlineTicks>>

\* ... refused by the foreign key when the registration is not there yet;
\* ensureDeviceRowForSession follows, and the same upsert again.
PutSessionRefused(t) ==
  /\ t.next = "putSession"
  /\ ~deviceRow
  /\ known' = TRUE
  /\ Goto(t, "ensureDevice")
  /\ UNCHANGED <<clock, phase, live, session, tables, used, left, latest, calm, onlineTicks>>

EnsureDevice(t) ==
  /\ t.next = "ensureDevice"
  /\ deviceRow' = TRUE
  /\ Goto(t, "putSessionAgain")
  /\ UNCHANGED <<clock, phase, live, session, known, socketRow, history, run, used, left,
                 latest, calm, onlineTicks>>

CloseOpenStatus(t) ==
  /\ t.next = "closeOpen"
  /\ history' = CloseOpen(EndOf(t))
  /\ Goto(t, CASE t.kind = "connect" -> "insertOnline"
               [] t.kind = "bootOpen" -> "insertOffline"
               [] t.kind \in {"close", "boot"} ->
                    IF Unended = {} THEN "insertClosed" ELSE "insertOffline")
  /\ UNCHANGED <<clock, phase, live, session, known, deviceRow, socketRow, run, used, left,
                 latest, calm, onlineTicks>>

InsertOnline(t) ==
  /\ t.next = "insertOnline"
  /\ history' = InsertIgnore(history, OnlineInterval(t.session, Never))
  /\ Finish(t)
  /\ UNCHANGED <<clock, phase, live, session, known, deviceRow, socketRow, run, used, left,
                 latest, calm, onlineTicks>>

\* No interval was open to close: the session is entered as a whole.
InsertClosed(t) ==
  /\ t.next = "insertClosed"
  /\ history' = InsertIgnore(history, OnlineInterval(t.session, EndOf(t)))
  /\ Goto(t, "insertOffline")
  /\ UNCHANGED <<clock, phase, live, session, known, deviceRow, socketRow, run, used, left,
                 latest, calm, onlineTicks>>

\* What the boot may do once a session row or an open row is dealt with:
\* an open row that is left, in whatever order they were read, then the rows
\* of socket_datas.
BootNext(t, rows) ==
  IF rows = {}
  THEN {[t EXCEPT !.rows = {}, !.next = "clear"]}
  ELSE {[kind |-> "bootOpen", session |-> [socket |-> r.socket, since |-> r.start, beat |-> r.start],
         at |-> t.at, rows |-> rows \ {r}, next |-> "closeOpen"] : r \in rows}

OnlineRows(h) == {i \in h : IsOpen(i) /\ i.status = "online"}

InsertOffline(t) ==
  /\ t.next = "insertOffline"
  /\ history' = InsertIgnore(history, OfflineInterval(t.session, EndOf(t)))
  /\ CASE t.kind = "close" -> Goto(t, "deleteSession")
       [] t.kind = "boot" ->
            \E n \in BootNext(t, OnlineRows(history')) : tasks' = {n}
       [] t.kind = "bootOpen" ->
            \E n \in BootNext(t, t.rows) : tasks' = {n}
  /\ UNCHANGED <<clock, phase, live, session, known, deviceRow, socketRow, run, used, left,
                 latest, calm, onlineTicks>>

\* deleteSession: only the row of this socket.
DeleteSession(t) ==
  /\ t.next = "deleteSession"
  /\ socketRow' = IF socketRow # NoSession /\ socketRow.socket = t.session.socket
                  THEN NoSession ELSE socketRow
  /\ Finish(t)
  /\ UNCHANGED <<clock, phase, live, session, known, deviceRow, history, run, used, left,
                 latest, calm, onlineTicks>>

\* A statement fails.  runPersistence logs it and the task is over, but the
\* finally of closeSession still deletes the row.
FailStatement(t) ==
  /\ phase # "loading"
  /\ left.failures > 0
  /\ left' = [left EXCEPT !.failures = @ - 1]
  /\ IF t.kind = "close" /\ t.next # "deleteSession" THEN Goto(t, "deleteSession") ELSE Finish(t)
  /\ calm' = "no"
  /\ UNCHANGED <<clock, phase, live, session, known, tables, used, latest, onlineTicks>>

-----------------------------------------------------------------------------
(* Server runs.                                                            *)

\* closePreviousRuns, and the boot time when there is no previous run: a
\* run that was not stopped ended with its last heartbeat.
ShutdownTime ==
  IF run.stopped # Never THEN run.stopped ELSE IF run.beat # Never THEN run.beat ELSE clock

\* The schema script ends what was open before the stored session began and
\* enters that session's interval.
Repaired ==
  IF socketRow = NoSession THEN history
  ELSE InsertIgnore({IF IsOpen(i) /\ i.start < socketRow.since
                     THEN [i EXCEPT !.end = socketRow.since] ELSE i : i \in history},
                    OnlineInterval(socketRow, Never))

\* The process starts: the schema script, the row of this run, and
\* loadFromPersistence, which reads the devices and the sessions.
Boot ==
  /\ phase = "down"
  /\ phase'   = "loading"
  /\ run'     = [beat |-> clock, stopped |-> Never]
  /\ history' = Repaired
  /\ known'   = deviceRow
  /\ IF socketRow # NoSession
     THEN tasks' = {NewTask("boot", socketRow, ShutdownTime, "closeOpen")}
     ELSE \E n \in BootNext(NewTask("boot", NoSession, ShutdownTime, "clear"),
                            OnlineRows(history)) : tasks' = {n}
  /\ UNCHANGED <<clock, live, session, deviceRow, socketRow, used, left, latest, calm,
                 onlineTicks>>

\* Mutant: the rows of socket_datas stay.
ClearNothing(t) ==
  /\ t.next = "clear"
  /\ phase' = "up"
  /\ Finish(t)
  /\ UNCHANGED <<clock, live, session, known, tables, used, left, latest, calm, onlineTicks>>

\* DELETE FROM socket_datas; then the server listens.
ClearSessions(t) ==
  /\ t.next = "clear"
  /\ socketRow' = NoSession
  /\ phase' = "up"
  /\ Finish(t)
  /\ UNCHANGED <<clock, live, session, known, deviceRow, history, run, used, left, latest,
                 calm, onlineTicks>>

\* ServerRuntimeTracker.heartbeat.
ServerHeartbeat ==
  /\ phase \in {"loading", "up"}
  /\ run.stopped = Never
  /\ run.beat # clock
  /\ run' = [run EXCEPT !.beat = clock]
  /\ UNCHANGED <<clock, phase, live, session, known, deviceRow, socketRow, history, tasks,
                 used, left, latest, calm, onlineTicks>>

\* SIGTERM: the gateways close every socket ...
Shutdown ==
  /\ phase = "up"
  /\ CanBegin
  /\ phase'   = "stopping"
  /\ live'    = {}
  /\ session' = NoSession
  /\ IF session # NoSession
     THEN tasks' = tasks \cup {CloseTask} /\ calm' = Begin
     ELSE UNCHANGED <<tasks, calm>>
  /\ UNCHANGED <<clock, known, tables, used, left, latest, onlineTicks>>

\* ... and the run is entered as stopped.
StopRun ==
  /\ phase = "stopping"
  /\ run.stopped = Never
  /\ run' = [beat |-> clock, stopped |-> clock]
  /\ UNCHANGED <<clock, phase, live, session, known, deviceRow, socketRow, history, tasks,
                 used, left, latest, calm, onlineTicks>>

\* The process ends: a crash, a failed boot, or the exit that waits for no task.
Exit ==
  /\ phase # "down"
  /\ left.crashes > 0
  /\ left'    = [left EXCEPT !.crashes = @ - 1]
  /\ phase'   = "down"
  /\ live'    = {}
  /\ session' = NoSession
  /\ known'   = FALSE
  /\ tasks'   = {}
  /\ latest'  = NoSocket
  /\ calm'    = IF tasks # {} THEN "no" ELSE calm
  /\ UNCHANGED <<clock, tables, used, onlineTicks>>

Tick ==
  /\ clock < MaxTime
  /\ clock' = clock + 1
  /\ onlineTicks' = IF session # NoSession THEN onlineTicks \cup {clock} ELSE onlineTicks
  /\ UNCHANGED <<phase, live, session, known, tables, tasks, used, left, latest, calm>>

-----------------------------------------------------------------------------
Init ==
  /\ clock = 0
  /\ phase = "down"
  /\ live = {}
  /\ session = NoSession
  /\ known = FALSE
  /\ deviceRow = FALSE
  /\ socketRow = NoSession
  /\ history = {}
  /\ run = [beat |-> Never, stopped |-> Never]
  /\ tasks = {}
  /\ used = {}
  /\ left = [beats |-> MaxBeats, failures |-> MaxFailures, crashes |-> MaxCrashes]
  /\ latest = NoSocket
  /\ calm = "always"
  /\ onlineTicks = {}

Next ==
  \/ \E s \in Sockets : Accept(s) \/ Heartbeat(s) \/ Drop(s)
  \/ \E t \in tasks :
       \/ PutDevice(t)
       \/ PutSession(t)
       \/ PutSessionRefused(t)
       \/ EnsureDevice(t)
       \/ CloseOpenStatus(t)
       \/ InsertOnline(t)
       \/ InsertClosed(t)
       \/ InsertOffline(t)
       \/ DeleteSession(t)
       \/ FailStatement(t)
       \/ ClearSessions(t)
  \/ Boot
  \/ ServerHeartbeat
  \/ Shutdown
  \/ StopRun
  \/ Exit
  \/ Tick

Spec == Init /\ [][Next]_vars

-----------------------------------------------------------------------------
(* Properties.                                                             *)

\* Every variable has its type, and device_status_history keeps its unique
\* key however many tasks enter the same interval.
TypeOK ==
  /\ clock \in Nat
  /\ phase \in {"down", "loading", "up", "stopping"}
  /\ live \subseteq Sockets
  /\ session \in Session \cup {NoSession}
  /\ known \in BOOLEAN
  /\ deviceRow \in BOOLEAN
  /\ socketRow \in Session \cup {NoSession}
  /\ history \subseteq Interval
  /\ \A i, j \in history :
       i.status = j.status /\ i.socket = j.socket /\ i.start = j.start => i = j
  /\ run \in [beat : Nat \cup {Never}, stopped : Nat \cup {Never}]
  /\ tasks \subseteq Task
  /\ used \subseteq Sockets
  /\ left \in [beats : Nat, failures : Nat, crashes : Nat]
  /\ latest \in Sockets \cup {NoSocket}
  /\ calm \in {"always", "again", "no"}
  /\ onlineTicks \subseteq Nat

\* While the newest socket of a device is connected the device is online
\* with that socket, and it is online in no other case: neither the late
\* disconnect nor a heartbeat of an older socket takes the session over.
SessionOfLatestSocket ==
  IF latest \in live
  THEN session # NoSession /\ session.socket = latest
  ELSE session = NoSession

\* Whatever a server run left behind, in the middle of any task or of an
\* earlier boot, the next boot leaves no session row and no open "online"
\* interval for a device that has not connected yet.
NobodyOnlineAfterBoot ==
  phase = "up" /\ latest = NoSocket =>
    socketRow = NoSession /\ \A i \in Unended : i.status = "offline"

\* No online interval covers time the device was not connected, a crash
\* included, as long as tasks did not overlap, fail or get cut off.
OnlineTimeIsReal ==
  calm = "always" =>
    \A i \in history :
      i.status = "online" /\ ~IsOpen(i) => i.start .. i.end - 1 \subseteq onlineTicks

\* When nothing is in flight the tables tell what memory tells, one open
\* interval of the right kind, provided the last connect or disconnect ran
\* on its own: overlaps, failures and crashes before it leave no trace, but
\* for the row of an older socket, which only a connect or a boot replaces.
HistoryTellsSession ==
  /\ OnlineTimeIsReal
  /\ phase = "up" /\ tasks = {} /\ calm # "no" =>
       IF session # NoSession
       THEN /\ socketRow # NoSession /\ socketRow.socket = session.socket
            /\ Unended = {OnlineInterval(session, Never)}
       ELSE /\ calm = "always" => socketRow = NoSession
            /\ \A i \in Unended : i.status = "offline"
            /\ Cardinality(Unended) <= 1

=============================================================================
