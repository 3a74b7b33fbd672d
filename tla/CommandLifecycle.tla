--------------------------- MODULE CommandLifecycle ---------------------------
(***************************************************************************)
(* The life of an operator command: CommandService, the write-through      *)
(* MySqlCommandRepository behind it, the timeout sweep of index.ts and the *)
(* device-deletion route that removes a device's commands.                 *)
(*                                                                         *)
(* Node runs one callback at a time, so the code between two awaits is one *)
(* action.  Every statement sent to MySQL is three steps: the call that    *)
(* sends it, its execution by the server, and the continuation that runs   *)
(* when the reply arrives.  The pool gives every call its own connection,  *)
(* so the executions and the continuations of different calls interleave   *)
(* freely.                                                                 *)
(***************************************************************************)
EXTENDS Integers, FiniteSets, Sequences

CONSTANTS
  Devices,          \* device ids
  Commands,         \* command ids that create may generate
  Acks,             \* device:command:ack messages that may arrive
  Owner,            \* [Commands -> Devices]: the device a command is for
  Ota,              \* the commands whose type is ota or ota_from_url
  Sweep,            \* the timeout sweep, as the author of a write
  NoRecord,         \* "no record": the map or the table has no such key
  CommandTimeout,   \* env.COMMAND_TIMEOUT_MS
  OtaMinimum,       \* the five minutes an OTA command gets at least
  MaxAckHistory,    \* length ackHistory is cut to (50 in the code)
  \* Bounds of the model.
  MaxTime,          \* last value of the clock
  MaxFailures,      \* statements that fail for reasons outside this model
  MaxDeletions,     \* DELETE /api/devices/:deviceId requests
  MaxRestarts       \* crashes followed by a boot

Never == -1
Time  == Nat \cup {Never}

\* ackHistory, by the messages it holds.
History == {h \in Seq(Acks) : Len(h) <= MaxAckHistory}

\* The columns of device_commands the properties tell apart.
Record == [status      : {"sent", "acked", "timeout"},
           timeoutAt   : Nat,
           ackedAt     : Time,
           timeoutedAt : Time,
           history     : History]

Writers == Commands \cup Acks \cup {Sweep}

\* A statement that inserts or replaces one row, from the call to the reply.
Write == [by : Writers, cmd : Commands, rec : Record, stored : BOOLEAN]

\* A record as the sweep read it, with its place in the Map's order.
Candidate == [cmd : Commands, rec : Record, place : Nat]

ASSUME CommandAssumption ==
  /\ IsFiniteSet(Commands)
  /\ Owner \in [Commands -> Devices]
  /\ Ota \subseteq Commands
  /\ CommandTimeout \in Nat
  /\ OtaMinimum \in Nat
  /\ MaxAckHistory \in Nat \ {0}
  /\ MaxTime \in Nat
  /\ MaxFailures \in Nat
  /\ MaxDeletions \in Nat
  /\ MaxRestarts \in Nat
  /\ NoRecord \notin Record
  /\ Sweep \notin Commands \cup Acks
  /\ Commands \cap Acks = {}

VARIABLES
  clock,
  online,     \* devices with a session (DeviceService.isConnected)
  mem,        \* MySqlCommandRepository.records
  place,      \* the place of each key in the insertion order of that Map
  inserted,   \* the next place
  db,         \* table device_commands
  known,      \* InMemoryDeviceRepository.metadata: devices the server knows
  deviceRow,  \* devices that have a row in table devices
  writes,     \* INSERT ... ON DUPLICATE KEY UPDATE calls in flight
  sweeping,   \* commandTimeoutSweepRunning
  snapshot,   \* the sweep's candidates it has not written yet
  sweepNow,   \* the sweep's nowIso
  deletion,   \* progress of the deletion request of each device
  used,       \* command ids and ack messages already consumed
  left,       \* what is left of the bounded events
  \* History variables, read by the properties only.
  accepted,   \* <<ack, command>> pairs for which acknowledge() returned true, less
              \* those a boot found on a command that was raced
  raced,      \* commands on which two operations overlapped since the last boot
  unsure      \* commands with a write, or a deletion, that was executed but reported
              \* failed, until memory and table are next set together

map   == <<mem, place, inserted>>
sweep == <<sweeping, snapshot, sweepNow>>
vars  == <<clock, online, mem, place, inserted, db, known, deviceRow, writes, sweeping, snapshot,
           sweepNow, deletion, used, left, accepted, raced, unsure>>

Stages == {"idle", "deleting", "deleted", "purging", "removing"}

-----------------------------------------------------------------------------
(* Records.                                                                *)

ResolveTimeout(c) ==
  IF c \in Ota /\ OtaMinimum > CommandTimeout THEN OtaMinimum ELSE CommandTimeout

SentRecord(c) ==
  [status |-> "sent", timeoutAt |-> clock + ResolveTimeout(c),
   ackedAt |-> Never, timeoutedAt |-> Never, history |-> <<>>]

KeepLast(s, n) == IF Len(s) > n THEN SubSeq(s, Len(s) - n + 1, Len(s)) ELSE s

\* Mutant: the history restarts at every ack.
AckedRecordForgets(r, a) ==
  [r EXCEPT !.status = "acked", !.history = <<a>>,
            !.ackedAt = IF @ = Never THEN clock ELSE @]

AckedRecord(r, a) ==
  [r EXCEPT !.status = "acked",
            !.ackedAt = IF @ = Never THEN clock ELSE @,
            !.history = KeepLast(Append(@, a), MaxAckHistory)]

TimedOutRecord(r, now) == [r EXCEPT !.status = "timeout", !.timeoutedAt = now]

-----------------------------------------------------------------------------
(* Writes: repository.save and repository.update.                          *)

Pending(c) == {w \in writes : w.cmd = c}

\* Something else is under way on command c.
Busy(c) == Pending(c) # {} \/ deletion[Owner[c]] # "idle"

WriteOf(b, c, r) == [by |-> b, cmd |-> c, rec |-> r, stored |-> FALSE]

\* The history of a write that starts now from the record base.
RaceOf(c, base) == IF Busy(c) \/ base # mem[c] THEN {c} ELSE {}

\* records.set(commandId, record): a new key goes to the end of the Map.
SetMemory(w) ==
  /\ mem' = [mem EXCEPT ![w.cmd] = w.rec]
  /\ IF mem[w.cmd] = NoRecord
     THEN /\ place' = [place EXCEPT ![w.cmd] = inserted]
          /\ inserted' = inserted + 1
     ELSE UNCHANGED <<place, inserted>>

\* MySQL executes the statement; the foreign key wants the device's row.
StoreWrite(w) ==
  /\ ~w.stored
  /\ deviceRow[Owner[w.cmd]]
  /\ db' = [db EXCEPT ![w.cmd] = w.rec]
  /\ writes' = (writes \ {w}) \cup {[w EXCEPT !.stored = TRUE]}
  /\ UNCHANGED <<clock, online, map, known, deviceRow, sweep, deletion, used, left,
                 accepted, raced, unsure>>

\* Mutant: a failed statement leaves the sweep flagged as running.
FailWriteKeepsFlag(w) ==
  /\ \/ ~w.stored /\ ~deviceRow[Owner[w.cmd]] /\ UNCHANGED left
     \/ left.failures > 0 /\ left' = [left EXCEPT !.failures = @ - 1]
  /\ writes' = writes \ {w}
  /\ unsure' = IF w.stored THEN unsure \cup {w.cmd} ELSE unsure
  /\ UNCHANGED <<clock, online, map, db, known, deviceRow, sweep, deletion, used, accepted, raced>>

\* Mutant: memory takes the record although the statement failed.
FailWriteSetsMemory(w) ==
  /\ left.failures > 0 /\ left' = [left EXCEPT !.failures = @ - 1]
  /\ writes' = writes \ {w}
  /\ SetMemory(w)
  /\ unsure' = IF w.stored THEN unsure \cup {w.cmd} ELSE unsure
  /\ IF w.by = Sweep THEN sweeping' = FALSE /\ snapshot' = {} /\ UNCHANGED sweepNow
                     ELSE UNCHANGED sweep
  /\ UNCHANGED <<clock, online, db, known, deviceRow, deletion, used, accepted, raced>>

\* The statement is reported failed: the foreign key, a lost connection
\* before it ran, or the loss of its reply.  The await throws, memory keeps
\* what it had; a sweep stops there and its finally clears the flag.
FailWrite(w) ==
  /\ \/ ~w.stored /\ ~deviceRow[Owner[w.cmd]] /\ UNCHANGED left
     \/ left.failures > 0 /\ left' = [left EXCEPT !.failures = @ - 1]
  /\ writes' = writes \ {w}
  /\ unsure' = IF w.stored THEN unsure \cup {w.cmd} ELSE unsure
  /\ IF w.by = Sweep THEN sweeping' = FALSE /\ snapshot' = {} /\ UNCHANGED sweepNow
                     ELSE UNCHANGED sweep
  /\ UNCHANGED <<clock, online, map, db, known, deviceRow, deletion, used, accepted, raced>>

-----------------------------------------------------------------------------
(* CommandService.create and acknowledge.                                  *)

\* create: refused without a session, otherwise a save is sent.
Create(c) ==
  /\ c \notin used
  /\ Owner[c] \in online
  /\ clock + ResolveTimeout(c) <= MaxTime
  /\ writes' = writes \cup {WriteOf(c, c, SentRecord(c))}
  /\ raced'  = raced \cup RaceOf(c, NoRecord)
  /\ used'   = used \cup {c}
  /\ UNCHANGED <<clock, online, map, db, known, deviceRow, sweep, deletion, left, accepted, unsure>>

\* The save returned: memory knows the command and the gateway sends it.
FinishCreate(w) ==
  /\ w.stored
  /\ w.by \in Commands
  /\ SetMemory(w)
  /\ writes' = writes \ {w}
  /\ unsure' = unsure \ {w.cmd}
  /\ UNCHANGED <<clock, online, db, known, deviceRow, sweep, deletion, used, left,
                 accepted, raced>>

\* Mutant: an ack is taken whatever the status.
AcknowledgeLate(a, d, c) ==
  /\ a \notin used
  /\ mem[c] # NoRecord
  /\ Owner[c] = d
  /\ writes' = writes \cup {WriteOf(a, c, AckedRecord(mem[c], a))}
  /\ raced'  = raced \cup RaceOf(c, mem[c])
  /\ used'   = used \cup {a}
  /\ UNCHANGED <<clock, online, map, db, known, deviceRow, sweep, deletion, left, accepted, unsure>>

\* acknowledge: false for an unknown command, a command of another device
\* or one that timed out; otherwise an update computed from the record as
\* it is now is sent.
Acknowledge(a, d, c) ==
  /\ a \notin used
  /\ mem[c] # NoRecord
  /\ Owner[c] = d
  /\ mem[c].status # "timeout"
  /\ writes' = writes \cup {WriteOf(a, c, AckedRecord(mem[c], a))}
  /\ raced'  = raced \cup RaceOf(c, mem[c])
  /\ used'   = used \cup {a}
  /\ UNCHANGED <<clock, online, map, db, known, deviceRow, sweep, deletion, left, accepted, unsure>>

\* The update returned: acknowledge() answers true.
FinishAcknowledge(w) ==
  /\ w.stored
  /\ w.by \in Acks
  /\ SetMemory(w)
  /\ writes'   = writes \ {w}
  /\ unsure'   = unsure \ {w.cmd}
  /\ accepted' = accepted \cup {<<w.by, w.cmd>>}
  /\ UNCHANGED <<clock, online, db, known, deviceRow, sweep, deletion, used, left, raced>>

-----------------------------------------------------------------------------
(* The sweep: index.ts's interval and CommandService.processTimeouts.      *)

\* listTimedOutCandidates.
TimedOutCandidates ==
  {[cmd |-> c, rec |-> mem[c], place |-> place[c]] :
     c \in {e \in Commands : /\ mem[e] # NoRecord
                             /\ mem[e].status = "sent"
                             /\ mem[e].timeoutAt <= clock}}

\* The candidates the for loop may reach first: the Map's order.
First(S) == {s \in S : \A t \in S : s.place <= t.place}

\* The interval fires, no sweep is running, and there are candidates (with
\* none, processTimeouts returns at once and nothing changes).
SweepTick ==
  /\ ~sweeping
  /\ \E s \in First(TimedOutCandidates) :
       /\ writes'   = writes \cup {WriteOf(Sweep, s.cmd, TimedOutRecord(s.rec, clock))}
       /\ raced'    = raced \cup RaceOf(s.cmd, s.rec)
       /\ snapshot' = TimedOutCandidates \ {s}
  /\ sweeping' = TRUE
  /\ sweepNow' = clock
  /\ UNCHANGED <<clock, online, map, db, known, deviceRow, deletion, used, left, accepted, unsure>>

\* One update returned and the loop sends the next.
SweepNext(w) ==
  /\ w.stored
  /\ w.by = Sweep
  /\ SetMemory(w)
  /\ \E s \in First(snapshot) :
       /\ writes'   = (writes \ {w}) \cup {WriteOf(Sweep, s.cmd, TimedOutRecord(s.rec, sweepNow))}
       /\ raced'    = raced \cup RaceOf(s.cmd, s.rec)
       /\ snapshot' = snapshot \ {s}
  /\ unsure' = unsure \ {w.cmd}
  /\ UNCHANGED <<clock, online, db, known, deviceRow, sweeping, sweepNow, deletion, used, left,
                 accepted>>

\* The last update returned: processTimeouts resolves, finally clears the flag.
SweepEnd(w) ==
  /\ w.stored
  /\ w.by = Sweep
  /\ snapshot = {}
  /\ SetMemory(w)
  /\ writes'   = writes \ {w}
  /\ sweeping' = FALSE
  /\ unsure'   = unsure \ {w.cmd}
  /\ UNCHANGED <<clock, online, db, known, deviceRow, snapshot, sweepNow, deletion, used, left,
                 accepted, raced>>

-----------------------------------------------------------------------------
(* DELETE /api/devices/:deviceId, the part that concerns commands.         *)

Owned(d) == {c \in Commands : Owner[c] = d}

Without(f, d) == [c \in Commands |-> IF Owner[c] = d THEN NoRecord ELSE f[c]]

\* The route found the device: its sockets are closed and
\* commandService.deleteByDeviceId sends its DELETE.
DeleteRequest(d) ==
  /\ deletion[d] = "idle"
  /\ known[d]
  /\ left.deletions > 0
  /\ left'     = [left EXCEPT !.deletions = @ - 1]
  /\ online'   = online \ {d}
  /\ deletion' = [deletion EXCEPT ![d] = "deleting"]
  /\ raced'    = raced \cup {c \in Owned(d) : Pending(c) # {}}
  /\ UNCHANGED <<clock, map, db, known, deviceRow, writes, sweep, used, accepted, unsure>>

DeleteCommandRows(d) ==
  /\ deletion[d] = "deleting"
  /\ db'       = Without(db, d)
  /\ deletion' = [deletion EXCEPT ![d] = "deleted"]
  /\ UNCHANGED <<clock, online, map, known, deviceRow, writes, sweep, used, left,
                 accepted, raced, unsure>>

\* The DELETE returned: the loop over the Map; the route goes on to the
\* alerts, the audit log and the spectrum files.
DeleteFromMemory(d) ==
  /\ deletion[d] = "deleted"
  /\ mem'      = Without(mem, d)
  /\ deletion' = [deletion EXCEPT ![d] = "purging"]
  /\ unsure'   = unsure \ Owned(d)
  /\ UNCHANGED <<clock, online, place, inserted, db, known, deviceRow, writes, sweep, used, left,
                 accepted, raced>>

\* deleteStrict, removeMetadata: the rows of device_commands are deleted
\* once more, in the table only.
RemoveCommandRows(d) ==
  /\ deletion[d] = "purging"
  /\ db'       = Without(db, d)
  /\ deletion' = [deletion EXCEPT ![d] = "removing"]
  /\ UNCHANGED <<clock, online, map, known, deviceRow, writes, sweep, used, left,
                 accepted, raced, unsure>>

\* ... then the row of devices: refused while a command refers to it, and
\* the request ends with an error; otherwise the session goes too.
RemoveDevice(d) ==
  /\ deletion[d] = "removing"
  /\ deletion' = [deletion EXCEPT ![d] = "idle"]
  /\ IF \E c \in Owned(d) : db[c] # NoRecord
     THEN UNCHANGED <<known, deviceRow, online>>
     ELSE /\ deviceRow' = [deviceRow EXCEPT ![d] = FALSE]
          /\ known' = [known EXCEPT ![d] = FALSE]
          /\ online' = online \ {d}
  /\ UNCHANGED <<clock, map, db, writes, sweep, used, left, accepted, raced, unsure>>

\* A statement of the request is reported failed, before it ran or, its reply
\* lost, after: the route answers with an error and goes no further.  A DELETE
\* of the commands that did run leaves memory with what the table lost, and
\* one of the device leaves it with the device.
FailDeletion(d) ==
  /\ deletion[d] # "idle"
  /\ left.failures > 0 /\ left' = [left EXCEPT !.failures = @ - 1]
  /\ deletion' = [deletion EXCEPT ![d] = "idle"]
  /\ unsure' = unsure \cup {c \in Owned(d) : deletion[d] = "deleted" /\ mem[c] # NoRecord}
  /\ \/ UNCHANGED deviceRow
     \/ /\ deletion[d] = "removing" /\ \A c \in Owned(d) : db[c] = NoRecord
        /\ deviceRow' = [deviceRow EXCEPT ![d] = FALSE]
  /\ UNCHANGED <<clock, online, map, db, known, writes, sweep, used, accepted, raced>>

-----------------------------------------------------------------------------
(* The rest of the world.                                                  *)

\* A device's socket is accepted, or the device is heard without a row to its
\* name: an unknown device is registered, a missing row entered again.
Connect(d) ==
  /\ d \notin online \/ ~deviceRow[d]
  /\ online'    = online \cup {d}
  /\ known'     = [known EXCEPT ![d] = TRUE]
  /\ deviceRow' = [deviceRow EXCEPT ![d] = TRUE]
  /\ UNCHANGED <<clock, map, db, writes, sweep, deletion, used, left, accepted, raced, unsure>>

Disconnect(d) ==
  /\ d \in online
  /\ online' = online \ {d}
  /\ UNCHANGED <<clock, map, db, known, deviceRow, writes, sweep, deletion, used, left,
                 accepted, raced, unsure>>

Tick ==
  /\ clock < MaxTime
  /\ clock' = clock + 1
  /\ UNCHANGED <<online, map, db, known, deviceRow, writes, sweep, deletion, used, left,
                 accepted, raced, unsure>>

SentAt(c) == db[c].timeoutAt - ResolveTimeout(c)

\* The process dies and boots: memory is what loadFromPersistence reads,
\* ordered by sent_at; what was in flight is gone.
Restart ==
  /\ left.restarts > 0
  /\ left'     = [left EXCEPT !.restarts = @ - 1]
  /\ mem'      = db
  /\ place'    = [c \in Commands |->
                    IF db[c] = NoRecord THEN 0
                    ELSE Cardinality({e \in Commands : db[e] # NoRecord /\ SentAt(e) < SentAt(c)})]
  /\ inserted' = Cardinality(Commands)
  /\ online'   = {}
  /\ writes'   = {}
  /\ sweeping' = FALSE
  /\ snapshot' = {}
  /\ sweepNow' = 0
  /\ deletion' = [d \in Devices |-> "idle"]
  /\ known'    = deviceRow
  /\ accepted' = {p \in accepted : p[2] \notin raced}
  /\ raced'    = {}
  /\ unsure'   = {}
  /\ UNCHANGED <<clock, db, deviceRow, used>>

-----------------------------------------------------------------------------
Init ==
  /\ clock = 0
  /\ online = Devices
  /\ mem = [c \in Commands |-> NoRecord]
  /\ place = [c \in Commands |-> 0]
  /\ inserted = 0
  /\ db = [c \in Commands |-> NoRecord]
  /\ known = [d \in Devices |-> TRUE]
  /\ deviceRow = [d \in Devices |-> TRUE]
  /\ writes = {}
  /\ sweeping = FALSE
  /\ snapshot = {}
  /\ sweepNow = 0
  /\ deletion = [d \in Devices |-> "idle"]
  /\ used = {}
  /\ left = [failures |-> MaxFailures, deletions |-> MaxDeletions, restarts |-> MaxRestarts]
  /\ accepted = {}
  /\ raced = {}
  /\ unsure = {}

Next ==
  \/ \E c \in Commands : Create(c)
  \/ \E a \in Acks, d \in Devices, c \in Commands : Acknowledge(a, d, c)
  \/ SweepTick
  \/ \E w \in writes :
       \/ StoreWrite(w)
       \/ FailWrite(w)
       \/ FinishCreate(w)
       \/ FinishAcknowledge(w)
       \/ SweepNext(w)
       \/ SweepEnd(w)
  \/ \E d \in Devices :
       \/ DeleteRequest(d)
       \/ DeleteCommandRows(d)
       \/ DeleteFromMemory(d)
       \/ RemoveCommandRows(d)
       \/ RemoveDevice(d)
       \/ FailDeletion(d)
       \/ Connect(d)
       \/ Disconnect(d)
  \/ Tick
  \/ Restart

Spec == Init /\ [][Next]_vars

\* The clock advances, the interval fires, and MySQL answers every statement
\* of the sweep with a result or an error.  Nothing is assumed of devices,
\* operators or crashes.
SweepStatement ==
  \E w \in writes : w.by = Sweep /\ (StoreWrite(w) \/ FailWrite(w))

SweepContinues == \E w \in writes : SweepNext(w) \/ SweepEnd(w)

FairSpec ==
  Spec /\ WF_vars(Tick) /\ WF_vars(SweepTick)
       /\ WF_vars(SweepStatement) /\ WF_vars(SweepContinues)

-----------------------------------------------------------------------------
(* Properties.                                                             *)

\* Every variable has its type; in particular no record, in memory, in the
\* table or on its way there, holds more acks than ackHistory.slice(-50) leaves.
TypeOK ==
  /\ clock \in Nat
  /\ online \subseteq Devices
  /\ mem \in [Commands -> Record \cup {NoRecord}]
  /\ place \in [Commands -> Nat]
  /\ inserted \in Nat
  /\ db \in [Commands -> Record \cup {NoRecord}]
  /\ known \in [Devices -> BOOLEAN]
  /\ deviceRow \in [Devices -> BOOLEAN]
  /\ writes \subseteq Write
  /\ sweeping \in BOOLEAN
  /\ snapshot \subseteq Candidate
  /\ sweepNow \in Nat
  /\ deletion \in [Devices -> Stages]
  /\ used \subseteq Writers
  /\ left \in [failures : Nat, deletions : Nat, restarts : Nat]
  /\ accepted \subseteq Acks \X Commands
  /\ raced \subseteq Commands
  /\ unsure \subseteq Commands

\* A record tells one story: sent and nothing else, acknowledged and never
\* timed out, or timed out, not before its deadline, and never acknowledged.
Coherent(r) ==
  \/ r.status = "sent" /\ r.ackedAt = Never /\ r.timeoutedAt = Never /\ r.history = <<>>
  \/ r.status = "acked" /\ r.ackedAt # Never /\ r.timeoutedAt = Never /\ r.history # <<>>
  \/ /\ r.status = "timeout" /\ r.ackedAt = Never /\ r.history = <<>>
     /\ r.timeoutedAt # Never /\ r.timeoutAt <= r.timeoutedAt

\* However acks, sweeps, deletions, failures and restarts interleave, no
\* record in memory or in device_commands mixes two outcomes: whole records
\* are written, each computed from one coherent record.
RecordsCoherent ==
  \A c \in Commands :
    /\ mem[c] # NoRecord => Coherent(mem[c])
    /\ db[c] # NoRecord => Coherent(db[c])

\* When nothing is in flight for a command, memory and table hold the same
\* record, unless operations on it overlapped since the last boot, or a write
\* or a deletion was executed and reported failed and neither a later write,
\* nor a deletion, nor a boot has set both since: the write-through order
\* (persist, then set) is what the next boot's reload relies on.
MemoryMatchesStore ==
  \A c \in Commands \ (raced \cup unsure) :
    ~Busy(c) => mem[c] = db[c]

\* An ack the service accepted stays in the command's history, in memory,
\* through later acks and restarts, until MaxAckHistory others displaced it,
\* unless operations on the command overlapped since the last boot.
AcceptedAcksKept ==
  \A p \in accepted :
    LET c == p[2] IN
    c \notin raced /\ mem[c] # NoRecord =>
      \/ \E i \in DOMAIN mem[c].history : mem[c].history[i] = p[1]
      \/ Len(mem[c].history) = MaxAckHistory

Settled(r) == r # NoRecord /\ r.status \in {"acked", "timeout"}

\* An outcome never changes: what memory shows as acked or timed out keeps
\* that status, across restarts too, unless operations on the command
\* overlapped since the last boot (an ack and a sweep that read the same record).
SettledIsFinal ==
  [][\A c \in Commands :
       Settled(mem[c]) /\ mem'[c] # NoRecord /\ c \notin raced \cup raced'
         => mem'[c].status = mem[c].status]_vars

AwaitsAck(c) == mem[c] # NoRecord /\ mem[c].status = "sent"

\* A command that is not acknowledged is timed out in the end, whatever
\* failures and restarts come in between, as long as its device has its row.
UnackedTimesOut ==
  \A c \in Commands :
    AwaitsAck(c) /\ deviceRow[Owner[c]] ~> ~AwaitsAck(c) \/ ~deviceRow[Owner[c]]

-----------------------------------------------------------------------------
(* The invariant the proofs induct on.                                     *)

\* What is on its way to a record is coherent too, and what the sweep read
\* was overdue when it read it.
InFlightCoherent ==
  /\ \A w \in writes : Coherent(w.rec)
  /\ \A s \in snapshot : /\ Coherent(s.rec)
                         /\ s.rec.status = "sent"
                         /\ s.rec.timeoutAt <= sweepNow

\* Before and after a write of this status, seen from memory.
Follows(status, r) ==
  CASE status = "sent"    -> r = NoRecord
    [] status = "acked"   -> r # NoRecord /\ r.status # "timeout"
    [] status = "timeout" -> r # NoRecord /\ r.status = "sent"

\* A command on which no two operations overlapped has one write in flight
\* at most, computed from the record memory still holds; the table has the
\* write once it is stored, and it never lost or changed a settled outcome.
Unraced(c) ==
  /\ \A v, w \in Pending(c) : v = w
  /\ deletion[Owner[c]] # "idle" => Pending(c) = {}
  /\ \A w \in Pending(c) : /\ Follows(w.rec.status, mem[c])
                           /\ w.stored => db[c] = w.rec
  /\ Settled(mem[c]) /\ db[c] # NoRecord => db[c].status = mem[c].status
  /\ deletion[Owner[c]] = "deleted" => db[c] = NoRecord

\* If no executed statement was reported failed either, the table is one write
\* ahead of memory, or one DELETE.
InStep(c) ==
  /\ \A w \in Pending(c) : ~w.stored => db[c] = mem[c]
  /\ Pending(c) = {} /\ deletion[Owner[c]] # "deleted" => db[c] = mem[c]
  /\ deletion[Owner[c]] \in {"purging", "removing"} => mem[c] = NoRecord

\* An ack's write holds it.  A record that follows an accepted ack has it in its
\* history, or as many that came later.
Holds(r, a) == \E i \in DOMAIN r.history : r.history[i] = a
HoldsOrFull(r, a) == r # NoRecord => Holds(r, a) \/ Len(r.history) = MaxAckHistory
AcksHeld ==
  /\ \A w \in writes : w.by \in Acks => Holds(w.rec, w.by)
  /\ \A p \in accepted : p[2] \notin raced =>
       /\ HoldsOrFull(mem[p[2]], p[1]) /\ HoldsOrFull(db[p[2]], p[1])
       /\ \A w \in Pending(p[2]) : HoldsOrFull(w.rec, p[1])

\* No id comes twice: what there is a record of, or an ack, was created.
Known ==
  /\ \A c \in Commands : mem[c] # NoRecord \/ db[c] # NoRecord => c \in used
  /\ \A w \in writes : w.cmd \in used
  /\ \A s \in snapshot : s.cmd \in used
  /\ \A p \in accepted : p[2] \in used

CommandInv ==
  /\ RecordsCoherent /\ InFlightCoherent /\ Known /\ AcksHeld
  /\ \A c \in Commands \ raced : Unraced(c)
  /\ \A c \in Commands \ (raced \cup unsure) : InStep(c)

=============================================================================
