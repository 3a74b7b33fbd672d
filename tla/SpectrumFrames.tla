----------------------------- MODULE SpectrumFrames -----------------------------
(***************************************************************************)
(* The spectrum frames of one device: SpectrumStorageService assembles     *)
(* them from the messages of its axes, writes each to a file and enters it *)
(* in device_spectrum_frames; archives of them are exported and merged     *)
(* back, and three kinds of purge remove them.  The device names itself    *)
(* alike in all its messages and does not repeat one within a millisecond, *)
(* and the clock does not go back.                                         *)
(*                                                                         *)
(* A message is taken in at once; writing a file, renaming it and entering *)
(* the row are steps of a task of its own, and so are the steps of an      *)
(* import and of a purge.  What an axis shows is its time of receipt.      *)
(***************************************************************************)
EXTENDS Integers, Sequences, FiniteSets, Functions, SequencesExt

CONSTANTS
  Axes,          \* AXES
  Uuids,         \* telemetry_uuid of messages
  NoUuid,
  MatchWindow,   \* SPECTRUM_MATCH_WINDOW_MS
  FrameFlush,    \* SPECTRUM_FRAME_FLUSH_MS
  MaxAttempts,   \* of the INSERT; 4 in the code
  BatchSize,     \* rows a batch purge takes at a time; 1000 in the code
  \* Bounds of the model.
  MaxTime, MaxMessages, MaxErrors, MaxPurges, MaxImports, MaxRestarts

ASSUME SpectrumAssumption ==
  /\ IsFiniteSet(Axes) /\ Cardinality(Axes) > 1 /\ NoUuid \notin Uuids
  /\ MatchWindow \in Nat \ {0} /\ FrameFlush \in Nat \ {0} /\ MaxAttempts \in Nat \ {0}
  /\ BatchSize \in Nat \ {0}
  /\ MaxTime \in Nat /\ MaxMessages \in Nat /\ MaxErrors \in Nat
  /\ MaxPurges \in Nat /\ MaxImports \in Nat /\ MaxRestarts \in Nat

VARIABLES
  now,
  sent,       \* what the device has sent at this time
  pending,    \* pendingFrames, in the order of the Map
  persists,   \* runs of persistFrame
  made,       \* how many there were
  tmp, files, \* contents by path; a temporary file by the path it is for
  rows,       \* device_spectrum_frames
  deviceRow,  \* devices has the device
  purge,      \* the purge under way: its kind, step, the captured times in its scope, the
              \* rows it read, or deleted, the paths to unlink, and, as history, the parted
              \* ones: a batch took one of their rows and left another
  archive,    \* the frames an export has read
  import,     \* importArchiveFrame: its step, frame and the path of the row it found
  left,       \* what is left of the bounded events
  \* History variable, read by the properties only.
  spoilt      \* paths an import was to write while a purge was to unlink them, and
              \* those a purge that stopped early had parted

stores == <<tmp, files, rows, deviceRow>>
vars   == <<now, sent, pending, persists, made, stores, purge, archive, import, left, spoilt>>

Times == 0..MaxTime

\* What a file holds: the uuid, and the time of each axis.
Content == [uuid : Uuids \cup {NoUuid}, axes : [Axes -> Times]]

\* createArchiveSpectrumTelemetryUuid: an exported frame gets an id if it had none.
Synthetic == [frameAt : Times]
RowIds    == Uuids \cup {NoUuid} \cup Synthetic

\* The ids it makes up start in a way of their own ("sgp-frame:").
ASSUME SyntheticAssumption == (Uuids \cup {NoUuid}) \cap Synthetic = {}

\* A file is named after the capture time and the uuid, or a random one.
Path == [at : Times, uuid : Uuids \cup {NoUuid}, random : Nat]
Row  == [id : RowIds, path : Path, content : Content]

NoPurge  == [step |-> "none", kind |-> "device", scope |-> {}, read |-> {}, unlink |-> {}, parted |-> {}]
NoImport == [step |-> "none", frame |-> NoUuid, found |-> {}]

CapturedAt(axes) == CHOOSE t \in Range(axes) : \A u \in Range(axes) : t <= u

PathOf(content, n) ==
  [at |-> CapturedAt(content.axes), uuid |-> content.uuid,
   random |-> IF content.uuid = NoUuid THEN n ELSE 0]

Spend(event) == left[event] > 0 /\ left' = [left EXCEPT ![event] = @ - 1]

Distance(t, u) == IF t <= u THEN u - t ELSE t - u

-----------------------------------------------------------------------------
(* ingest.                                                                 *)

EarliestOf(t, u) == IF t <= u THEN t ELSE u

\* Mutant: any frame without a uuid takes it in, however old.
MatchesAnyTime(frame, uuid) == frame.uuid = uuid

Matches(frame, uuid) ==
  /\ frame.uuid = uuid
  /\ uuid = NoUuid => Distance(frame.first, now) <= MatchWindow

\* findOrCreateFrame: the first match in the Map, or a new frame at its end.
MatchingFrames(uuid) == {i \in DOMAIN pending : Matches(pending[i], uuid)}

PlaceOf(uuid) ==
  IF MatchingFrames(uuid) = {} THEN Len(pending) + 1
  ELSE CHOOSE i \in MatchingFrames(uuid) : \A j \in MatchingFrames(uuid) : i <= j

FrameAt(i, uuid) ==
  IF i \in DOMAIN pending THEN pending[i]
  ELSE [uuid |-> uuid, first |-> now, axes |-> <<>>, due |-> now + FrameFlush]

\* The axis replaces an earlier one; the flush timer is set once.
WithAxis(frame, axis) ==
  [frame EXCEPT !.first = EarliestOf(@, now),
                !.axes = [a \in DOMAIN @ \cup {axis} |-> IF a = axis THEN now ELSE @[a]]]

HasCompleteAxes(frame) == DOMAIN frame.axes = Axes

\* A complete frame leaves the Map and is written.
Ingest(axis, uuid) ==
  /\ <<axis, uuid>> \notin sent /\ Spend("messages")
  /\ sent' = sent \cup {<<axis, uuid>>}
  /\ LET i == PlaceOf(uuid)
         frame == WithAxis(FrameAt(i, uuid), axis)
         content == [uuid |-> frame.uuid, axes |-> frame.axes]
     IN IF HasCompleteAxes(frame)
        THEN /\ pending' = IF i \in DOMAIN pending THEN RemoveAt(pending, i) ELSE pending
             /\ persists' = persists \cup {[n |-> made + 1, content |-> content, step |-> "writing", attempt |-> 1]}
             /\ made' = made + 1
         ELSE /\ pending' = IF i \in DOMAIN pending THEN [pending EXCEPT ![i] = frame] ELSE Append(pending, frame)
             /\ UNCHANGED <<persists, made>>
  /\ UNCHANGED <<now, stores, purge, archive, import, spoilt>>

\* The timer of an incomplete frame drops it.
Flush(i) ==
  /\ i \in DOMAIN pending /\ pending[i].due <= now
  /\ pending' = RemoveAt(pending, i)
  /\ UNCHANGED <<now, sent, persists, made, stores, purge, archive, import, left, spoilt>>

-----------------------------------------------------------------------------
(* persistFrame.                                                           *)

Put(store, path, content) ==
  [p \in DOMAIN store \cup {path} |-> IF p = path THEN content ELSE store[p]]

Drop(store, paths) == [p \in DOMAIN store \ paths |-> store[p]]

Goto(task, step) == persists' = (persists \ {task}) \cup {[task EXCEPT !.step = step]}

Finish(task) == persists' = persists \ {task}

WriteFile(task) ==
  /\ task.step = "writing"
  /\ tmp' = Put(tmp, PathOf(task.content, task.n), task.content)
  /\ Goto(task, "renaming")
  /\ UNCHANGED <<now, sent, pending, made, files, rows, deviceRow, purge, archive, import, left, spoilt>>

\* Another task may have moved the temporary file away.
Rename(task) ==
  /\ task.step = "renaming"
  /\ LET path == PathOf(task.content, task.n)
     IN IF path \in DOMAIN tmp
        THEN /\ files' = Put(files, path, tmp[path])
             /\ tmp' = Drop(tmp, {path})
             /\ Goto(task, "inserting")
        ELSE Finish(task) /\ UNCHANGED <<tmp, files>>
  /\ UNCHANGED <<now, sent, pending, made, rows, deviceRow, purge, archive, import, left, spoilt>>

\* ON DUPLICATE KEY UPDATE: a uuid has one row, NULL has any number.
Upsert(row) == rows' = {r \in rows : r.id # row.id \/ r.id = NoUuid} \cup {row}

\* The foreign key refuses a row of a device that is gone.  The task ends here
\* whether the reply arrives or is lost.
InsertRow(task) ==
  /\ task.step = "inserting"
  /\ IF deviceRow
     THEN Upsert([id |-> task.content.uuid, path |-> PathOf(task.content, task.n), content |-> task.content])
     ELSE UNCHANGED rows
  /\ Finish(task)
  /\ UNCHANGED <<now, sent, pending, made, tmp, files, deviceRow, purge, archive, import, left, spoilt>>

\* A lock timeout or a deadlock has the statement tried again.
InsertRetried(task) ==
  /\ task.step = "inserting" /\ Spend("errors")
  /\ IF task.attempt < MaxAttempts
     THEN persists' = (persists \ {task}) \cup {[task EXCEPT !.attempt = @ + 1]}
     ELSE Finish(task)
  /\ UNCHANGED <<now, sent, pending, made, stores, purge, archive, import, spoilt>>

\* Any other error is logged, and the frame given up.
PersistError(task) ==
  /\ Spend("errors") /\ Finish(task)
  /\ UNCHANGED <<now, sent, pending, made, stores, purge, archive, import, spoilt>>

-----------------------------------------------------------------------------
(* Export and import of archives.                                          *)

\* readArchiveFrame refuses a file that is not the one of the row.
Export(row) ==
  /\ archive = {} /\ row.path \in DOMAIN files
  /\ files[row.path] = row.content
  /\ archive' = {[id |-> IF row.id = NoUuid THEN [frameAt |-> row.path.at] ELSE row.id,
                  path |-> row.path, content |-> row.content]}
  /\ UNCHANGED <<now, sent, pending, persists, made, stores, purge, import, left, spoilt>>

\* A merge.  An idempotent import does the same when it finds neither the row
\* nor the file, and nothing otherwise.
ImportRead(frame) ==
  /\ import.step = "none" /\ frame \in archive /\ Spend("imports")
  /\ import' = [step |-> "writing", frame |-> frame, found |-> {r.path : r \in {q \in rows : q.id = frame.id}}]
  /\ spoilt' = spoilt \cup (purge.unlink \cap {frame.path})
  /\ UNCHANGED <<now, sent, pending, persists, made, stores, purge, archive>>

\* The temporary file has a name of its own here.
ImportWrite ==
  /\ import.step = "writing"
  /\ files' = Put(files, import.frame.path, import.frame.content)
  /\ import' = [import EXCEPT !.step = "inserting"]
  /\ UNCHANGED <<now, sent, pending, persists, made, tmp, rows, deviceRow, purge, archive, left, spoilt>>

ImportInsert ==
  /\ import.step = "inserting"
  /\ IF deviceRow
     THEN Upsert(import.frame) /\ import' = [import EXCEPT !.step = "unlinking"]
     ELSE import' = NoImport /\ UNCHANGED rows
  /\ UNCHANGED <<now, sent, pending, persists, made, tmp, files, deviceRow, purge, archive, left, spoilt>>

\* Mutant: the file of the row that was found goes, whatever its name.
ReplacedAlways == import.found

Replaced == import.found \ {import.frame.path}

ImportUnlink ==
  /\ import.step = "unlinking"
  /\ files' = Drop(files, Replaced)
  /\ import' = NoImport
  /\ UNCHANGED <<now, sent, pending, persists, made, tmp, rows, deviceRow, purge, archive, left, spoilt>>

\* The frame is counted as skipped, its row entered or not.
ImportError ==
  /\ import.step \in {"writing", "inserting"} /\ Spend("errors")
  /\ import' = NoImport
  /\ UNCHANGED rows \/ (import.step = "inserting" /\ deviceRow /\ Upsert(import.frame))
  /\ UNCHANGED <<now, sent, pending, persists, made, tmp, files, deviceRow, purge, archive, spoilt>>

-----------------------------------------------------------------------------
(* purgeDeviceFrames, before the device is deleted; purgeArchiveRange, when *)
(* an import replaces; purgeDeviceFramesBatchUntil, when data are purged.   *)

InScope(row) == row.path.at \in purge.scope

PurgeStart(kind, scope) ==
  /\ purge.step = "none" /\ Spend("purges")
  /\ pending' = IF kind = "device" THEN <<>> ELSE pending
  /\ purge' = [NoPurge EXCEPT !.step = "reading", !.kind = kind, !.scope = scope]
  /\ UNCHANGED <<now, sent, persists, made, stores, archive, import, spoilt>>

\* A batch has the oldest rows, up to its LIMIT; of rows captured at one time it
\* may have any, as the model keeps no numbering of rows.
Batches(some) ==
  {batch \in SUBSET some :
     /\ batch = some \/ Cardinality(batch) = BatchSize
     /\ Cardinality(batch) <= BatchSize
     /\ \A r \in batch, q \in some \ batch : r.path.at <= q.path.at}

ReadSets(some) == IF purge.kind = "batch" THEN Batches(some) ELSE {some}

\* Batches end with an empty one.
PurgeRead ==
  /\ purge.step = "reading"
  /\ \E read \in ReadSets({r \in rows : InScope(r)}) :
       LET paths == {r.path : r \in read}
       IN IF purge.kind = "batch" /\ read = {}
          THEN purge' = NoPurge /\ UNCHANGED spoilt
          ELSE /\ purge' = [purge EXCEPT !.step = "deleting", !.read = read, !.unlink = paths]
               /\ spoilt' = spoilt \cup (IF import.step = "none" THEN {} ELSE paths \cap {import.frame.path})
  /\ UNCHANGED <<now, sent, pending, persists, made, stores, archive, import, left>>

\* By id the rows that were read, else all that are in scope by now.
ToDelete ==
  IF purge.kind = "batch"
  THEN {r \in rows : r \in purge.read \/ (r.id # NoUuid /\ \E q \in purge.read : q.id = r.id)}
  ELSE {r \in rows : InScope(r)}

\* The batch has the path of a row that stays.
Parted ==
  IF purge.kind = "batch" THEN purge.unlink \cap {r.path : r \in rows \ purge.read} ELSE {}

PurgeDelete ==
  /\ purge.step = "deleting"
  /\ rows' = rows \ ToDelete
  /\ purge' = [purge EXCEPT !.step = "unlinking", !.read = ToDelete, !.parted = @ \cup Parted]
  /\ UNCHANGED <<now, sent, pending, persists, made, tmp, files, deviceRow, archive, import, left, spoilt>>

PurgeUnlink(path) ==
  /\ purge.step = "unlinking" /\ path \in purge.unlink
  /\ files' = Drop(files, {path})
  /\ purge' = [purge EXCEPT !.unlink = @ \ {path}]
  /\ UNCHANGED <<now, sent, pending, persists, made, tmp, rows, deviceRow, archive, import, left, spoilt>>

\* The purge ends before its time, the DELETE executed or not.
PurgeError ==
  /\ purge.step \in {"reading", "deleting"} /\ Spend("errors")
  /\ purge' = NoPurge /\ spoilt' = spoilt \cup purge.parted
  /\ UNCHANGED rows \/ (purge.step = "deleting" /\ rows' = rows \ ToDelete)
  /\ UNCHANGED <<now, sent, pending, persists, made, tmp, files, deviceRow, archive, import>>

\* A batch that deleted something is followed by another.
PurgeNext ==
  /\ purge.step = "unlinking" /\ purge.unlink = {} /\ purge.kind = "batch" /\ purge.read # {}
  /\ purge' = [purge EXCEPT !.step = "reading", !.read = {}]
  /\ UNCHANGED <<now, sent, pending, persists, made, stores, archive, import, left, spoilt>>

\* deleteStrict follows the purge of a device, and takes the rows that are left
\* along; it may fail.
PurgeEnd ==
  /\ purge.step = "unlinking" /\ purge.unlink = {} /\ (purge.kind = "batch" => purge.read = {})
  /\ purge' = NoPurge /\ spoilt' = spoilt \cup purge.parted
  /\ \/ /\ purge.kind = "device"
        /\ deviceRow' = FALSE /\ rows' = {}
     \/ UNCHANGED <<deviceRow, rows>>
  /\ UNCHANGED <<now, sent, pending, persists, made, tmp, files, archive, import, left>>

\* The device connects again.
Register ==
  /\ ~deviceRow /\ deviceRow' = TRUE
  /\ UNCHANGED <<now, sent, pending, persists, made, tmp, files, rows, purge, archive, import, left, spoilt>>

-----------------------------------------------------------------------------
Tick ==
  /\ now < MaxTime /\ now' = now + 1 /\ sent' = {}
  /\ UNCHANGED <<pending, persists, made, stores, purge, archive, import, left, spoilt>>

Restart ==
  /\ Spend("restarts")
  /\ pending' = <<>> /\ persists' = {} /\ purge' = NoPurge /\ import' = NoImport
  /\ spoilt' = spoilt \cup purge.parted
  /\ UNCHANGED <<now, sent, made, stores, archive>>

Init ==
  /\ now = 0 /\ sent = {} /\ pending = <<>> /\ persists = {} /\ made = 0
  /\ tmp = <<>> /\ files = <<>> /\ rows = {} /\ deviceRow = TRUE
  /\ purge = NoPurge /\ archive = {} /\ import = NoImport
  /\ left = [messages |-> MaxMessages, errors |-> MaxErrors, purges |-> MaxPurges,
             imports |-> MaxImports, restarts |-> MaxRestarts]
  /\ spoilt = {}

Persist(task) == WriteFile(task) \/ Rename(task) \/ InsertRow(task) \/ InsertRetried(task) \/ PersistError(task)
Import == ImportWrite \/ ImportInsert \/ ImportUnlink \/ ImportError \/ \E frame \in archive : ImportRead(frame)
Purge  == \/ \E kind \in {"device", "range", "batch"}, t \in Times :
               (kind = "device" => t = MaxTime) /\ (kind = "batch" => t = now) /\ PurgeStart(kind, 0..t)
          \/ PurgeRead \/ PurgeDelete \/ PurgeNext \/ PurgeEnd \/ PurgeError \/ \E path \in purge.unlink : PurgeUnlink(path)

Next ==
  \/ \E axis \in Axes, uuid \in Uuids \cup {NoUuid} : Ingest(axis, uuid)
  \/ \E i \in DOMAIN pending : Flush(i)
  \/ \E task \in persists : Persist(task)
  \/ \E row \in rows : Export(row)
  \/ Import \/ Purge \/ Register \/ Tick \/ Restart

Spec == Init /\ [][Next]_vars

-----------------------------------------------------------------------------
(* Properties.                                                             *)

\* A frame waits only while an axis is missing, at most one for each uuid,
\* and its timer is set: nothing stays in the Map for good.
PendingIsPartial ==
  \A i \in DOMAIN pending :
    /\ DOMAIN pending[i].axes # {} /\ DOMAIN pending[i].axes # Axes
    /\ pending[i].due <= pending[i].first + FrameFlush
    /\ \A j \in DOMAIN pending : pending[j].uuid = pending[i].uuid /\ pending[i].uuid # NoUuid => i = j

\* A frame stored without a uuid joins axes received within the match window
\* of each other, however the messages of two captures interleave, and what
\* waits for more axes does not wait for good.
AxesBelongTogether ==
  /\ PendingIsPartial
  /\ \A r \in rows : r.content.uuid = NoUuid =>
       \A t, u \in Range(r.content.axes) : Distance(t, u) <= MatchWindow

\* A purge in batches has taken one row of the path and has this one still to take.
HalfPurged(r) == r.path \in purge.parted /\ purge.kind = "batch" /\ InScope(r)

\* A row names a file that is there and has the content of its checksum, as
\* readArchiveFrame demands, whatever resends, merges, purges, failures and
\* restarts did.  The file is missing only while a purge that unlinked it for
\* another row has this row ahead, after such a purge stopped early, or when a
\* purge and an import were at work on the path at once.
RowMatchesFile ==
  \A r \in rows : r.path \notin spoilt =>
    IF r.path \in DOMAIN files THEN files[r.path] = r.content ELSE HalfPurged(r)

-----------------------------------------------------------------------------
(* The invariant the proofs induct on.                                     *)

\* A store of files has frames at paths.
IsStore(store) == DOMAIN store \subseteq Path /\ \A p \in DOMAIN store : store[p] \in Content

Frame == [uuid : Uuids \cup {NoUuid}, first : Times, axes : UNION {[some -> Times] : some \in SUBSET Axes}, due : Nat]
Task  == [n : Nat, content : Content, step : {"writing", "renaming", "inserting"}, attempt : Nat]

TypeOK ==
  /\ now \in Times /\ sent \subseteq Axes \X (Uuids \cup {NoUuid})
  /\ pending \in Seq(Frame) /\ persists \subseteq Task /\ made \in Nat
  /\ IsStore(tmp) /\ IsStore(files) /\ rows \subseteq Row /\ deviceRow \in BOOLEAN
  /\ purge \in [step : {"none", "reading", "deleting", "unlinking"}, kind : {"device", "range", "batch"},
                scope : SUBSET Times, read : SUBSET Row,
                unlink : SUBSET Path, parted : SUBSET Path]
  /\ archive \subseteq Row
  /\ import # NoImport =>
       import \in [step : {"writing", "inserting", "unlinking"}, frame : archive, found : SUBSET Path]
  /\ left \in [{"messages", "errors", "purges", "imports", "restarts"} -> Nat]
  /\ spoilt \subseteq Path

\* An axis that waits was received no earlier than the frame began, and, without a uuid, within the window.
InTime(frame, t, heard) ==
  \A a \in DOMAIN frame.axes :
    /\ frame.first <= frame.axes[a] /\ frame.axes[a] <= t
    /\ frame.uuid = NoUuid => frame.axes[a] <= frame.first + MatchWindow
    /\ frame.axes[a] = t => <<a, frame.uuid>> \in heard

PendingInTime == \A i \in DOMAIN pending : InTime(pending[i], now, sent)

TaskPath(task) == PathOf(task.content, task.n)

\* What is or was to be stored, by its path.
Held(store) == {<<p, store[p]>> : p \in DOMAIN store}
Told(some)  == {<<r.path, r.content>> : r \in some}
Owed(tasks) == {<<TaskPath(task), task.content>> : task \in tasks}
Named       == Owed(persists) \cup Held(tmp) \cup Held(files) \cup Told(rows) \cup Told(archive)

Together(content) ==
  content.uuid = NoUuid => \A a, b \in Axes : Distance(content.axes[a], content.axes[b]) <= MatchWindow

\* A path stands for one content, and a frame without a uuid for one capture.
OneContent ==
  /\ \A x, y \in Named : x[1] = y[1] => x[2] = y[2]
  /\ \A x \in Named : Together(x[2])

\* No frame still to come gets a path that was given.
Given(path) ==
  /\ path.random <= made
  /\ path.uuid # NoUuid =>
       /\ path.at <= now
       /\ path.at = now => \A a \in Axes : <<a, path.uuid>> \in sent
       /\ \A i \in DOMAIN pending : pending[i].uuid = path.uuid =>
            \A a \in DOMAIN pending[i].axes : path.at < pending[i].axes[a]

\* The paths given so far that matter.
Paths == {x[1] : x \in Named} \cup import.found \cup purge.unlink

PathsGiven == \A p \in Paths : Given(p)

\* What is written belongs to one task, until its row is there.
TasksOwnPaths ==
  \A task \in persists :
    /\ \A other \in persists : TaskPath(other) = TaskPath(task) => other = task
    /\ \A r \in rows \cup archive : r.path # TaskPath(task)
    /\ TaskPath(task) \notin import.found \cup purge.unlink
    /\ task.step = "inserting" => TaskPath(task) \in DOMAIN files

\* A row has the id its path tells, or the one an export gave to a frame without.
IdsTellPaths ==
  /\ \A f, g \in archive : f = g
  /\ \A f \in archive : IF f.path.uuid = NoUuid THEN f.id \in Synthetic ELSE f.id = f.path.uuid
  /\ \A r \in rows :
       \/ r.id = r.path.uuid
       \/ r.path.uuid = NoUuid /\ r.id \in Synthetic /\ \E f \in archive : f.path = r.path

FilesAreThere ==
  \A r \in rows : r.path \notin spoilt => r.path \in DOMAIN files \cup purge.parted

\* An import replaces files of its uuid only, once no row names them.
ImportInv ==
  import # NoImport =>
    /\ \A p \in import.found :
         p = import.frame.path \/ (p.uuid = import.frame.id /\ p.uuid # NoUuid)
    /\ import.step = "inserting" => import.frame.path \in DOMAIN files \cup spoilt
    /\ import.step = "unlinking" => \A r \in rows : r.path \notin Replaced
    /\ import.frame.path \in purge.unlink => import.frame.path \in spoilt

\* A purge unlinks what no row names any more, or what it parted.
PurgeInv ==
  /\ purge.step \in {"none", "reading"} => purge.unlink = {}
  /\ \A p \in purge.unlink \cup purge.parted : p.at \in purge.scope
  /\ purge.parted # {} => purge.kind = "batch" /\ purge.step # "none"
  /\ \A r \in rows : r.path \in purge.unlink /\ r.path \notin spoilt =>
       purge.step = "deleting" \/ r.path \in purge.parted

FramesInv ==
  /\ PendingIsPartial /\ PendingInTime /\ OneContent /\ PathsGiven /\ TasksOwnPaths
  /\ IdsTellPaths /\ FilesAreThere /\ ImportInv /\ PurgeInv

=============================================================================
