-------------------------- MODULE SpectrumFramesProofs --------------------------
(***************************************************************************)
(* Proofs about SpectrumFrames, for any axes, uuids, windows, imports,     *)
(* purges, errors and restarts.  They induct on FramesInv: the path of a   *)
(* frame that is complete was never given before (FreshPath), so a path    *)
(* stands for one content wherever it is met (OneContent) and no import or *)
(* purge can have it in view before the row is there (TasksOwnPaths).      *)
(***************************************************************************)
EXTENDS SpectrumFrames, SequenceTheorems, FiniteSetTheorems, WellFoundedInduction, TLAPS

(* Sequences, times and paths.                                             *)

\* What is left of a sequence keeps its order.
LEMMA RemoveAtProperties ==
  ASSUME NEW S, NEW s \in Seq(S), NEW i \in 1 .. Len(s)
  PROVE  /\ RemoveAt(s, i) \in Seq(S)
         /\ Len(RemoveAt(s, i)) = Len(s) - 1
         /\ \A j \in 1 .. Len(s) - 1 : RemoveAt(s, i)[j] = s[IF j < i THEN j ELSE j + 1]
<1> DEFINE before == SubSeq(s, 1, i - 1)
           after  == SubSeq(s, i + 1, Len(s))
<1>1. /\ before \in Seq(S) /\ Len(before) = i - 1
      /\ \A j \in 1 .. i - 1 : before[j] = s[j]
  <2>1. \A j \in 1 .. i - 1 : s[j] \in S
    OBVIOUS
  <2>2. QED
    BY <2>1, SubSeqProperties, 1 \in Int, i - 1 \in Int
<1>2. /\ after \in Seq(S) /\ Len(after) = Len(s) - i
      /\ \A j \in 1 .. Len(s) - i : after[j] = s[i + j]
  <2>1. \A j \in i + 1 .. Len(s) : s[j] \in S
    OBVIOUS
  <2>2. QED
    BY <2>1, SubSeqProperties, i + 1 \in Int, Len(s) \in Int
<1>3. RemoveAt(s, i) = before \o after
  BY DEF RemoveAt
<1> HIDE DEF before, after
<1>4. /\ before \o after \in Seq(S) /\ Len(before \o after) = Len(s) - 1
      /\ \A j \in 1 .. Len(s) - 1 : (before \o after)[j] = IF j <= i - 1 THEN before[j] ELSE after[j - (i - 1)]
  BY <1>1, <1>2, ConcatProperties
<1>5. ASSUME NEW j \in 1 .. Len(s) - 1
      PROVE  (before \o after)[j] = s[IF j < i THEN j ELSE j + 1]
  <2>1. CASE j < i
    BY <2>1, <1>1, <1>4
  <2>2. CASE ~(j < i)
    <3>1. j - (i - 1) \in 1 .. Len(s) - i /\ i + (j - (i - 1)) = j + 1
      BY <2>2
    <3>2. QED
      BY <2>2, <3>1, <1>2, <1>4
  <2>3. QED
    BY <2>1, <2>2
<1>6. QED
  BY <1>3, <1>4, <1>5

\* Each element of what is left has a place of its own in the sequence.
LEMMA RemoveAtPlaces ==
  ASSUME NEW S, NEW s \in Seq(S), NEW i \in DOMAIN s
  PROVE  \E f \in [DOMAIN RemoveAt(s, i) -> DOMAIN s] :
           /\ \A j \in DOMAIN RemoveAt(s, i) : RemoveAt(s, i)[j] = s[f[j]]
           /\ \A j, k \in DOMAIN RemoveAt(s, i) : f[j] = f[k] => j = k
           /\ \A j \in DOMAIN RemoveAt(s, i) : f[j] # i
<1> DEFINE keys == 1 .. Len(s) - 1
           f == [j \in keys |-> IF j < i THEN j ELSE j + 1]
<1>1. DOMAIN s = 1 .. Len(s) /\ Len(s) \in Nat
  OBVIOUS
<1>2. RemoveAt(s, i) \in Seq(S) /\ Len(RemoveAt(s, i)) = Len(s) - 1
      /\ \A j \in keys : RemoveAt(s, i)[j] = s[IF j < i THEN j ELSE j + 1]
  BY <1>1, RemoveAtProperties
<1>3. DOMAIN RemoveAt(s, i) = keys
  BY <1>2
<1>4. \A j \in keys : IF j < i THEN j \in DOMAIN s ELSE j + 1 \in DOMAIN s
  BY <1>1
<1>5. f \in [keys -> DOMAIN s]
  BY <1>4
<1>6. /\ \A j, k \in keys : f[j] = f[k] => j = k
      /\ \A j \in keys : f[j] # i
  BY <1>1
<1>7. \A j \in keys : RemoveAt(s, i)[j] = s[f[j]]
  BY <1>2
<1> HIDE DEF f, keys
<1>8. QED
  BY <1>3, <1>5, <1>6, <1>7

\* A set of naturals has a least element.
LEMMA LeastElement ==
  ASSUME NEW T \in SUBSET Nat, T # {}
  PROVE  \E n \in T : \A k \in T : n <= k
<1> DEFINE Less == OpToRel(<, Nat)
<1>1. IsWellFoundedOn(Less, Nat)
  BY NatLessThanWellFounded
<1>2. PICK n \in T : \A k \in T : ~ (<<k, n>> \in Less)
  <2> HIDE DEF Less
  <2> QED BY <1>1, WFMin
<1>3. \A k \in T : <<k, n>> \in Less <=> k < n
  BY DEF OpToRel
<1> HIDE DEF Less
<1>4. \A k \in T : ~(k < n)
  BY <1>2, <1>3
<1>5. QED
  BY <1>4

LEMMA SomeAxis == Axes # {}
  BY SpectrumAssumption, FS_EmptySet

\* A frame is captured when the first of its axes is.
LEMMA CapturedFirst ==
  ASSUME NEW axes \in [Axes -> Times]
  PROVE  /\ CapturedAt(axes) \in Times
         /\ \A a \in Axes : CapturedAt(axes) <= axes[a]
         /\ \E a \in Axes : CapturedAt(axes) = axes[a]
<1>1. Range(axes) = {axes[a] : a \in Axes}
  BY DEF Range
<1>2. Range(axes) \in SUBSET Nat /\ Range(axes) # {} /\ Range(axes) \subseteq Times
  BY <1>1, SomeAxis, SpectrumAssumption DEF Times
<1>3. \E t \in Range(axes) : \A u \in Range(axes) : t <= u
  BY <1>2, LeastElement
<1>4. CapturedAt(axes) \in Range(axes) /\ \A u \in Range(axes) : CapturedAt(axes) <= u
  BY <1>3 DEF CapturedAt
<1>5. QED
  BY <1>1, <1>2, <1>4

LEMMA PathType ==
  ASSUME NEW content \in Content, NEW n \in Nat
  PROVE  /\ PathOf(content, n) \in Path
         /\ PathOf(content, n).at = CapturedAt(content.axes)
         /\ PathOf(content, n).uuid = content.uuid
         /\ content.uuid = NoUuid => PathOf(content, n).random = n
         /\ content.uuid # NoUuid => PathOf(content, n).random = 0
<1>1. CapturedAt(content.axes) \in Times
  BY CapturedFirst DEF Content
<1>2. QED
  BY <1>1 DEF PathOf, Path, Content

(* Taking in a message.                                                    *)

\* The place is that of the first match, or after all others.
LEMMA PlaceProperties ==
  ASSUME pending \in Seq(Frame), NEW uuid
  PROVE  /\ PlaceOf(uuid) \in 1 .. Len(pending) + 1
         /\ PlaceOf(uuid) \in DOMAIN pending => Matches(pending[PlaceOf(uuid)], uuid)
         /\ PlaceOf(uuid) \notin DOMAIN pending => \A j \in DOMAIN pending : ~Matches(pending[j], uuid)
<1>1. CASE MatchingFrames(uuid) = {}
  BY <1>1 DEF PlaceOf, MatchingFrames
<1>2. CASE MatchingFrames(uuid) # {}
  <2>1. MatchingFrames(uuid) \in SUBSET Nat
    BY DEF MatchingFrames
  <2>2. \E i \in MatchingFrames(uuid) : \A j \in MatchingFrames(uuid) : i <= j
    BY <1>2, <2>1, LeastElement
  <2>3. PlaceOf(uuid) \in MatchingFrames(uuid)
    BY <1>2, <2>2 DEF PlaceOf
  <2>4. QED
    BY <2>3 DEF MatchingFrames
<1>3. QED
  BY <1>1, <1>2

\* What an axis makes of a frame that waits, or of a new one.
TakenIn(uuid, axis) == WithAxis(FrameAt(PlaceOf(uuid), uuid), axis)

LEMMA FrameAtType ==
  ASSUME TypeOK, NEW uuid \in Uuids \cup {NoUuid}
  PROVE  FrameAt(PlaceOf(uuid), uuid) \in Frame
<1>1. CASE PlaceOf(uuid) \in DOMAIN pending
  BY <1>1 DEF FrameAt, TypeOK
<1>2. CASE PlaceOf(uuid) \notin DOMAIN pending
  <2>1. <<>> \in [{} -> Times]
    OBVIOUS
  <2>2. <<>> \in UNION {[some -> Times] : some \in SUBSET Axes}
    BY <2>1
  <2>3. now \in Times /\ now + FrameFlush \in Nat
    BY SpectrumAssumption DEF TypeOK, Times
  <2>4. QED
    BY <1>2, <2>2, <2>3 DEF FrameAt, Frame
<1>3. QED
  BY <1>1, <1>2

LEMMA WithAxisType ==
  ASSUME TypeOK, NEW frame \in Frame, NEW axis \in Axes
  PROVE  /\ WithAxis(frame, axis) \in Frame
         /\ WithAxis(frame, axis).uuid = frame.uuid /\ WithAxis(frame, axis).due = frame.due
         /\ WithAxis(frame, axis).first = EarliestOf(frame.first, now)
         /\ DOMAIN WithAxis(frame, axis).axes = DOMAIN frame.axes \cup {axis}
         /\ \A a \in DOMAIN frame.axes \cup {axis} :
              WithAxis(frame, axis).axes[a] = IF a = axis THEN now ELSE frame.axes[a]
<1> DEFINE axes == [a \in DOMAIN frame.axes \cup {axis} |-> IF a = axis THEN now ELSE frame.axes[a]]
<1>1. PICK some \in SUBSET Axes : frame.axes \in [some -> Times]
  BY DEF Frame
<1>2. now \in Times
  BY DEF TypeOK
<1>3. axes \in [some \cup {axis} -> Times]
  BY <1>1, <1>2
<1>4. axes \in UNION {[part -> Times] : part \in SUBSET Axes}
  BY <1>3, some \cup {axis} \in SUBSET Axes
<1>5. EarliestOf(frame.first, now) \in Times
  BY <1>2 DEF EarliestOf, Frame
<1>6. WithAxis(frame, axis) = [frame EXCEPT !.first = EarliestOf(frame.first, now), !.axes = axes]
  BY DEF WithAxis
<1> HIDE DEF axes
<1>7. /\ WithAxis(frame, axis) \in Frame
      /\ WithAxis(frame, axis).uuid = frame.uuid /\ WithAxis(frame, axis).due = frame.due
      /\ WithAxis(frame, axis).first = EarliestOf(frame.first, now)
      /\ WithAxis(frame, axis).axes = axes
  BY <1>4, <1>5, <1>6 DEF Frame
<1>8. QED
  BY <1>7 DEF axes

LEMMA TakenInType ==
  ASSUME TypeOK, NEW axis \in Axes, NEW uuid \in Uuids \cup {NoUuid}
  PROVE  TakenIn(uuid, axis) \in Frame /\ TakenIn(uuid, axis).axes # <<>>
         /\ (HasCompleteAxes(TakenIn(uuid, axis)) =>
               [uuid |-> TakenIn(uuid, axis).uuid, axes |-> TakenIn(uuid, axis).axes] \in Content)
<1> DEFINE frame == TakenIn(uuid, axis)
<1>1. frame \in Frame /\ axis \in DOMAIN frame.axes
  BY FrameAtType, WithAxisType DEF TakenIn
<1>2. PICK some \in SUBSET Axes : frame.axes \in [some -> Times]
  BY <1>1 DEF Frame
<1>3. HasCompleteAxes(frame) => some = Axes
  BY <1>2 DEF HasCompleteAxes
<1>4. frame.uuid \in Uuids \cup {NoUuid}
  BY <1>1 DEF Frame
<1> HIDE DEF frame
<1>5. frame.axes # <<>>
  BY <1>1
<1>6. HasCompleteAxes(frame) => [uuid |-> frame.uuid, axes |-> frame.axes] \in Content
  BY <1>2, <1>3, <1>4 DEF Content
<1>7. QED
  BY <1>1, <1>5, <1>6 DEF frame

\* The two outcomes of a message.
LEMMA IngestCases ==
  ASSUME TypeOK, NEW axis \in Axes, NEW uuid \in Uuids \cup {NoUuid}, Ingest(axis, uuid)
  PROVE  LET i == PlaceOf(uuid)
             frame == TakenIn(uuid, axis)
         IN \/ /\ HasCompleteAxes(frame)
               /\ pending' = IF i \in DOMAIN pending THEN RemoveAt(pending, i) ELSE pending
               /\ persists' = persists \cup {[n |-> made + 1, content |-> [uuid |-> frame.uuid, axes |-> frame.axes],
                                              step |-> "writing", attempt |-> 1]}
               /\ made' = made + 1
            \/ /\ ~HasCompleteAxes(frame)
               /\ pending' = IF i \in DOMAIN pending THEN [pending EXCEPT ![i] = frame] ELSE Append(pending, frame)
               /\ UNCHANGED <<persists, made>>
  BY DEF Ingest, TakenIn

(* Type correctness.                                                       *)

LEMMA SpendType ==
  ASSUME TypeOK, NEW event \in {"messages", "errors", "purges", "imports", "restarts"}, Spend(event)
  PROVE  left' \in [{"messages", "errors", "purges", "imports", "restarts"} -> Nat]
  BY DEF Spend, TypeOK

LEMMA TaskTypes ==
  ASSUME TypeOK, NEW task \in persists
  PROVE  /\ task \in Task /\ task.content \in Content /\ task.n \in Nat /\ TaskPath(task) \in Path
         /\ TaskPath(task).uuid = task.content.uuid
         /\ TaskPath(task).at \in Times
<1>1. task \in Task /\ task.content \in Content /\ task.n \in Nat
  BY DEF TypeOK, Task
<1>2. QED
  BY <1>1, PathType DEF TaskPath, Path

\* A task that changes its step stays of its type.
LEMMA TaskSteps ==
  ASSUME NEW task \in Task
  PROVE  /\ \A step \in {"writing", "renaming", "inserting"} : [task EXCEPT !.step = step] \in Task
         /\ [task EXCEPT !.attempt = @ + 1] \in Task
  BY DEF Task

LEMMA GotoType ==
  ASSUME TypeOK, NEW task \in persists, NEW step \in {"writing", "renaming", "inserting"}, Goto(task, step)
  PROVE  persists' \subseteq Task
<1>1. task \in Task /\ persists \subseteq Task
  BY DEF TypeOK
<1>2. [task EXCEPT !.step = step] \in Task
  BY <1>1, TaskSteps
<1>3. QED
  BY <1>1, <1>2 DEF Goto

LEMMA StoreTypes ==
  ASSUME NEW store, IsStore(store)
  PROVE  /\ \A p \in Path, c \in Content : IsStore(Put(store, p, c))
         /\ \A some : IsStore(Drop(store, some))
  BY DEF IsStore, Put, Drop

LEMMA UpsertType ==
  ASSUME TypeOK, NEW row \in Row, Upsert(row)
  PROVE  rows' \subseteq Row
  BY DEF Upsert, TypeOK

LEMMA TaskRow ==
  ASSUME TypeOK, NEW task \in persists
  PROVE  [id |-> task.content.uuid, path |-> PathOf(task.content, task.n), content |-> task.content] \in Row
  BY TaskTypes DEF Row, RowIds, Content, TaskPath

LEMMA ImportType ==
  ASSUME TypeOK, import.step # "none"
  PROVE  /\ import \in [step : {"writing", "inserting", "unlinking"}, frame : archive, found : SUBSET Path]
         /\ import.frame \in archive /\ import.frame \in Row
         /\ import.frame.path \in Path /\ import.frame.content \in Content /\ import.found \subseteq Path
<1>1. import # NoImport
  BY DEF NoImport
<1>2. import \in [step : {"writing", "inserting", "unlinking"}, frame : archive, found : SUBSET Path]
  BY <1>1 DEF TypeOK
<1>3. import.frame \in archive /\ import.frame \in Row
  BY <1>2 DEF TypeOK
<1>4. QED
  BY <1>2, <1>3 DEF Row

PurgeType ==
  [step : {"none", "reading", "deleting", "unlinking"}, kind : {"device", "range", "batch"},
   scope : SUBSET Times, read : SUBSET Row, unlink : SUBSET Path, parted : SUBSET Path]

LEMMA NoPurgeType == NoPurge \in PurgeType
  BY DEF NoPurge, PurgeType

\* A purge reads rows in its scope; a batch that reads none finds none there.
LEMMA PurgeReads ==
  ASSUME purge \in PurgeType, PurgeRead
  PROVE  \E read \in SUBSET rows : \E paths :
           /\ paths = {r.path : r \in read}
           /\ \A r \in read : InScope(r)
           /\ \/ /\ purge' = NoPurge /\ UNCHANGED spoilt
                 /\ \A r \in rows : ~InScope(r)
              \/ /\ purge' = [purge EXCEPT !.step = "deleting", !.read = read, !.unlink = paths]
                 /\ purge'.step = "deleting" /\ purge'.read = read /\ purge'.unlink = paths
                 /\ purge'.kind = purge.kind /\ purge'.scope = purge.scope /\ purge'.parted = purge.parted
                 /\ spoilt' = spoilt \cup (IF import.step = "none" THEN {} ELSE paths \cap {import.frame.path})
<1> DEFINE scoped == {r \in rows : InScope(r)}
<1>1. PICK read \in ReadSets(scoped) :
         LET paths == {r.path : r \in read}
         IN IF purge.kind = "batch" /\ read = {}
            THEN purge' = NoPurge /\ UNCHANGED spoilt
            ELSE /\ purge' = [purge EXCEPT !.step = "deleting", !.read = read, !.unlink = paths]
                 /\ spoilt' = spoilt \cup (IF import.step = "none" THEN {} ELSE paths \cap {import.frame.path})
  BY DEF PurgeRead
<1>2. read \subseteq scoped
  BY DEF ReadSets, Batches
<1>3. purge.kind = "batch" /\ read = {} => scoped = {}
  BY FS_EmptySet, SpectrumAssumption DEF ReadSets, Batches
<1>4. read \in SUBSET rows /\ \A r \in read : InScope(r)
  BY <1>2
<1>5. PICK paths : paths = {r.path : r \in read}
  OBVIOUS
<1>6. CASE purge.kind = "batch" /\ read = {}
  <2>1. purge' = NoPurge /\ UNCHANGED spoilt /\ \A r \in rows : ~InScope(r)
    BY <1>1, <1>3, <1>6
  <2>2. QED
    BY <1>4, <1>5, <2>1
<1>7. CASE ~(purge.kind = "batch" /\ read = {})
  <2>1. /\ purge' = [purge EXCEPT !.step = "deleting", !.read = read, !.unlink = paths]
        /\ spoilt' = spoilt \cup (IF import.step = "none" THEN {} ELSE paths \cap {import.frame.path})
    BY <1>1, <1>5, <1>7
  <2>2. /\ purge'.step = "deleting" /\ purge'.read = read /\ purge'.unlink = paths
        /\ purge'.kind = purge.kind /\ purge'.scope = purge.scope /\ purge'.parted = purge.parted
    BY <2>1 DEF PurgeType
  <2>3. QED
    BY <1>4, <1>5, <2>1, <2>2
<1>8. QED
  BY <1>6, <1>7

\* Every step keeps the types.
LEMMA TypeCorrectStep == TypeOK /\ [Next]_vars => TypeOK'
<1> SUFFICES ASSUME TypeOK, [Next]_vars PROVE TypeOK'
  OBVIOUS
<1> USE DEF stores
<1>0. CASE UNCHANGED vars
  BY <1>0 DEF vars, TypeOK, IsStore
<1>1. ASSUME NEW axis \in Axes, NEW uuid \in Uuids \cup {NoUuid}, Ingest(axis, uuid) PROVE TypeOK'
  <2> DEFINE i == PlaceOf(uuid)
             frame == TakenIn(uuid, axis)
  <2>0. i \in 1 .. Len(pending) + 1 /\ pending \in Seq(Frame)
    BY PlaceProperties DEF TypeOK
  <2>1. frame \in Frame
        /\ (HasCompleteAxes(frame) => [uuid |-> frame.uuid, axes |-> frame.axes] \in Content)
    BY TakenInType
  <2>2. \/ /\ HasCompleteAxes(frame)
           /\ pending' = IF i \in DOMAIN pending THEN RemoveAt(pending, i) ELSE pending
           /\ persists' = persists \cup {[n |-> made + 1, content |-> [uuid |-> frame.uuid, axes |-> frame.axes],
                                          step |-> "writing", attempt |-> 1]}
           /\ made' = made + 1
        \/ /\ ~HasCompleteAxes(frame)
           /\ pending' = IF i \in DOMAIN pending THEN [pending EXCEPT ![i] = frame] ELSE Append(pending, frame)
           /\ UNCHANGED <<persists, made>>
    BY <1>1, IngestCases
  <2> HIDE DEF i, frame
  <2>3. pending' \in Seq(Frame)
    <3>1. CASE i \in DOMAIN pending
      <4>1. RemoveAt(pending, i) \in Seq(Frame) /\ [pending EXCEPT ![i] = frame] \in Seq(Frame)
        BY <2>0, <2>1, <3>1, RemoveAtProperties
      <4>2. QED
        BY <2>2, <3>1, <4>1
    <3>2. CASE i \notin DOMAIN pending
      BY <2>0, <2>1, <2>2, <3>2
    <3>3. QED
      BY <3>1, <3>2
  <2>4. persists' \subseteq Task /\ made' \in Nat
    BY <2>1, <2>2 DEF Task, TypeOK
  <2>5. left' \in [{"messages", "errors", "purges", "imports", "restarts"} -> Nat]
        /\ sent' \subseteq Axes \X (Uuids \cup {NoUuid})
    BY <1>1, SpendType DEF Ingest, TypeOK
  <2>6. QED
    BY <1>1, <2>3, <2>4, <2>5 DEF Ingest, TypeOK, IsStore
<1>2. ASSUME NEW i \in DOMAIN pending, Flush(i) PROVE TypeOK'
  <2>1. pending' \in Seq(Frame)
    BY <1>2, RemoveAtProperties DEF Flush, TypeOK
  <2>2. QED
    BY <1>2, <2>1 DEF Flush, TypeOK, IsStore
<1>3. ASSUME NEW task \in persists, WriteFile(task) PROVE TypeOK'
  <2>1. persists' \subseteq Task /\ IsStore(tmp')
    BY <1>3, GotoType, TaskTypes, StoreTypes DEF WriteFile, TypeOK, TaskPath
  <2>2. QED
    BY <1>3, <2>1 DEF WriteFile, TypeOK, IsStore
<1>4. ASSUME NEW task \in persists, Rename(task) PROVE TypeOK'
  <2>1. persists' \subseteq Task
    BY <1>4, GotoType DEF Rename, Finish, TypeOK
  <2>2. IsStore(tmp') /\ IsStore(files')
    <3>1. CASE PathOf(task.content, task.n) \in DOMAIN tmp
      <4>1. tmp[PathOf(task.content, task.n)] \in Content /\ PathOf(task.content, task.n) \in Path
        BY <3>1 DEF TypeOK, IsStore
      <4>2. QED
        BY <1>4, <3>1, <4>1, StoreTypes DEF Rename, TypeOK
    <3>2. CASE PathOf(task.content, task.n) \notin DOMAIN tmp
      BY <1>4, <3>2 DEF Rename, TypeOK
    <3>3. QED
      BY <3>1, <3>2
  <2>3. QED
    BY <1>4, <2>1, <2>2 DEF Rename, TypeOK
<1>5. ASSUME NEW task \in persists, InsertRow(task) PROVE TypeOK'
  <2>1. rows' \subseteq Row
    BY <1>5, TaskRow, UpsertType DEF InsertRow, TypeOK
  <2>2. QED
    BY <1>5, <2>1 DEF InsertRow, Finish, TypeOK, IsStore
<1>6. ASSUME NEW task \in persists, InsertRetried(task) \/ PersistError(task) PROVE TypeOK'
  <2>0. task \in Task /\ persists \subseteq Task
    BY DEF TypeOK
  <2>1. persists' \subseteq Task
    <3>1. [task EXCEPT !.attempt = @ + 1] \in Task
      BY <2>0, TaskSteps
    <3>2. QED
      BY <1>6, <2>0, <3>1 DEF InsertRetried, PersistError, Finish
  <2>2. left' \in [{"messages", "errors", "purges", "imports", "restarts"} -> Nat]
    BY <1>6, SpendType DEF InsertRetried, PersistError
  <2>3. QED
    BY <1>6, <2>1, <2>2 DEF InsertRetried, PersistError, TypeOK, IsStore
<1>7. ASSUME NEW row \in rows, Export(row) PROVE TypeOK'
  <2>1. row \in Row /\ row.path.at \in Times /\ row.path \in Path /\ row.content \in Content
    BY DEF TypeOK, Row, Path
  <2>2. archive' \subseteq Row
    BY <1>7, <2>1 DEF Export, Row, RowIds, Synthetic
  <2>3. import # NoImport => FALSE
    BY <1>7 DEF Export, TypeOK
  <2>4. QED
    BY <1>7, <2>2, <2>3 DEF Export, TypeOK, IsStore
<1>8. ASSUME NEW frame \in archive, ImportRead(frame) PROVE TypeOK'
  <2>1. {r.path : r \in {q \in rows : q.id = frame.id}} \subseteq Path
    BY DEF TypeOK, Row
  <2>2. frame.path \in Path
    BY DEF TypeOK, Row
  <2>3. left' \in [{"messages", "errors", "purges", "imports", "restarts"} -> Nat]
    BY <1>8, SpendType DEF ImportRead
  <2>4. spoilt' \subseteq Path
    BY <1>8, <2>2 DEF ImportRead, TypeOK
  <2>5. import' \in [step : {"writing", "inserting", "unlinking"}, frame : archive', found : SUBSET Path]
    BY <1>8, <2>1 DEF ImportRead
  <2>6. QED
    BY <1>8, <2>3, <2>4, <2>5 DEF ImportRead, TypeOK, IsStore
<1>9. CASE ImportWrite \/ ImportInsert \/ ImportUnlink \/ ImportError
  <2>1. import.step # "none"
    BY <1>9 DEF ImportWrite, ImportInsert, ImportUnlink, ImportError
  <2>2. import \in [step : {"writing", "inserting", "unlinking"}, frame : archive, found : SUBSET Path]
    BY <2>1, ImportType
  <2>3. IsStore(files') /\ IsStore(tmp')
    BY <1>9, <2>1, ImportType, StoreTypes DEF ImportWrite, ImportInsert, ImportUnlink, ImportError, TypeOK
  <2>4. rows' \subseteq Row
    BY <1>9, <2>1, ImportType, UpsertType DEF ImportWrite, ImportInsert, ImportUnlink, ImportError, TypeOK
  <2>5. left' \in [{"messages", "errors", "purges", "imports", "restarts"} -> Nat]
    BY <1>9, SpendType DEF ImportWrite, ImportInsert, ImportUnlink, ImportError, TypeOK
  <2>6. import' # NoImport =>
          import' \in [step : {"writing", "inserting", "unlinking"}, frame : archive', found : SUBSET Path]
    BY <1>9, <2>2 DEF ImportWrite, ImportInsert, ImportUnlink, ImportError
  <2>7. QED
    BY <1>9, <2>3, <2>4, <2>5, <2>6 DEF ImportWrite, ImportInsert, ImportUnlink, ImportError, TypeOK
<1>10. ASSUME NEW kind \in {"device", "range", "batch"}, NEW t \in Times, PurgeStart(kind, 0 .. t) PROVE TypeOK'
  <2>1. 0 .. t \in SUBSET Times
    BY SpectrumAssumption DEF Times
  <2>2. left' \in [{"messages", "errors", "purges", "imports", "restarts"} -> Nat]
    BY <1>10, SpendType DEF PurgeStart
  <2>3. pending' \in Seq(Frame)
    BY <1>10 DEF PurgeStart, TypeOK
  <2>4. QED
    BY <1>10, <2>1, <2>2, <2>3 DEF PurgeStart, NoPurge, TypeOK, IsStore
<1>11. CASE PurgeRead
  <2>0. purge \in PurgeType
    BY DEF TypeOK, PurgeType
  <2>1. PICK read, paths :
           /\ read \in SUBSET rows
           /\ paths = {r.path : r \in read}
           /\ \/ purge' = NoPurge /\ UNCHANGED spoilt
              \/ /\ purge' = [purge EXCEPT !.step = "deleting", !.read = read, !.unlink = paths]
                 /\ spoilt' \subseteq spoilt \cup paths
    BY <1>11, <2>0, PurgeReads
  <2>2. read \in SUBSET Row /\ paths \in SUBSET Path
    BY <2>1 DEF TypeOK, Row
  <2>3. purge' \in PurgeType
    BY <2>0, <2>1, <2>2, NoPurgeType DEF PurgeType
  <2>4. spoilt' \subseteq Path
    BY <2>1, <2>2 DEF TypeOK
  <2>5. QED
    BY <1>11, <2>3, <2>4 DEF PurgeRead, PurgeType, TypeOK, IsStore
<1>p. ASSUME NEW path \in purge.unlink, PurgeUnlink(path) PROVE TypeOK'
  <2>1. IsStore(files')
    BY <1>p, StoreTypes DEF PurgeUnlink, TypeOK
  <2>2. QED
    BY <1>p, <2>1 DEF PurgeUnlink, TypeOK, IsStore
<1>12. CASE PurgeDelete \/ PurgeNext \/ PurgeEnd \/ PurgeError
  <2>1. ToDelete \subseteq rows /\ Parted \subseteq purge.unlink
    BY DEF ToDelete, Parted
  <2>2. left' \in [{"messages", "errors", "purges", "imports", "restarts"} -> Nat]
    BY <1>12, SpendType DEF PurgeDelete, PurgeNext, PurgeEnd, PurgeError, TypeOK
  <2>3. purge' \in PurgeType
    <3>1. purge \in PurgeType /\ ToDelete \in SUBSET Row /\ purge.parted \cup Parted \in SUBSET Path
      BY <2>1 DEF TypeOK, PurgeType
    <3>2. QED
      BY <1>12, <3>1, NoPurgeType DEF PurgeDelete, PurgeNext, PurgeEnd, PurgeError, PurgeType
  <2>4. rows' \subseteq rows
    BY <1>12 DEF PurgeDelete, PurgeNext, PurgeEnd, PurgeError, stores
  <2>5. spoilt' \subseteq Path
    BY <1>12 DEF PurgeDelete, PurgeNext, PurgeEnd, PurgeError, TypeOK
  <2>6. QED
    BY <1>12, <2>2, <2>3, <2>4, <2>5
    DEF PurgeDelete, PurgeNext, PurgeEnd, PurgeError, PurgeType, TypeOK, IsStore, stores
<1>13. CASE Register
  BY <1>13 DEF Register, TypeOK, IsStore
<1>14. CASE Tick
  <2>1. now' \in Times
    BY <1>14, SpectrumAssumption DEF Tick, TypeOK, Times
  <2>2. QED
    BY <1>14, <2>1 DEF Tick, TypeOK, IsStore
<1>15. CASE Restart
  <2>1. left' \in [{"messages", "errors", "purges", "imports", "restarts"} -> Nat]
    BY <1>15, SpendType DEF Restart
  <2>2. spoilt' \subseteq Path
    BY <1>15 DEF Restart, TypeOK
  <2>3. QED
    BY <1>15, <2>1, <2>2 DEF Restart, NoPurge, TypeOK, IsStore
<1>16. QED
  BY <1>0, <1>1, <1>2, <1>3, <1>4, <1>5, <1>6, <1>7, <1>8, <1>9, <1>10, <1>11, <1>p, <1>12, <1>13, <1>14, <1>15
  DEF Next, Persist, Import, Purge

\* Every reachable state is well typed.
THEOREM TypeCorrect == Spec => []TypeOK
<1>1. Init => TypeOK
  BY SpectrumAssumption DEF Init, TypeOK, IsStore, NoPurge, Times
<1>2. QED
  BY <1>1, TypeCorrectStep, PTL DEF Spec

(* What waits for more axes.                                               *)

\* The frame a message makes keeps what holds of those that wait.
LEMMA TakenInTime ==
  ASSUME TypeOK, PendingIsPartial, PendingInTime, NEW axis \in Axes, NEW uuid \in Uuids \cup {NoUuid}
  PROVE  LET i == PlaceOf(uuid)
             frame == TakenIn(uuid, axis)
         IN /\ frame.uuid = uuid /\ DOMAIN frame.axes # {} /\ frame.due <= frame.first + FrameFlush
            /\ InTime(frame, now, sent \cup {<<axis, uuid>>})
            /\ \A a \in DOMAIN frame.axes :
                 \/ frame.axes[a] = now
                 \/ i \in DOMAIN pending /\ a \in DOMAIN pending[i].axes /\ frame.axes[a] = pending[i].axes[a]
            /\ i \in DOMAIN pending => pending[i].uuid = uuid
            /\ i \notin DOMAIN pending /\ uuid # NoUuid => \A j \in DOMAIN pending : pending[j].uuid # uuid
<1> DEFINE i == PlaceOf(uuid)
           old == FrameAt(i, uuid)
           frame == TakenIn(uuid, axis)
<1>0. now \in Nat /\ FrameFlush \in Nat /\ MatchWindow \in Nat
  BY SpectrumAssumption DEF TypeOK, Times
<1>1. old \in Frame
  BY FrameAtType
<1>2. /\ frame.uuid = old.uuid /\ frame.due = old.due /\ frame.first = EarliestOf(old.first, now)
      /\ DOMAIN frame.axes = DOMAIN old.axes \cup {axis}
      /\ \A a \in DOMAIN old.axes \cup {axis} : frame.axes[a] = IF a = axis THEN now ELSE old.axes[a]
  BY <1>1, WithAxisType DEF TakenIn
<1>3. /\ i \in DOMAIN pending => pending[i].uuid = uuid
      /\ i \notin DOMAIN pending /\ uuid # NoUuid => \A j \in DOMAIN pending : pending[j].uuid # uuid
  BY PlaceProperties DEF Matches, TypeOK
<1>4. /\ old.uuid = uuid /\ old.first <= now /\ old.due <= old.first + FrameFlush
      /\ InTime(old, now, sent) /\ (uuid = NoUuid => now <= old.first + MatchWindow)
      /\ old.first \in Nat
  <2>1. CASE i \in DOMAIN pending
    <3>1. old = pending[i] /\ Matches(pending[i], uuid)
      BY <2>1, PlaceProperties DEF FrameAt, TypeOK
    <3>2. InTime(old, now, sent) /\ DOMAIN old.axes # {} /\ old.due <= old.first + FrameFlush
      BY <2>1, <3>1 DEF PendingInTime, PendingIsPartial
    <3>3. PICK some \in SUBSET Axes : old.axes \in [some -> Times]
      BY <1>1 DEF Frame
    <3>4. PICK a \in DOMAIN old.axes : TRUE
      BY <3>2
    <3>5. old.first \in Nat /\ old.axes[a] \in Nat
      BY <1>1, <3>3, <3>4, SpectrumAssumption DEF Frame, Times
    <3>6. old.first <= old.axes[a] /\ old.axes[a] <= now
      BY <3>2, <3>4 DEF InTime
    <3>7. old.first <= now
      BY <1>0, <3>5, <3>6
    <3>8. QED
      BY <1>0, <3>1, <3>2, <3>5, <3>7 DEF Matches, Distance
  <2>2. CASE i \notin DOMAIN pending
    <3>1. old = [uuid |-> uuid, first |-> now, axes |-> <<>>, due |-> now + FrameFlush]
      BY <2>2 DEF FrameAt
    <3>2. DOMAIN old.axes = {}
      BY <3>1
    <3>3. QED
      BY <1>0, <3>1, <3>2 DEF InTime
  <2>3. QED
    BY <2>1, <2>2
<1> HIDE DEF i, old, frame
<1>5. frame.first = old.first
  BY <1>0, <1>2, <1>4 DEF EarliestOf
<1>6. InTime(frame, now, sent \cup {<<axis, uuid>>})
  BY <1>0, <1>2, <1>4, <1>5 DEF InTime
<1>7. \A a \in DOMAIN frame.axes :
        \/ frame.axes[a] = now
        \/ i \in DOMAIN pending /\ a \in DOMAIN pending[i].axes /\ frame.axes[a] = pending[i].axes[a]
  <2>1. CASE i \in DOMAIN pending
    <3>1. old = pending[i]
      BY <2>1 DEF old, FrameAt
    <3>2. QED
      BY <1>2, <2>1, <3>1
  <2>2. CASE i \notin DOMAIN pending
    <3>1. DOMAIN old.axes = {}
      BY <2>2 DEF old, FrameAt
    <3>2. QED
      BY <1>2, <3>1
  <2>3. QED
    BY <2>1, <2>2
<1>8. QED
  BY <1>2, <1>3, <1>4, <1>5, <1>6, <1>7 DEF i, frame

LEMMA PendingStep == TypeOK /\ PendingIsPartial /\ PendingInTime /\ [Next]_vars => PendingIsPartial' /\ PendingInTime'
<1> SUFFICES ASSUME TypeOK, PendingIsPartial, PendingInTime, [Next]_vars PROVE PendingIsPartial' /\ PendingInTime'
  OBVIOUS
<1>0. pending \in Seq(Frame)
  BY DEF TypeOK
<1>1. ASSUME NEW axis \in Axes, NEW uuid \in Uuids \cup {NoUuid}, Ingest(axis, uuid)
      PROVE  PendingIsPartial' /\ PendingInTime'
  <2> DEFINE i == PlaceOf(uuid)
             frame == TakenIn(uuid, axis)
  <2>1. /\ frame.uuid = uuid /\ DOMAIN frame.axes # {} /\ frame.due <= frame.first + FrameFlush
        /\ InTime(frame, now, sent \cup {<<axis, uuid>>})
        /\ i \in DOMAIN pending => pending[i].uuid = uuid
        /\ i \notin DOMAIN pending /\ uuid # NoUuid => \A j \in DOMAIN pending : pending[j].uuid # uuid
    BY TakenInTime
  <2>2. \/ /\ HasCompleteAxes(frame)
           /\ pending' = IF i \in DOMAIN pending THEN RemoveAt(pending, i) ELSE pending
        \/ /\ ~HasCompleteAxes(frame)
           /\ pending' = IF i \in DOMAIN pending THEN [pending EXCEPT ![i] = frame] ELSE Append(pending, frame)
    BY <1>1, IngestCases
  <2>3. now' = now /\ sent' = sent \cup {<<axis, uuid>>}
    BY <1>1 DEF Ingest
  <2>4. i \in 1 .. Len(pending) + 1 /\ frame \in Frame
    BY PlaceProperties, TakenInType DEF TypeOK
  <2> HIDE DEF i, frame
  <2>5. \A j \in DOMAIN pending : InTime(pending[j], now, sent \cup {<<axis, uuid>>})
    BY DEF PendingInTime, InTime
  <2>6. CASE HasCompleteAxes(frame) /\ i \in DOMAIN pending
    <3>1. pending' = RemoveAt(pending, i)
      BY <2>2, <2>6
    <3>2. PICK f \in [DOMAIN pending' -> DOMAIN pending] :
                 /\ \A j \in DOMAIN pending' : pending'[j] = pending[f[j]]
                 /\ \A j, k \in DOMAIN pending' : f[j] = f[k] => j = k
      BY <1>0, <2>6, <3>1, RemoveAtPlaces
    <3>3. PendingIsPartial'
      BY <3>2 DEF PendingIsPartial
    <3>4. PendingInTime'
      BY <2>3, <2>5, <3>2 DEF PendingInTime
    <3>5. QED
      BY <3>3, <3>4
  <2>7. CASE HasCompleteAxes(frame) /\ i \notin DOMAIN pending
    BY <2>2, <2>3, <2>5, <2>7 DEF PendingIsPartial, PendingInTime
  <2>8. CASE ~HasCompleteAxes(frame) /\ i \in DOMAIN pending
    <3>1. DOMAIN pending' = DOMAIN pending /\ \A j \in DOMAIN pending : pending'[j] = IF j = i THEN frame ELSE pending[j]
      BY <1>0, <2>2, <2>8
    <3>2. QED
      BY <2>1, <2>3, <2>5, <2>8, <3>1 DEF PendingIsPartial, PendingInTime, HasCompleteAxes
  <2>9. CASE ~HasCompleteAxes(frame) /\ i \notin DOMAIN pending
    <3>1. /\ DOMAIN pending' = DOMAIN pending \cup {Len(pending) + 1} /\ pending'[Len(pending) + 1] = frame
          /\ \A j \in DOMAIN pending : pending'[j] = pending[j]
      <4>1. pending' = Append(pending, frame) /\ i = Len(pending) + 1 /\ DOMAIN pending = 1 .. Len(pending)
        BY <1>0, <2>2, <2>4, <2>9
      <4>2. Len(pending') = Len(pending) + 1 /\ pending' \in Seq(Frame)
        BY <1>0, <2>4, <4>1
      <4>3. DOMAIN pending' = 1 .. Len(pending) + 1
        BY <4>2
      <4>4. QED
        BY <1>0, <2>4, <4>1, <4>3
    <3>2. QED
      BY <2>1, <2>3, <2>5, <2>9, <3>1 DEF PendingIsPartial, PendingInTime, HasCompleteAxes
  <2>10. QED
    BY <2>6, <2>7, <2>8, <2>9
<1>2. ASSUME NEW i \in DOMAIN pending, Flush(i) PROVE PendingIsPartial' /\ PendingInTime'
  <2>1. pending' = RemoveAt(pending, i) /\ now' = now /\ sent' = sent
    BY <1>2 DEF Flush
  <2>2. PICK f \in [DOMAIN pending' -> DOMAIN pending] :
               /\ \A j \in DOMAIN pending' : pending'[j] = pending[f[j]]
               /\ \A j, k \in DOMAIN pending' : f[j] = f[k] => j = k
    BY <1>0, <2>1, RemoveAtPlaces
  <2>3. QED
    BY <2>1, <2>2 DEF PendingIsPartial, PendingInTime
<1>3. CASE pending' = <<>>
  BY <1>3 DEF PendingIsPartial, PendingInTime
<1>4. CASE Tick
  <2>1. now' = now + 1 /\ pending' = pending /\ now \in Nat
    BY <1>4, SpectrumAssumption DEF Tick, TypeOK, Times
  <2>2. ASSUME NEW i \in DOMAIN pending PROVE InTime(pending[i], now + 1, sent')
    <3>1. pending[i] \in Frame
      BY <1>0
    <3>2. PICK some \in SUBSET Axes : pending[i].axes \in [some -> Times]
      BY <3>1 DEF Frame
    <3>3. \A a \in DOMAIN pending[i].axes : pending[i].axes[a] \in Nat
      BY <3>2, SpectrumAssumption DEF Times
    <3>4. InTime(pending[i], now, sent)
      BY DEF PendingInTime
    <3>5. QED
      BY <2>1, <3>3, <3>4 DEF InTime
  <2>3. QED
    BY <2>1, <2>2 DEF PendingIsPartial, PendingInTime
<1>5. CASE UNCHANGED <<now, sent, pending>>
  BY <1>5 DEF PendingIsPartial, PendingInTime
<1>6. QED
  BY <1>1, <1>2, <1>3, <1>4, <1>5
  DEF Next, vars, Persist, WriteFile, Rename, InsertRow, InsertRetried, PersistError, Export, Import, ImportRead,
      ImportWrite, ImportInsert, ImportUnlink, ImportError, Purge, PurgeStart, PurgeRead, PurgeDelete, PurgeUnlink,
      PurgeError, PurgeNext, PurgeEnd, Register, Restart

(* Names and contents.                                                     *)

LEMMA HeldPut ==
  ASSUME NEW store, NEW p, NEW c
  PROVE  Held(Put(store, p, c)) \subseteq Held(store) \cup {<<p, c>>}
  BY DEF Held, Put

LEMMA HeldDrop ==
  ASSUME NEW store, NEW some
  PROVE  Held(Drop(store, some)) \subseteq Held(store)
  BY DEF Held, Drop

LEMMA OwedTask ==
  ASSUME TypeOK, NEW task \in persists
  PROVE  /\ <<PathOf(task.content, task.n), task.content>> \in Named
         /\ \A step \in {"writing", "renaming", "inserting"} :
              Goto(task, step) => Owed(persists') \subseteq Owed(persists)
<1>1. <<PathOf(task.content, task.n), task.content>> \in Owed(persists)
  BY DEF Owed, TaskPath
<1>2. ASSUME NEW step \in {"writing", "renaming", "inserting"}, Goto(task, step)
      PROVE  Owed(persists') \subseteq Owed(persists)
  <2>1. [task EXCEPT !.step = step].content = task.content /\ [task EXCEPT !.step = step].n = task.n
    BY TaskTypes DEF Task
  <2>2. QED
    BY <1>2, <2>1 DEF Goto, Owed, TaskPath
<1>3. QED
  BY <1>1, <1>2 DEF Named

LEMMA ToldRow ==
  ASSUME NEW some, NEW r \in some
  PROVE  <<r.path, r.content>> \in Told(some)
  BY DEF Told

\* But for messages, no step names anything new.
LEMMA NamedKept ==
  ASSUME TypeOK, [Next]_vars, \A axis \in Axes, uuid \in Uuids \cup {NoUuid} : ~Ingest(axis, uuid)
  PROVE  Named' \subseteq Named
<1> USE DEF stores
<1>1. ASSUME NEW task \in persists, WriteFile(task) PROVE Named' \subseteq Named
  <2> DEFINE path == PathOf(task.content, task.n)
  <2>1. Owed(persists') \subseteq Owed(persists) /\ <<path, task.content>> \in Named
    BY <1>1, OwedTask DEF WriteFile
  <2>2. Held(tmp') \subseteq Held(tmp) \cup {<<path, task.content>>}
    BY <1>1, HeldPut DEF WriteFile
  <2>3. files' = files /\ rows' = rows /\ archive' = archive
    BY <1>1 DEF WriteFile
  <2>4. QED
    BY <2>1, <2>2, <2>3 DEF Named
<1>2. ASSUME NEW task \in persists, Rename(task) PROVE Named' \subseteq Named
  <2> DEFINE path == PathOf(task.content, task.n)
  <2>1. Owed(persists') \subseteq Owed(persists)
    BY <1>2, OwedTask DEF Rename, Finish, Owed
  <2>2. Held(tmp') \subseteq Held(tmp) /\ Held(files') \subseteq Held(files) \cup Held(tmp)
    <3>1. CASE path \in DOMAIN tmp
      <4>1. <<path, tmp[path]>> \in Held(tmp)
        BY <3>1 DEF Held
      <4>2. files' = Put(files, path, tmp[path]) /\ tmp' = Drop(tmp, {path})
        BY <1>2, <3>1 DEF Rename
      <4>3. QED
        BY <4>1, <4>2, HeldPut, HeldDrop
    <3>2. CASE path \notin DOMAIN tmp
      BY <1>2, <3>2 DEF Rename
    <3>3. QED
      BY <3>1, <3>2
  <2>3. rows' = rows /\ archive' = archive
    BY <1>2 DEF Rename
  <2>4. QED
    BY <2>1, <2>2, <2>3 DEF Named
<1>3. ASSUME NEW task \in persists, InsertRow(task) PROVE Named' \subseteq Named
  <2> DEFINE path == PathOf(task.content, task.n)
             row == [id |-> task.content.uuid, path |-> path, content |-> task.content]
  <2>1. Owed(persists') \subseteq Owed(persists) /\ <<path, task.content>> \in Named
    BY <1>3, OwedTask DEF InsertRow, Finish, Owed
  <2>2. rows' \subseteq rows \cup {row}
    BY <1>3 DEF InsertRow, Upsert
  <2>3. Told(rows') \subseteq Told(rows) \cup {<<path, task.content>>}
    BY <2>2 DEF Told
  <2>4. tmp' = tmp /\ files' = files /\ archive' = archive
    BY <1>3 DEF InsertRow
  <2>5. QED
    BY <2>1, <2>3, <2>4 DEF Named
<1>4. ASSUME NEW task \in persists, InsertRetried(task) \/ PersistError(task) PROVE Named' \subseteq Named
  <2>1. [task EXCEPT !.attempt = @ + 1].content = task.content /\ [task EXCEPT !.attempt = @ + 1].n = task.n
    BY TaskTypes DEF Task
  <2>2. Owed(persists') \subseteq Owed(persists)
    BY <1>4, <2>1 DEF InsertRetried, PersistError, Finish, Owed, TaskPath
  <2>3. UNCHANGED <<stores, archive>>
    BY <1>4 DEF InsertRetried, PersistError
  <2>4. QED
    BY <2>2, <2>3 DEF Named
<1>5. ASSUME NEW row \in rows, Export(row) PROVE Named' \subseteq Named
  <2>1. Told(archive') \subseteq Told(rows)
    BY <1>5 DEF Export, Told
  <2>2. UNCHANGED <<stores, persists>>
    BY <1>5 DEF Export
  <2>3. QED
    BY <2>1, <2>2 DEF Named
<1>6. CASE ImportWrite \/ ImportInsert \/ ImportUnlink \/ ImportError
  <2>1. import.step # "none"
    BY <1>6 DEF ImportWrite, ImportInsert, ImportUnlink, ImportError
  <2>2. <<import.frame.path, import.frame.content>> \in Told(archive)
    BY <2>1, ImportType, ToldRow
  <2>3. Held(files') \subseteq Held(files) \cup Told(archive)
    BY <1>6, <2>2, HeldPut, HeldDrop DEF ImportWrite, ImportInsert, ImportUnlink, ImportError
  <2>4. rows' \subseteq rows \cup {import.frame}
    BY <1>6 DEF ImportWrite, ImportInsert, ImportUnlink, ImportError, Upsert
  <2>5. Told(rows') \subseteq Told(rows) \cup Told(archive)
    BY <2>2, <2>4 DEF Told
  <2>6. persists' = persists /\ tmp' = tmp /\ archive' = archive
    BY <1>6 DEF ImportWrite, ImportInsert, ImportUnlink, ImportError
  <2>7. QED
    BY <2>3, <2>5, <2>6 DEF Named
<1>7. ASSUME NEW path \in purge.unlink, PurgeUnlink(path) PROVE Named' \subseteq Named
  <2>1. Held(files') \subseteq Held(files)
    BY <1>7, HeldDrop DEF PurgeUnlink
  <2>2. UNCHANGED <<persists, tmp, rows, archive>>
    BY <1>7 DEF PurgeUnlink
  <2>3. QED
    BY <2>1, <2>2 DEF Named
<1>8. CASE PurgeDelete \/ PurgeEnd \/ PurgeError
  <2>1. rows' \subseteq rows /\ UNCHANGED <<persists, tmp, files, archive>>
    BY <1>8 DEF PurgeDelete, PurgeEnd, PurgeError
  <2>2. Told(rows') \subseteq Told(rows)
    BY <2>1 DEF Told
  <2>3. QED
    BY <2>1, <2>2 DEF Named
<1>9. CASE persists' \subseteq persists /\ UNCHANGED <<tmp, files, rows, archive>>
  <2>1. Owed(persists') \subseteq Owed(persists)
    BY <1>9 DEF Owed
  <2>2. QED
    BY <1>9, <2>1 DEF Named
<1>10. QED
  BY <1>1, <1>2, <1>3, <1>4, <1>5, <1>6, <1>7, <1>8, <1>9
  DEF Next, vars, Flush, Persist, Import, ImportRead, Purge, PurgeStart, PurgeRead, PurgeNext,
      Register, Tick, Restart

\* A message that completes a frame names it, and nothing else.
LEMMA NamedIngest ==
  ASSUME TypeOK, NEW axis \in Axes, NEW uuid \in Uuids \cup {NoUuid}, Ingest(axis, uuid)
  PROVE  LET frame == TakenIn(uuid, axis)
             content == [uuid |-> frame.uuid, axes |-> frame.axes]
         IN /\ ~HasCompleteAxes(frame) => Named' = Named
            /\ HasCompleteAxes(frame) => content \in Content /\ Named' = Named \cup {<<PathOf(content, made + 1), content>>}
<1> DEFINE frame == TakenIn(uuid, axis)
           content == [uuid |-> frame.uuid, axes |-> frame.axes]
           task == [n |-> made + 1, content |-> content, step |-> "writing", attempt |-> 1]
<1>1. UNCHANGED <<tmp, files, rows, archive>>
  BY DEF Ingest, stores
<1>2. HasCompleteAxes(frame) => persists' = persists \cup {task}
  BY IngestCases
<1>3. ~HasCompleteAxes(frame) => persists' = persists
  BY IngestCases
<1>4. HasCompleteAxes(frame) => content \in Content
  BY TakenInType
<1>5. TaskPath(task) = PathOf(content, made + 1) /\ task.content = content
  BY DEF TaskPath
<1> HIDE DEF task, content, frame
<1>6. Owed(persists \cup {task}) = Owed(persists) \cup {<<TaskPath(task), task.content>>}
  BY DEF Owed
<1>7. HasCompleteAxes(frame) => Named' = Named \cup {<<PathOf(content, made + 1), content>>}
  BY <1>1, <1>2, <1>5, <1>6 DEF Named
<1>8. ~HasCompleteAxes(frame) => Named' = Named
  BY <1>1, <1>3 DEF Named
<1>9. QED
  BY <1>4, <1>7, <1>8 DEF content, frame

LEMMA NamedType ==
  ASSUME TypeOK
  PROVE  /\ \A x \in Named : x[1] \in Path /\ x[2] \in Content
         /\ Paths \subseteq Path
<1>1. \A x \in Owed(persists) : x[1] \in Path /\ x[2] \in Content
  BY TaskTypes DEF Owed
<1>2. \A x \in Held(tmp) \cup Held(files) : x[1] \in Path /\ x[2] \in Content
  BY DEF TypeOK, Held, IsStore
<1>3. \A x \in Told(rows) \cup Told(archive) : x[1] \in Path /\ x[2] \in Content
  BY DEF TypeOK, Told, Row
<1>4. import.found \subseteq Path
  BY DEF TypeOK, NoImport
<1>5. purge.unlink \subseteq Path
  BY DEF TypeOK
<1>6. QED
  BY <1>1, <1>2, <1>3, <1>4, <1>5 DEF Named, Paths

LEMMA RowPaths ==
  /\ \A r \in rows : r.path \in Paths /\ <<r.path, r.content>> \in Named
  /\ \A r \in archive : r.path \in Paths /\ <<r.path, r.content>> \in Named
  /\ \A task \in persists : TaskPath(task) \in Paths /\ <<TaskPath(task), task.content>> \in Named
  /\ \A p \in DOMAIN tmp : p \in Paths /\ <<p, tmp[p]>> \in Named
  /\ \A p \in DOMAIN files : p \in Paths /\ <<p, files[p]>> \in Named
<1>1. \A x \in Named : x[1] \in Paths
  BY DEF Paths
<1>2. /\ \A r \in rows \cup archive : <<r.path, r.content>> \in Named
      /\ \A task \in persists : <<TaskPath(task), task.content>> \in Named
      /\ \A p \in DOMAIN tmp : <<p, tmp[p]>> \in Named
      /\ \A p \in DOMAIN files : <<p, files[p]>> \in Named
  BY DEF Named, Told, Owed, Held
<1>3. QED
  BY <1>1, <1>2

\* What an import finds and what a purge is to unlink are the paths of rows.
LEMMA FoundPaths ==
  ASSUME TypeOK, [Next]_vars
  PROVE  /\ import'.found \subseteq import.found \cup {r.path : r \in rows}
         /\ purge'.unlink \subseteq purge.unlink \cup {r.path : r \in rows}
<1>1. CASE ImportWrite \/ ImportInsert \/ ImportUnlink \/ ImportError \/ \E frame \in archive : ImportRead(frame)
  <2>1. import.step # "none" =>
          import \in [step : {"writing", "inserting", "unlinking"}, frame : archive, found : SUBSET Path]
    BY ImportType
  <2>2. import'.found \subseteq import.found \cup {r.path : r \in rows}
    BY <1>1, <2>1 DEF ImportWrite, ImportInsert, ImportUnlink, ImportError, ImportRead, NoImport
  <2>3. purge' = purge
    BY <1>1 DEF ImportWrite, ImportInsert, ImportUnlink, ImportError, ImportRead
  <2>4. QED
    BY <2>2, <2>3
<1>2. CASE Purge
  <2>1. import' = import
    BY <1>2 DEF Purge, PurgeStart, PurgeRead, PurgeDelete, PurgeUnlink, PurgeNext, PurgeEnd, PurgeError
  <2>2. purge \in PurgeType
    BY DEF TypeOK, PurgeType
  <2>3. CASE PurgeRead
    <3>1. PICK read, paths :
             /\ read \in SUBSET rows
             /\ paths = {r.path : r \in read} /\ (purge' = NoPurge \/ purge'.unlink = paths)
      BY <2>2, <2>3, PurgeReads
    <3>2. purge'.unlink = {} \/ purge'.unlink = paths
      BY <3>1 DEF NoPurge
    <3>3. QED
      BY <2>1, <3>1, <3>2
  <2>4. CASE PurgeDelete \/ PurgeNext \/ \E path \in purge.unlink : PurgeUnlink(path)
    BY <2>1, <2>2, <2>4 DEF PurgeDelete, PurgeNext, PurgeUnlink, PurgeType
  <2>5. ASSUME NEW kind, NEW scope, PurgeStart(kind, scope) PROVE purge'.unlink = {}
    BY <2>5 DEF PurgeStart, NoPurge
  <2>6. CASE PurgeEnd \/ PurgeError
    BY <2>1, <2>6 DEF PurgeEnd, PurgeError, NoPurge
  <2>7. QED
    BY <1>2, <2>1, <2>3, <2>4, <2>5, <2>6 DEF Purge
<1>3. CASE Restart
  BY <1>3 DEF Restart, NoPurge, NoImport
<1>4. CASE UNCHANGED <<import, purge>>
  BY <1>4
<1>5. QED
  BY <1>1, <1>2, <1>3, <1>4
  DEF Next, vars, Ingest, Flush, Persist, WriteFile, Rename, InsertRow, InsertRetried, PersistError, Export, Import,
      Register, Tick

\* But for messages, no step gives a path.
LEMMA PathsKept ==
  ASSUME TypeOK, [Next]_vars, \A axis \in Axes, uuid \in Uuids \cup {NoUuid} : ~Ingest(axis, uuid)
  PROVE  Paths' \subseteq Paths
<1>1. Named' \subseteq Named
  BY NamedKept
<1>2. {r.path : r \in rows} \subseteq Paths
  BY RowPaths
<1>3. import'.found \subseteq Paths /\ purge'.unlink \subseteq Paths
  BY <1>2, FoundPaths DEF Paths
<1>4. {x[1] : x \in Named'} \subseteq Paths
  BY <1>1 DEF Paths
<1>5. QED
  BY <1>3, <1>4 DEF Paths

\* A path once given stays given.
LEMMA GivenStays ==
  ASSUME TypeOK, PendingIsPartial, PendingInTime, [Next]_vars, NEW p \in Path, Given(p)
  PROVE  Given(p)'
<1>0. now \in Nat /\ made \in Nat /\ p.random \in Nat /\ p.at \in Nat /\ pending \in Seq(Frame)
  BY SpectrumAssumption DEF TypeOK, Path, Times
<1>1. ASSUME NEW axis \in Axes, NEW uuid \in Uuids \cup {NoUuid}, Ingest(axis, uuid) PROVE Given(p)'
  <2> DEFINE i == PlaceOf(uuid)
             frame == TakenIn(uuid, axis)
  <2>1. /\ frame.uuid = uuid
        /\ \A a \in DOMAIN frame.axes :
             \/ frame.axes[a] = now
             \/ i \in DOMAIN pending /\ a \in DOMAIN pending[i].axes /\ frame.axes[a] = pending[i].axes[a]
        /\ i \in DOMAIN pending => pending[i].uuid = uuid
    BY TakenInTime
  <2>2. \/ /\ HasCompleteAxes(frame) /\ made' = made + 1
           /\ pending' = IF i \in DOMAIN pending THEN RemoveAt(pending, i) ELSE pending
        \/ /\ ~HasCompleteAxes(frame) /\ made' = made
           /\ pending' = IF i \in DOMAIN pending THEN [pending EXCEPT ![i] = frame] ELSE Append(pending, frame)
    BY <1>1, IngestCases
  <2>3. now' = now /\ sent' = sent \cup {<<axis, uuid>>} /\ <<axis, uuid>> \notin sent
    BY <1>1 DEF Ingest
  <2>4. i \in 1 .. Len(pending) + 1 /\ frame \in Frame
    BY PlaceProperties, TakenInType DEF TypeOK
  <2> HIDE DEF i, frame
  <2>5. p.uuid = uuid /\ uuid # NoUuid => \A a \in DOMAIN frame.axes : p.at < frame.axes[a]
    BY <1>0, <2>1, <2>3 DEF Given
  <2>6. \A j \in DOMAIN pending' : pending'[j] = frame \/ \E k \in DOMAIN pending : pending'[j] = pending[k]
    <3>1. CASE HasCompleteAxes(frame) /\ i \in DOMAIN pending
      <4>1. pending' = RemoveAt(pending, i)
        BY <2>2, <3>1
      <4>2. PICK f \in [DOMAIN pending' -> DOMAIN pending] : \A j \in DOMAIN pending' : pending'[j] = pending[f[j]]
        BY <1>0, <3>1, <4>1, RemoveAtPlaces
      <4>3. QED
        BY <4>2
    <3>2. CASE ~(HasCompleteAxes(frame) /\ i \in DOMAIN pending)
      BY <1>0, <2>2, <2>4, <3>2
    <3>3. QED
      BY <3>1, <3>2
  <2>7. made' \in Nat /\ made <= made'
    BY <1>0, <2>2
  <2>8. p.uuid # NoUuid => \A j \in DOMAIN pending' : pending'[j].uuid = p.uuid =>
          \A a \in DOMAIN pending'[j].axes : p.at < pending'[j].axes[a]
    BY <2>1, <2>5, <2>6 DEF Given
  <2>9. QED
    BY <1>0, <2>3, <2>7, <2>8 DEF Given
<1>2. ASSUME NEW i \in DOMAIN pending, Flush(i) PROVE Given(p)'
  <2>1. pending' = RemoveAt(pending, i) /\ now' = now /\ sent' = sent /\ made' = made
    BY <1>2 DEF Flush
  <2>2. PICK f \in [DOMAIN pending' -> DOMAIN pending] : \A j \in DOMAIN pending' : pending'[j] = pending[f[j]]
    BY <1>0, <2>1, RemoveAtPlaces
  <2>3. QED
    BY <2>1, <2>2 DEF Given
<1>3. CASE Tick
  <2>1. now' = now + 1 /\ pending' = pending /\ made' = made
    BY <1>3 DEF Tick
  <2>2. QED
    BY <1>0, <2>1 DEF Given
<1>4. CASE UNCHANGED <<now, sent, made>> /\ pending' = <<>>
  BY <1>4 DEF Given
<1>5. CASE UNCHANGED <<now, sent, made, pending>>
  BY <1>5 DEF Given
<1>6. QED
  BY <1>1, <1>2, <1>3, <1>4, <1>5
  DEF Next, vars, Persist, WriteFile, Rename, InsertRow, InsertRetried, PersistError, Export, Import, ImportRead,
      ImportWrite, ImportInsert, ImportUnlink, ImportError, Purge, PurgeStart, PurgeRead, PurgeDelete, PurgeUnlink,
      PurgeError, PurgeNext, PurgeEnd, Register, Restart

\* The path of a frame that is complete was not given before, and is from now on.
LEMMA FreshPath ==
  ASSUME TypeOK, PendingIsPartial, PendingInTime, PathsGiven,
         NEW axis \in Axes, NEW uuid \in Uuids \cup {NoUuid}, Ingest(axis, uuid), HasCompleteAxes(TakenIn(uuid, axis))
  PROVE  LET frame == TakenIn(uuid, axis)
             content == [uuid |-> frame.uuid, axes |-> frame.axes]
         IN /\ content \in Content /\ Together(content)
            /\ \E path \in Path : path = PathOf(content, made + 1) /\ path \notin Paths /\ Given(path)'
<1> DEFINE i == PlaceOf(uuid)
           frame == TakenIn(uuid, axis)
           content == [uuid |-> frame.uuid, axes |-> frame.axes]
           path == PathOf(content, made + 1)
<1>1. /\ frame.uuid = uuid
      /\ InTime(frame, now, sent \cup {<<axis, uuid>>})
      /\ \A a \in DOMAIN frame.axes :
           \/ frame.axes[a] = now
           \/ i \in DOMAIN pending /\ a \in DOMAIN pending[i].axes /\ frame.axes[a] = pending[i].axes[a]
      /\ i \in DOMAIN pending => pending[i].uuid = uuid
      /\ i \notin DOMAIN pending /\ uuid # NoUuid => \A j \in DOMAIN pending : pending[j].uuid # uuid
  BY TakenInTime
<1>2. /\ now' = now /\ sent' = sent \cup {<<axis, uuid>>} /\ <<axis, uuid>> \notin sent
      /\ pending' = IF i \in DOMAIN pending THEN RemoveAt(pending, i) ELSE pending
      /\ made' = made + 1
  BY IngestCases DEF Ingest
<1>3. content \in Content /\ frame \in Frame
  BY TakenInType
<1>4. now \in Nat /\ made \in Nat /\ pending \in Seq(Frame) /\ MatchWindow \in Nat
  BY SpectrumAssumption DEF TypeOK, Times
<1>5. /\ path \in Path /\ path.at = CapturedAt(content.axes) /\ path.uuid = content.uuid
      /\ content.uuid = NoUuid => path.random = made + 1
      /\ content.uuid # NoUuid => path.random = 0
  BY <1>3, <1>4, PathType, made + 1 \in Nat
<1>6. content.uuid = uuid /\ content.axes = frame.axes /\ DOMAIN frame.axes = Axes
  BY <1>1 DEF HasCompleteAxes
<1>7. content.axes \in [Axes -> Times]
  BY <1>3 DEF Content
<1>8. frame.first \in Nat /\ \A a \in Axes : frame.axes[a] \in Nat
  BY <1>3, <1>6, <1>7, SpectrumAssumption DEF Frame, Times
<1> HIDE DEF i, frame, content, path
<1>9. Together(content)
  <2> SUFFICES ASSUME uuid = NoUuid, NEW a \in Axes, NEW b \in Axes
               PROVE  Distance(content.axes[a], content.axes[b]) <= MatchWindow
    BY <1>6 DEF Together
  <2>1. /\ frame.first <= frame.axes[a] /\ frame.axes[a] <= frame.first + MatchWindow
        /\ frame.first <= frame.axes[b] /\ frame.axes[b] <= frame.first + MatchWindow
    BY <1>1, <1>6 DEF InTime
  <2>2. QED
    BY <1>4, <1>6, <1>8, <2>1 DEF Distance
<1>10. /\ path.at \in Nat
       /\ \A a \in Axes : path.at <= frame.axes[a]
       /\ \E a \in Axes : path.at = frame.axes[a]
  BY <1>5, <1>6, <1>7, CapturedFirst, SpectrumAssumption DEF Times
<1>11. path \notin Paths
  <2> SUFFICES ASSUME Given(path) PROVE FALSE
    BY DEF PathsGiven
  <2>1. CASE uuid = NoUuid
    BY <1>4, <1>5, <1>6, <2>1 DEF Given
  <2>2. CASE uuid # NoUuid
    <3>1. PICK a \in Axes : path.at = frame.axes[a]
      BY <1>10
    <3>2. CASE frame.axes[a] = now
      BY <1>2, <1>5, <1>6, <2>2, <3>1, <3>2 DEF Given
    <3>3. CASE i \in DOMAIN pending /\ a \in DOMAIN pending[i].axes /\ frame.axes[a] = pending[i].axes[a]
      BY <1>1, <1>5, <1>6, <1>10, <2>2, <3>1, <3>3 DEF Given
    <3>4. QED
      BY <1>1, <1>6, <3>2, <3>3
  <2>3. QED
    BY <2>1, <2>2
<1>12. path.random <= made'
  BY <1>2, <1>4, <1>5
<1>13. ASSUME uuid # NoUuid
       PROVE  /\ path.at <= now'
              /\ path.at = now' => \A a \in Axes : <<a, uuid>> \in sent'
              /\ \A j \in DOMAIN pending' : pending'[j].uuid # uuid
  <2>1. \A a \in Axes : frame.axes[a] <= now /\ (frame.axes[a] = now => <<a, uuid>> \in sent')
    BY <1>1, <1>2, <1>6 DEF InTime
  <2>2. path.at <= now'
    BY <1>2, <1>4, <1>8, <1>10, <2>1
  <2>3. path.at = now' => \A a \in Axes : <<a, uuid>> \in sent'
    BY <1>2, <1>4, <1>8, <1>10, <2>1
  <2>4. \A j \in DOMAIN pending' : pending'[j].uuid # uuid
    <3>1. CASE i \in DOMAIN pending
      <4>1. pending' = RemoveAt(pending, i)
        BY <1>2, <3>1
      <4>2. PICK f \in [DOMAIN pending' -> DOMAIN pending] :
                   \A j \in DOMAIN pending' : pending'[j] = pending[f[j]] /\ f[j] # i
        BY <1>4, <3>1, <4>1, RemoveAtPlaces
      <4>3. QED
        BY <1>1, <1>13, <3>1, <4>2 DEF PendingIsPartial
    <3>2. CASE i \notin DOMAIN pending
      BY <1>1, <1>2, <1>13, <3>2
    <3>3. QED
      BY <3>1, <3>2
  <2>5. QED
    BY <2>2, <2>3, <2>4
<1>14. PICK q : q = path
  OBVIOUS
<1>15. Given(q)'
  BY <1>5, <1>6, <1>12, <1>13, <1>14 DEF Given
<1>16. QED
  BY <1>3, <1>5, <1>9, <1>11, <1>14, <1>15 DEF path, content, frame

LEMMA NamesStep ==
  TypeOK /\ PendingIsPartial /\ PendingInTime /\ OneContent /\ PathsGiven /\ [Next]_vars => OneContent' /\ PathsGiven'
<1> SUFFICES ASSUME TypeOK, PendingIsPartial, PendingInTime, OneContent, PathsGiven, [Next]_vars
             PROVE  OneContent' /\ PathsGiven'
  OBVIOUS
<1>0. \A p \in Paths : Given(p)'
  BY NamedType, GivenStays DEF PathsGiven
<1>1. ASSUME NEW axis \in Axes, NEW uuid \in Uuids \cup {NoUuid}, Ingest(axis, uuid) PROVE OneContent' /\ PathsGiven'
  <2>1. UNCHANGED <<import, purge>>
    BY <1>1 DEF Ingest
  <2>2. CASE ~HasCompleteAxes(TakenIn(uuid, axis))
    <3>1. Named' = Named
      BY <1>1, <2>2, NamedIngest
    <3>2. OneContent'
      BY <3>1 DEF OneContent
    <3>3. Paths' = Paths
      BY <2>1, <3>1 DEF Paths
    <3>4. QED
      BY <1>0, <3>2, <3>3 DEF PathsGiven
  <2>3. CASE HasCompleteAxes(TakenIn(uuid, axis))
    <3>1. PICK content \in Content : /\ content = [uuid |-> TakenIn(uuid, axis).uuid, axes |-> TakenIn(uuid, axis).axes]
                                     /\ Together(content)
      BY <1>1, <2>3, FreshPath
    <3>2. PICK path \in Path : path = PathOf(content, made + 1) /\ path \notin Paths /\ Given(path)'
      BY <1>1, <2>3, <3>1, FreshPath
    <3>3. Named' = Named \cup {<<path, content>>}
      BY <1>1, <2>3, <3>1, <3>2, NamedIngest
    <3>4. \A x \in Named : x[1] # path
      BY <3>2 DEF Paths
    <3>5. \A x \in Named' : Together(x[2])
      BY <3>1, <3>3 DEF OneContent
    <3>6. \A x, y \in Named' : x[1] = y[1] => x[2] = y[2]
      BY <3>3, <3>4 DEF OneContent
    <3>7. OneContent'
      BY <3>5, <3>6 DEF OneContent
    <3>8. Paths' \subseteq Paths \cup {path}
      BY <2>1, <3>3 DEF Paths
    <3>9. PathsGiven'
      BY <1>0, <3>2, <3>8 DEF PathsGiven
    <3>10. QED
      BY <3>7, <3>9
  <2>4. QED
    BY <2>2, <2>3
<1>2. CASE \A axis \in Axes, uuid \in Uuids \cup {NoUuid} : ~Ingest(axis, uuid)
  <2>1. Named' \subseteq Named /\ Paths' \subseteq Paths
    BY <1>2, NamedKept, PathsKept
  <2>2. OneContent'
    BY <2>1 DEF OneContent
  <2>3. PathsGiven'
    BY <1>0, <2>1 DEF PathsGiven
  <2>4. QED
    BY <2>2, <2>3
<1>3. QED
  BY <1>1, <1>2

LEMMA InitNames == Init => PendingIsPartial /\ PendingInTime /\ OneContent /\ PathsGiven
<1> SUFFICES ASSUME Init PROVE PendingIsPartial /\ PendingInTime /\ OneContent /\ PathsGiven
  OBVIOUS
<1>1. Named = {}
  BY DEF Init, Named, Owed, Held, Told
<1>2. import.found = {} /\ purge.unlink = {} /\ pending = <<>>
  BY DEF Init, NoImport, NoPurge
<1>3. Paths = {}
  BY <1>1, <1>2 DEF Paths
<1>4. QED
  BY <1>1, <1>2, <1>3 DEF PendingIsPartial, PendingInTime, OneContent, PathsGiven

\* In every reachable state a path stands for one content, and no path is given twice.
LEMMA NamesAlways == Spec => [](TypeOK /\ PendingIsPartial /\ PendingInTime /\ OneContent /\ PathsGiven)
<1>1. Spec => []TypeOK
  BY TypeCorrect
<1>2. QED
  BY <1>1, InitNames, PendingStep, NamesStep, PTL DEF Spec

\* However messages of captures interleave, a frame stored without a uuid joins axes of one capture,
\* and what waits has its timer (findOrCreateFrame, ingest).
THEOREM AxesAlwaysBelongTogether == Spec => []AxesBelongTogether
<1>1. TypeOK /\ PendingIsPartial /\ OneContent => AxesBelongTogether
  <2> SUFFICES ASSUME TypeOK, OneContent, NEW r \in rows, r.content.uuid = NoUuid,
                      NEW t \in Range(r.content.axes), NEW u \in Range(r.content.axes)
               PROVE  Distance(t, u) <= MatchWindow
    BY DEF AxesBelongTogether
  <2>1. <<r.path, r.content>> \in Named /\ r.content \in Content
    BY RowPaths DEF TypeOK, Row
  <2>2. Together(r.content)
    BY <2>1 DEF OneContent
  <2>3. Range(r.content.axes) = {r.content.axes[a] : a \in Axes}
    BY <2>1 DEF Content, Range
  <2>4. QED
    BY <2>2, <2>3 DEF Together
<1>2. QED
  BY <1>1, NamesAlways, PTL

(* Tasks, imports and purges do not touch each other's files.              *)

\* A task goes on under its path.
LEMMA TaskGoesOn ==
  ASSUME TypeOK, [Next]_vars, TasksOwnPaths, NEW task \in persists, NEW next,
         TaskPath(next) = TaskPath(task), persists' = (persists \ {task}) \cup {next},
         UNCHANGED <<rows, archive>>, DOMAIN files \subseteq DOMAIN files',
         next.step = "inserting" => TaskPath(task) \in DOMAIN files'
  PROVE  TasksOwnPaths'
<1>1. \A other \in persists : TaskPath(other) \notin import'.found \cup purge'.unlink
  BY FoundPaths DEF TasksOwnPaths
<1>2. QED
  BY <1>1 DEF TasksOwnPaths

\* Other steps leave the paths of tasks alone.
LEMMA TasksStay ==
  ASSUME TypeOK, [Next]_vars, TasksOwnPaths, persists' \subseteq persists,
         \A task \in persists' : \A r \in rows' \cup archive' : r.path # TaskPath(task),
         \A task \in persists' : task.step = "inserting" => TaskPath(task) \in DOMAIN files'
  PROVE  TasksOwnPaths'
<1>1. \A other \in persists : TaskPath(other) \notin import'.found \cup purge'.unlink
  BY FoundPaths DEF TasksOwnPaths
<1>2. QED
  BY <1>1 DEF TasksOwnPaths

LEMMA TasksStep ==
  TypeOK /\ PendingIsPartial /\ PendingInTime /\ PathsGiven /\ TasksOwnPaths /\ [Next]_vars => TasksOwnPaths'
<1> SUFFICES ASSUME TypeOK, PendingIsPartial, PendingInTime, PathsGiven, TasksOwnPaths, [Next]_vars
             PROVE  TasksOwnPaths'
  OBVIOUS
<1> USE DEF stores
<1>1. ASSUME NEW axis \in Axes, NEW uuid \in Uuids \cup {NoUuid}, Ingest(axis, uuid) PROVE TasksOwnPaths'
  <2>1. UNCHANGED <<import, purge, rows, archive, files>>
    BY <1>1 DEF Ingest
  <2>2. CASE ~HasCompleteAxes(TakenIn(uuid, axis))
    <3>1. persists' = persists
      BY <1>1, <2>2, IngestCases
    <3>2. QED
      BY <2>1, <3>1 DEF TasksOwnPaths
  <2>3. CASE HasCompleteAxes(TakenIn(uuid, axis))
    <3>1. PICK content \in Content : content = [uuid |-> TakenIn(uuid, axis).uuid, axes |-> TakenIn(uuid, axis).axes]
      BY <1>1, <2>3, FreshPath
    <3>2. PathOf(content, made + 1) \notin Paths
      BY <1>1, <2>3, <3>1, FreshPath
    <3>3. PICK new : new = [n |-> made + 1, content |-> content, step |-> "writing", attempt |-> 1]
      OBVIOUS
    <3>4. persists' = persists \cup {new} /\ TaskPath(new) \notin Paths /\ new.step # "inserting"
      BY <1>1, <2>3, <3>1, <3>2, <3>3, IngestCases DEF TaskPath
    <3>5. /\ \A other \in persists : TaskPath(other) # TaskPath(new)
          /\ \A r \in rows \cup archive : r.path # TaskPath(new)
          /\ TaskPath(new) \notin import.found \cup purge.unlink
      <4>1. import.found \cup purge.unlink \subseteq Paths
        BY DEF Paths
      <4>2. QED
        BY <3>4, <4>1, RowPaths
    <3>6. QED
      BY <2>1, <3>4, <3>5 DEF TasksOwnPaths
  <2>4. QED
    BY <2>2, <2>3
<1>2. ASSUME NEW task \in persists, WriteFile(task) PROVE TasksOwnPaths'
  <2>1. TaskPath([task EXCEPT !.step = "renaming"]) = TaskPath(task) /\ [task EXCEPT !.step = "renaming"].step = "renaming"
    BY TaskTypes DEF Task, TaskPath
  <2>2. QED
    BY <1>2, <2>1, TaskGoesOn DEF WriteFile, Goto
<1>3. ASSUME NEW task \in persists, Rename(task) PROVE TasksOwnPaths'
  <2>1. CASE TaskPath(task) \in DOMAIN tmp
    <3>1. TaskPath([task EXCEPT !.step = "inserting"]) = TaskPath(task)
      BY TaskTypes DEF Task, TaskPath
    <3>2. DOMAIN files' = DOMAIN files \cup {TaskPath(task)}
      BY <1>3, <2>1 DEF Rename, Put, TaskPath
    <3>3. persists' = (persists \ {task}) \cup {[task EXCEPT !.step = "inserting"]} /\ UNCHANGED <<rows, archive>>
      BY <1>3, <2>1 DEF Rename, Goto, TaskPath
    <3>4. QED
      BY <3>1, <3>2, <3>3, TaskGoesOn
  <2>2. CASE TaskPath(task) \notin DOMAIN tmp
    <3>1. persists' \subseteq persists /\ UNCHANGED <<rows, archive, files>>
      BY <1>3, <2>2 DEF Rename, Finish, TaskPath
    <3>2. QED
      BY <3>1, TasksStay DEF TasksOwnPaths
  <2>3. QED
    BY <2>1, <2>2
<1>4. ASSUME NEW task \in persists, InsertRow(task) PROVE TasksOwnPaths'
  <2>1. persists' = persists \ {task} /\ UNCHANGED <<archive, files>>
    BY <1>4 DEF InsertRow, Finish
  <2>2. \A r \in rows' : r \in rows \/ r.path = TaskPath(task)
    BY <1>4 DEF InsertRow, Upsert, TaskPath
  <2>3. \A other \in persists' : \A r \in rows' \cup archive' : r.path # TaskPath(other)
    BY <2>1, <2>2 DEF TasksOwnPaths
  <2>4. QED
    BY <2>1, <2>3, TasksStay DEF TasksOwnPaths
<1>5. ASSUME NEW task \in persists, InsertRetried(task) \/ PersistError(task) PROVE TasksOwnPaths'
  <2>0. UNCHANGED <<rows, archive, files>>
    BY <1>5 DEF InsertRetried, PersistError
  <2>1. CASE persists' = (persists \ {task}) \cup {[task EXCEPT !.attempt = @ + 1]} /\ task.step = "inserting"
    <3>1. TaskPath([task EXCEPT !.attempt = @ + 1]) = TaskPath(task)
      BY TaskTypes DEF Task, TaskPath
    <3>2. QED
      BY <2>0, <2>1, <3>1, TaskGoesOn DEF TasksOwnPaths
  <2>2. CASE persists' = persists \ {task}
    BY <2>0, <2>2, TasksStay DEF TasksOwnPaths
  <2>3. QED
    BY <1>5, <2>1, <2>2 DEF InsertRetried, PersistError, Finish
<1>6. ASSUME NEW row \in rows, Export(row) PROVE TasksOwnPaths'
  <2>1. UNCHANGED <<persists, rows, files>> /\ \A f \in archive' : f.path = row.path
    BY <1>6 DEF Export
  <2>2. QED
    BY <2>1, TasksStay DEF TasksOwnPaths
<1>7. CASE ImportWrite \/ ImportInsert \/ ImportUnlink \/ ImportError
  <2>1. import.step # "none" /\ UNCHANGED <<persists, archive>>
    BY <1>7 DEF ImportWrite, ImportInsert, ImportUnlink, ImportError
  <2>2. import.frame \in archive
    BY <2>1, ImportType
  <2>3. \A r \in rows' : r \in rows \/ r \in archive
    BY <1>7, <2>2 DEF ImportWrite, ImportInsert, ImportUnlink, ImportError, Upsert
  <2>4. DOMAIN files \ import.found \subseteq DOMAIN files'
    BY <1>7 DEF ImportWrite, ImportInsert, ImportUnlink, ImportError, Replaced, Put, Drop
  <2>5. QED
    BY <2>1, <2>3, <2>4, TasksStay DEF TasksOwnPaths
<1>8. ASSUME NEW path \in purge.unlink, PurgeUnlink(path) PROVE TasksOwnPaths'
  <2>1. UNCHANGED <<persists, rows, archive>> /\ DOMAIN files \ purge.unlink \subseteq DOMAIN files'
    BY <1>8 DEF PurgeUnlink, Drop
  <2>2. QED
    BY <2>1, TasksStay DEF TasksOwnPaths
<1>9. CASE persists' = {}
  BY <1>9 DEF TasksOwnPaths
<1>10. CASE UNCHANGED <<persists, archive, files>> /\ rows' \subseteq rows
  BY <1>10, TasksStay DEF TasksOwnPaths
<1>11. QED
  BY <1>1, <1>2, <1>3, <1>4, <1>5, <1>6, <1>7, <1>8, <1>9, <1>10
  DEF Next, vars, Flush, Persist, Import, ImportRead, Purge, PurgeStart, PurgeRead, PurgeDelete,
      PurgeError, PurgeNext, PurgeEnd, Register, Tick, Restart

(* Rows, and those that remove files.                                      *)

\* How rows come about: a task, an import, or not at all.
LEMMA RowsStep ==
  ASSUME TypeOK, [Next]_vars
  PROVE  /\ \A r \in rows' :
              \/ r \in rows
              \/ \E task \in persists : /\ task.step = "inserting" /\ r.path = TaskPath(task)
                                        /\ r.id = task.content.uuid /\ r.content = task.content
                                        /\ UNCHANGED <<files, purge, import, archive, spoilt>>
              \/ (ImportInsert \/ ImportError) /\ import.step = "inserting" /\ r = import.frame
         /\ spoilt \subseteq spoilt'
         /\ archive' = archive \/ \E row \in rows : Export(row)
<1> USE DEF stores
<1>1. ASSUME NEW task \in persists, InsertRow(task), NEW r \in rows', r \notin rows
      PROVE  /\ task.step = "inserting" /\ r.path = TaskPath(task)
             /\ r.id = task.content.uuid /\ r.content = task.content
             /\ UNCHANGED <<files, purge, import, archive, spoilt>>
  BY <1>1 DEF InsertRow, Upsert, TaskPath
<1>2. ASSUME ImportInsert \/ ImportError, NEW r \in rows', r \notin rows
      PROVE  import.step = "inserting" /\ r = import.frame
  BY <1>2 DEF ImportInsert, ImportError, Upsert
<1>3. rows' \subseteq rows \/ ImportInsert \/ ImportError \/ \E task \in persists : InsertRow(task)
  BY DEF Next, vars, Ingest, Flush, Persist, WriteFile, Rename, InsertRetried, PersistError, Export, Import, ImportRead,
         ImportWrite, ImportUnlink, Purge, PurgeStart, PurgeRead, PurgeDelete, PurgeUnlink,
         PurgeError, PurgeNext, PurgeEnd, Register, Tick, Restart
<1>4. spoilt \subseteq spoilt'
  BY DEF Next, vars, Ingest, Flush, Persist, WriteFile, Rename, InsertRow, InsertRetried, PersistError, Export, Import,
         ImportRead, ImportWrite, ImportInsert, ImportUnlink, ImportError, Purge, PurgeStart, PurgeRead, PurgeDelete,
         PurgeUnlink, PurgeError, PurgeNext, PurgeEnd, Register, Tick, Restart
<1>5. archive' = archive \/ \E row \in rows : Export(row)
  BY DEF Next, vars, Ingest, Flush, Persist, WriteFile, Rename, InsertRow, InsertRetried, PersistError, Import,
         ImportRead, ImportWrite, ImportInsert, ImportUnlink, ImportError, Purge, PurgeStart, PurgeRead, PurgeDelete,
         PurgeUnlink, PurgeError, PurgeNext, PurgeEnd, Register, Tick, Restart
<1>6. QED
  BY <1>1, <1>2, <1>3, <1>4, <1>5

LEMMA IdsStep == TypeOK /\ IdsTellPaths /\ [Next]_vars => IdsTellPaths'
<1> SUFFICES ASSUME TypeOK, IdsTellPaths, [Next]_vars PROVE IdsTellPaths'
  OBVIOUS
<1>1. ASSUME NEW row \in rows, Export(row) PROVE IdsTellPaths'
  <2>1. /\ archive = {} /\ rows' = rows
        /\ archive' = {[id |-> IF row.id = NoUuid THEN [frameAt |-> row.path.at] ELSE row.id,
                        path |-> row.path, content |-> row.content]}
    BY <1>1 DEF Export, stores
  <2>2. \A r \in rows : r.id = r.path.uuid
    BY <2>1 DEF IdsTellPaths
  <2>3. row.path.at \in Times
    BY DEF TypeOK, Row, Path
  <2>4. [frameAt |-> row.path.at] \in Synthetic
    BY <2>3 DEF Synthetic
  <2>5. QED
    BY <2>1, <2>2, <2>4 DEF IdsTellPaths
<1>2. CASE archive' = archive
  <2>1. ASSUME NEW r \in rows'
        PROVE  \/ r.id = r.path.uuid
               \/ r.path.uuid = NoUuid /\ r.id \in Synthetic /\ \E f \in archive : f.path = r.path
    <3>1. CASE r \in rows
      BY <3>1 DEF IdsTellPaths
    <3>2. ASSUME NEW task \in persists, r.path = TaskPath(task), r.id = task.content.uuid PROVE r.id = r.path.uuid
      BY <3>2, TaskTypes
    <3>3. CASE import.step = "inserting" /\ r = import.frame
      <4>1. import.frame \in archive
        BY <3>3, ImportType
      <4>2. QED
        BY <3>3, <4>1 DEF IdsTellPaths
    <3>4. QED
      BY <2>1, <3>1, <3>2, <3>3, RowsStep
  <2>2. QED
    BY <1>2, <2>1 DEF IdsTellPaths
<1>3. QED
  BY <1>1, <1>2, RowsStep

\* A row that an import may find for a frame has its path, or a path of its uuid.
LEMMA FoundTellPaths ==
  ASSUME TypeOK, IdsTellPaths, NEW frame \in archive, NEW r \in rows, r.id = frame.id
  PROVE  r.path = frame.path \/ (r.path.uuid = frame.id /\ r.path.uuid # NoUuid)
<1>1. r.path.uuid \in Uuids \cup {NoUuid} /\ frame.path.uuid \in Uuids \cup {NoUuid}
  BY DEF TypeOK, Row, Path
<1>2. IF frame.path.uuid = NoUuid THEN frame.id \in Synthetic ELSE frame.id = frame.path.uuid
  BY DEF IdsTellPaths
<1>3. \/ r.id = r.path.uuid
      \/ r.path.uuid = NoUuid /\ r.id \in Synthetic /\ r.path = frame.path
  BY DEF IdsTellPaths
<1>4. QED
  BY <1>1, <1>2, <1>3, SyntheticAssumption

LEMMA ImportStep ==
  TypeOK /\ TasksOwnPaths /\ IdsTellPaths /\ ImportInv /\ [Next]_vars => ImportInv'
<1> SUFFICES ASSUME TypeOK, TasksOwnPaths, IdsTellPaths, ImportInv, [Next]_vars PROVE ImportInv'
  OBVIOUS
<1> USE DEF stores
<1>0. /\ import.step # "none" => import # NoImport
      /\ import # NoImport =>
           import \in [step : {"writing", "inserting", "unlinking"}, frame : archive, found : SUBSET Path]
  BY DEF NoImport, TypeOK
<1>1. ASSUME NEW frame \in archive, ImportRead(frame) PROVE ImportInv'
  <2>1. /\ import' = [step |-> "writing", frame |-> frame, found |-> {r.path : r \in {q \in rows : q.id = frame.id}}]
        /\ purge' = purge /\ spoilt' = spoilt \cup (purge.unlink \cap {frame.path})
    BY <1>1 DEF ImportRead
  <2>2. \A p \in import'.found : p = import'.frame.path \/ (p.uuid = import'.frame.id /\ p.uuid # NoUuid)
    BY <2>1, FoundTellPaths
  <2>3. QED
    BY <2>1, <2>2 DEF ImportInv
<1>2. CASE ImportWrite
  <2>1. import' = [import EXCEPT !.step = "inserting"] /\ import.frame.path \in DOMAIN files' /\ UNCHANGED <<purge, spoilt>>
    BY <1>2 DEF ImportWrite, Put
  <2>2. import # NoImport
    BY <1>0, <1>2 DEF ImportWrite
  <2>3. import'.step = "inserting" /\ import'.frame = import.frame /\ import'.found = import.found
    BY <1>0, <2>1, <2>2
  <2>4. QED
    BY <2>1, <2>2, <2>3 DEF ImportInv
<1>3. CASE ImportInsert
  <2>1. CASE deviceRow
    <3>1. import' = [import EXCEPT !.step = "unlinking"] /\ UNCHANGED <<purge, spoilt>>
      BY <1>3, <2>1 DEF ImportInsert
    <3>2. import # NoImport
      BY <1>0, <1>3 DEF ImportInsert
    <3>3. import'.step = "unlinking" /\ import'.frame = import.frame /\ import'.found = import.found
      BY <1>0, <3>1, <3>2
    <3>4. \A r \in rows' : r.path \notin import.found \ {import.frame.path}
      <4>1. SUFFICES ASSUME NEW r \in rows', r.path \in import.found, r.path # import.frame.path PROVE FALSE
        OBVIOUS
      <4>2. r \in rows /\ (r.id # import.frame.id \/ r.id = NoUuid)
        BY <1>3, <2>1, <4>1 DEF ImportInsert, Upsert
      <4>3. r.path.uuid = import.frame.id /\ r.path.uuid # NoUuid
        BY <3>2, <4>1 DEF ImportInv
      <4>4. QED
        BY <4>2, <4>3 DEF IdsTellPaths
    <3>5. QED
      BY <3>1, <3>2, <3>3, <3>4 DEF ImportInv, Replaced
  <2>2. CASE ~deviceRow
    BY <1>3, <2>2 DEF ImportInsert, ImportInv
  <2>3. QED
    BY <2>1, <2>2
<1>4. ASSUME NEW task \in persists, InsertRow(task) PROVE ImportInv'
  <2>1. UNCHANGED <<files, import, purge, spoilt>> /\ \A r \in rows' : r \in rows \/ r.path = TaskPath(task)
    BY <1>4 DEF InsertRow, Upsert, TaskPath
  <2>2. import.step = "unlinking" => \A r \in rows' : r.path \notin import.found \ {import.frame.path}
    BY <2>1, <1>0 DEF TasksOwnPaths, ImportInv, Replaced
  <2>3. QED
    BY <2>1, <2>2 DEF ImportInv, Replaced
<1>5. CASE PurgeRead
  <2>0. purge \in PurgeType
    BY DEF TypeOK, PurgeType
  <2>1. UNCHANGED <<files, rows, import>>
    BY <1>5 DEF PurgeRead
  <2>2. \/ purge'.unlink = {} /\ spoilt' = spoilt
        \/ spoilt' = spoilt \cup (IF import.step = "none" THEN {} ELSE purge'.unlink \cap {import.frame.path})
    <3>1. PICK read, paths :
             /\ read \in SUBSET rows
             /\ \/ purge' = NoPurge /\ UNCHANGED spoilt
                \/ /\ purge'.unlink = paths
                   /\ spoilt' = spoilt \cup (IF import.step = "none" THEN {} ELSE paths \cap {import.frame.path})
      BY <1>5, <2>0, PurgeReads
    <3>2. NoPurge.unlink = {}
      BY DEF NoPurge
    <3>3. QED
      BY <3>1, <3>2
  <2>3. QED
    BY <1>0, <2>1, <2>2 DEF ImportInv, Replaced
<1>6. ASSUME NEW path \in purge.unlink, PurgeUnlink(path) PROVE ImportInv'
  <2>1. UNCHANGED <<rows, import, spoilt>> /\ DOMAIN files' = DOMAIN files \ {path} /\ purge'.unlink \subseteq purge.unlink
    BY <1>6 DEF PurgeUnlink, Drop, TypeOK
  <2>2. QED
    BY <2>1 DEF ImportInv, Replaced
<1>7. CASE import' = NoImport
  BY <1>7 DEF ImportInv
<1>8. CASE /\ UNCHANGED import /\ spoilt \subseteq spoilt' /\ rows' \subseteq rows
           /\ DOMAIN files \subseteq DOMAIN files' /\ purge'.unlink \subseteq purge.unlink
  BY <1>8 DEF ImportInv, Replaced
<1>9. \A task \in persists : Rename(task) => DOMAIN files \subseteq DOMAIN files'
  BY DEF Rename, Put
<1>10. \A kind, scope : PurgeStart(kind, scope) => purge'.unlink = {}
  BY DEF PurgeStart, NoPurge
<1>11. PurgeDelete => purge'.unlink = purge.unlink
  BY DEF PurgeDelete, TypeOK
<1>12. PurgeEnd \/ PurgeError => purge'.unlink = {}
  BY DEF PurgeEnd, PurgeError, NoPurge
<1>n. PurgeNext => purge'.unlink = purge.unlink
  BY DEF PurgeNext, TypeOK
<1>e. ImportError => import' = NoImport
  BY DEF ImportError
<1>13. QED
  BY <1>1, <1>2, <1>3, <1>4, <1>5, <1>6, <1>7, <1>8, <1>9, <1>10, <1>11, <1>12, <1>n, <1>e
  DEF Next, vars, Ingest, Flush, Persist, WriteFile, Rename, InsertRetried, PersistError, Export, Import,
      ImportUnlink, Purge, PurgeStart, PurgeDelete, PurgeError, PurgeNext, PurgeEnd, Register, Tick, Restart

LEMMA PurgeStep ==
  TypeOK /\ TasksOwnPaths /\ ImportInv /\ PurgeInv /\ [Next]_vars => PurgeInv'
<1> SUFFICES ASSUME TypeOK, TasksOwnPaths, ImportInv, PurgeInv, [Next]_vars PROVE PurgeInv'
  OBVIOUS
<1> USE DEF stores
<1>0. purge \in PurgeType
  BY DEF TypeOK, PurgeType
<1>1. CASE PurgeRead
  <2>1. PICK read, paths :
           /\ read \in SUBSET rows
           /\ paths = {r.path : r \in read}
           /\ \A r \in read : InScope(r)
           /\ \/ purge' = NoPurge
              \/ /\ purge'.step = "deleting" /\ purge'.unlink = paths
                 /\ purge'.kind = purge.kind /\ purge'.scope = purge.scope /\ purge'.parted = purge.parted
    BY <1>0, <1>1, PurgeReads
  <2>2. CASE purge' = NoPurge
    BY <2>2 DEF PurgeInv, NoPurge
  <2>3. CASE purge' # NoPurge
    <3>1. \A p \in paths : p.at \in purge.scope
      BY <2>1 DEF InScope
    <3>2. QED
      BY <2>1, <2>3, <3>1 DEF PurgeInv
  <2>4. QED
    BY <2>2, <2>3
<1>2. CASE PurgeDelete
  <2>1. /\ purge.step = "deleting" /\ purge'.step = "unlinking" /\ purge'.unlink = purge.unlink
        /\ purge'.kind = purge.kind /\ purge'.scope = purge.scope /\ purge'.parted = purge.parted \cup Parted
        /\ rows' = rows \ ToDelete /\ spoilt' = spoilt
    BY <1>0, <1>2 DEF PurgeDelete, PurgeType
  <2>2. ASSUME NEW r \in rows', r.path \in purge.unlink PROVE r.path \in Parted
    <3>1. r \in rows /\ r \notin ToDelete
      BY <2>1, <2>2
    <3>2. InScope(r)
      BY <2>2 DEF PurgeInv, InScope
    <3>3. QED
      BY <2>2, <3>1, <3>2 DEF ToDelete, Parted
  <2>3. Parted \subseteq purge.unlink /\ (Parted # {} => purge.kind = "batch")
    BY DEF Parted
  <2>4. QED
    BY <2>1, <2>2, <2>3 DEF PurgeInv
<1>3. ASSUME NEW path \in purge.unlink, PurgeUnlink(path) PROVE PurgeInv'
  <2>1. /\ purge.step = "unlinking" /\ purge'.step = "unlinking" /\ purge'.unlink = purge.unlink \ {path}
        /\ purge'.kind = purge.kind /\ purge'.scope = purge.scope /\ purge'.parted = purge.parted
        /\ UNCHANGED <<rows, spoilt>>
    BY <1>0, <1>3 DEF PurgeUnlink, PurgeType
  <2>2. QED
    BY <2>1 DEF PurgeInv
<1>4. CASE purge'.unlink = {} /\ purge'.parted = {}
  BY <1>4 DEF PurgeInv
<1>5. CASE purge' = purge
  <2>1. ASSUME NEW r \in rows', r.path \in purge.unlink, r.path \notin spoilt'
        PROVE  purge.step = "deleting" \/ r.path \in purge.parted
    <3>1. r.path \notin spoilt
      BY <2>1, RowsStep
    <3>2. CASE r \in rows
      BY <2>1, <3>1, <3>2 DEF PurgeInv
    <3>3. ASSUME NEW task \in persists, r.path = TaskPath(task) PROVE FALSE
      BY <2>1, <3>3 DEF TasksOwnPaths
    <3>4. CASE import.step = "inserting" /\ r = import.frame
      <4>1. import # NoImport
        BY <3>4 DEF NoImport
      <4>2. QED
        BY <2>1, <3>1, <3>4, <4>1 DEF ImportInv
    <3>5. QED
      BY <3>2, <3>3, <3>4, RowsStep
  <2>2. QED
    BY <1>5, <2>1 DEF PurgeInv
<1>6. CASE PurgeNext
  <2>1. /\ purge'.unlink = {} /\ purge'.step # "none"
        /\ purge'.kind = purge.kind /\ purge'.scope = purge.scope /\ purge'.parted = purge.parted
    BY <1>0, <1>6 DEF PurgeNext, PurgeType
  <2>2. QED
    BY <2>1 DEF PurgeInv
<1>7. \A kind, scope : PurgeStart(kind, scope) => purge'.unlink = {} /\ purge'.parted = {}
  BY DEF PurgeStart, NoPurge
<1>8. PurgeEnd \/ PurgeError \/ Restart => purge'.unlink = {} /\ purge'.parted = {}
  BY DEF PurgeEnd, PurgeError, Restart, NoPurge
<1>9. QED
  BY <1>1, <1>2, <1>3, <1>4, <1>5, <1>6, <1>7, <1>8
  DEF Next, vars, Ingest, Flush, Persist, WriteFile, Rename, InsertRow, InsertRetried, PersistError, Export, Import,
      ImportRead, ImportWrite, ImportInsert, ImportUnlink, ImportError, Purge, Register, Tick

\* The files of rows stay, but for those a purge in batches parts.
LEMMA FilesStep ==
  TypeOK /\ TasksOwnPaths /\ FilesAreThere /\ ImportInv /\ PurgeInv /\ [Next]_vars => FilesAreThere'
<1> SUFFICES ASSUME TypeOK, TasksOwnPaths, FilesAreThere, ImportInv, PurgeInv, [Next]_vars,
                    NEW r \in rows', r.path \notin spoilt'
             PROVE  r.path \in DOMAIN files' \cup purge'.parted
  BY DEF FilesAreThere
<1> USE DEF stores
<1>0. r.path \notin spoilt /\ purge \in PurgeType
  BY RowsStep DEF TypeOK, PurgeType
<1>1. CASE r \notin rows
  <2>1. ASSUME NEW task \in persists, task.step = "inserting", r.path = TaskPath(task), files' = files
        PROVE  r.path \in DOMAIN files'
    BY <2>1 DEF TasksOwnPaths
  <2>2. CASE (ImportInsert \/ ImportError) /\ import.step = "inserting" /\ r = import.frame
    <3>1. import # NoImport /\ files' = files
      BY <2>2 DEF ImportInsert, ImportError, NoImport
    <3>2. QED
      BY <1>0, <2>2, <3>1 DEF ImportInv
  <2>3. QED
    BY <1>1, <2>1, <2>2, RowsStep
<1>2. CASE r \in rows
  <2>0. r.path \in DOMAIN files \cup purge.parted
    BY <1>0, <1>2 DEF FilesAreThere
  <2>1. ASSUME NEW path \in purge.unlink, PurgeUnlink(path) PROVE r.path \in DOMAIN files' \cup purge'.parted
    <3>1. purge.step = "unlinking" /\ DOMAIN files' = DOMAIN files \ {path} /\ purge'.parted = purge.parted
      BY <1>0, <2>1 DEF PurgeUnlink, Drop, PurgeType
    <3>2. r.path = path => r.path \in purge.parted
      BY <1>0, <1>2, <3>1 DEF PurgeInv
    <3>3. QED
      BY <2>0, <3>1, <3>2
  <2>2. CASE ImportUnlink
    <3>1. import # NoImport /\ import.step = "unlinking" /\ DOMAIN files' = DOMAIN files \ Replaced /\ purge' = purge
      BY <2>2 DEF ImportUnlink, Drop, NoImport
    <3>2. QED
      BY <1>2, <2>0, <3>1 DEF ImportInv
  <2>3. CASE DOMAIN files \subseteq DOMAIN files' /\ purge.parted \subseteq purge'.parted \cup spoilt'
    BY <2>0, <2>3
  <2>4. (\E task \in persists : Rename(task)) \/ ImportWrite => DOMAIN files \subseteq DOMAIN files'
    BY DEF Rename, ImportWrite, Put
  <2>5. CASE PurgeRead
    <3>1. \/ purge'.parted = purge.parted
          \/ \A q \in rows : ~InScope(q)
      BY <1>0, <2>5, PurgeReads
    <3>2. r.path \in purge.parted => InScope(r)
      BY DEF PurgeInv, InScope
    <3>3. files' = files
      BY <2>5 DEF PurgeRead
    <3>4. QED
      BY <1>2, <2>0, <3>1, <3>2, <3>3
  <2>6. PurgeEnd \/ PurgeError \/ Restart => purge.parted \subseteq spoilt' /\ files' = files
    BY DEF PurgeEnd, PurgeError, Restart
  <2>7. \A kind, scope : PurgeStart(kind, scope) => purge.parted = {}
    BY DEF PurgeStart, PurgeInv
  <2>8. PurgeDelete \/ PurgeNext => purge.parted \subseteq purge'.parted
    BY <1>0 DEF PurgeDelete, PurgeNext, PurgeType
  <2>9. QED
    BY <2>1, <2>2, <2>3, <2>4, <2>5, <2>6, <2>7, <2>8
    DEF Next, vars, Ingest, Flush, Persist, WriteFile, Rename, InsertRow, InsertRetried, PersistError, Export, Import,
        ImportRead, ImportWrite, ImportInsert, ImportError, Purge, PurgeStart, PurgeDelete, PurgeNext,
        Register, Tick
<1>3. QED
  BY <1>1, <1>2

LEMMA FramesInvAlways == Spec => [](TypeOK /\ FramesInv)
<1>1. Init => TasksOwnPaths /\ IdsTellPaths /\ FilesAreThere /\ ImportInv /\ PurgeInv
  BY DEF Init, TasksOwnPaths, IdsTellPaths, FilesAreThere, ImportInv, PurgeInv, NoPurge
<1>2. TypeOK /\ FramesInv /\ [Next]_vars => FramesInv'
  BY PendingStep, NamesStep, TasksStep, IdsStep, ImportStep, PurgeStep, FilesStep DEF FramesInv
<1>3. Init => FramesInv
  BY <1>1, InitNames DEF FramesInv
<1>4. QED
  BY <1>2, <1>3, TypeCorrect, PTL DEF Spec

\* A row names a file that is there and has its content, for any captures, uuids, windows, batch sizes,
\* imports, purges, failures and restarts.  The file is missing only while a purge in batches that unlinked
\* it for one row has the other row of its path ahead, after such a purge stopped early, or once a purge and
\* an import were at work on the path at once (persistFrame, importArchiveFrame, unlinkFiles,
\* purgeDeviceFramesBatchUntil).
THEOREM RowsAlwaysMatchFiles == Spec => []RowMatchesFile
<1>1. FramesInv => RowMatchesFile
  <2> SUFFICES ASSUME FramesInv, NEW r \in rows, r.path \notin spoilt
               PROVE  IF r.path \in DOMAIN files THEN files[r.path] = r.content ELSE HalfPurged(r)
    BY DEF RowMatchesFile
  <2>1. CASE r.path \in DOMAIN files
    <3>1. <<r.path, r.content>> \in Named /\ <<r.path, files[r.path]>> \in Named
      BY <2>1, RowPaths
    <3>2. QED
      BY <2>1, <3>1 DEF FramesInv, OneContent
  <2>2. CASE r.path \notin DOMAIN files
    <3>1. r.path \in purge.parted
      BY <2>2 DEF FramesInv, FilesAreThere
    <3>2. QED
      BY <2>2, <3>1 DEF FramesInv, PurgeInv, HalfPurged, InScope
  <2>3. QED
    BY <2>1, <2>2
<1>2. QED
  BY <1>1, FramesInvAlways, PTL

=============================================================================
