------------------------- MODULE CommandLifecycleProofs -------------------------
(***************************************************************************)
(* Theorems about CommandLifecycle for any devices, commands, acks and     *)
(* timeouts: types, coherence of records, and agreement of memory with the *)
(* table.                                                                  *)
(***************************************************************************)
EXTENDS CommandLifecycle, FiniteSetTheorems, TLAPS

(* Lemmas about the operators.                                             *)

\* slice(-n) never returns more than n elements, and keeps the element type.
LEMMA KeepLastType ==
  ASSUME NEW S, NEW s \in Seq(S), NEW n \in Nat \ {0}
  PROVE  /\ KeepLast(s, n) \in Seq(S)
         /\ Len(KeepLast(s, n)) <= n
         /\ s # <<>> => KeepLast(s, n) # <<>>
<1>1. CASE Len(s) <= n
  BY <1>1 DEF KeepLast
<1>2. CASE Len(s) > n
  <2>1. KeepLast(s, n) = SubSeq(s, Len(s) - n + 1, Len(s))
    BY <1>2 DEF KeepLast
  <2>2. /\ Len(s) - n + 1 \in 1..Len(s)
        /\ Len(s) \in Nat
    BY <1>2
  <2>3. /\ SubSeq(s, Len(s) - n + 1, Len(s)) \in Seq(S)
        /\ Len(SubSeq(s, Len(s) - n + 1, Len(s))) = n
    BY <2>2
  <2>4. SubSeq(s, Len(s) - n + 1, Len(s)) # <<>>
    BY <2>3, Len(<<>>) = 0
  <2>5. QED
    BY <2>1, <2>3, <2>4
<1>3. QED
  BY <1>1, <1>2

\* The records the service computes are records.
LEMMA ResolveTimeoutType == ASSUME NEW c \in Commands PROVE ResolveTimeout(c) \in Nat
  BY CommandAssumption DEF ResolveTimeout

LEMMA SentRecordType ==
  ASSUME NEW c \in Commands, clock \in Nat
  PROVE  SentRecord(c) \in Record /\ Coherent(SentRecord(c))
  BY ResolveTimeoutType, CommandAssumption
  DEF SentRecord, Record, History, Time, Never, Coherent

LEMMA AckedRecordType ==
  ASSUME NEW r \in Record, NEW a \in Acks, clock \in Nat
  PROVE  /\ AckedRecord(r, a) \in Record
         /\ Coherent(r) /\ r.status # "timeout" => Coherent(AckedRecord(r, a))
<1> DEFINE h == Append(r.history, a)
<1>1. h \in Seq(Acks) /\ h # <<>>
  BY DEF Record, History
<1>2. /\ KeepLast(h, MaxAckHistory) \in History
      /\ KeepLast(h, MaxAckHistory) # <<>>
  BY <1>1, KeepLastType, CommandAssumption DEF History
<1>3. /\ AckedRecord(r, a).status = "acked"
      /\ AckedRecord(r, a).timeoutAt = r.timeoutAt
      /\ AckedRecord(r, a).ackedAt = IF r.ackedAt = Never THEN clock ELSE r.ackedAt
      /\ AckedRecord(r, a).timeoutedAt = r.timeoutedAt
      /\ AckedRecord(r, a).history = KeepLast(h, MaxAckHistory)
  BY DEF AckedRecord, Record
<1>4. AckedRecord(r, a) \in Record
  BY <1>2 DEF AckedRecord, Record, Time
<1>5. Coherent(r) /\ r.status # "timeout" => Coherent(AckedRecord(r, a))
  BY <1>2, <1>3 DEF Coherent, Never, Record, Time
<1>6. QED
  BY <1>4, <1>5

LEMMA TimedOutRecordType ==
  ASSUME NEW r \in Record, NEW now \in Nat
  PROVE  /\ TimedOutRecord(r, now) \in Record
         /\ Coherent(r) /\ r.status = "sent" /\ r.timeoutAt <= now
              => Coherent(TimedOutRecord(r, now))
<1>1. /\ TimedOutRecord(r, now).status = "timeout"
      /\ TimedOutRecord(r, now).timeoutAt = r.timeoutAt
      /\ TimedOutRecord(r, now).ackedAt = r.ackedAt
      /\ TimedOutRecord(r, now).timeoutedAt = now
      /\ TimedOutRecord(r, now).history = r.history
  BY DEF TimedOutRecord, Record
<1>2. TimedOutRecord(r, now) \in Record
  BY DEF TimedOutRecord, Record, Time
<1>3. now # Never
  BY DEF Never
<1>4. Coherent(r) /\ r.status = "sent" => r.ackedAt = Never /\ r.history = <<>>
  BY DEF Coherent
<1>5. QED
  BY <1>1, <1>2, <1>3, <1>4 DEF Coherent

-----------------------------------------------------------------------------
(* Types.                                                                  *)

\* Setting a record in memory keeps the types of the Map's model.
LEMMA SetMemoryType ==
  ASSUME TypeOK, NEW w \in writes, SetMemory(w)
  PROVE  /\ mem' \in [Commands -> Record \cup {NoRecord}]
         /\ place' \in [Commands -> Nat]
         /\ inserted' \in Nat
  BY DEF TypeOK, SetMemory, Write

\* A new write is a write, and so is one marked as stored.
LEMMA WriteOfType ==
  ASSUME NEW b \in Writers, NEW c \in Commands, NEW r \in Record
  PROVE  WriteOf(b, c, r) \in Write
  BY DEF WriteOf, Write

LEMMA StoredType ==
  ASSUME NEW w \in Write
  PROVE  /\ [w EXCEPT !.stored = TRUE] \in Write
         /\ [w EXCEPT !.stored = TRUE].rec = w.rec
         /\ [w EXCEPT !.stored = TRUE].cmd = w.cmd
         /\ [w EXCEPT !.stored = TRUE].by = w.by
         /\ [w EXCEPT !.stored = TRUE].stored
  BY DEF Write

LEMMA CandidateType ==
  ASSUME TypeOK
  PROVE  /\ TimedOutCandidates \subseteq Candidate
         /\ \A s \in TimedOutCandidates :
              s.rec = mem[s.cmd] /\ s.rec # NoRecord
              /\ s.rec.status = "sent" /\ s.rec.timeoutAt <= clock
<1> SUFFICES ASSUME NEW s \in TimedOutCandidates
             PROVE  /\ s \in Candidate
                    /\ s.rec = mem[s.cmd] /\ s.rec # NoRecord
                    /\ s.rec.status = "sent" /\ s.rec.timeoutAt <= clock
  OBVIOUS
<1>1. PICK c \in Commands :
        /\ s = [cmd |-> c, rec |-> mem[c], place |-> place[c]]
        /\ mem[c] # NoRecord /\ mem[c].status = "sent" /\ mem[c].timeoutAt <= clock
  BY DEF TimedOutCandidates
<1>2. QED
  BY <1>1 DEF TypeOK, Candidate

LEMMA FirstSubset == ASSUME NEW S PROVE First(S) \subseteq S
  BY DEF First

LEMMA RaceOfType == ASSUME NEW c \in Commands, NEW r PROVE RaceOf(c, r) \subseteq Commands
  BY DEF RaceOf

\* The type invariant, for every value of the constants.
THEOREM TypeCorrect == Spec => []TypeOK
<1>1. Init => TypeOK
  <2> SUFFICES ASSUME Init PROVE TypeOK
    OBVIOUS
  <2>1. /\ mem \in [Commands -> Record \cup {NoRecord}]
        /\ db \in [Commands -> Record \cup {NoRecord}]
        /\ place \in [Commands -> Nat] /\ inserted \in Nat /\ clock \in Nat
    BY DEF Init
  <2>2. /\ known \in [Devices -> BOOLEAN]
        /\ deviceRow \in [Devices -> BOOLEAN]
        /\ deletion \in [Devices -> Stages]
        /\ online \subseteq Devices
    BY DEF Init, Stages
  <2>3. left \in [failures : Nat, deletions : Nat, restarts : Nat]
    BY CommandAssumption DEF Init
  <2>4. QED
    BY <2>1, <2>2, <2>3 DEF Init, TypeOK
<1>2. TypeOK /\ [Next]_vars => TypeOK'
  <2> SUFFICES ASSUME TypeOK, [Next]_vars PROVE TypeOK'
    OBVIOUS
  <2>0. CASE UNCHANGED vars
    BY <2>0 DEF vars, TypeOK
  <2>1. ASSUME NEW c \in Commands, Create(c) PROVE TypeOK'
    <3>1. WriteOf(c, c, SentRecord(c)) \in Write
      BY SentRecordType, WriteOfType DEF TypeOK, Writers
    <3>2. QED
      BY <2>1, <3>1, RaceOfType DEF Create, TypeOK, map, sweep, Writers
  <2>2. ASSUME NEW a \in Acks, NEW d \in Devices, NEW c \in Commands, Acknowledge(a, d, c)
        PROVE  TypeOK'
    <3>1. mem[c] \in Record
      BY <2>2 DEF Acknowledge, TypeOK
    <3>2. WriteOf(a, c, AckedRecord(mem[c], a)) \in Write
      BY <3>1, AckedRecordType, WriteOfType DEF TypeOK, Writers
    <3>3. QED
      BY <2>2, <3>2, RaceOfType DEF Acknowledge, TypeOK, map, sweep, Writers
  <2>3. CASE SweepTick
    <3>1. PICK s \in First(TimedOutCandidates) :
            /\ writes' = writes \cup {WriteOf(Sweep, s.cmd, TimedOutRecord(s.rec, clock))}
            /\ raced' = raced \cup RaceOf(s.cmd, s.rec)
            /\ snapshot' = TimedOutCandidates \ {s}
      BY <2>3 DEF SweepTick
    <3>2. s \in Candidate /\ snapshot' \subseteq Candidate
      BY <3>1, CandidateType, FirstSubset
    <3>3. s.cmd \in Commands /\ s.rec \in Record
      BY <3>2 DEF Candidate
    <3>4. WriteOf(Sweep, s.cmd, TimedOutRecord(s.rec, clock)) \in Write
      BY <3>3, TimedOutRecordType, WriteOfType DEF TypeOK, Writers
    <3>5. RaceOf(s.cmd, s.rec) \subseteq Commands
      BY <3>3, RaceOfType
    <3>6. QED
      BY <2>3, <3>1, <3>2, <3>4, <3>5 DEF SweepTick, TypeOK, map
  <2>4. ASSUME NEW w \in writes, StoreWrite(w) PROVE TypeOK'
    <3>1. w \in Write /\ w.cmd \in Commands /\ w.rec \in Record
      BY DEF TypeOK, Write
    <3>2. [w EXCEPT !.stored = TRUE] \in Write
      BY <3>1, StoredType
    <3>3. db' \in [Commands -> Record \cup {NoRecord}] /\ writes' \subseteq Write
      BY <2>4, <3>1, <3>2 DEF StoreWrite, TypeOK
    <3>4. QED
      BY <2>4, <3>3 DEF StoreWrite, TypeOK, map, sweep
  <2>5. ASSUME NEW w \in writes, FailWrite(w) PROVE TypeOK'
    <3>1. left' \in [failures : Nat, deletions : Nat, restarts : Nat]
      BY <2>5 DEF FailWrite, TypeOK
    <3>2. unsure' \subseteq Commands /\ writes' \subseteq Write
      BY <2>5 DEF FailWrite, TypeOK, Write
    <3>3. sweeping' \in BOOLEAN /\ snapshot' \subseteq Candidate /\ sweepNow' \in Nat
      BY <2>5 DEF FailWrite, TypeOK, sweep
    <3>4. QED
      BY <2>5, <3>1, <3>2, <3>3 DEF FailWrite, TypeOK, map
  <2>6. ASSUME NEW w \in writes, FinishCreate(w) PROVE TypeOK'
    BY <2>6, SetMemoryType DEF FinishCreate, TypeOK, sweep
  <2>7. ASSUME NEW w \in writes, FinishAcknowledge(w) PROVE TypeOK'
    <3>1. <<w.by, w.cmd>> \in Acks \X Commands
      BY <2>7 DEF FinishAcknowledge, TypeOK, Write
    <3>2. QED
      BY <2>7, <3>1, SetMemoryType DEF FinishAcknowledge, TypeOK, sweep
  <2>8. ASSUME NEW w \in writes, SweepNext(w) PROVE TypeOK'
    <3>1. PICK s \in First(snapshot) :
            /\ writes' = (writes \ {w}) \cup
                           {WriteOf(Sweep, s.cmd, TimedOutRecord(s.rec, sweepNow))}
            /\ raced' = raced \cup RaceOf(s.cmd, s.rec)
            /\ snapshot' = snapshot \ {s}
      BY <2>8 DEF SweepNext
    <3>2. s.cmd \in Commands /\ s.rec \in Record
      BY FirstSubset DEF TypeOK, Candidate
    <3>3. WriteOf(Sweep, s.cmd, TimedOutRecord(s.rec, sweepNow)) \in Write
      BY <3>2, TimedOutRecordType, WriteOfType DEF TypeOK, Writers
    <3>4. RaceOf(s.cmd, s.rec) \subseteq Commands
      BY <3>2, RaceOfType
    <3>5. QED
      BY <2>8, <3>1, <3>3, <3>4, SetMemoryType DEF SweepNext, TypeOK
  <2>9. ASSUME NEW w \in writes, SweepEnd(w) PROVE TypeOK'
    BY <2>9, SetMemoryType DEF SweepEnd, TypeOK
  <2>10. ASSUME NEW d \in Devices, DeleteRequest(d) PROVE TypeOK'
    BY <2>10 DEF DeleteRequest, TypeOK, map, sweep, Stages, Owned
  <2>11. ASSUME NEW d \in Devices, DeleteCommandRows(d) PROVE TypeOK'
    BY <2>11 DEF DeleteCommandRows, TypeOK, map, sweep, Stages, Without
  <2>12. ASSUME NEW d \in Devices, DeleteFromMemory(d) PROVE TypeOK'
    BY <2>12 DEF DeleteFromMemory, TypeOK, sweep, Stages, Without
  <2>13. ASSUME NEW d \in Devices, RemoveCommandRows(d) PROVE TypeOK'
    BY <2>13 DEF RemoveCommandRows, TypeOK, map, sweep, Stages, Without
  <2>14. ASSUME NEW d \in Devices, RemoveDevice(d) PROVE TypeOK'
    BY <2>14 DEF RemoveDevice, TypeOK, map, sweep, Stages
  <2>20. ASSUME NEW d \in Devices, FailDeletion(d) PROVE TypeOK'
    <3>1. left' \in [failures : Nat, deletions : Nat, restarts : Nat]
      BY <2>20 DEF FailDeletion, TypeOK
    <3>2. unsure' \subseteq Commands
      BY <2>20 DEF FailDeletion, TypeOK, Owned
    <3>3. deviceRow' \in [Devices -> BOOLEAN]
      BY <2>20 DEF FailDeletion, TypeOK
    <3>4. deletion' \in [Devices -> Stages]
      BY <2>20 DEF FailDeletion, TypeOK, Stages
    <3>5. QED
      BY <2>20, <3>1, <3>2, <3>3, <3>4 DEF FailDeletion, TypeOK, map, sweep
  <2>15. ASSUME NEW d \in Devices, Connect(d) PROVE TypeOK'
    BY <2>15 DEF Connect, TypeOK, map, sweep
  <2>16. ASSUME NEW d \in Devices, Disconnect(d) PROVE TypeOK'
    BY <2>16 DEF Disconnect, TypeOK, map, sweep
  <2>17. CASE Tick
    BY <2>17 DEF Tick, TypeOK, map, sweep
  <2>18. CASE Restart
    <3>1. Cardinality(Commands) \in Nat
      BY CommandAssumption, FS_CardinalityType
    <3>2. \A c \in Commands :
            Cardinality({e \in Commands : db[e] # NoRecord /\ SentAt(e) < SentAt(c)}) \in Nat
      BY CommandAssumption, FS_CardinalityType, FS_Subset
    <3>3. place' \in [Commands -> Nat]
      BY <2>18, <3>2 DEF Restart
    <3>4. left' \in [failures : Nat, deletions : Nat, restarts : Nat]
      BY <2>18 DEF Restart, TypeOK
    <3>5. QED
      BY <2>18, <3>1, <3>3, <3>4 DEF Restart, TypeOK, Stages
  <2>19. QED
    BY <2>0, <2>1, <2>2, <2>3, <2>4, <2>5, <2>6, <2>7, <2>8, <2>9, <2>10, <2>11, <2>12,
       <2>13, <2>14, <2>15, <2>16, <2>17, <2>18, <2>20 DEF Next
<1>3. QED
  BY <1>1, <1>2, PTL DEF Spec

-----------------------------------------------------------------------------
(* Coherence of records.                                                   *)

RecordInv == RecordsCoherent /\ InFlightCoherent

\* Coherence of every record is inductive: a write carries a record computed
\* from one coherent record, and a record is only ever replaced as a whole.
LEMMA RecordInvStep == TypeOK /\ TypeOK' /\ RecordInv /\ [Next]_vars => RecordInv'
<1> SUFFICES ASSUME TypeOK, TypeOK', RecordInv, [Next]_vars PROVE RecordInv'
  OBVIOUS
<1> USE DEF RecordInv
<1>0. CASE UNCHANGED vars
  BY <1>0 DEF vars, RecordsCoherent, InFlightCoherent
<1>a. ASSUME NEW w \in writes, SetMemory(w), UNCHANGED db
      PROVE  RecordsCoherent'
  BY <1>a DEF SetMemory, RecordsCoherent, InFlightCoherent, TypeOK
<1>b. ASSUME NEW b, NEW c, NEW r, Coherent(r)
      PROVE  Coherent(WriteOf(b, c, r).rec)
  BY <1>b DEF WriteOf
<1>1. ASSUME NEW c \in Commands, Create(c) PROVE RecordInv'
  <2>1. Coherent(SentRecord(c))
    BY SentRecordType DEF TypeOK
  <2>2. QED
    BY <1>1, <1>b, <2>1 DEF Create, RecordsCoherent, InFlightCoherent, map, sweep
<1>2. ASSUME NEW a \in Acks, NEW d \in Devices, NEW c \in Commands, Acknowledge(a, d, c)
      PROVE  RecordInv'
  <2>1. Coherent(AckedRecord(mem[c], a))
    BY <1>2, AckedRecordType DEF Acknowledge, TypeOK, RecordsCoherent
  <2>2. QED
    BY <1>2, <1>b, <2>1 DEF Acknowledge, RecordsCoherent, InFlightCoherent, map, sweep
<1>3. CASE SweepTick
  <2>1. PICK s \in First(TimedOutCandidates) :
          /\ writes' = writes \cup {WriteOf(Sweep, s.cmd, TimedOutRecord(s.rec, clock))}
          /\ snapshot' = TimedOutCandidates \ {s}
    BY <1>3 DEF SweepTick
  <2>2. \A t \in TimedOutCandidates :
          t.rec \in Record /\ Coherent(t.rec) /\ t.rec.status = "sent" /\ t.rec.timeoutAt <= clock
    BY CandidateType DEF Candidate, RecordsCoherent
  <2>3. Coherent(TimedOutRecord(s.rec, clock))
    BY <2>2, FirstSubset, TimedOutRecordType DEF TypeOK
  <2>4. QED
    BY <1>3, <1>b, <2>1, <2>2, <2>3 DEF SweepTick, RecordsCoherent, InFlightCoherent, map
<1>4. ASSUME NEW w \in writes, StoreWrite(w) PROVE RecordInv'
  <2>1. [w EXCEPT !.stored = TRUE].rec = w.rec
    BY StoredType DEF TypeOK
  <2>2. QED
    BY <1>4, <2>1 DEF StoreWrite, RecordsCoherent, InFlightCoherent, TypeOK, map, sweep
<1>5. ASSUME NEW w \in writes, FailWrite(w) PROVE RecordInv'
  BY <1>5 DEF FailWrite, RecordsCoherent, InFlightCoherent, map, sweep
<1>6. ASSUME NEW w \in writes, FinishCreate(w) PROVE RecordInv'
  BY <1>6, <1>a DEF FinishCreate, InFlightCoherent, sweep
<1>7. ASSUME NEW w \in writes, FinishAcknowledge(w) PROVE RecordInv'
  BY <1>7, <1>a DEF FinishAcknowledge, InFlightCoherent, sweep
<1>8. ASSUME NEW w \in writes, SweepNext(w) PROVE RecordInv'
  <2>1. PICK s \in First(snapshot) :
          /\ writes' = (writes \ {w}) \cup
                         {WriteOf(Sweep, s.cmd, TimedOutRecord(s.rec, sweepNow))}
          /\ snapshot' = snapshot \ {s}
    BY <1>8 DEF SweepNext
  <2>2. Coherent(TimedOutRecord(s.rec, sweepNow))
    BY FirstSubset, TimedOutRecordType DEF TypeOK, Candidate, InFlightCoherent
  <2>3. InFlightCoherent'
    BY <1>8, <1>b, <2>1, <2>2 DEF SweepNext, InFlightCoherent
  <2>4. QED
    BY <1>8, <1>a, <2>3 DEF SweepNext
<1>9. ASSUME NEW w \in writes, SweepEnd(w) PROVE RecordInv'
  BY <1>9, <1>a DEF SweepEnd, InFlightCoherent
<1>10. ASSUME NEW d \in Devices, DeleteRequest(d) PROVE RecordInv'
  BY <1>10 DEF DeleteRequest, RecordsCoherent, InFlightCoherent, map, sweep
<1>11. ASSUME NEW d \in Devices, DeleteCommandRows(d) \/ RemoveCommandRows(d) PROVE RecordInv'
  BY <1>11 DEF DeleteCommandRows, RemoveCommandRows, RecordsCoherent, InFlightCoherent,
               map, sweep, Without
<1>12. ASSUME NEW d \in Devices, DeleteFromMemory(d) PROVE RecordInv'
  BY <1>12 DEF DeleteFromMemory, RecordsCoherent, InFlightCoherent, sweep, Without
<1>13. ASSUME NEW d \in Devices, RemoveDevice(d) \/ FailDeletion(d) \/ Connect(d) \/ Disconnect(d)
       PROVE  RecordInv'
  BY <1>13 DEF RemoveDevice, FailDeletion, Connect, Disconnect, RecordsCoherent, InFlightCoherent, map, sweep
<1>14. CASE Tick
  BY <1>14 DEF Tick, RecordsCoherent, InFlightCoherent, map, sweep
<1>15. CASE Restart
  BY <1>15 DEF Restart, RecordsCoherent, InFlightCoherent
<1>16. QED
  BY <1>0, <1>1, <1>2, <1>3, <1>4, <1>5, <1>6, <1>7, <1>8, <1>9, <1>10, <1>11, <1>12,
     <1>13, <1>14, <1>15 DEF Next

LEMMA RecordInvAlways == Spec => []RecordInv
<1>1. Init => RecordInv
  BY DEF Init, RecordInv, RecordsCoherent, InFlightCoherent
<1>2. QED
  BY <1>1, RecordInvStep, TypeCorrect, PTL DEF Spec

\* No record, in memory or in device_commands, ever mixes two outcomes.
THEOREM RecordsAlwaysCoherent == Spec => []RecordsCoherent
  BY RecordInvAlways, PTL DEF RecordInv

-----------------------------------------------------------------------------
(* What one step does to one command on which no two operations overlap.   *)

\* Nothing else is accepted for c than what was.
NoneAccepted(c) == \A p \in accepted' : p[2] = c => p \in accepted

SameStage(c) == deletion'[Owner[c]] = deletion[Owner[c]]

\* What was unsure stays so.
StillUnsure(c) == c \in unsure => c \in unsure'

\* The step is about other commands.
Untouched(c) ==
  /\ Pending(c)' = Pending(c) /\ mem'[c] = mem[c] /\ db'[c] = db[c]
  /\ SameStage(c) /\ NoneAccepted(c) /\ StillUnsure(c)

\* A write starts, computed from the record memory holds.
Computed(w, c) ==
  \/ c \notin used /\ w.by = c /\ mem[c] = NoRecord /\ w.rec = SentRecord(c)
  \/ /\ w.by \in Acks /\ mem[c] # NoRecord /\ mem[c].status # "timeout"
     /\ w.rec = AckedRecord(mem[c], w.by)
  \/ /\ w.by = Sweep /\ mem[c] # NoRecord /\ mem[c].status = "sent"
     /\ \E now \in Nat : w.rec = TimedOutRecord(mem[c], now)
Begun(c, w) ==
  /\ ~Busy(c) /\ Computed(w, c)
  /\ Pending(c)' = {w} /\ w.stored = FALSE
  /\ mem'[c] = mem[c] /\ db'[c] = db[c] /\ SameStage(c) /\ NoneAccepted(c) /\ StillUnsure(c)

\* The table takes it, ...
Stored(c, w) ==
  /\ w \in Pending(c) /\ Pending(c)' = {[w EXCEPT !.stored = TRUE]}
  /\ w.stored = FALSE /\ db'[c] = w.rec
  /\ mem'[c] = mem[c] /\ SameStage(c) /\ NoneAccepted(c) /\ StillUnsure(c)

\* ... it is reported failed, ...
Dropped(c, w) ==
  /\ w \in Pending(c) /\ Pending(c)' = {}
  /\ w.stored => c \in unsure'
  /\ mem'[c] = mem[c] /\ db'[c] = db[c] /\ SameStage(c) /\ NoneAccepted(c) /\ StillUnsure(c)

\* ... or memory takes it too.
Ended(c, w) ==
  /\ w \in Pending(c) /\ Pending(c)' = {} /\ w.stored = TRUE
  /\ mem'[c] = w.rec /\ db'[c] = db[c] /\ SameStage(c)
  /\ \A p \in accepted' : p[2] = c => p \in accepted \/ (w.by \in Acks /\ p[1] = w.by)

\* The device is removed, one statement after the other; one that fails ends it.
Removed(c) ==
  /\ Pending(c) = {} /\ Pending(c)' = {} /\ NoneAccepted(c)
  /\ LET from == deletion[Owner[c]]  to == deletion'[Owner[c]] IN
     \/ from = "idle" /\ to = "deleting" /\ StillUnsure(c) /\ mem'[c] = mem[c] /\ db'[c] = db[c]
     \/ from = "deleting" /\ to = "deleted" /\ StillUnsure(c) /\ mem'[c] = mem[c] /\ db'[c] = NoRecord
     \/ from = "deleted" /\ to = "purging" /\ mem'[c] = NoRecord /\ db'[c] = db[c]
     \/ from = "purging" /\ to = "removing" /\ StillUnsure(c) /\ mem'[c] = mem[c] /\ db'[c] = NoRecord
     \/ /\ from # "idle" /\ to = "idle" /\ StillUnsure(c) /\ mem'[c] = mem[c] /\ db'[c] = db[c]
        /\ from = "deleted" => mem[c] = NoRecord \/ c \in unsure'

Reloaded(c) ==
  /\ Pending(c)' = {} /\ deletion'[Owner[c]] = "idle" /\ NoneAccepted(c)
  /\ mem'[c] = db[c] /\ db'[c] = db[c]

StepOf(c) ==
  \/ Untouched(c) \/ Removed(c) \/ Reloaded(c)
  \/ \E w \in writes' : Begun(c, w)
  \/ \E w \in writes : Stored(c, w) \/ Dropped(c, w) \/ Ended(c, w)

\* One that is answered leaves its command without a write, and the others as they were.
LEMMA PendingRemove ==
  ASSUME NEW w \in writes, NEW c, Unraced(c)
  PROVE  /\ c # w.cmd => {v \in writes \ {w} : v.cmd = c} = Pending(c)
         /\ c = w.cmd => {v \in writes \ {w} : v.cmd = c} = {} /\ w \in Pending(c)
  BY DEF Pending, Unraced

\* A command that a new write does not race is at rest, and the write was computed from memory.
LEMMA NotRaced ==
  ASSUME NEW c, NEW base, c \notin RaceOf(c, base)
  PROVE  ~Busy(c) /\ base = mem[c] /\ Pending(c) = {}
  BY DEF RaceOf, Busy

LEMMA SetMemoryOf ==
  ASSUME NEW w \in writes, SetMemory(w), TypeOK, NEW c \in Commands
  PROVE  mem'[c] = IF c = w.cmd THEN w.rec ELSE mem[c]
  BY DEF SetMemory, TypeOK, Write

\* Whatever happens, it is one of these for such a command.
LEMMA OneStep ==
  ASSUME TypeOK, CommandInv, [Next]_vars, NEW c \in Commands, c \notin raced'
  PROVE  StepOf(c)
<1>r. ASSUME c \notin raced PROVE Unraced(c)
  BY <1>r DEF CommandInv
<1>0. CASE UNCHANGED vars
  BY <1>0 DEF vars, StepOf, Untouched, Pending, SameStage, StillUnsure, NoneAccepted
<1>1. ASSUME NEW k \in Commands, Create(k) PROVE StepOf(c)
  <2>1. /\ writes' = writes \cup {WriteOf(k, k, SentRecord(k))} /\ k \notin used
        /\ UNCHANGED <<mem, db, deletion, accepted, unsure>>
    BY <1>1 DEF Create, map
  <2>2. CASE c # k
    BY <2>1, <2>2 DEF WriteOf, StepOf, Untouched, SameStage, StillUnsure, NoneAccepted, Pending
  <2>3. CASE c = k
    <3>1. ~Busy(c) /\ NoRecord = mem[c] /\ Pending(c) = {}
      BY <1>1, <2>3, NotRaced DEF Create
    <3>2. Pending(c)' = {WriteOf(c, c, SentRecord(c))}
      BY <2>1, <2>3, <3>1 DEF WriteOf, Pending
    <3>3. Begun(c, WriteOf(c, c, SentRecord(c)))
      BY <2>1, <2>3, <3>1, <3>2 DEF WriteOf, Begun, Computed, SameStage, StillUnsure, NoneAccepted
    <3>4. QED
      BY <2>1, <2>3, <3>3 DEF StepOf
  <2>4. QED
    BY <2>2, <2>3
<1>2. ASSUME NEW a \in Acks, NEW d \in Devices, NEW k \in Commands, Acknowledge(a, d, k)
      PROVE  StepOf(c)
  <2>1. /\ writes' = writes \cup {WriteOf(a, k, AckedRecord(mem[k], a))}
        /\ mem[k] # NoRecord /\ mem[k].status # "timeout"
        /\ UNCHANGED <<mem, db, deletion, accepted, unsure>>
    BY <1>2 DEF Acknowledge, map
  <2>2. CASE c # k
    BY <2>1, <2>2 DEF WriteOf, StepOf, Untouched, SameStage, StillUnsure, NoneAccepted, Pending
  <2>3. CASE c = k
    <3>1. ~Busy(c) /\ Pending(c) = {}
      BY <1>2, <2>3, NotRaced DEF Acknowledge
    <3>2. Pending(c)' = {WriteOf(a, c, AckedRecord(mem[c], a))}
      BY <2>1, <2>3, <3>1 DEF WriteOf, Pending
    <3>3. Begun(c, WriteOf(a, c, AckedRecord(mem[c], a)))
      BY <2>1, <2>3, <3>1, <3>2 DEF WriteOf, Begun, Computed, SameStage, StillUnsure, NoneAccepted
    <3>4. QED
      BY <2>1, <2>3, <3>3 DEF StepOf
  <2>4. QED
    BY <2>2, <2>3
<1>3. CASE SweepTick
  <2>1. PICK s \in First(TimedOutCandidates) :
          /\ writes' = writes \cup {WriteOf(Sweep, s.cmd, TimedOutRecord(s.rec, clock))}
          /\ raced' = raced \cup RaceOf(s.cmd, s.rec)
    BY <1>3 DEF SweepTick
  <2>2. UNCHANGED <<mem, db, deletion, accepted, unsure>>
    BY <1>3 DEF SweepTick, map
  <2>3. s.rec = mem[s.cmd] /\ s.rec # NoRecord /\ s.rec.status = "sent"
    BY CandidateType, FirstSubset
  <2>4. CASE c # s.cmd
    BY <2>1, <2>2, <2>4 DEF WriteOf, StepOf, Untouched, SameStage, StillUnsure, NoneAccepted, Pending
  <2>5. CASE c = s.cmd
    <3>1. ~Busy(c) /\ Pending(c) = {}
      BY <2>1, <2>5, NotRaced
    <3>2. Pending(c)' = {WriteOf(Sweep, c, TimedOutRecord(mem[c], clock))}
      BY <2>1, <2>3, <2>5, <3>1 DEF WriteOf, Pending
    <3>3. Begun(c, WriteOf(Sweep, c, TimedOutRecord(mem[c], clock)))
      BY <2>2, <2>3, <2>5, <3>1, <3>2, <2>1 DEF WriteOf, Begun, Computed, SameStage, StillUnsure, NoneAccepted, TypeOK
    <3>4. QED
      BY <2>1, <2>3, <2>5, <3>3 DEF StepOf
  <2>6. QED
    BY <2>4, <2>5
<1>4. ASSUME NEW w \in writes, StoreWrite(w) PROVE StepOf(c)
  <2>1. /\ w.stored = FALSE /\ db' = [db EXCEPT ![w.cmd] = w.rec]
        /\ writes' = (writes \ {w}) \cup {[w EXCEPT !.stored = TRUE]}
        /\ UNCHANGED <<mem, deletion, accepted, raced, unsure>>
    BY <1>4 DEF StoreWrite, map, TypeOK, Write
  <2>2. [w EXCEPT !.stored = TRUE].cmd = w.cmd
    BY StoredType DEF TypeOK
  <2>3. Unraced(c)
    BY <1>r, <2>1
  <2>4. CASE c # w.cmd
    <3>1. Pending(c)' = Pending(c)
      BY <2>1, <2>2, <2>4 DEF Pending
    <3>2. QED
      BY <2>1, <2>4, <3>1 DEF StepOf, Untouched, SameStage, StillUnsure, NoneAccepted, TypeOK
  <2>5. CASE c = w.cmd
    <3>1. {v \in writes \ {w} : v.cmd = c} = {} /\ w \in Pending(c)
      BY <2>3, <2>5, PendingRemove
    <3>2. Pending(c)' = {[w EXCEPT !.stored = TRUE]}
      BY <2>1, <2>2, <2>5, <3>1 DEF Pending
    <3>3. Stored(c, w)
      BY <2>1, <2>5, <3>1, <3>2 DEF Stored, SameStage, StillUnsure, NoneAccepted, TypeOK
    <3>4. QED
      BY <3>3 DEF StepOf
  <2>6. QED
    BY <2>4, <2>5
<1>5. ASSUME NEW w \in writes, FailWrite(w) PROVE StepOf(c)
  <2>1. /\ writes' = writes \ {w} /\ UNCHANGED <<mem, db, deletion, accepted, raced>>
        /\ (w.stored => w.cmd \in unsure') /\ unsure \subseteq unsure'
    BY <1>5 DEF FailWrite, map
  <2>2. Unraced(c)
    BY <1>r, <2>1
  <2>3. CASE c # w.cmd
    BY <2>1, <2>2, <2>3, PendingRemove DEF StepOf, Untouched, SameStage, StillUnsure, NoneAccepted, Pending
  <2>4. CASE c = w.cmd
    <3>1. Dropped(c, w)
      BY <2>1, <2>2, <2>4, PendingRemove DEF Dropped, SameStage, StillUnsure, NoneAccepted, Pending
    <3>2. QED
      BY <3>1 DEF StepOf
  <2>5. QED
    BY <2>3, <2>4

<1>6. ASSUME NEW w \in writes, w.stored, SetMemory(w), writes' = writes \ {w}, UNCHANGED <<db, deletion, raced>>, unsure' = unsure \ {w.cmd},
             \A p \in accepted' : p \in accepted \/ (w.by \in Acks /\ p = <<w.by, w.cmd>>)
      PROVE  StepOf(c)
  <2>1. Unraced(c)
    BY <1>r, <1>6
  <2>2. mem'[c] = IF c = w.cmd THEN w.rec ELSE mem[c]
    BY <1>6, SetMemoryOf
  <2>3. CASE c # w.cmd
    BY <1>6, <2>1, <2>2, <2>3, PendingRemove DEF StepOf, Untouched, SameStage, StillUnsure, NoneAccepted, Pending
  <2>4. CASE c = w.cmd
    <3>1. w.stored = TRUE
      BY <1>6 DEF TypeOK, Write
    <3>2. Ended(c, w)
      BY <1>6, <2>1, <2>2, <2>4, <3>1, PendingRemove DEF Ended, SameStage, Pending
    <3>3. QED
      BY <3>2 DEF StepOf
  <2>5. QED
    BY <2>3, <2>4
<1>7. ASSUME NEW w \in writes, FinishCreate(w) \/ FinishAcknowledge(w) \/ SweepEnd(w) PROVE StepOf(c)
  <2>1. /\ w.stored /\ SetMemory(w) /\ writes' = writes \ {w} /\ UNCHANGED <<db, deletion, raced>>
        /\ unsure' = unsure \ {w.cmd}
        /\ \A p \in accepted' : p \in accepted \/ (w.by \in Acks /\ p = <<w.by, w.cmd>>)
    BY <1>7 DEF FinishCreate, FinishAcknowledge, SweepEnd
  <2>2. QED
    BY <1>6, <2>1
<1>8. ASSUME NEW w \in writes, SweepNext(w) PROVE StepOf(c)
  <2>1. PICK s \in First(snapshot) :
          /\ writes' = (writes \ {w}) \cup {WriteOf(Sweep, s.cmd, TimedOutRecord(s.rec, sweepNow))}
          /\ raced' = raced \cup RaceOf(s.cmd, s.rec)
    BY <1>8 DEF SweepNext
  <2>2. w.stored = TRUE /\ SetMemory(w) /\ UNCHANGED <<db, deletion, accepted>> /\ unsure' = unsure \ {w.cmd}
    BY <1>8 DEF SweepNext, TypeOK, Write
  <2>3. Unraced(c)
    BY <1>r, <2>1
  <2>4. mem'[c] = IF c = w.cmd THEN w.rec ELSE mem[c]
    BY <2>2, SetMemoryOf
  <2>5. s.rec.status = "sent" /\ s.rec # NoRecord
    BY FirstSubset, CommandAssumption DEF CommandInv, InFlightCoherent, TypeOK, Candidate
  <2>6. CASE c # w.cmd /\ c # s.cmd
    BY <2>1, <2>2, <2>3, <2>4, <2>6, PendingRemove DEF WriteOf, Pending, StepOf, Untouched, SameStage, StillUnsure, NoneAccepted
  <2>7. CASE c = s.cmd
    <3>1. ~Busy(c) /\ Pending(c) = {} /\ s.rec = mem[c]
      BY <2>1, <2>7, NotRaced
    <3>2. c # w.cmd
      BY <3>1 DEF Pending
    <3>3. Pending(c)' = {WriteOf(Sweep, c, TimedOutRecord(mem[c], sweepNow))}
      BY <2>1, <2>3, <2>7, <3>1, <3>2, PendingRemove DEF WriteOf, Pending
    <3>4. Begun(c, WriteOf(Sweep, c, TimedOutRecord(mem[c], sweepNow)))
      BY <2>1, <2>2, <2>4, <2>5, <2>7, <3>1, <3>2, <3>3
      DEF WriteOf, Begun, Computed, SameStage, StillUnsure, NoneAccepted, TypeOK
    <3>5. QED
      BY <2>1, <2>7, <3>1, <3>4 DEF StepOf
  <2>8. CASE c = w.cmd /\ c # s.cmd
    <3>1. Pending(c)' = {} /\ w \in Pending(c)
      BY <2>1, <2>3, <2>8, PendingRemove DEF WriteOf, Pending
    <3>2. Ended(c, w)
      BY <2>2, <2>4, <2>8, <3>1 DEF Ended, SameStage
    <3>3. QED
      BY <3>2 DEF StepOf
  <2>9. QED
    BY <2>6, <2>7, <2>8
<1>9. ASSUME NEW d \in Devices, Owner[c] # d, deletion' = [deletion EXCEPT ![d] = deletion'[d]],
             UNCHANGED <<writes, accepted>>, mem'[c] = mem[c], db'[c] = db[c], StillUnsure(c)
      PROVE  StepOf(c)
  BY <1>9, CommandAssumption DEF StepOf, Untouched, SameStage, StillUnsure, NoneAccepted, Pending, TypeOK
<1>10. ASSUME NEW d \in Devices, DeleteRequest(d) PROVE StepOf(c)
  <2>1. CASE Owner[c] # d
    BY <1>9, <1>10, <2>1 DEF DeleteRequest, StillUnsure, map, TypeOK
  <2>2. CASE Owner[c] = d
    <3>1. Pending(c) = {}
      BY <1>10, <2>2 DEF DeleteRequest, Owned
    <3>2. Removed(c)
      BY <1>10, <2>2, <3>1 DEF DeleteRequest, Removed, StillUnsure, NoneAccepted, Pending, map, TypeOK
    <3>3. QED
      BY <3>2 DEF StepOf
  <2>3. QED
    BY <2>1, <2>2
<1>11. ASSUME NEW d \in Devices,
              DeleteCommandRows(d) \/ DeleteFromMemory(d) \/ RemoveCommandRows(d) \/ RemoveDevice(d) \/ FailDeletion(d)
       PROVE  StepOf(c)
  <2>1. UNCHANGED <<writes, accepted, raced>> /\ deletion[d] # "idle"
    BY <1>11 DEF DeleteCommandRows, DeleteFromMemory, RemoveCommandRows, RemoveDevice, FailDeletion
  <2>2. CASE Owner[c] # d
    BY <1>9, <1>11, <2>2
    DEF DeleteCommandRows, DeleteFromMemory, RemoveCommandRows, RemoveDevice, FailDeletion, StillUnsure, Owned, Without,
        map, TypeOK
  <2>3. CASE Owner[c] = d
    <3>1. Pending(c) = {} /\ Pending(c)' = {}
      BY <1>r, <2>1, <2>3 DEF Unraced, Pending
    <3>2. CASE DeleteCommandRows(d)
      BY <2>1, <2>3, <3>1, <3>2 DEF DeleteCommandRows, StepOf, Removed, StillUnsure, NoneAccepted, Without, map, TypeOK
    <3>3. CASE DeleteFromMemory(d)
      BY <2>1, <2>3, <3>1, <3>3 DEF DeleteFromMemory, StepOf, Removed, StillUnsure, NoneAccepted, Without, TypeOK
    <3>4. CASE RemoveCommandRows(d)
      BY <2>1, <2>3, <3>1, <3>4 DEF RemoveCommandRows, StepOf, Removed, StillUnsure, NoneAccepted, Without, map, TypeOK
    <3>5. CASE RemoveDevice(d)
      BY <2>1, <2>3, <3>1, <3>5 DEF RemoveDevice, StepOf, Removed, StillUnsure, NoneAccepted, map, TypeOK
    <3>6. CASE FailDeletion(d)
      BY <2>1, <2>3, <3>1, <3>6 DEF FailDeletion, Owned, StepOf, Removed, StillUnsure, NoneAccepted, map, TypeOK
    <3>7. QED
      BY <1>11, <3>2, <3>3, <3>4, <3>5, <3>6
  <2>4. QED
    BY <2>2, <2>3
<1>12. ASSUME NEW d \in Devices, Connect(d) \/ Disconnect(d) PROVE StepOf(c)
  BY <1>12 DEF Connect, Disconnect, map, StepOf, Untouched, SameStage, StillUnsure, NoneAccepted, Pending
<1>13. CASE Tick
  BY <1>13 DEF Tick, map, StepOf, Untouched, SameStage, StillUnsure, NoneAccepted, Pending
<1>14. CASE Restart
  BY <1>14, CommandAssumption DEF Restart, StepOf, Reloaded, NoneAccepted, Pending
<1>15. QED
  BY <1>0, <1>1, <1>2, <1>3, <1>4, <1>5, <1>7, <1>8, <1>10, <1>11, <1>12, <1>13, <1>14 DEF Next

\* What was raced stays so until a boot.
LEMMA HistoryGrows == [Next]_vars => raced \subseteq raced' \/ Restart
  BY DEF Next, vars, map, sweep, Create, Acknowledge, SweepTick, StoreWrite, FailWrite, FinishCreate,
         FinishAcknowledge, SweepNext, SweepEnd, DeleteRequest, DeleteCommandRows, DeleteFromMemory,
         RemoveCommandRows, RemoveDevice, FailDeletion, Connect, Disconnect, Tick

\* A boot has memory and table agree on every command.
LEMMA RestartReloads ==
  ASSUME Restart, NEW c \in Commands PROVE Reloaded(c)
  BY CommandAssumption DEF Restart, Reloaded, NoneAccepted, Pending

\* What is computed from a record memory holds may follow it.
LEMMA ComputedFollows ==
  ASSUME TypeOK, NEW c \in Commands, NEW w, Computed(w, c)
  PROVE  /\ Follows(w.rec.status, mem[c])
         /\ w.rec.status \in {"sent", "acked", "timeout"}
<1>1. CASE w.rec = SentRecord(c) /\ mem[c] = NoRecord
  BY <1>1 DEF Follows, SentRecord
<1>2. CASE mem[c] # NoRecord /\ mem[c].status # "timeout" /\ w.rec = AckedRecord(mem[c], w.by)
  <2>1. mem[c] \in Record
    BY <1>2 DEF TypeOK
  <2>2. w.rec.status = "acked"
    BY <1>2, <2>1 DEF AckedRecord, Record
  <2>3. QED
    BY <1>2, <2>2 DEF Follows
<1>3. CASE mem[c] # NoRecord /\ mem[c].status = "sent" /\ \E now \in Nat : w.rec = TimedOutRecord(mem[c], now)
  <2>1. mem[c] \in Record
    BY <1>3 DEF TypeOK
  <2>2. w.rec.status = "timeout"
    BY <1>3, <2>1 DEF TimedOutRecord, Record
  <2>3. QED
    BY <1>3, <2>2 DEF Follows
<1>4. QED
  BY <1>1, <1>2, <1>3 DEF Computed

\* A command that is not raced by the step keeps one write at most, computed from memory.
LEMMA UnracedStep ==
  ASSUME TypeOK, NEW c \in Commands, Unraced(c), StepOf(c)
  PROVE  Unraced(c)'
<1>1. CASE Untouched(c)
  BY <1>1 DEF Untouched, SameStage, Unraced, Settled
<1>2. CASE Removed(c)
  BY <1>2 DEF Removed, Unraced, Settled
<1>3. CASE Reloaded(c)
  BY <1>3 DEF Reloaded, Unraced, Settled
<1>4. ASSUME NEW w, Begun(c, w) PROVE Unraced(c)'
  <2>1. Follows(w.rec.status, mem[c])
    BY <1>4, ComputedFollows DEF Begun
  <2>2. QED
    BY <1>4, <2>1 DEF Begun, Busy, SameStage, Unraced, Settled, Follows
<1>5. ASSUME NEW w \in writes, Stored(c, w) PROVE Unraced(c)'
  <2>1. w \in Write
    BY DEF TypeOK
  <2>2. /\ Follows(w.rec.status, mem[c]) /\ w.rec \in Record /\ w.rec # NoRecord
        /\ deletion[Owner[c]] = "idle"
    BY <1>5, <2>1, CommandAssumption DEF Stored, Unraced, Write
  <2>3. Settled(mem[c]) => w.rec.status = mem[c].status
    BY <2>2 DEF Settled, Follows, Record
  <2>4. QED
    BY <1>5, <2>1, <2>2, <2>3, StoredType DEF Stored, SameStage, Unraced, Settled, Follows
<1>6. ASSUME NEW w \in writes, Dropped(c, w) PROVE Unraced(c)'
  BY <1>6 DEF Dropped, SameStage, Unraced, Settled
<1>7. ASSUME NEW w \in writes, Ended(c, w) PROVE Unraced(c)'
  BY <1>7 DEF Ended, SameStage, Unraced, Settled
<1>8. QED
  BY <1>1, <1>2, <1>3, <1>4, <1>5, <1>6, <1>7 DEF StepOf

\* Unless a stored write is reported failed, the table stays a write, or a DELETE, ahead.
LEMMA InStepStep ==
  ASSUME TypeOK, NEW c \in Commands, Unraced(c), c \notin unsure => InStep(c), StepOf(c), c \notin unsure'
  PROVE  InStep(c)'
<1>1. CASE Untouched(c)
  BY <1>1 DEF Untouched, SameStage, StillUnsure, InStep
<1>2. CASE Removed(c)
  BY <1>2 DEF Removed, StillUnsure, Unraced, InStep
<1>3. CASE Reloaded(c)
  BY <1>3 DEF Reloaded, InStep
<1>4. ASSUME NEW w, Begun(c, w) PROVE InStep(c)'
  BY <1>4 DEF Begun, Busy, SameStage, StillUnsure, InStep
<1>5. ASSUME NEW w \in writes, Stored(c, w) PROVE InStep(c)'
  <2>1. [w EXCEPT !.stored = TRUE].stored
    BY StoredType DEF TypeOK
  <2>2. deletion[Owner[c]] = "idle"
    BY <1>5 DEF Stored, Unraced
  <2>3. QED
    BY <1>5, <2>1, <2>2 DEF Stored, SameStage, StillUnsure, InStep
<1>6. ASSUME NEW w \in writes, Dropped(c, w) PROVE InStep(c)'
  BY <1>6 DEF Dropped, SameStage, StillUnsure, InStep, Unraced
<1>7. ASSUME NEW w \in writes, Ended(c, w) PROVE InStep(c)'
  BY <1>7 DEF Ended, SameStage, InStep, Unraced
<1>8. QED
  BY <1>1, <1>2, <1>3, <1>4, <1>5, <1>6, <1>7 DEF StepOf

-----------------------------------------------------------------------------
(* The acks of a history, and the ids that were used.                      *)

\* An ack's record holds it, and holds the acks it replaces, or is full.
LEMMA AckedHolds ==
  ASSUME NEW r \in Record, NEW a \in Acks
  PROVE  Holds(AckedRecord(r, a), a)
<1> DEFINE h == Append(r.history, a)
<1>1. r.history \in Seq(Acks) /\ AckedRecord(r, a).history = KeepLast(h, MaxAckHistory)
  BY DEF AckedRecord, Record, History
<1>2. h \in Seq(Acks) /\ Len(h) = Len(r.history) + 1 /\ h[Len(h)] = a
  BY <1>1
<1>3. MaxAckHistory \in Nat \ {0}
  BY CommandAssumption
<1> HIDE DEF h
<1>4. \E i \in DOMAIN KeepLast(h, MaxAckHistory) : KeepLast(h, MaxAckHistory)[i] = a
  <2>1. CASE Len(h) <= MaxAckHistory
    BY <1>1, <1>2, <1>3, <2>1 DEF KeepLast
  <2>2. CASE Len(h) > MaxAckHistory
    <3>1. KeepLast(h, MaxAckHistory) = SubSeq(h, Len(h) - MaxAckHistory + 1, Len(h))
      BY <2>2 DEF KeepLast
    <3>2. Len(h) \in Nat /\ Len(h) - MaxAckHistory + 1 \in 1..Len(h)
      BY <1>2, <1>3, <2>2
    <3>3. MaxAckHistory \in DOMAIN SubSeq(h, Len(h) - MaxAckHistory + 1, Len(h))
      BY <1>2, <1>3, <3>2
    <3>4. SubSeq(h, Len(h) - MaxAckHistory + 1, Len(h))[MaxAckHistory] = h[Len(h)]
      BY <1>2, <1>3, <3>2
    <3>5. QED
      BY <1>2, <3>1, <3>3, <3>4
  <2>3. QED
    BY <1>1, <1>2, <1>3, <2>1, <2>2
<1>5. QED
  BY <1>1, <1>4 DEF Holds

LEMMA AckedKeeps ==
  ASSUME NEW r \in Record, NEW a \in Acks, NEW b, HoldsOrFull(r, b)
  PROVE  HoldsOrFull(AckedRecord(r, a), b)
<1> DEFINE h == Append(r.history, a)
<1>1. /\ r.history \in Seq(Acks) /\ Len(r.history) <= MaxAckHistory
      /\ AckedRecord(r, a).history = KeepLast(h, MaxAckHistory)
  BY DEF AckedRecord, Record, History
<1>2. /\ h \in Seq(Acks) /\ Len(h) = Len(r.history) + 1
      /\ \A i \in DOMAIN r.history : i \in DOMAIN h /\ h[i] = r.history[i]
  BY <1>1
<1>3. MaxAckHistory \in Nat \ {0} /\ Len(r.history) \in Nat
  BY <1>1, CommandAssumption
<1>4. Holds(r, b) \/ Len(r.history) = MaxAckHistory
  BY CommandAssumption DEF HoldsOrFull
<1> HIDE DEF h
<1>5. CASE Len(h) <= MaxAckHistory
  <2>1. Holds(r, b)
    BY <1>2, <1>3, <1>4, <1>5
  <2>2. QED
    BY <1>1, <1>2, <1>5, <1>3, <2>1 DEF Holds, HoldsOrFull, KeepLast
<1>6. CASE Len(h) > MaxAckHistory
  <2>1. Len(h) \in Nat /\ Len(h) - MaxAckHistory + 1 \in 1..Len(h)
    BY <1>2, <1>3, <1>6
  <2>2. Len(SubSeq(h, Len(h) - MaxAckHistory + 1, Len(h))) = MaxAckHistory
    BY <1>2, <1>3, <2>1
  <2>3. QED
    BY <1>1, <1>6, <2>2 DEF HoldsOrFull, KeepLast
<1>7. QED
  BY <1>2, <1>3, <1>5, <1>6

LEMMA TimedOutKeeps ==
  ASSUME NEW r \in Record, NEW now \in Nat, NEW b, HoldsOrFull(r, b)
  PROVE  HoldsOrFull(TimedOutRecord(r, now), b)
<1>1. TimedOutRecord(r, now).history = r.history
  BY DEF TimedOutRecord, Record
<1>2. QED
  BY <1>1, CommandAssumption DEF HoldsOrFull, Holds

\* A command there is a record of, a write, a candidate or an accepted ack of was created.
LEMMA KnownStep == TypeOK /\ Known /\ [Next]_vars => Known'
<1> SUFFICES ASSUME TypeOK, Known, [Next]_vars PROVE Known'
  OBVIOUS
<1>0. CASE UNCHANGED vars
  BY <1>0 DEF vars, Known
<1>a. ASSUME NEW w \in writes, SetMemory(w) PROVE \A c \in Commands : mem'[c] # NoRecord => c \in used
  BY <1>a, SetMemoryOf DEF Known
<1>1. ASSUME NEW c \in Commands, Create(c) PROVE Known'
  BY <1>1 DEF Create, Known, WriteOf, map, sweep
<1>2. ASSUME NEW a \in Acks, NEW d \in Devices, NEW c \in Commands, Acknowledge(a, d, c) PROVE Known'
  BY <1>2 DEF Acknowledge, Known, WriteOf, map, sweep
<1>3. CASE SweepTick
  <2>1. PICK s \in First(TimedOutCandidates) :
          /\ writes' = writes \cup {WriteOf(Sweep, s.cmd, TimedOutRecord(s.rec, clock))}
          /\ snapshot' = TimedOutCandidates \ {s}
    BY <1>3 DEF SweepTick
  <2>2. \A t \in TimedOutCandidates : t.cmd \in used
    BY CandidateType DEF Candidate, Known
  <2>3. s.cmd \in used
    BY <2>2, FirstSubset
  <2>4. QED
    BY <1>3, <2>1, <2>2, <2>3 DEF SweepTick, Known, WriteOf, map
<1>4. ASSUME NEW w \in writes, StoreWrite(w) PROVE Known'
  <2>1. [w EXCEPT !.stored = TRUE].cmd = w.cmd
    BY StoredType DEF TypeOK
  <2>2. \A c \in Commands : db'[c] # NoRecord => c \in used
    BY <1>4 DEF StoreWrite, Known, TypeOK
  <2>3. QED
    BY <1>4, <2>1, <2>2 DEF StoreWrite, Known, map, sweep
<1>5. ASSUME NEW w \in writes, FailWrite(w) PROVE Known'
  BY <1>5 DEF FailWrite, Known, map, sweep
<1>6. ASSUME NEW w \in writes, FinishCreate(w) \/ FinishAcknowledge(w) \/ SweepEnd(w) PROVE Known'
  <2>1. \A p \in accepted' : p[2] \in used
    BY <1>6 DEF FinishCreate, FinishAcknowledge, SweepEnd, Known
  <2>2. QED
    BY <1>6, <1>a, <2>1 DEF FinishCreate, FinishAcknowledge, SweepEnd, Known, sweep
<1>7. ASSUME NEW w \in writes, SweepNext(w) PROVE Known'
  <2>1. PICK s \in First(snapshot) :
          /\ writes' = (writes \ {w}) \cup {WriteOf(Sweep, s.cmd, TimedOutRecord(s.rec, sweepNow))}
          /\ snapshot' = snapshot \ {s}
    BY <1>7 DEF SweepNext
  <2>2. s.cmd \in used
    BY FirstSubset DEF Known
  <2>3. QED
    BY <1>7, <1>a, <2>1, <2>2 DEF SweepNext, Known, WriteOf
<1>8. ASSUME NEW d \in Devices,
             \/ DeleteRequest(d) \/ DeleteCommandRows(d) \/ DeleteFromMemory(d) \/ RemoveCommandRows(d)
             \/ RemoveDevice(d) \/ FailDeletion(d) \/ Connect(d) \/ Disconnect(d)
      PROVE  Known'
  BY <1>8 DEF DeleteRequest, DeleteCommandRows, DeleteFromMemory, RemoveCommandRows, RemoveDevice,
              FailDeletion, Connect, Disconnect, Without, Known, map, sweep
<1>9. CASE Tick \/ Restart
  BY <1>9 DEF Tick, Restart, Known, map, sweep
<1>10. QED
  BY <1>0, <1>1, <1>2, <1>3, <1>4, <1>5, <1>6, <1>7, <1>8, <1>9 DEF Next

\* What an ack writes holds the ack, whoever else writes.
LEMMA AckWritesHold ==
  ASSUME TypeOK, \A w \in writes : w.by \in Acks => Holds(w.rec, w.by), [Next]_vars
  PROVE  \A w \in writes' : w.by \in Acks => Holds(w.rec, w.by)
<1>0. CASE writes' \subseteq writes
  BY <1>0
<1>1. ASSUME NEW c \in Commands, Create(c) PROVE \A w \in writes' : w.by \in Acks => Holds(w.rec, w.by)
  BY <1>1, CommandAssumption DEF Create, WriteOf
<1>2. ASSUME NEW a \in Acks, NEW d \in Devices, NEW c \in Commands, Acknowledge(a, d, c)
      PROVE  \A w \in writes' : w.by \in Acks => Holds(w.rec, w.by)
  <2>1. mem[c] \in Record
    BY <1>2 DEF Acknowledge, TypeOK
  <2>2. QED
    BY <1>2, <2>1, AckedHolds DEF Acknowledge, WriteOf
<1>3. CASE SweepTick
  BY <1>3, CommandAssumption DEF SweepTick, WriteOf
<1>4. ASSUME NEW w \in writes, StoreWrite(w) PROVE \A v \in writes' : v.by \in Acks => Holds(v.rec, v.by)
  <2>1. [w EXCEPT !.stored = TRUE].by = w.by /\ [w EXCEPT !.stored = TRUE].rec = w.rec
    BY StoredType DEF TypeOK
  <2>2. QED
    BY <1>4, <2>1 DEF StoreWrite
<1>5. ASSUME NEW w \in writes, SweepNext(w) PROVE \A v \in writes' : v.by \in Acks => Holds(v.rec, v.by)
  BY <1>5, CommandAssumption DEF SweepNext, WriteOf
<1>6. ASSUME NEW w \in writes, FailWrite(w) \/ FinishCreate(w) \/ FinishAcknowledge(w) \/ SweepEnd(w)
      PROVE  writes' \subseteq writes
  BY <1>6 DEF FailWrite, FinishCreate, FinishAcknowledge, SweepEnd
<1>7. ASSUME NEW d \in Devices,
             \/ DeleteRequest(d) \/ DeleteCommandRows(d) \/ DeleteFromMemory(d) \/ RemoveCommandRows(d)
             \/ RemoveDevice(d) \/ FailDeletion(d) \/ Connect(d) \/ Disconnect(d)
      PROVE  writes' \subseteq writes
  BY <1>7 DEF DeleteRequest, DeleteCommandRows, DeleteFromMemory, RemoveCommandRows, RemoveDevice,
              FailDeletion, Connect, Disconnect
<1>8. CASE Tick \/ Restart \/ UNCHANGED vars
  BY <1>0, <1>8 DEF Tick, Restart, vars
<1>9. QED
  BY <1>0, <1>1, <1>2, <1>3, <1>4, <1>5, <1>6, <1>7, <1>8 DEF Next

\* What is computed from a record memory holds still has the acks that record has.
LEMMA ComputedKeeps ==
  ASSUME TypeOK, NEW c \in Commands, c \in used, NEW w, Computed(w, c), NEW a, HoldsOrFull(mem[c], a)
  PROVE  HoldsOrFull(w.rec, a)
<1>1. mem[c] # NoRecord => mem[c] \in Record
  BY DEF TypeOK
<1>2. QED
  BY <1>1, AckedKeeps, TimedOutKeeps DEF Computed

\* An accepted ack stays in memory, in the table, and in what is on its way between them.
AckHeld(a, c) ==
  /\ HoldsOrFull(mem[c], a) /\ HoldsOrFull(db[c], a)
  /\ \A w \in Pending(c) : HoldsOrFull(w.rec, a)

LEMMA AckHeldStep ==
  ASSUME TypeOK, CommandInv, NEW c \in Commands, c \notin raced, StepOf(c), NEW a, <<a, c>> \in accepted'
  PROVE  AckHeld(a, c)'
<1>e. HoldsOrFull(NoRecord, a)
  BY DEF HoldsOrFull
<1>h. ASSUME <<a, c>> \in accepted PROVE AckHeld(a, c) /\ c \in used
  BY <1>h DEF AckHeld, CommandInv, AcksHeld, Known
<1>1. CASE Untouched(c)
  BY <1>1, <1>h DEF Untouched, NoneAccepted, AckHeld
<1>2. CASE Removed(c)
  BY <1>2, <1>h, <1>e DEF Removed, NoneAccepted, AckHeld
<1>3. CASE Reloaded(c)
  BY <1>3, <1>h DEF Reloaded, NoneAccepted, AckHeld
<1>4. ASSUME NEW w, Begun(c, w) PROVE AckHeld(a, c)'
  BY <1>4, <1>h, ComputedKeeps DEF Begun, NoneAccepted, AckHeld
<1>5. ASSUME NEW w \in writes, Stored(c, w) PROVE AckHeld(a, c)'
  <2>1. [w EXCEPT !.stored = TRUE].rec = w.rec
    BY StoredType DEF TypeOK
  <2>2. QED
    BY <1>5, <1>h, <2>1 DEF Stored, NoneAccepted, AckHeld
<1>6. ASSUME NEW w \in writes, Dropped(c, w) PROVE AckHeld(a, c)'
  BY <1>6, <1>h DEF Dropped, NoneAccepted, AckHeld
<1>7. ASSUME NEW w \in writes, Ended(c, w) PROVE AckHeld(a, c)'
  <2>1. HoldsOrFull(w.rec, a)
    <3>1. CASE <<a, c>> \in accepted
      BY <1>7, <1>h, <3>1 DEF Ended, AckHeld
    <3>2. CASE w.by \in Acks /\ w.by = a
      BY <3>2 DEF CommandInv, AcksHeld, HoldsOrFull
    <3>3. QED
      BY <1>7, <3>1, <3>2 DEF Ended
  <2>2. db[c] = w.rec
    BY <1>7 DEF Ended, CommandInv, Unraced
  <2>3. QED
    BY <1>7, <2>1, <2>2 DEF Ended, AckHeld
<1>8. QED
  BY <1>1, <1>2, <1>3, <1>4, <1>5, <1>6, <1>7 DEF StepOf

LEMMA AcksHeldStep == TypeOK /\ TypeOK' /\ CommandInv /\ [Next]_vars => AcksHeld'
<1> SUFFICES ASSUME TypeOK, TypeOK', CommandInv, [Next]_vars PROVE AcksHeld'
  OBVIOUS
<1>1. \A w \in writes' : w.by \in Acks => Holds(w.rec, w.by)
  BY AckWritesHold DEF CommandInv, AcksHeld
<1>2. ASSUME NEW p \in accepted', p[2] \notin raced' PROVE AckHeld(p[1], p[2])'
  <2>1. p[2] \in Commands /\ p = <<p[1], p[2]>>
    BY DEF TypeOK
  <2>2. CASE raced \subseteq raced'
    BY <1>2, <2>1, <2>2, OneStep, AckHeldStep
  <2>3. CASE Restart
    <3>1. p \in accepted /\ p[2] \notin raced
      BY <2>3 DEF Restart
    <3>2. QED
      BY <1>2, <2>1, <3>1, OneStep, AckHeldStep
  <2>4. QED
    BY <2>2, <2>3, HistoryGrows
<1>3. QED
  BY <1>1, <1>2 DEF AcksHeld, AckHeld

\* The invariant, for every value of the constants.
LEMMA CommandInvStep == TypeOK /\ TypeOK' /\ CommandInv /\ [Next]_vars => CommandInv'
<1> SUFFICES ASSUME TypeOK, TypeOK', CommandInv, [Next]_vars PROVE CommandInv'
  OBVIOUS
<1>1. RecordsCoherent' /\ InFlightCoherent' /\ Known' /\ AcksHeld'
  BY RecordInvStep, KnownStep, AcksHeldStep DEF CommandInv, RecordInv
<1>3. ASSUME NEW c \in Commands, c \notin raced' PROVE Unraced(c)' /\ (c \notin unsure' => InStep(c)')
  <2>1. CASE raced \subseteq raced'
    <3>1. StepOf(c) /\ Unraced(c) /\ (c \notin unsure => InStep(c))
      BY <1>3, <2>1, OneStep DEF CommandInv
    <3>2. QED
      BY <3>1, UnracedStep, InStepStep
  <2>2. CASE Restart
    <3>1. Reloaded(c)
      BY <2>2, RestartReloads
    <3>2. QED
      BY <3>1 DEF Reloaded, Unraced, InStep, Settled
  <2>3. QED
    BY <2>1, <2>2, HistoryGrows
<1>4. QED
  BY <1>1, <1>3 DEF CommandInv

LEMMA CommandInvAlways == Spec => []CommandInv
<1>1. Init => CommandInv
  BY DEF Init, CommandInv, RecordsCoherent, InFlightCoherent, Known, AcksHeld, Unraced, InStep, Pending, Settled
<1>2. QED
  BY <1>1, CommandInvStep, TypeCorrect, PTL DEF Spec

\* When nothing is in flight for a command that no two operations overlapped on, and none
\* of its executed statements was reported failed, CommandService's memory and device_commands agree.
THEOREM MemoryAgreesWithTable == Spec => []MemoryMatchesStore
<1>1. TypeOK /\ CommandInv => MemoryMatchesStore
  BY CommandAssumption DEF CommandInv, InStep, Busy, MemoryMatchesStore, TypeOK, Stages
<1>2. QED
  BY <1>1, CommandInvAlways, TypeCorrect, PTL

\* An ack acknowledge() accepted stays in the history until MaxAckHistory others displaced it.
THEOREM AcceptedAcksStay == Spec => []AcceptedAcksKept
<1>1. TypeOK /\ CommandInv => AcceptedAcksKept
  BY DEF CommandInv, AcksHeld, AcceptedAcksKept, HoldsOrFull, Holds
<1>2. QED
  BY <1>1, CommandInvAlways, TypeCorrect, PTL

\* What memory shows as acked or timed out keeps that status, through restarts too.
THEOREM OutcomesAreFinal == Spec => SettledIsFinal
<1>1. TypeOK /\ CommandInv /\ [Next]_vars
        => [\A c \in Commands :
              Settled(mem[c]) /\ mem'[c] # NoRecord /\ c \notin raced \cup raced'
                => mem'[c].status = mem[c].status]_vars
  <2> SUFFICES ASSUME TypeOK, CommandInv, [Next]_vars, NEW c \in Commands,
                      Settled(mem[c]), mem'[c] # NoRecord, c \notin raced \cup raced'
               PROVE  mem'[c].status = mem[c].status
    OBVIOUS
  <2>1. StepOf(c) /\ Unraced(c)
    BY OneStep DEF CommandInv
  <2>2. ASSUME NEW w \in writes, Ended(c, w) PROVE w.rec.status = mem[c].status
    <3>1. Follows(w.rec.status, mem[c]) /\ w.rec \in Record
      BY <2>1, <2>2 DEF Ended, Unraced, TypeOK, Write
    <3>2. QED
      BY <3>1 DEF Follows, Settled, Record
  <2>3. CASE Reloaded(c)
    BY <2>1, <2>3 DEF Reloaded, Unraced
  <2>4. QED
    BY <2>1, <2>2, <2>3 DEF StepOf, Untouched, Removed, Begun, Stored, Dropped, Ended
<1>2. QED
  BY <1>1, CommandInvAlways, TypeCorrect, PTL DEF Spec, SettledIsFinal

=============================================================================
