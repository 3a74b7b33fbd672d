-------------------------- MODULE DevicePresenceProofs --------------------------
(***************************************************************************)
(* Theorems about DevicePresence for any sockets and bounds: types, the    *)
(* unique key of device_status_history, the socket a session names, what a *)
(* boot leaves, and what the tables tell once nothing is in flight.        *)
(***************************************************************************)
EXTENDS DevicePresence, FiniteSetTheorems, TLAPS

(* The invariant.                                                          *)

\* The statements a task of each kind goes through.  A statement that is
\* outside its task's sequence would read a session that is not there.
TaskOK(t) ==
  /\ t \in Task
  /\ t.next \in {"putDevice", "clear"} \/ t.session \in Session
  /\ t.next \in {"putSession", "ensureDevice", "putSessionAgain"} => t.kind \in {"connect", "touch"}
  /\ t.next = "closeOpen" => t.kind \in {"connect", "close", "boot", "bootOpen"}
  /\ t.next = "insertOnline" => t.kind = "connect"
  /\ t.next \in {"insertClosed", "insertOffline"} => t.kind \in {"close", "boot", "bootOpen"}
  /\ t.next = "clear" => t.kind \in {"boot", "bootOpen"}
  /\ t.kind = "close" => t.session \in Session

\* Sockets and a session exist only while the server listens.
NobodyWhileDown == phase # "up" => live = {} /\ session = NoSession

PresenceInv ==
  /\ TypeOK
  /\ \A t \in tasks : TaskOK(t)
  /\ NobodyWhileDown
  /\ SessionOfLatestSocket

\* The part of TypeOK that concerns device_status_history.
HistoryOK(h) ==
  /\ h \subseteq Interval
  /\ \A i, j \in h : i.status = j.status /\ i.socket = j.socket /\ i.start = j.start => i = j

-----------------------------------------------------------------------------
(* Lemmas about the statements.                                            *)

\* Ending intervals keeps types and the key, whichever intervals are ended:
\* the open ones of closeOpenStatus, the earlier ones of the schema script.
LEMMA CloseOpenKeeps ==
  ASSUME HistoryOK(history), NEW at \in Nat
  PROVE  HistoryOK(CloseOpen(at))
<1> DEFINE Ended(i) == IF IsOpen(i) THEN [i EXCEPT !.end = at] ELSE i
<1>1. \A i \in history : /\ Ended(i) \in Interval
                         /\ Ended(i).status = i.status
                         /\ Ended(i).socket = i.socket
                         /\ Ended(i).start = i.start
  BY DEF HistoryOK, Interval
<1> HIDE DEF Ended
<1>2. HistoryOK({Ended(i) : i \in history})
  BY <1>1 DEF HistoryOK
<1>3. QED
  BY <1>2 DEF Ended, CloseOpen

LEMMA EndEarlierKeeps ==
  ASSUME HistoryOK(history), NEW at \in Nat
  PROVE  HistoryOK({IF IsOpen(i) /\ i.start < at THEN [i EXCEPT !.end = at] ELSE i : i \in history})
<1> DEFINE Ended(i) == IF IsOpen(i) /\ i.start < at THEN [i EXCEPT !.end = at] ELSE i
<1>1. \A i \in history : /\ Ended(i) \in Interval
                         /\ Ended(i).status = i.status
                         /\ Ended(i).socket = i.socket
                         /\ Ended(i).start = i.start
  BY DEF HistoryOK, Interval
<1> HIDE DEF Ended
<1>2. HistoryOK({Ended(i) : i \in history})
  BY <1>1 DEF HistoryOK
<1>3. QED
  BY <1>2 DEF Ended

\* INSERT IGNORE keeps the key.
LEMMA InsertKeeps ==
  ASSUME NEW h, HistoryOK(h), NEW i \in Interval
  PROVE  HistoryOK(InsertIgnore(h, i))
  BY DEF HistoryOK, InsertIgnore

LEMMA IntervalType ==
  ASSUME NEW s \in Session, NEW start \in Nat, NEW end \in Nat \cup {Never}
  PROVE  OnlineInterval(s, end) \in Interval /\ OfflineInterval(s, start) \in Interval
  BY DEF OnlineInterval, OfflineInterval, Interval, Session, Never

LEMMA EndOfType ==
  ASSUME NEW t \in Task, t.session \in Session
  PROVE  EndOf(t) \in Nat
  BY DEF EndOf, Later, Task, Session

LEMMA TypesOfHistory == TypeOK => HistoryOK(history)
  BY DEF TypeOK, HistoryOK

LEMMA ShutdownTimeType == ASSUME TypeOK PROVE ShutdownTime \in Nat
  BY DEF ShutdownTime, TypeOK, Never

LEMMA RepairedKeeps == ASSUME TypeOK PROVE HistoryOK(Repaired)
<1>1. CASE socketRow = NoSession
  BY <1>1, TypesOfHistory DEF Repaired
<1>2. CASE socketRow # NoSession
  <2>1. socketRow \in Session /\ socketRow.since \in Nat
    BY <1>2 DEF TypeOK, Session
  <2> DEFINE h == {IF IsOpen(i) /\ i.start < socketRow.since
                   THEN [i EXCEPT !.end = socketRow.since] ELSE i : i \in history}
  <2>2. HistoryOK(h)
    BY <2>1, EndEarlierKeeps, TypesOfHistory
  <2> HIDE DEF h
  <2>3. HistoryOK(InsertIgnore(h, OnlineInterval(socketRow, Never)))
    BY <2>1, <2>2, InsertKeeps, IntervalType
  <2>4. QED
    BY <1>2, <2>3 DEF Repaired, h
<1>3. QED
  BY <1>1, <1>2

-----------------------------------------------------------------------------
(* Lemmas about tasks.                                                     *)

LEMMA NewTaskType ==
  ASSUME NEW kind \in Kinds, NEW s \in Session \cup {NoSession}, NEW at \in Nat,
         NEW next \in Statements
  PROVE  /\ NewTask(kind, s, at, next) \in Task
         /\ NewTask(kind, s, at, next).kind = kind
         /\ NewTask(kind, s, at, next).session = s
         /\ NewTask(kind, s, at, next).next = next
  BY DEF NewTask, Task

LEMMA Names ==
  /\ {"register", "connect", "touch", "close", "boot"} \subseteq Kinds
  /\ {"putDevice", "putSession", "closeOpen", "clear"} \subseteq Statements
  BY DEF Kinds, Statements

LEMMA GotoType ==
  ASSUME NEW t \in Task, NEW next \in Statements
  PROVE  /\ [t EXCEPT !.next = next] \in Task
         /\ [t EXCEPT !.next = next].kind = t.kind
         /\ [t EXCEPT !.next = next].session = t.session
         /\ [t EXCEPT !.next = next].next = next
  BY DEF Task

\* What the boot goes on with is a task in order.
LEMMA BootNextOK ==
  ASSUME NEW t \in Task, t.kind \in {"boot", "bootOpen"}, NEW rows, rows \subseteq Interval,
         NEW n \in BootNext(t, rows)
  PROVE  TaskOK(n)
<1>1. CASE rows = {}
  <2>1. n = [t EXCEPT !.rows = {}, !.next = "clear"]
    BY <1>1 DEF BootNext
  <2> DEFINE u == [t EXCEPT !.rows = {}]
  <2>2. u \in Task /\ u.kind = t.kind /\ n = [u EXCEPT !.next = "clear"]
    BY <2>1 DEF Task
  <2> HIDE DEF u
  <2>3. n \in Task /\ n.kind = t.kind /\ n.next = "clear"
    BY <2>2 DEF Task, Statements
  <2>4. QED
    BY <2>3 DEF TaskOK
<1>2. CASE rows # {}
  <2>1. PICK r \in rows :
          n = [kind |-> "bootOpen",
               session |-> [socket |-> r.socket, since |-> r.start, beat |-> r.start],
               at |-> t.at, rows |-> rows \ {r}, next |-> "closeOpen"]
    BY <1>2 DEF BootNext
  <2>2. n.session \in Session /\ t.at \in Nat
    BY <2>1 DEF Session, Interval, Task
  <2>3. n \in Task
    BY <2>1, <2>2 DEF Task, Kinds, Statements
  <2>4. QED
    BY <2>1, <2>2, <2>3 DEF TaskOK
<1>3. QED
  BY <1>1, <1>2

-----------------------------------------------------------------------------
(* The invariant is inductive.                                             *)

LEMMA InitInv == Init => PresenceInv
<1> SUFFICES ASSUME Init PROVE PresenceInv
  OBVIOUS
<1>1. run \in [beat : Nat \cup {Never}, stopped : Nat \cup {Never}]
  BY DEF Init
<1>2. left \in [beats : Nat, failures : Nat, crashes : Nat]
  BY PresenceAssumption DEF Init
<1>3. TypeOK
  BY <1>1, <1>2 DEF Init, TypeOK
<1>4. QED
  BY <1>3 DEF Init, PresenceInv, NobodyWhileDown, SessionOfLatestSocket

\* What the statements of the tasks leave alone: the conjuncts about the
\* sockets and the session, which the handlers change.
HandlersSame == UNCHANGED <<phase, live, session, latest>>

LEMMA HandlersSameKeeps ==
  ASSUME PresenceInv, HandlersSame
  PROVE  NobodyWhileDown' /\ SessionOfLatestSocket'
  BY DEF PresenceInv, HandlersSame, NobodyWhileDown, SessionOfLatestSocket

\* A task that goes on, or ends, keeps the tasks in order.
LEMMA GotoKeeps ==
  ASSUME PresenceInv, NEW t \in tasks, NEW next \in Statements,
         TaskOK([t EXCEPT !.next = next]), Goto(t, next)
  PROVE  tasks' \subseteq Task /\ \A u \in tasks' : TaskOK(u)
  BY DEF PresenceInv, TaskOK, Goto

LEMMA FinishKeeps ==
  ASSUME PresenceInv, NEW t \in tasks, Finish(t)
  PROVE  tasks' \subseteq Task /\ \A u \in tasks' : TaskOK(u)
  BY DEF PresenceInv, TaskOK, Finish

\* The handlers.
LEMMA HandlersInv ==
  ASSUME PresenceInv,
         \/ \E s \in Sockets : Accept(s) \/ Heartbeat(s) \/ Drop(s)
         \/ Shutdown
  PROVE  PresenceInv'
<1> USE PresenceAssumption
<1>1. ASSUME NEW s \in Sockets, Accept(s) PROVE PresenceInv'
  <2> DEFINE new == [socket |-> s, since |-> clock, beat |-> clock]
             c   == NewTask("connect", new, clock, "putSession")
             r   == NewTask("register", NoSession, clock, "putDevice")
  <2>0. clock \in Nat
    BY DEF PresenceInv, TypeOK
  <2>1. new \in Session
    BY DEF PresenceInv, TypeOK, Session
  <2>2. /\ c \in Task /\ c.kind = "connect" /\ c.session \in Session /\ c.next = "putSession"
        /\ r \in Task /\ r.kind = "register" /\ r.next = "putDevice"
    BY <2>0, <2>1, Names, NewTaskType
  <2>3. TaskOK(c) /\ TaskOK(r)
    BY <2>2 DEF TaskOK
  <2>4. session' = new /\ tasks' \subseteq tasks \cup {c, r}
    BY <1>1 DEF Accept
  <2> HIDE DEF new, c, r
  <2>5. TypeOK'
    BY <1>1, <2>1, <2>2, <2>4 DEF PresenceInv, TypeOK, Accept, tables, Begin
  <2>6. \A t \in tasks' : TaskOK(t)
    BY <2>3, <2>4 DEF PresenceInv
  <2>7. NobodyWhileDown' /\ SessionOfLatestSocket'
    BY <1>1, <2>1, <2>4 DEF new, Accept, NobodyWhileDown, SessionOfLatestSocket
  <2>8. QED
    BY <2>5, <2>6, <2>7 DEF PresenceInv
<1>2. ASSUME NEW s \in Sockets, Heartbeat(s) PROVE PresenceInv'
  <2>0. clock \in Nat
    BY DEF PresenceInv, TypeOK
  <2>1. PICK new \in Session : session' = new /\ new.socket = session.socket
    BY <1>2, <2>0 DEF PresenceInv, TypeOK, Heartbeat, Session
  <2> DEFINE c == NewTask("touch", new, clock, "putSession")
  <2>2. c \in Task /\ c.kind = "touch" /\ c.session \in Session /\ c.next = "putSession"
    BY <2>0, <2>1, Names, NewTaskType
  <2>3. TaskOK(c)
    BY <2>2 DEF TaskOK
  <2>4. tasks' = tasks \cup {c}
    BY <1>2, <2>1 DEF Heartbeat
  <2> HIDE DEF c
  <2>5. left' \in [beats : Nat, failures : Nat, crashes : Nat]
    BY <1>2 DEF PresenceInv, TypeOK, Heartbeat
  <2>6. TypeOK'
    BY <1>2, <2>1, <2>2, <2>4, <2>5 DEF PresenceInv, TypeOK, Heartbeat, tables
  <2>7. \A t \in tasks' : TaskOK(t)
    BY <2>3, <2>4 DEF PresenceInv
  <2>8. NobodyWhileDown' /\ SessionOfLatestSocket'
    BY <1>2, <2>1 DEF PresenceInv, Heartbeat, NobodyWhileDown, SessionOfLatestSocket
  <2>9. QED
    BY <2>6, <2>7, <2>8 DEF PresenceInv
<1>3. ASSUME session # NoSession PROVE CloseTask \in Task /\ TaskOK(CloseTask)
  <2>0. clock \in Nat /\ session \in Session \cup {NoSession}
    BY DEF PresenceInv, TypeOK
  <2>1. /\ CloseTask \in Task /\ CloseTask.kind = "close"
        /\ CloseTask.session \in Session /\ CloseTask.next = "closeOpen"
    BY <1>3, <2>0, Names, NewTaskType DEF CloseTask
  <2>2. QED
    BY <2>1 DEF TaskOK
<1>4. ASSUME NEW s \in Sockets, Drop(s) PROVE PresenceInv'
  <2>1. tasks' = tasks \/ (tasks' = tasks \cup {CloseTask} /\ session # NoSession)
    BY <1>4 DEF Drop
  <2>2. tasks' \subseteq Task /\ \A t \in tasks' : TaskOK(t)
    BY <1>3, <2>1 DEF PresenceInv, TypeOK
  <2>3. TypeOK'
    BY <1>4, <2>2 DEF PresenceInv, TypeOK, Drop, tables, Begin
  <2>4. NobodyWhileDown' /\ SessionOfLatestSocket'
    BY <1>4 DEF PresenceInv, Drop, NobodyWhileDown, SessionOfLatestSocket
  <2>5. QED
    BY <2>2, <2>3, <2>4 DEF PresenceInv
<1>5. ASSUME Shutdown PROVE PresenceInv'
  <2>1. tasks' = tasks \/ (tasks' = tasks \cup {CloseTask} /\ session # NoSession)
    BY <1>5 DEF Shutdown
  <2>2. tasks' \subseteq Task /\ \A t \in tasks' : TaskOK(t)
    BY <1>3, <2>1 DEF PresenceInv, TypeOK
  <2>3. TypeOK'
    BY <1>5, <2>2 DEF PresenceInv, TypeOK, Shutdown, tables, Begin
  <2>4. NobodyWhileDown' /\ SessionOfLatestSocket'
    BY <1>5 DEF PresenceInv, Shutdown, NobodyWhileDown, SessionOfLatestSocket
  <2>5. QED
    BY <2>2, <2>3, <2>4 DEF PresenceInv
<1>6. QED
  BY <1>1, <1>2, <1>4, <1>5

\* The statements of the tasks.
LEMMA StatementsInv ==
  ASSUME PresenceInv, NEW t \in tasks,
         \/ PutDevice(t) \/ PutSession(t) \/ PutSessionRefused(t) \/ EnsureDevice(t)
         \/ CloseOpenStatus(t) \/ InsertOnline(t) \/ InsertClosed(t) \/ InsertOffline(t)
         \/ DeleteSession(t) \/ FailStatement(t)
  PROVE  PresenceInv'
<1>1. TaskOK(t) /\ t \in Task /\ HistoryOK(history)
  BY TypesOfHistory DEF PresenceInv, TaskOK
<1>2. HandlersSame
  BY DEF HandlersSame, PutDevice, PutSession, PutSessionRefused, EnsureDevice, CloseOpenStatus,
         InsertOnline, InsertClosed, InsertOffline, DeleteSession, FailStatement, tables
<1>3. NobodyWhileDown' /\ SessionOfLatestSocket'
  BY <1>2, HandlersSameKeeps
<1> SUFFICES TypeOK' /\ \A u \in tasks' : TaskOK(u)
  BY <1>3 DEF PresenceInv
<1>4. CASE PutDevice(t)
  BY <1>4, FinishKeeps DEF PresenceInv, TypeOK, PutDevice
<1>5. CASE PutSession(t)
  <2>1. t.session \in Session
    BY <1>1, <1>5 DEF TaskOK, PutSession
  <2>2. tasks' \subseteq Task /\ \A u \in tasks' : TaskOK(u)
    <3>1. CASE t.kind = "connect"
      <4>1. TaskOK([t EXCEPT !.next = "closeOpen"])
        BY <1>1, <2>1, <3>1, GotoType DEF TaskOK, Statements
      <4>2. QED
        BY <1>5, <3>1, <4>1, GotoKeeps DEF PutSession, Statements
    <3>2. CASE t.kind # "connect"
      BY <1>5, <3>2, FinishKeeps DEF PutSession
    <3>3. QED
      BY <3>1, <3>2
  <2>3. QED
    BY <1>5, <2>1, <2>2 DEF PresenceInv, TypeOK, PutSession
<1>6. CASE PutSessionRefused(t)
  <2>1. TaskOK([t EXCEPT !.next = "ensureDevice"])
    BY <1>1, <1>6, GotoType DEF TaskOK, Statements, PutSessionRefused
  <2>2. tasks' \subseteq Task /\ \A u \in tasks' : TaskOK(u)
    BY <1>6, <2>1, GotoKeeps DEF PutSessionRefused, Statements
  <2>3. QED
    BY <1>6, <2>2 DEF PresenceInv, TypeOK, PutSessionRefused, tables
<1>7. CASE EnsureDevice(t)
  <2>1. TaskOK([t EXCEPT !.next = "putSessionAgain"])
    BY <1>1, <1>7, GotoType DEF TaskOK, Statements, EnsureDevice
  <2>2. tasks' \subseteq Task /\ \A u \in tasks' : TaskOK(u)
    BY <1>7, <2>1, GotoKeeps DEF EnsureDevice, Statements
  <2>3. QED
    BY <1>7, <2>2 DEF PresenceInv, TypeOK, EnsureDevice
<1>8. CASE CloseOpenStatus(t)
  <2>1. t.session \in Session /\ t.kind \in {"connect", "close", "boot", "bootOpen"}
    BY <1>1, <1>8 DEF TaskOK, CloseOpenStatus
  <2>2. HistoryOK(history')
    BY <1>1, <1>8, <2>1, EndOfType, CloseOpenKeeps DEF CloseOpenStatus
  <2>3. PICK next \in Statements :
          /\ Goto(t, next)
          /\ \/ next = "insertOnline" /\ t.kind = "connect"
             \/ next = "insertOffline" /\ t.kind \in {"close", "boot", "bootOpen"}
             \/ next = "insertClosed" /\ t.kind \in {"close", "boot"}
    BY <1>8, <2>1 DEF CloseOpenStatus, Statements
  <2>4. TaskOK([t EXCEPT !.next = next])
    BY <1>1, <2>1, <2>3, GotoType DEF TaskOK
  <2>5. tasks' \subseteq Task /\ \A u \in tasks' : TaskOK(u)
    BY <2>3, <2>4, GotoKeeps
  <2>6. QED
    BY <1>8, <2>2, <2>5 DEF PresenceInv, TypeOK, HistoryOK, CloseOpenStatus
<1>9. CASE InsertOnline(t)
  <2>1. t.session \in Session
    BY <1>1, <1>9 DEF TaskOK, InsertOnline
  <2>2. HistoryOK(history')
    BY <1>1, <1>9, <2>1, InsertKeeps, IntervalType DEF InsertOnline
  <2>3. QED
    BY <1>9, <2>2, FinishKeeps DEF PresenceInv, TypeOK, HistoryOK, InsertOnline
<1>10. CASE InsertClosed(t)
  <2>1. t.session \in Session /\ EndOf(t) \in Nat
    BY <1>1, <1>10, EndOfType DEF TaskOK, InsertClosed
  <2>2. HistoryOK(history')
    BY <1>1, <1>10, <2>1, InsertKeeps, IntervalType DEF InsertClosed
  <2>3. TaskOK([t EXCEPT !.next = "insertOffline"])
    BY <1>1, <1>10, <2>1, GotoType DEF TaskOK, Statements, InsertClosed
  <2>4. tasks' \subseteq Task /\ \A u \in tasks' : TaskOK(u)
    BY <1>10, <2>3, GotoKeeps DEF InsertClosed, Statements
  <2>5. QED
    BY <1>10, <2>2, <2>4 DEF PresenceInv, TypeOK, HistoryOK, InsertClosed
<1>11. CASE InsertOffline(t)
  <2>1. t.session \in Session /\ EndOf(t) \in Nat /\ t.kind \in {"close", "boot", "bootOpen"}
    BY <1>1, <1>11, EndOfType DEF TaskOK, InsertOffline
  <2>2. HistoryOK(history')
    BY <1>1, <1>11, <2>1, InsertKeeps, IntervalType DEF InsertOffline
  <2>3. CASE t.kind = "close"
    <3>1. TaskOK([t EXCEPT !.next = "deleteSession"])
      BY <1>1, <2>1, <2>3, GotoType DEF TaskOK, Statements
    <3>2. tasks' \subseteq Task /\ \A u \in tasks' : TaskOK(u)
      BY <1>11, <2>3, <3>1, GotoKeeps DEF InsertOffline, Statements
    <3>3. QED
      BY <1>11, <2>2, <3>2 DEF PresenceInv, TypeOK, HistoryOK, InsertOffline
  <2>4. CASE t.kind # "close"
    <3>1. PICK rows \in SUBSET Interval : \E n \in BootNext(t, rows) : tasks' = {n}
      <4>1. CASE t.kind = "boot"
        BY <1>11, <2>2, <4>1 DEF InsertOffline, OnlineRows, HistoryOK
      <4>2. CASE t.kind = "bootOpen"
        BY <1>1, <1>11, <4>2 DEF InsertOffline, Task
      <4>3. QED
        BY <2>1, <2>4, <4>1, <4>2
    <3>2. PICK n \in BootNext(t, rows) : tasks' = {n}
      BY <3>1
    <3>3. TaskOK(n)
      BY <1>1, <2>1, <2>4, <3>2, BootNextOK
    <3>4. QED
      BY <1>11, <2>2, <3>2, <3>3 DEF PresenceInv, TypeOK, HistoryOK, InsertOffline, TaskOK
  <2>5. QED
    BY <2>3, <2>4
<1>12. CASE DeleteSession(t)
  BY <1>12, FinishKeeps DEF PresenceInv, TypeOK, DeleteSession
<1>13. CASE FailStatement(t)
  <2>1. tasks' \subseteq Task /\ \A u \in tasks' : TaskOK(u)
    <3>1. CASE t.kind = "close" /\ t.next # "deleteSession"
      <4>1. TaskOK([t EXCEPT !.next = "deleteSession"])
        BY <1>1, <3>1, GotoType DEF TaskOK, Statements
      <4>2. QED
        BY <1>13, <3>1, <4>1, GotoKeeps DEF FailStatement, Statements
    <3>2. CASE ~(t.kind = "close" /\ t.next # "deleteSession")
      BY <1>13, <3>2, FinishKeeps DEF FailStatement
    <3>3. QED
      BY <3>1, <3>2
  <2>2. left' \in [beats : Nat, failures : Nat, crashes : Nat]
    BY <1>13 DEF PresenceInv, TypeOK, FailStatement
  <2>3. QED
    BY <1>13, <2>1, <2>2 DEF PresenceInv, TypeOK, FailStatement, tables
<1>14. QED
  BY <1>4, <1>5, <1>6, <1>7, <1>8, <1>9, <1>10, <1>11, <1>12, <1>13

\* Server runs and the clock.
LEMMA ServerInv ==
  ASSUME PresenceInv,
         \/ \E t \in tasks : ClearSessions(t)
         \/ Boot \/ ServerHeartbeat \/ StopRun \/ Exit \/ Tick \/ UNCHANGED vars
  PROVE  PresenceInv'
<1>1. ASSUME NEW t \in tasks, ClearSessions(t) PROVE PresenceInv'
  <2>1. tasks' \subseteq Task /\ \A u \in tasks' : TaskOK(u)
    BY <1>1, FinishKeeps DEF ClearSessions
  <2>2. TypeOK'
    BY <1>1, <2>1 DEF PresenceInv, TypeOK, ClearSessions
  <2>3. QED
    BY <1>1, <2>1, <2>2
    DEF PresenceInv, ClearSessions, NobodyWhileDown, SessionOfLatestSocket
<1>2. CASE Boot
  <2>0. ShutdownTime \in Nat /\ socketRow \in Session \cup {NoSession}
    BY ShutdownTimeType DEF PresenceInv, TypeOK
  <2>1. HistoryOK(history')
    BY <1>2, RepairedKeeps DEF Boot, PresenceInv
  <2>2. run' \in [beat : Nat \cup {Never}, stopped : Nat \cup {Never}]
    BY <1>2 DEF Boot, PresenceInv, TypeOK
  <2>3. PICK n : tasks' = {n} /\ TaskOK(n)
    <3>1. CASE socketRow # NoSession
      <4> DEFINE n == NewTask("boot", socketRow, ShutdownTime, "closeOpen")
      <4>1. /\ n \in Task /\ n.kind = "boot" /\ n.session \in Session /\ n.next = "closeOpen"
        BY <2>0, <3>1, Names, NewTaskType
      <4>2. tasks' = {n}
        BY <1>2, <3>1 DEF Boot
      <4>3. TaskOK(n)
        BY <4>1 DEF TaskOK
      <4>4. QED
        BY <4>2, <4>3
    <3>2. CASE socketRow = NoSession
      <4> DEFINE b == NewTask("boot", NoSession, ShutdownTime, "clear")
      <4>1. b \in Task /\ b.kind = "boot"
        BY <2>0, Names, NewTaskType
      <4>2. PICK n \in BootNext(b, OnlineRows(history)) : tasks' = {n}
        BY <1>2, <3>2 DEF Boot
      <4>3. OnlineRows(history) \subseteq Interval
        BY DEF OnlineRows, PresenceInv, TypeOK
      <4>4. TaskOK(n)
        BY <4>1, <4>2, <4>3, BootNextOK
      <4>5. QED
        BY <4>2, <4>4
    <3>3. QED
      BY <3>1, <3>2
  <2>4. TypeOK'
    BY <1>2, <2>1, <2>2, <2>3 DEF PresenceInv, TypeOK, HistoryOK, Boot, TaskOK
  <2>5. QED
    BY <1>2, <2>3, <2>4 DEF PresenceInv, Boot, NobodyWhileDown, SessionOfLatestSocket
<1>3. CASE ServerHeartbeat
  <2>1. run' \in [beat : Nat \cup {Never}, stopped : Nat \cup {Never}]
    BY <1>3 DEF ServerHeartbeat, PresenceInv, TypeOK
  <2>2. QED
    BY <1>3, <2>1
    DEF PresenceInv, TypeOK, ServerHeartbeat, NobodyWhileDown, SessionOfLatestSocket
<1>4. CASE StopRun
  <2>1. run' \in [beat : Nat \cup {Never}, stopped : Nat \cup {Never}]
    BY <1>4 DEF StopRun, PresenceInv, TypeOK
  <2>2. QED
    BY <1>4, <2>1
    DEF PresenceInv, TypeOK, StopRun, NobodyWhileDown, SessionOfLatestSocket
<1>5. CASE Exit
  <2>1. left' \in [beats : Nat, failures : Nat, crashes : Nat]
    BY <1>5 DEF Exit, PresenceInv, TypeOK
  <2>2. QED
    BY <1>5, <2>1
    DEF PresenceInv, TypeOK, Exit, tables, NobodyWhileDown, SessionOfLatestSocket
<1>6. CASE Tick
  BY <1>6 DEF PresenceInv, TypeOK, Tick, tables, NobodyWhileDown, SessionOfLatestSocket
<1>7. CASE UNCHANGED vars
  BY <1>7 DEF PresenceInv, TypeOK, vars, tables, NobodyWhileDown, SessionOfLatestSocket
<1>8. QED
  BY <1>1, <1>2, <1>3, <1>4, <1>5, <1>6, <1>7

-----------------------------------------------------------------------------
(* What a boot leaves.  NobodyOnlineAfterBoot speaks of the moment the     *)
(* server listens; the invariant says how the boot's one task gets there,  *)
(* and that nothing but it runs until the device connects.                 *)

BootTaskOK(t) ==
  /\ t.kind \in {"boot", "bootOpen"}
  /\ t.next \in {"closeOpen", "insertClosed", "insertOffline", "clear"}
  /\ t.next \in {"insertClosed", "insertOffline"} => Unended = {}
  /\ t.next = "clear" => OnlineRows(history) = {}

Loading ==
  /\ phase \in {"down", "loading"} => latest = NoSocket
  /\ phase = "loading" => \E t : tasks = {t} /\ BootTaskOK(t)

OnlyTheBootBoots == \A t \in tasks : t.kind \in {"boot", "bootOpen"} => phase = "loading"

QuietUntilConnected ==
  phase = "up" /\ latest = NoSocket =>
    tasks = {} /\ socketRow = NoSession /\ OnlineRows(history) = {}

BootInv == PresenceInv /\ Loading /\ OnlyTheBootBoots /\ QuietUntilConnected

LEMMA BootInitInv == Init => BootInv
  BY InitInv DEF Init, BootInv, Loading, OnlyTheBootBoots, QuietUntilConnected

\* closeOpenStatus leaves no interval open.
LEMMA CloseOpenEnds ==
  ASSUME HistoryOK(history), NEW at \in Nat
  PROVE  \A i \in CloseOpen(at) : ~IsOpen(i)
<1>1. \A i \in history : ~IsOpen(IF IsOpen(i) THEN [i EXCEPT !.end = at] ELSE i)
  BY DEF HistoryOK, Interval, IsOpen, Never
<1>2. QED
  BY <1>1 DEF CloseOpen

\* An interval that is inserted is open only if it is meant to be.
LEMMA InsertAdds ==
  ASSUME NEW h, NEW i
  PROVE  InsertIgnore(h, i) \subseteq h \cup {i}
  BY DEF InsertIgnore

\* The tasks that BootNext goes on with are the boot's.
LEMMA BootNextIsBoot ==
  ASSUME NEW t \in Task, t.kind \in {"boot", "bootOpen"}, NEW rows, rows \subseteq Interval,
         NEW n \in BootNext(t, rows)
  PROVE  /\ n.kind \in {"boot", "bootOpen"}
         /\ \/ n.next = "closeOpen"
            \/ n.next = "clear" /\ rows = {}
<1>1. CASE rows = {}
  <2>1. n = [t EXCEPT !.rows = {}, !.next = "clear"]
    BY <1>1 DEF BootNext
  <2>2. n.kind = t.kind /\ n.next = "clear"
    BY <2>1 DEF Task
  <2>3. QED
    BY <1>1, <2>2
<1>2. CASE rows # {}
  BY <1>2 DEF BootNext
<1>3. QED
  BY <1>1, <1>2

LEMMA BootNextInv ==
  ASSUME BootInv, [Next]_vars
  PROVE  Loading' /\ OnlyTheBootBoots' /\ QuietUntilConnected'
<1> USE PresenceAssumption
<1>1. PresenceInv
  BY DEF BootInv
<1>2. \A t \in tasks : TaskOK(t) /\ t \in Task
  BY <1>1 DEF PresenceInv, TaskOK
<1>3. HistoryOK(history)
  BY <1>1, TypesOfHistory DEF PresenceInv
<1>4. ASSUME phase = "up", latest = NoSocket
      PROVE  session = NoSession /\ tasks = {}
  BY <1>1, <1>4 DEF BootInv, QuietUntilConnected, PresenceInv, TypeOK, SessionOfLatestSocket
<1>5. ASSUME NEW s \in Sockets, Accept(s) \/ Heartbeat(s) \/ Drop(s)
      PROVE  Loading' /\ OnlyTheBootBoots' /\ QuietUntilConnected'
  <2>1. phase = "up" /\ phase' = "up"
    BY <1>1, <1>5 DEF Accept, Heartbeat, Drop, PresenceInv, NobodyWhileDown
  <2>2. \A t \in tasks' \ tasks : t.kind \in {"register", "connect", "touch", "close"}
    BY <1>5 DEF Accept, Heartbeat, Drop, NewTask, CloseTask
  <2>3. QuietUntilConnected'
    <3>1. CASE Accept(s)
      BY <3>1 DEF Accept, QuietUntilConnected
    <3>2. CASE Heartbeat(s)
      BY <1>4, <2>1, <3>2 DEF Heartbeat, QuietUntilConnected
    <3>3. CASE Drop(s)
      BY <1>4, <2>1, <3>3 DEF Drop, BootInv, QuietUntilConnected, tables
    <3>4. QED
      BY <1>5, <3>1, <3>2, <3>3
  <2>4. QED
    BY <2>1, <2>2, <2>3 DEF BootInv, Loading, OnlyTheBootBoots
\* A statement of a task of the running server.
<1>6. ASSUME NEW t \in tasks, phase # "loading",
             \/ PutDevice(t) \/ PutSession(t) \/ PutSessionRefused(t) \/ EnsureDevice(t)
             \/ CloseOpenStatus(t) \/ InsertOnline(t) \/ InsertClosed(t) \/ InsertOffline(t)
             \/ DeleteSession(t) \/ FailStatement(t) \/ ClearSessions(t)
      PROVE  Loading' /\ OnlyTheBootBoots' /\ QuietUntilConnected'
  <2>1. t.kind \notin {"boot", "bootOpen"} /\ ~ClearSessions(t)
    BY <1>2, <1>6 DEF BootInv, OnlyTheBootBoots, TaskOK, ClearSessions
  <2>2. phase' = phase /\ latest' = latest
    BY <1>6, <2>1 DEF PutDevice, PutSession, PutSessionRefused, EnsureDevice, CloseOpenStatus,
      InsertOnline, InsertClosed, InsertOffline, DeleteSession, FailStatement
  <2>3. ~(phase = "up" /\ latest = NoSocket)
    BY <1>4, <1>6
  <2>4. \A next \in Statements : [t EXCEPT !.next = next].kind = t.kind
    BY <1>2, GotoType
  <2>5. \A u \in tasks' \ tasks : u.kind = t.kind
    <3>1. tasks' = tasks \ {t} \/ \E next \in Statements : Goto(t, next)
      <4>1. CASE CloseOpenStatus(t)
        BY <1>2, <2>1, <4>1 DEF CloseOpenStatus, TaskOK, Statements
      <4>2. CASE InsertOffline(t)
        BY <1>2, <2>1, <4>2 DEF InsertOffline, TaskOK, Statements
      <4>3. QED
        BY <1>6, <2>1, <4>1, <4>2 DEF PutDevice, PutSession, PutSessionRefused, EnsureDevice,
          InsertOnline, InsertClosed, DeleteSession, FailStatement, Finish, Statements
    <3>2. CASE tasks' = tasks \ {t}
      BY <3>2
    <3>3. CASE \E next \in Statements : Goto(t, next)
      <4>1. PICK next \in Statements : tasks' = (tasks \ {t}) \cup {[t EXCEPT !.next = next]}
        BY <3>3 DEF Goto
      <4>2. [t EXCEPT !.next = next].kind = t.kind
        BY <2>4
      <4>3. QED
        BY <4>1, <4>2
    <3>4. QED
      BY <3>1, <3>2, <3>3
  <2>6. QED
    BY <1>6, <2>1, <2>2, <2>3, <2>5
    DEF BootInv, Loading, OnlyTheBootBoots, QuietUntilConnected
\* A statement of the boot.
<1>7. ASSUME NEW t \in tasks, phase = "loading",
             \/ PutDevice(t) \/ PutSession(t) \/ PutSessionRefused(t) \/ EnsureDevice(t)
             \/ CloseOpenStatus(t) \/ InsertOnline(t) \/ InsertClosed(t) \/ InsertOffline(t)
             \/ DeleteSession(t) \/ FailStatement(t) \/ ClearSessions(t)
      PROVE  Loading' /\ OnlyTheBootBoots' /\ QuietUntilConnected'
  <2>1. tasks = {t} /\ BootTaskOK(t) /\ latest = NoSocket /\ TaskOK(t) /\ t \in Task
    BY <1>2, <1>7 DEF BootInv, Loading
  <2> SUFFICES ASSUME phase' = "loading", latest' = NoSocket
               PROVE  \E u : tasks' = {u} /\ BootTaskOK(u)'
    <3>1. CASE ClearSessions(t)
      BY <2>1, <3>1 DEF ClearSessions, Finish, BootTaskOK, Loading, OnlyTheBootBoots,
        QuietUntilConnected, OnlyTheBootBoots
    <3>2. CASE ~ClearSessions(t)
      <4>1. phase' = "loading" /\ latest' = NoSocket
        BY <1>7, <2>1, <3>2 DEF PutDevice, PutSession, PutSessionRefused, EnsureDevice,
          CloseOpenStatus, InsertOnline, InsertClosed, InsertOffline, DeleteSession, FailStatement
      <4>2. QED
        BY <4>1 DEF Loading, OnlyTheBootBoots, QuietUntilConnected, BootTaskOK
    <3>3. QED
      BY <3>1, <3>2
  <2>2. CASE CloseOpenStatus(t)
    <3>1. t.session \in Session /\ EndOf(t) \in Nat
      BY <2>1, <2>2, EndOfType DEF TaskOK, CloseOpenStatus
    <3>2. Unended' = {}
      BY <1>3, <2>2, <3>1, CloseOpenEnds DEF CloseOpenStatus, Unended
    <3>3. PICK next \in {"insertClosed", "insertOffline"} : Goto(t, next)
      BY <2>1, <2>2 DEF CloseOpenStatus, BootTaskOK
    <3>4. next \in Statements
      BY <3>3 DEF Statements
    <3>5. tasks' = {[t EXCEPT !.next = next]}
      BY <2>1, <3>3 DEF Goto
    <3>6. QED
      BY <2>1, <3>2, <3>3, <3>4, <3>5, GotoType DEF BootTaskOK
  <2>3. CASE InsertClosed(t)
    <3>1. t.session \in Session /\ EndOf(t) \in Nat /\ Unended = {}
      BY <2>1, <2>3, EndOfType DEF TaskOK, InsertClosed, BootTaskOK
    <3>2. ~IsOpen(OnlineInterval(t.session, EndOf(t)))
      BY <3>1 DEF IsOpen, OnlineInterval, Never
    <3>3. Unended' = {}
      BY <2>3, <3>1, <3>2, InsertAdds DEF InsertClosed, Unended
    <3>4. tasks' = {[t EXCEPT !.next = "insertOffline"]} /\ "insertOffline" \in Statements
      BY <2>1, <2>3 DEF InsertClosed, Goto, Statements
    <3>5. QED
      BY <2>1, <3>3, <3>4, GotoType DEF BootTaskOK
  <2>4. CASE InsertOffline(t)
    <3>1. OnlineRows(history') = {}
      <4>1. Unended = {}
        BY <2>1, <2>4 DEF InsertOffline, BootTaskOK
      <4>2. history' \subseteq history \cup {OfflineInterval(t.session, EndOf(t))}
        BY <2>4, InsertAdds DEF InsertOffline
      <4>3. OfflineInterval(t.session, EndOf(t)).status = "offline"
        BY DEF OfflineInterval
      <4>4. QED
        BY <4>1, <4>2, <4>3 DEF OnlineRows, Unended
    <3>2. PICK rows \in SUBSET Interval : \E n \in BootNext(t, rows) : tasks' = {n}
      <4>1. CASE t.kind = "boot"
        BY <2>4, <3>1, <4>1 DEF InsertOffline
      <4>2. CASE t.kind = "bootOpen"
        BY <2>1, <2>4, <4>2 DEF InsertOffline, Task
      <4>3. QED
        BY <2>1, <4>1, <4>2 DEF BootTaskOK
    <3>3. PICK n \in BootNext(t, rows) : tasks' = {n}
      BY <3>2
    <3>4. n.kind \in {"boot", "bootOpen"} /\ n.next \in {"closeOpen", "clear"}
      BY <2>1, <3>3, BootNextIsBoot DEF BootTaskOK
    <3>5. QED
      BY <3>1, <3>3, <3>4 DEF BootTaskOK
  <2>5. QED
    BY <1>7, <2>1, <2>2, <2>3, <2>4 DEF BootTaskOK, TaskOK, PutDevice, PutSession,
      PutSessionRefused, EnsureDevice, InsertOnline, DeleteSession, FailStatement, ClearSessions
<1>8. CASE Boot
  <2>1. PICK n : /\ tasks' = {n} /\ n.kind \in {"boot", "bootOpen"}
                 /\ \/ n.next = "closeOpen"
                    \/ n.next = "clear" /\ OnlineRows(history') = {}
    <3>1. CASE socketRow # NoSession
      <4> DEFINE n == NewTask("boot", socketRow, ShutdownTime, "closeOpen")
      <4>1. tasks' = {n}
        BY <1>8, <3>1 DEF Boot
      <4>2. n.kind = "boot" /\ n.next = "closeOpen"
        BY DEF NewTask
      <4>3. QED
        BY <4>1, <4>2
    <3>2. CASE socketRow = NoSession
      <4> DEFINE b == NewTask("boot", NoSession, ShutdownTime, "clear")
      <4>1. b \in Task /\ b.kind = "boot"
        BY <1>1, ShutdownTimeType, Names, NewTaskType DEF PresenceInv
      <4>2. PICK n \in BootNext(b, OnlineRows(history)) : tasks' = {n}
        BY <1>8, <3>2 DEF Boot
      <4>3. OnlineRows(history) \subseteq Interval
        BY <1>3 DEF OnlineRows, HistoryOK
      <4>4. history' = history
        BY <1>8, <3>2 DEF Boot, Repaired
      <4>5. QED
        BY <4>1, <4>2, <4>3, <4>4, BootNextIsBoot
    <3>3. QED
      BY <3>1, <3>2
  <2>2. latest = NoSocket
    BY <1>8 DEF Boot, BootInv, Loading
  <2>3. QED
    BY <1>8, <2>1, <2>2
    DEF Boot, Loading, OnlyTheBootBoots, QuietUntilConnected, BootTaskOK
<1>9. CASE ServerHeartbeat \/ StopRun \/ Tick \/ UNCHANGED vars
  BY <1>9 DEF BootInv, ServerHeartbeat, StopRun, Tick, vars, tables, Loading, OnlyTheBootBoots,
    QuietUntilConnected, BootTaskOK, Unended, OnlineRows
<1>10. CASE Shutdown
  BY <1>10 DEF BootInv, Shutdown, Loading, OnlyTheBootBoots, QuietUntilConnected, CloseTask, NewTask
<1>11. CASE Exit
  BY <1>11 DEF Exit, Loading, OnlyTheBootBoots, QuietUntilConnected
<1>12. QED
  BY <1>5, <1>6, <1>7, <1>8, <1>9, <1>10, <1>11 DEF Next

-----------------------------------------------------------------------------
(* What the tables tell.  The last task that began alone is told by calm;  *)
(* from there on each of its statements leaves the history in a state that *)
(* can be named, whatever came before it.                                  *)

\* A registration is one statement, only the end of a session deletes its row, and the sockets
\* were given out.
TaskFits(t) ==
  /\ t.next = "putDevice" <=> t.kind = "register"
  /\ t.next = "deleteSession" => t.kind = "close"
  /\ t.session # NoSession => t.session.socket \in used
  /\ \A i \in t.rows : i.socket \in used

SocketsUsed ==
  /\ \A i \in history : i.socket \in used
  /\ socketRow # NoSession => socketRow.socket \in used
  /\ session # NoSession => session.socket \in used
  /\ \A t \in tasks : TaskFits(t)

\* The clock is ahead of all that was written; a session's time is online time.
InTime ==
  /\ run.beat <= clock
  /\ phase \in {"loading", "up"} => run.stopped = Never
  /\ phase # "down" => run.beat # Never
  /\ session # NoSession =>
       /\ session.since <= clock /\ session.beat <= clock
       /\ session.since .. clock - 1 \subseteq onlineTicks

Online(s) == Unended = {OnlineInterval(s, Never)}

Offline ==
  /\ \A i \in Unended : i.status = "offline"
  /\ \A i, j \in Unended : i = j

\* What the tables tell when no session task is under way.
Settled ==
  IF session # NoSession
  THEN /\ socketRow # NoSession /\ socketRow.socket = session.socket /\ socketRow.since = session.since
       /\ socketRow.beat <= clock /\ Online(session)
  ELSE \/ Offline /\ (calm = "always" => socketRow = NoSession)
       \/ /\ phase = "down" /\ socketRow # NoSession /\ Online(socketRow)
          /\ run.stopped = Never /\ run.beat # Never
          /\ socketRow.since .. Later(run.beat, socketRow.beat) - 1 \subseteq onlineTicks

\* What they tell in the middle of a task that runs on its own.
ConnectTells(t) ==
  /\ session # NoSession /\ t.session = session /\ t.at = session.since /\ t.at = session.beat
  /\ \A i \in history : i.socket # session.socket
  /\ t.next \in {"closeOpen", "insertOnline"} => socketRow = session
  /\ t.next = "insertOnline" => Unended = {}
  /\ calm = "always" => \A i \in Unended : i.status = "online" => i.start .. t.at - 1 \subseteq onlineTicks

TouchTells(t) ==
  /\ session # NoSession /\ t.session = session /\ Online(session)
  /\ socketRow # NoSession /\ socketRow.socket = session.socket /\ socketRow.since = session.since

CloseTells(t) ==
  /\ session = NoSession /\ phase \in {"up", "stopping"}
  /\ t.next \in {"insertClosed", "insertOffline"} => Unended = {}
  /\ t.next = "deleteSession" => Offline
  /\ calm = "always" =>
       /\ t.next # "insertClosed"
       /\ socketRow # NoSession => socketRow.socket = t.session.socket
       /\ t.next = "closeOpen" => Online(t.session) /\ t.session.since .. EndOf(t) - 1 \subseteq onlineTicks

BootTells(t) ==
  /\ t.next # "clear" => t.kind = "boot"
  /\ t.next \in {"insertClosed", "insertOffline"} => Unended = {}
  /\ t.next = "clear" => Offline
  /\ calm = "always" =>
       /\ t.next # "insertClosed"
       /\ t.next = "closeOpen" => Online(t.session) /\ t.session.since .. EndOf(t) - 1 \subseteq onlineTicks

TaskTells(t) ==
  /\ t.kind = "connect" => ConnectTells(t)
  /\ t.kind = "touch" => TouchTells(t)
  /\ t.kind = "close" => CloseTells(t)
  /\ t.kind \in {"boot", "bootOpen"} => BootTells(t)

\* Where nothing disturbed the last connect or disconnect, the tables can be told from the task.
CalmTells ==
  calm # "no" =>
    /\ \A t, u \in SessionTasks : t = u
    /\ SessionTasks = {} => Settled
    /\ \A t \in SessionTasks : TaskTells(t)

HistoryInv == SocketsUsed /\ InTime /\ CalmTells /\ OnlineTimeIsReal

LEMMA InsertSockets ==
  ASSUME NEW h, NEW some, \A i \in h : i.socket \in some, NEW i, i.socket \in some
  PROVE  \A j \in InsertIgnore(h, i) : j.socket \in some
  BY DEF InsertIgnore

LEMMA CloseSockets ==
  ASSUME HistoryOK(history), NEW some, \A i \in history : i.socket \in some, NEW at
  PROVE  \A j \in CloseOpen(at) : j.socket \in some
<1> DEFINE Ended(i) == IF IsOpen(i) THEN [i EXCEPT !.end = at] ELSE i
<1>1. \A i \in history : Ended(i).socket = i.socket
  BY DEF HistoryOK, Interval
<1>2. CloseOpen(at) = {Ended(i) : i \in history}
  BY DEF CloseOpen
<1> HIDE DEF Ended
<1>3. QED
  BY <1>1, <1>2

LEMMA RepairedSockets ==
  ASSUME HistoryOK(history), NEW some, \A i \in history : i.socket \in some,
         socketRow # NoSession => socketRow.socket \in some
  PROVE  \A j \in Repaired : j.socket \in some
<1>1. CASE socketRow = NoSession
  BY <1>1 DEF Repaired
<1>2. CASE socketRow # NoSession
  <2> DEFINE Ended(i) == IF IsOpen(i) /\ i.start < socketRow.since THEN [i EXCEPT !.end = socketRow.since] ELSE i
             h == {Ended(i) : i \in history}
  <2>1. \A i \in history : Ended(i).socket = i.socket
    BY DEF HistoryOK, Interval
  <2>2. Repaired = InsertIgnore(h, OnlineInterval(socketRow, Never))
    BY <1>2 DEF Repaired
  <2> HIDE DEF Ended
  <2>3. \A j \in h : j.socket \in some
    BY <2>1
  <2> HIDE DEF h
  <2>4. OnlineInterval(socketRow, Never).socket \in some
    BY <1>2 DEF OnlineInterval
  <2>5. QED
    BY <2>2, <2>3, <2>4, InsertSockets
<1>3. QED
  BY <1>1, <1>2

LEMMA HistoryInit == Init => HistoryInv
<1> SUFFICES ASSUME Init PROVE HistoryInv
  OBVIOUS
<1>1. Unended = {} /\ SessionTasks = {}
  BY DEF Init, Unended, SessionTasks
<1>2. Settled
  BY <1>1 DEF Init, Settled, Offline
<1>3. CalmTells
  BY <1>1, <1>2 DEF CalmTells
<1>4. SocketsUsed /\ InTime /\ OnlineTimeIsReal
  BY DEF Init, SocketsUsed, InTime, OnlineTimeIsReal, Never
<1>5. QED
  BY <1>3, <1>4 DEF HistoryInv

\* A task that goes on fits as before.
LEMMA GotoFits ==
  ASSUME \A u \in tasks : TaskFits(u), NEW t \in tasks, t \in Task, NEW next \in Statements, Goto(t, next), used' = used,
         t.kind # "register", next # "putDevice", next = "deleteSession" => t.kind = "close"
  PROVE  \A u \in tasks' : TaskFits(u)'
<1>1. /\ [t EXCEPT !.next = next].next = next /\ [t EXCEPT !.next = next].kind = t.kind
      /\ [t EXCEPT !.next = next].session = t.session /\ [t EXCEPT !.next = next].rows = t.rows
  BY DEF Task
<1>2. QED
  BY <1>1 DEF Goto, TaskFits

LEMMA FinishFits ==
  ASSUME \A u \in tasks : TaskFits(u), NEW t \in tasks, Finish(t), used' = used
  PROVE  \A u \in tasks' : TaskFits(u)'
  BY DEF Finish, TaskFits

\* So do the tasks of a boot.
LEMMA BootFits ==
  ASSUME NEW t \in Task, t.kind \in {"boot", "bootOpen"}, t.session # NoSession => t.session.socket \in used,
         NEW rows \in SUBSET Interval, \A i \in rows : i.socket \in used, NEW n \in BootNext(t, rows), used' = used
  PROVE  TaskFits(n)'
<1>1. CASE rows = {}
  <2>1. n = [t EXCEPT !.rows = {}, !.next = "clear"]
    BY <1>1 DEF BootNext
  <2>2. n.next = "clear" /\ n.kind = t.kind /\ n.session = t.session /\ n.rows = {}
    BY <2>1 DEF Task
  <2>3. QED
    BY <2>2 DEF TaskFits
<1>2. CASE rows # {}
  <2>1. PICK r \in rows :
          n = [kind |-> "bootOpen", session |-> [socket |-> r.socket, since |-> r.start, beat |-> r.start],
               at |-> t.at, rows |-> rows \ {r}, next |-> "closeOpen"]
    BY <1>2 DEF BootNext
  <2>2. n.next = "closeOpen" /\ n.kind = "bootOpen" /\ n.session.socket = r.socket /\ n.rows \subseteq rows
    BY <2>1
  <2>3. QED
    BY <2>2 DEF TaskFits
<1>3. QED
  BY <1>1, <1>2

\* No statement gives a socket out, or names one that was not.
LEMMA SocketsStep ==
  ASSUME BootInv, SocketsUsed, [Next]_vars
  PROVE  SocketsUsed'
<1> USE PresenceAssumption
<1>1. /\ TypeOK /\ \A t \in tasks : TaskOK(t) /\ t \in Task
      /\ \A t \in tasks : TaskFits(t)
      /\ \A i \in history : i.socket \in used
      /\ HistoryOK(history)
  BY TypesOfHistory DEF BootInv, PresenceInv, SocketsUsed, TypeOK
<1>2. CASE UNCHANGED vars
  BY <1>2 DEF vars, tables, SocketsUsed, TaskFits
<1>3. ASSUME NEW s \in Sockets, Accept(s) PROVE SocketsUsed'
  <2>1. PICK new, c, r : /\ new = [socket |-> s, since |-> clock, beat |-> clock]
                         /\ c = NewTask("connect", new, clock, "putSession")
                         /\ r = NewTask("register", NoSession, clock, "putDevice")
    OBVIOUS
  <2>2. used' = used \cup {s} /\ session' = new /\ history' = history /\ socketRow' = socketRow
        /\ tasks' \subseteq tasks \cup {c, r}
    BY <1>3, <2>1 DEF Accept, tables
  <2>3. TaskFits(c)' /\ TaskFits(r)'
    BY <2>1, <2>2 DEF TaskFits, NewTask
  <2>4. \A u \in tasks : TaskFits(u)'
    BY <1>1, <2>2 DEF TaskFits
  <2>5. new.socket = s
    BY <2>1
  <2>6. QED
    BY <2>2, <2>3, <2>4, <2>5 DEF SocketsUsed
<1>4. ASSUME NEW s \in Sockets, Heartbeat(s) PROVE SocketsUsed'
  <2>1. session \in Session /\ session' = [session EXCEPT !.beat = clock] /\ used' = used /\ history' = history /\ socketRow' = socketRow
    BY <1>1, <1>4 DEF Heartbeat, tables, TypeOK
  <2>0. PICK c : c = NewTask("touch", session', clock, "putSession") /\ tasks' = tasks \cup {c}
    BY <1>4 DEF Heartbeat
  <2>2. session'.socket = session.socket /\ session.socket \in used
    BY <1>4, <2>1 DEF Session, SocketsUsed, Heartbeat
  <2>3. TaskFits(c)'
    <3>1. c.next = "putSession" /\ c.kind = "touch" /\ c.session = session' /\ c.rows = {}
      BY <2>0 DEF NewTask
    <3>2. c.session.socket \in used'
      BY <2>1, <2>2, <3>1
    <3>3. QED
      BY <3>1, <3>2 DEF TaskFits
  <2>4. \A u \in tasks : TaskFits(u)'
    BY <1>1, <2>1 DEF TaskFits
  <2>5. QED
    BY <2>0, <2>1, <2>2, <2>3, <2>4 DEF SocketsUsed
<1>5. ASSUME \/ \E s \in Sockets : Drop(s)
             \/ Shutdown
      PROVE  SocketsUsed'
  <2>1. used' = used /\ history' = history /\ socketRow' = socketRow
        /\ (session' = session \/ session' = NoSession)
        /\ (tasks' = tasks \/ (tasks' = tasks \cup {CloseTask} /\ session # NoSession))
    BY <1>5 DEF Drop, Shutdown, tables
  <2>2. session # NoSession => TaskFits(CloseTask)
    BY DEF TaskFits, CloseTask, NewTask, SocketsUsed
  <2>3. \A u : TaskFits(u) => TaskFits(u)'
    BY <2>1 DEF TaskFits
  <2>4. QED
    BY <1>1, <2>1, <2>2, <2>3 DEF SocketsUsed
<1>6. ASSUME NEW t \in tasks, PutDevice(t) \/ ClearSessions(t) \/ DeleteSession(t) PROVE SocketsUsed'
  BY <1>1, <1>6, FinishFits DEF PutDevice, ClearSessions, DeleteSession, SocketsUsed
<1>7. ASSUME NEW t \in tasks, PutSession(t) PROVE SocketsUsed'
  <2>1. t.kind \in {"connect", "touch"} /\ t.session # NoSession
    BY <1>1, <1>7 DEF PutSession, TaskOK
  <2>2. \A u \in tasks' : TaskFits(u)'
    BY <1>1, <1>7, <2>1, GotoFits, FinishFits DEF PutSession, Statements
  <2>3. QED
    BY <1>1, <1>7, <2>1, <2>2 DEF PutSession, SocketsUsed, TaskFits
<1>8. ASSUME NEW t \in tasks, PutSessionRefused(t) \/ EnsureDevice(t) PROVE SocketsUsed'
  <2>1. t.kind \in {"connect", "touch"}
    BY <1>1, <1>8 DEF PutSessionRefused, EnsureDevice, TaskOK
  <2>2. \A u \in tasks' : TaskFits(u)'
    BY <1>1, <1>8, <2>1, GotoFits DEF PutSessionRefused, EnsureDevice, Statements
  <2>3. QED
    BY <1>1, <1>8, <2>2 DEF PutSessionRefused, EnsureDevice, SocketsUsed, tables
<1>9. ASSUME NEW t \in tasks, CloseOpenStatus(t) PROVE SocketsUsed'
  <2>1. t.kind \in {"connect", "close", "boot", "bootOpen"} /\ t.session \in Session
    BY <1>1, <1>9 DEF CloseOpenStatus, TaskOK
  <2>2. \A i \in CloseOpen(EndOf(t)) : i.socket \in used
    BY <1>1, CloseSockets
  <2>3. PICK next \in {"insertOnline", "insertOffline", "insertClosed"} : Goto(t, next)
    BY <1>9, <2>1 DEF CloseOpenStatus
  <2>4. \A u \in tasks' : TaskFits(u)'
    BY <1>1, <1>9, <2>1, <2>3, GotoFits DEF CloseOpenStatus, Statements
  <2>5. QED
    BY <1>1, <1>9, <2>2, <2>4 DEF CloseOpenStatus, SocketsUsed
<1>10. ASSUME NEW t \in tasks, InsertOnline(t) PROVE SocketsUsed'
  <2>1. t.session # NoSession
    BY <1>1, <1>10 DEF InsertOnline, TaskOK
  <2>2. OnlineInterval(t.session, Never).socket \in used
    BY <1>1, <2>1 DEF OnlineInterval, TaskFits
  <2>3. \A i \in history' : i.socket \in used
    BY <1>1, <1>10, <2>2, InsertSockets DEF InsertOnline
  <2>4. QED
    BY <1>1, <1>10, <2>3, FinishFits DEF InsertOnline, SocketsUsed
<1>11. ASSUME NEW t \in tasks, InsertClosed(t) PROVE SocketsUsed'
  <2>1. t.session # NoSession /\ t.kind # "register"
    BY <1>1, <1>11 DEF InsertClosed, TaskOK
  <2>2. OnlineInterval(t.session, EndOf(t)).socket \in used
    BY <1>1, <2>1 DEF OnlineInterval, TaskFits
  <2>3. \A i \in history' : i.socket \in used
    BY <1>1, <1>11, <2>2, InsertSockets DEF InsertClosed
  <2>4. QED
    BY <1>1, <1>11, <2>1, <2>3, GotoFits DEF InsertClosed, SocketsUsed, Statements
<1>12. ASSUME NEW t \in tasks, InsertOffline(t) PROVE SocketsUsed'
  <2>1. t.session # NoSession /\ t.kind \in {"close", "boot", "bootOpen"}
    BY <1>1, <1>12 DEF InsertOffline, TaskOK
  <2>2. OfflineInterval(t.session, EndOf(t)).socket \in used
    BY <1>1, <2>1 DEF OfflineInterval, TaskFits
  <2>3. \A i \in history' : i.socket \in used
    BY <1>1, <1>12, <2>2, InsertSockets DEF InsertOffline
  <2>4. OnlineRows(history') \subseteq history' /\ history' \subseteq Interval
    <3>1. OfflineInterval(t.session, EndOf(t)) \in Interval
      BY <1>1, <1>12, <2>1, EndOfType, IntervalType DEF TaskOK, InsertOffline
    <3>2. QED
      BY <1>1, <1>12, <3>1, InsertAdds DEF InsertOffline, OnlineRows, HistoryOK
  <2>5. \A u \in tasks' : TaskFits(u)'
    <3>1. CASE t.kind = "close"
      BY <1>1, <1>12, <3>1, GotoFits DEF InsertOffline, Statements
    <3>2. CASE t.kind = "boot"
      <4>1. PICK n \in BootNext(t, OnlineRows(history')) : tasks' = {n}
        BY <1>12, <3>2 DEF InsertOffline
      <4>2. /\ OnlineRows(history') \in SUBSET Interval
            /\ \A i \in OnlineRows(history') : i.socket \in used
        BY <2>3, <2>4
      <4>3. t \in Task /\ t.session.socket \in used /\ used' = used
        BY <1>1, <1>12, <2>1 DEF TaskFits, InsertOffline
      <4>4. TaskFits(n)'
        BY <2>1, <3>2, <4>2, <4>3, BootFits
      <4>5. QED
        BY <4>1, <4>4
    <3>3. CASE t.kind = "bootOpen"
      <4>1. PICK n \in BootNext(t, t.rows) : tasks' = {n}
        BY <1>12, <3>3 DEF InsertOffline
      <4>2. t.rows \in SUBSET Interval /\ \A i \in t.rows : i.socket \in used
        BY <1>1 DEF Task, TaskFits
      <4>3. t \in Task /\ t.session.socket \in used /\ used' = used
        BY <1>1, <1>12, <2>1 DEF TaskFits, InsertOffline
      <4>4. TaskFits(n)'
        BY <2>1, <3>3, <4>2, <4>3, BootFits
      <4>5. QED
        BY <4>1, <4>4
    <3>4. QED
      BY <2>1, <3>1, <3>2, <3>3
  <2>6. QED
    BY <1>1, <1>12, <2>3, <2>5 DEF InsertOffline, SocketsUsed
<1>13. ASSUME NEW t \in tasks, FailStatement(t) PROVE SocketsUsed'
  <2>1. \A u \in tasks' : TaskFits(u)'
    BY <1>1, <1>13, GotoFits, FinishFits DEF FailStatement, Statements
  <2>2. QED
    BY <1>1, <1>13, <2>1 DEF FailStatement, SocketsUsed, tables
<1>14. CASE Boot
  <2>1. used' = used /\ session' = session /\ socketRow' = socketRow /\ history' = Repaired
    BY <1>14 DEF Boot
  <2>2. \A i \in history' : i.socket \in used
    BY <1>1, <2>1, RepairedSockets DEF SocketsUsed
  <2>3. \A u \in tasks' : TaskFits(u)'
    <3>1. CASE socketRow # NoSession
      <4>1. PICK c : c = NewTask("boot", socketRow, ShutdownTime, "closeOpen") /\ tasks' = {c}
        BY <1>14, <3>1 DEF Boot
      <4>2. TaskFits(c)'
        BY <2>1, <3>1, <4>1 DEF TaskFits, NewTask, SocketsUsed
      <4>3. QED
        BY <4>1, <4>2
    <3>2. CASE socketRow = NoSession
      <4> DEFINE b == NewTask("boot", NoSession, ShutdownTime, "clear")
      <4>1. PICK n \in BootNext(b, OnlineRows(history)) : tasks' = {n}
        BY <1>14, <3>2 DEF Boot
      <4>2. b \in Task /\ b.kind = "boot" /\ b.session = NoSession
        BY <1>1, ShutdownTimeType, NewTaskType, Names
      <4>3. OnlineRows(history) \in SUBSET Interval /\ \A i \in OnlineRows(history) : i.socket \in used
        BY <1>1 DEF OnlineRows, HistoryOK
      <4> HIDE DEF b
      <4>4. TaskFits(n)'
        BY <2>1, <4>2, <4>3, BootFits
      <4>5. QED
        BY <4>1, <4>4
    <3>3. QED
      BY <3>1, <3>2
  <2>4. QED
    BY <1>1, <2>1, <2>2, <2>3, <1>14 DEF SocketsUsed
<1>15. CASE ServerHeartbeat \/ StopRun \/ Exit \/ Tick
  BY <1>15, <1>1 DEF ServerHeartbeat, StopRun, Exit, Tick, tables, SocketsUsed, TaskFits
<1>16. QED
  BY <1>2, <1>3, <1>4, <1>5, <1>6, <1>7, <1>8, <1>9, <1>10, <1>11, <1>12, <1>13, <1>14, <1>15 DEF Next

\* The clock stays ahead of what was written.
LEMMA InTimeStep ==
  ASSUME BootInv, InTime, [Next]_vars
  PROVE  InTime'
<1> USE PresenceAssumption
<1>1. TypeOK /\ NobodyWhileDown
  BY DEF BootInv, PresenceInv
<1>2. clock \in Nat /\ session \in Session \cup {NoSession}
      /\ run \in [beat : Nat \cup {Never}, stopped : Nat \cup {Never}]
  BY <1>1 DEF TypeOK
<1>3. CASE UNCHANGED <<clock, session, phase, run, onlineTicks>>
  BY <1>3 DEF InTime
<1>4. ASSUME NEW s \in Sockets, Accept(s) PROVE InTime'
  <2>1. session' = [socket |-> s, since |-> clock, beat |-> clock]
    BY <1>4 DEF Accept
  <2>2. session'.since = clock /\ session'.beat = clock
    BY <2>1
  <2>3. clock' = clock /\ run' = run /\ phase' = phase /\ onlineTicks' = onlineTicks
    BY <1>4 DEF Accept, tables
  <2>4. clock .. clock - 1 = {}
    BY <1>2
  <2>5. QED
    BY <1>2, <2>2, <2>3, <2>4 DEF InTime
<1>5. ASSUME NEW s \in Sockets, Heartbeat(s) PROVE InTime'
  <2>1. session \in Session /\ session' = [session EXCEPT !.beat = clock]
    BY <1>2, <1>5 DEF Heartbeat
  <2>2. session'.since = session.since /\ session'.beat = clock /\ session # NoSession
    BY <1>5, <2>1 DEF Session, Heartbeat
  <2>3. clock' = clock /\ run' = run /\ phase' = phase /\ onlineTicks' = onlineTicks
    BY <1>5 DEF Heartbeat, tables
  <2>5. QED
    BY <1>2, <2>2, <2>3 DEF InTime
<1>6. ASSUME NEW s \in Sockets, Drop(s) PROVE InTime'
  BY <1>6 DEF Drop, tables, InTime
<1>7. CASE Shutdown
  BY <1>7 DEF Shutdown, tables, InTime
<1>8. ASSUME NEW t \in tasks, ClearSessions(t) PROVE InTime'
  <2>1. phase = "loading"
    BY <1>8 DEF BootInv, PresenceInv, OnlyTheBootBoots, TaskOK, ClearSessions
  <2>2. QED
    BY <1>8, <2>1 DEF ClearSessions, InTime
<1>9. CASE Boot
  <2>1. run'.beat = clock /\ run'.stopped = Never /\ clock' = clock /\ session' = session /\ onlineTicks' = onlineTicks
    BY <1>9 DEF Boot
  <2>2. QED
    BY <1>2, <2>1 DEF InTime, Never
<1>10. CASE ServerHeartbeat
  <2>1. run' = [run EXCEPT !.beat = clock]
    BY <1>10 DEF ServerHeartbeat
  <2>2. run'.beat = clock /\ run'.stopped = run.stopped
    BY <1>2, <2>1
  <2>3. QED
    BY <1>2, <1>10, <2>2 DEF InTime, ServerHeartbeat, Never
<1>11. CASE StopRun
  <2>1. run'.beat = clock
    BY <1>11 DEF StopRun
  <2>2. QED
    BY <1>2, <1>11, <2>1 DEF InTime, StopRun, Never
<1>12. CASE Exit
  BY <1>12 DEF Exit, InTime, tables
<1>13. CASE Tick
  <2>1. clock' = clock + 1 /\ run' = run /\ phase' = phase /\ session' = session
    BY <1>13 DEF Tick, tables
  <2>2. ASSUME session # NoSession PROVE session.since .. clock \subseteq onlineTicks'
    <3>1. session.since \in Nat /\ session.since .. clock - 1 \subseteq onlineTicks
      BY <1>2, <2>2 DEF Session, InTime
    <3>2. onlineTicks' = onlineTicks \cup {clock}
      BY <1>13, <2>2 DEF Tick
    <3>3. \A i \in session.since .. clock : i \in session.since .. clock - 1 \/ i = clock
      BY <1>2, <3>1
    <3>4. QED
      BY <3>1, <3>2, <3>3
  <2>3. clock' - 1 = clock
    BY <1>2, <2>1
  <2>4. run.beat \in Int /\ (session # NoSession => session.since \in Nat /\ session.beat \in Nat)
    BY <1>2 DEF Session, Never
  <2>5. run'.beat <= clock' /\ (session' # NoSession => session'.since <= clock' /\ session'.beat <= clock')
    BY <1>2, <2>1, <2>4 DEF InTime
  <2>6. QED
    BY <2>1, <2>2, <2>3, <2>5 DEF InTime
<1>14. QED
  <2>1. ASSUME NEW t \in tasks,
               \/ PutDevice(t) \/ PutSession(t) \/ PutSessionRefused(t) \/ EnsureDevice(t) \/ CloseOpenStatus(t)
               \/ InsertOnline(t) \/ InsertClosed(t) \/ InsertOffline(t) \/ DeleteSession(t) \/ FailStatement(t)
        PROVE  UNCHANGED <<clock, session, phase, run, onlineTicks>>
    BY <2>1 DEF PutDevice, PutSession, PutSessionRefused, EnsureDevice, CloseOpenStatus, InsertOnline, InsertClosed,
                InsertOffline, DeleteSession, FailStatement, tables
  <2>2. QED
    BY <1>3, <1>4, <1>5, <1>6, <1>7, <1>8, <1>9, <1>10, <1>11, <1>12, <1>13, <2>1 DEF Next, vars, tables

\* What is left of the session tasks when one goes on or ends.
LEMMA GotoSessionTasks ==
  ASSUME NEW t \in Task, t.kind # "register", NEW next \in Statements, Goto(t, next)
  PROVE  SessionTasks' = (SessionTasks \ {t}) \cup {[t EXCEPT !.next = next]}
<1>1. [t EXCEPT !.next = next].kind = t.kind
  BY DEF Task
<1>2. QED
  BY <1>1 DEF Goto, SessionTasks

LEMMA FinishSessionTasks ==
  ASSUME NEW t, Finish(t)
  PROVE  SessionTasks' = SessionTasks \ {t}
  BY DEF Finish, SessionTasks

\* CalmTells where one task is under way, and where none is.
LEMMA OneTells ==
  ASSUME NEW c, SessionTasks' = {c}, TaskTells(c)'
  PROVE  CalmTells'
  BY DEF CalmTells

LEMMA NoneTells ==
  ASSUME SessionTasks' = {}, Settled'
  PROVE  CalmTells'
  BY DEF CalmTells

\* CalmTells where nothing is changed that it speaks of; the run matters
\* only while the server is down.
LEMMA SameTells ==
  ASSUME CalmTells, SessionTasks' = SessionTasks,
         UNCHANGED <<clock, phase, session, socketRow, history, calm, onlineTicks>>,
         run' = run \/ phase # "down"
  PROVE  CalmTells'
<1> SUFFICES ASSUME calm # "no" PROVE CalmTells'
  BY DEF CalmTells
<1>1. Unended' = Unended
  BY DEF Unended
<1>2. Settled => Settled'
  BY <1>1 DEF Settled, Online, Offline
<1>3. ASSUME NEW t, TaskTells(t) PROVE TaskTells(t)'
  BY <1>1, <1>3 DEF TaskTells, ConnectTells, TouchTells, CloseTells, BootTells, Online, Offline, EndOf
<1>4. QED
  BY <1>2, <1>3 DEF CalmTells

\* A task that runs on its own: the place its kind has in the invariant.
LEMMA Alone ==
  ASSUME BootInv, SocketsUsed, CalmTells, calm # "no", NEW t \in tasks, t.next # "putDevice"
  PROVE  /\ SessionTasks = {t} /\ TaskTells(t) /\ TaskOK(t) /\ t \in Task /\ TaskFits(t)
         /\ t.kind \in {"connect", "touch", "close", "boot", "bootOpen"}
<1>1. TaskFits(t) /\ TaskOK(t) /\ t \in Task
  BY DEF SocketsUsed, BootInv, PresenceInv, TaskOK
<1>2. t \in SessionTasks
  BY <1>1 DEF TaskFits, SessionTasks
<1>3. SessionTasks = {t}
  BY <1>2 DEF CalmTells
<1>4. QED
  BY <1>1, <1>2, <1>3 DEF CalmTells, SessionTasks, Task, Kinds

\* The step of a task that runs on its own: it goes on, or it ends.
LEMMA AloneGoto ==
  ASSUME NEW t \in Task, SessionTasks = {t}, t.kind # "register", NEW next \in Statements, Goto(t, next)
  PROVE  \E c \in Task : /\ SessionTasks' = {c} /\ c = [t EXCEPT !.next = next] /\ c.next = next /\ c.kind = t.kind
                         /\ c.session = t.session /\ c.at = t.at
<1>1. PICK c : c = [t EXCEPT !.next = next]
  OBVIOUS
<1>2. c \in Task /\ c.next = next /\ c.kind = t.kind /\ c.session = t.session /\ c.at = t.at
  BY <1>1 DEF Task
<1>3. SessionTasks' = {c}
  BY <1>1, GotoSessionTasks
<1>4. QED
  BY <1>1, <1>2, <1>3

\* A connect, a heartbeat and a disconnect that run on their own.
LEMMA AcceptTells ==
  ASSUME BootInv, SocketsUsed, InTime, CalmTells, NEW s \in Sockets, Accept(s)
  PROVE  CalmTells'
<1>1. CASE SessionTasks # {}
  BY <1>1 DEF Accept, Begin, CalmTells
<1>2. CASE SessionTasks = {}
  <2>1. PICK new, c, r : /\ new = [socket |-> s, since |-> clock, beat |-> clock]
                         /\ c = NewTask("connect", new, clock, "putSession")
                         /\ r = NewTask("register", NoSession, clock, "putDevice")
    OBVIOUS
  <2>2. /\ tasks' = tasks \cup {c} \cup (IF known THEN {} ELSE {r})
        /\ session' = new /\ history' = history /\ onlineTicks' = onlineTicks /\ phase = "up"
        /\ calm' = IF calm = "always" THEN "always" ELSE "again"
    BY <1>2, <2>1 DEF Accept, Begin, tables
  <2>3. c.kind = "connect" /\ r.kind = "register" /\ c.session = new /\ c.at = clock /\ c.next = "putSession"
        /\ new.socket = s /\ new.since = clock /\ new.beat = clock
    BY <2>1 DEF NewTask
  <2>4. SessionTasks' = {c}
    BY <1>2, <2>2, <2>3 DEF SessionTasks
  <2>5. new # NoSession
    <3>1. clock \in Nat
      BY DEF BootInv, PresenceInv, TypeOK
    <3>2. new \in Session
      BY <2>1, <3>1 DEF Session
    <3>3. QED
      BY <3>2, PresenceAssumption
  <2>6. \A i \in history : i.socket # s
    BY DEF SocketsUsed, Accept
  <2>7. ASSUME calm = "always", NEW i \in Unended, i.status = "online" PROVE i.start .. clock - 1 \subseteq onlineTicks
    <3>1. Settled
      BY <1>2, <2>7 DEF CalmTells
    <3>2. session # NoSession /\ i = OnlineInterval(session, Never)
      BY <2>2, <2>7, <3>1 DEF Settled, Offline, Online
    <3>3. i.start = session.since
      BY <3>2 DEF OnlineInterval
    <3>4. QED
      BY <3>2, <3>3 DEF InTime
  <2>8. Unended' = Unended
    BY <2>2 DEF Unended
  <2>9. ConnectTells(c)'
    BY <2>2, <2>3, <2>5, <2>6, <2>7, <2>8 DEF ConnectTells
  <2>10. QED
    BY <2>3, <2>4, <2>9, OneTells DEF TaskTells
<1>3. QED
  BY <1>1, <1>2

LEMMA HeartbeatTells ==
  ASSUME BootInv, SocketsUsed, InTime, CalmTells, NEW s \in Sockets, Heartbeat(s)
  PROVE  CalmTells'
<1>1. CASE SessionTasks # {}
  BY <1>1 DEF Heartbeat, CalmTells
<1>2. CASE SessionTasks = {}
  <2> SUFFICES ASSUME calm # "no" PROVE CalmTells'
    BY <1>2 DEF Heartbeat, CalmTells
  <2>1. PICK c : c = NewTask("touch", session', clock, "putSession") /\ tasks' = tasks \cup {c}
    BY DEF Heartbeat
  <2>2. session \in Session /\ session' = [session EXCEPT !.beat = clock] /\ clock \in Nat
        /\ history' = history /\ socketRow' = socketRow /\ session # NoSession
    BY DEF Heartbeat, tables, BootInv, PresenceInv, TypeOK
  <2>3. session' \in Session /\ session'.socket = session.socket /\ session'.since = session.since
    BY <2>2 DEF Session
  <2>4. c.kind = "touch" /\ c.session = session'
    BY <2>1 DEF NewTask
  <2>5. SessionTasks' = {c}
    BY <1>2, <2>1, <2>4 DEF SessionTasks
  <2>6. Settled
    BY <1>2 DEF CalmTells
  <2>7. session' # NoSession
    BY <2>3, PresenceAssumption
  <2>8. Unended' = Unended /\ OnlineInterval(session, Never)' = OnlineInterval(session, Never)
    BY <2>2, <2>3 DEF Unended, OnlineInterval
  <2>9. TouchTells(c)'
    BY <2>2, <2>3, <2>4, <2>6, <2>7, <2>8 DEF TouchTells, Settled, Online
  <2>10. QED
    BY <2>4, <2>5, <2>9, OneTells DEF TaskTells
<1>3. QED
  BY <1>1, <1>2

\* The session ends, by a disconnect or a shutdown.
LEMMA EndTells ==
  ASSUME BootInv, InTime, CalmTells, session # NoSession, session' = NoSession, phase' \in {"up", "stopping"},
         tasks' = tasks \cup {CloseTask}, calm' = Begin, UNCHANGED <<clock, history, socketRow, onlineTicks>>
  PROVE  CalmTells'
<1>1. CASE SessionTasks # {}
  BY <1>1 DEF Begin, CalmTells
<1>2. CASE SessionTasks = {}
  <2>1. PICK c : c = CloseTask /\ tasks' = tasks \cup {c}
    OBVIOUS
  <2>2. c.kind = "close" /\ c.session = session /\ c.at = clock /\ c.next = "closeOpen"
    BY <2>1 DEF CloseTask, NewTask
  <2>3. SessionTasks' = {c}
    BY <1>2, <2>1, <2>2 DEF SessionTasks
  <2>4. calm' = IF calm = "always" THEN "always" ELSE "again"
    BY <1>2 DEF Begin
  <2>5. Unended' = Unended
    BY DEF Unended
  <2>6. EndOf(c) = clock
    <3>1. clock \in Nat /\ session \in Session
      BY DEF BootInv, PresenceInv, TypeOK
    <3>2. session.since <= clock /\ session.beat <= clock /\ session.since \in Nat /\ session.beat \in Nat
      BY <3>1 DEF InTime, Session
    <3>3. QED
      BY <2>2, <3>1, <3>2 DEF EndOf, Later
  <2>7. ASSUME calm = "always" PROVE /\ socketRow.socket = session.socket /\ Online(session)
                                     /\ session.since .. EndOf(c) - 1 \subseteq onlineTicks
    BY <1>2, <2>6, <2>7 DEF CalmTells, Settled, InTime
  <2>8. CloseTells(c)'
    <3>1. EndOf(c)' = EndOf(c)
      BY DEF EndOf
    <3>2. Online(c.session) => Online(c.session)'
      BY <2>5 DEF Online
    <3>3. QED
      BY <2>2, <2>4, <2>7, <3>1, <3>2 DEF CloseTells
  <2>9. QED
    BY <2>2, <2>3, <2>8, OneTells DEF TaskTells
<1>3. QED
  BY <1>1, <1>2

LEMMA DropTells ==
  ASSUME BootInv, InTime, CalmTells, NEW s \in Sockets, Drop(s)
  PROVE  CalmTells'
<1>1. phase = "up" /\ phase' = phase
  BY DEF BootInv, PresenceInv, NobodyWhileDown, Drop
<1>2. UNCHANGED <<clock, history, socketRow, onlineTicks, run>>
  BY DEF Drop, tables
<1>3. CASE session # NoSession /\ session.socket = s
  BY <1>1, <1>2, <1>3, EndTells DEF Drop
<1>4. CASE ~(session # NoSession /\ session.socket = s)
  <2>1. UNCHANGED <<session, tasks, calm>>
    BY <1>4 DEF Drop
  <2>2. QED
    BY <1>1, <1>2, <2>1, SameTells DEF SessionTasks
<1>5. QED
  BY <1>3, <1>4

LEMMA ShutdownTells ==
  ASSUME BootInv, InTime, CalmTells, Shutdown
  PROVE  CalmTells'
<1>1. phase = "up" /\ phase' = "stopping" /\ session' = NoSession
  BY DEF Shutdown
<1>2. UNCHANGED <<clock, history, socketRow, onlineTicks, run>>
  BY DEF Shutdown, tables
<1>3. CASE session # NoSession
  BY <1>1, <1>2, <1>3, EndTells DEF Shutdown
<1>4. CASE session = NoSession
  <2> SUFFICES ASSUME calm # "no" PROVE CalmTells'
    BY <1>4 DEF Shutdown, CalmTells
  <2>1. tasks' = tasks /\ calm' = calm /\ session' = session
    BY <1>1, <1>4 DEF Shutdown
  <2>2. SessionTasks' = SessionTasks /\ Unended' = Unended
    BY <1>2, <2>1 DEF SessionTasks, Unended
  <2>3. Settled => Settled'
    BY <1>1, <1>2, <1>4, <2>1, <2>2 DEF Settled, Offline
  <2>4. ASSUME NEW t, TaskTells(t) PROVE TaskTells(t)'
    BY <1>1, <1>2, <1>4, <2>1, <2>2, <2>4
       DEF TaskTells, ConnectTells, TouchTells, CloseTells, BootTells, Online, Offline, EndOf
  <2>5. QED
    BY <2>1, <2>2, <2>3, <2>4 DEF CalmTells
<1>5. QED
  BY <1>3, <1>4

\* The statements of a task that runs on its own.
LEMMA PutSessionTells ==
  ASSUME BootInv, SocketsUsed, InTime, CalmTells, calm # "no", NEW t \in tasks, PutSession(t)
  PROVE  CalmTells'
<1>1. /\ SessionTasks = {t} /\ TaskTells(t) /\ TaskOK(t) /\ t \in Task
      /\ t.kind \in {"connect", "touch"} /\ t.kind # "register"
  BY Alone DEF PutSession, TaskOK
<1>2. UNCHANGED <<clock, phase, session, history, run, calm, onlineTicks>> /\ socketRow' = t.session
  BY DEF PutSession
<1>3. Unended' = Unended
  BY <1>2 DEF Unended
<1>4. CASE t.kind = "connect"
  <2>1. Goto(t, "closeOpen") /\ ConnectTells(t)
    BY <1>1, <1>4 DEF PutSession, TaskTells
  <2>2. PICK c \in Task : /\ SessionTasks' = {c} /\ c.next = "closeOpen" /\ c.kind = "connect"
                          /\ c.session = t.session /\ c.at = t.at
    BY <1>1, <1>4, <2>1, AloneGoto DEF Statements
  <2>3. ConnectTells(c)'
    BY <1>2, <1>3, <2>1, <2>2 DEF ConnectTells
  <2>4. QED
    BY <2>2, <2>3, OneTells DEF TaskTells
<1>5. CASE t.kind = "touch"
  <2>1. Finish(t) /\ TouchTells(t)
    BY <1>1, <1>5 DEF PutSession, TaskTells
  <2>2. SessionTasks' = {}
    BY <1>1, <2>1, FinishSessionTasks
  <2>3. session # NoSession /\ t.session = session /\ Online(session) /\ session.beat <= clock
    BY <2>1 DEF TouchTells, InTime
  <2>4. Settled'
    BY <1>2, <1>3, <2>3 DEF Settled, Online
  <2>5. QED
    BY <2>2, <2>4, NoneTells
<1>6. QED
  BY <1>1, <1>4, <1>5

LEMMA EnsureTells ==
  ASSUME BootInv, SocketsUsed, InTime, CalmTells, calm # "no", NEW t \in tasks,
         PutSessionRefused(t) \/ EnsureDevice(t)
  PROVE  CalmTells'
<1>1. t.next \in {"putSession", "ensureDevice"}
  BY DEF PutSessionRefused, EnsureDevice
<1>2. /\ SessionTasks = {t} /\ TaskTells(t) /\ t \in Task
      /\ t.kind \in {"connect", "touch"} /\ t.kind # "register"
  BY <1>1, Alone DEF TaskOK
<1>3. UNCHANGED <<clock, phase, session, history, socketRow, run, calm, onlineTicks>>
  BY DEF PutSessionRefused, EnsureDevice, tables
<1>4. PICK next \in {"ensureDevice", "putSessionAgain"} : Goto(t, next)
  BY DEF PutSessionRefused, EnsureDevice
<1>5. PICK c \in Task : /\ SessionTasks' = {c} /\ c.next = next /\ c.kind = t.kind
                        /\ c.session = t.session /\ c.at = t.at
  BY <1>2, <1>4, AloneGoto DEF Statements
<1>6. Unended' = Unended
  BY <1>3 DEF Unended
<1>7. ConnectTells(t) => ConnectTells(c)'
  BY <1>3, <1>4, <1>5, <1>6 DEF ConnectTells
<1>8. TouchTells(t) => TouchTells(c)'
  BY <1>3, <1>5, <1>6 DEF TouchTells, Online
<1>9. QED
  BY <1>2, <1>5, <1>7, <1>8, OneTells DEF TaskTells

LEMMA CloseOpenTells ==
  ASSUME BootInv, SocketsUsed, InTime, CalmTells, calm # "no", NEW t \in tasks, CloseOpenStatus(t)
  PROVE  CalmTells'
<1>1. /\ SessionTasks = {t} /\ TaskTells(t) /\ TaskOK(t) /\ t \in Task /\ t.next = "closeOpen"
      /\ t.kind \in {"connect", "close", "boot", "bootOpen"} /\ t.kind # "register" /\ t.session \in Session
  BY Alone DEF CloseOpenStatus, TaskOK
<1>2. UNCHANGED <<clock, phase, session, socketRow, run, calm, onlineTicks>> /\ history' = CloseOpen(EndOf(t))
  BY DEF CloseOpenStatus
<1>3. HistoryOK(history)
  BY TypesOfHistory DEF BootInv, PresenceInv
<1>4. Unended' = {}
  <2>1. \A i \in CloseOpen(EndOf(t)) : ~IsOpen(i)
    BY <1>1, <1>3, EndOfType, CloseOpenEnds
  <2>2. QED
    BY <1>2, <2>1 DEF Unended
<1>5. CASE t.kind = "connect"
  <2>1. Goto(t, "insertOnline") /\ ConnectTells(t)
    BY <1>1, <1>5 DEF CloseOpenStatus, TaskTells
  <2>2. PICK c \in Task : /\ SessionTasks' = {c} /\ c.next = "insertOnline" /\ c.kind = "connect"
                          /\ c.session = t.session /\ c.at = t.at
    BY <1>1, <1>5, <2>1, AloneGoto DEF Statements
  <2>3. \A i \in history' : i.socket # session.socket
    <3>1. \A i \in history : i.socket \in Sockets \ {session.socket}
      BY <1>3, <2>1 DEF HistoryOK, Interval, ConnectTells
    <3>2. \A i \in CloseOpen(EndOf(t)) : i.socket \in Sockets \ {session.socket}
      BY <1>3, <3>1, CloseSockets
    <3>3. QED
      BY <1>2, <3>2
  <2>4. ConnectTells(c)'
    BY <1>1, <1>2, <1>4, <2>1, <2>2, <2>3 DEF ConnectTells
  <2>5. QED
    BY <2>2, <2>4, OneTells DEF TaskTells
<1>6. CASE t.kind \in {"close", "boot"}
  <2>1. PICK next \in {"insertOffline", "insertClosed"} :
          Goto(t, next) /\ (calm = "always" => next = "insertOffline")
    <3>1. Goto(t, IF Unended = {} THEN "insertClosed" ELSE "insertOffline")
      BY <1>6 DEF CloseOpenStatus
    <3>2. calm = "always" => Unended # {}
      BY <1>1, <1>6 DEF TaskTells, CloseTells, BootTells, Online
    <3>3. QED
      BY <3>1, <3>2
  <2>2. PICK c \in Task : /\ SessionTasks' = {c} /\ c.next = next /\ c.kind = t.kind
                          /\ c.session = t.session /\ c.at = t.at
    BY <1>1, <2>1, AloneGoto DEF Statements
  <2>3. t.kind = "close" => CloseTells(c)'
    BY <1>1, <1>2, <1>4, <2>1, <2>2 DEF TaskTells, CloseTells
  <2>4. t.kind = "boot" => BootTells(c)'
    BY <1>1, <1>2, <1>4, <2>1, <2>2 DEF TaskTells, BootTells
  <2>5. QED
    BY <1>6, <2>2, <2>3, <2>4, OneTells DEF TaskTells
<1>7. CASE t.kind = "bootOpen"
  BY <1>1, <1>7 DEF TaskTells, BootTells
<1>8. QED
  BY <1>1, <1>5, <1>6, <1>7

LEMMA InsertOnlineTells ==
  ASSUME BootInv, SocketsUsed, InTime, CalmTells, calm # "no", NEW t \in tasks, InsertOnline(t)
  PROVE  CalmTells'
<1>1. SessionTasks = {t} /\ TaskTells(t) /\ t.next = "insertOnline" /\ t.kind = "connect"
  BY Alone DEF InsertOnline, TaskOK
<1>2. UNCHANGED <<clock, phase, session, socketRow, run, calm, onlineTicks>>
      /\ history' = InsertIgnore(history, OnlineInterval(t.session, Never)) /\ Finish(t)
  BY DEF InsertOnline
<1>3. ConnectTells(t)
  BY <1>1 DEF TaskTells
<1>4. SessionTasks' = {}
  BY <1>1, <1>2, FinishSessionTasks
<1>0. PICK o : o = OnlineInterval(session, Never)
  OBVIOUS
<1>5. o = OnlineInterval(session, Never) /\ o.socket = session.socket /\ IsOpen(o)
  BY <1>0 DEF OnlineInterval, IsOpen
<1>6. history' = history \cup {o}
  BY <1>2, <1>3, <1>5 DEF ConnectTells, InsertIgnore
<1>7. Unended' = {o}
  BY <1>1, <1>3, <1>5, <1>6 DEF ConnectTells, Unended
<1>8. session # NoSession /\ socketRow = session /\ session.beat <= clock
  BY <1>1, <1>3 DEF ConnectTells, InTime
<1>9. Settled'
  BY <1>2, <1>5, <1>7, <1>8 DEF Settled, Online
<1>10. QED
  BY <1>4, <1>9, NoneTells

LEMMA InsertClosedTells ==
  ASSUME BootInv, SocketsUsed, InTime, CalmTells, calm # "no", NEW t \in tasks, InsertClosed(t)
  PROVE  CalmTells'
<1>1. /\ SessionTasks = {t} /\ TaskTells(t) /\ t.next = "insertClosed" /\ t \in Task
      /\ t.kind \in {"close", "boot", "bootOpen"} /\ t.kind # "register" /\ t.session \in Session
  BY Alone DEF InsertClosed, TaskOK
<1>2. UNCHANGED <<clock, phase, session, socketRow, run, calm, onlineTicks>>
      /\ history' = InsertIgnore(history, OnlineInterval(t.session, EndOf(t))) /\ Goto(t, "insertOffline")
  BY DEF InsertClosed
<1>3. t.kind \in {"close", "boot"} /\ Unended = {} /\ calm # "always"
  BY <1>1 DEF TaskTells, CloseTells, BootTells
<1>4. Unended' = {}
  <2>1. ~IsOpen(OnlineInterval(t.session, EndOf(t)))
    BY <1>1, EndOfType DEF IsOpen, OnlineInterval, Never
  <2>2. QED
    BY <1>2, <1>3, <2>1, InsertAdds DEF Unended
<1>5. PICK c \in Task : /\ SessionTasks' = {c} /\ c.next = "insertOffline" /\ c.kind = t.kind
                        /\ c.session = t.session /\ c.at = t.at
  BY <1>1, <1>2, AloneGoto DEF Statements
<1>6. t.kind = "close" => CloseTells(c)'
  BY <1>1, <1>2, <1>3, <1>4, <1>5 DEF TaskTells, CloseTells
<1>7. t.kind = "boot" => BootTells(c)'
  BY <1>1, <1>2, <1>3, <1>4, <1>5 DEF TaskTells, BootTells
<1>8. QED
  BY <1>3, <1>5, <1>6, <1>7, OneTells DEF TaskTells

LEMMA InsertOfflineTells ==
  ASSUME BootInv, SocketsUsed, InTime, CalmTells, calm # "no", NEW t \in tasks, InsertOffline(t)
  PROVE  CalmTells'
<1>1. /\ SessionTasks = {t} /\ TaskTells(t) /\ t.next = "insertOffline" /\ t \in Task
      /\ t.kind \in {"close", "boot", "bootOpen"} /\ t.kind # "register"
  BY Alone DEF InsertOffline, TaskOK
<1>2. UNCHANGED <<clock, phase, session, socketRow, run, calm, onlineTicks>>
      /\ history' = InsertIgnore(history, OfflineInterval(t.session, EndOf(t)))
  BY DEF InsertOffline
<1>3. t.kind \in {"close", "boot"} /\ Unended = {}
  BY <1>1 DEF TaskTells, CloseTells, BootTells
<1>0. PICK o : o = OfflineInterval(t.session, EndOf(t))
  OBVIOUS
<1>4. o = OfflineInterval(t.session, EndOf(t)) /\ o.status = "offline"
  BY <1>0 DEF OfflineInterval
<1>5. Unended' \subseteq {o}
  BY <1>2, <1>3, <1>4, InsertAdds DEF Unended
<1>6. Offline'
  BY <1>4, <1>5 DEF Offline
<1>7. CASE t.kind = "close"
  <2>1. Goto(t, "deleteSession")
    BY <1>7 DEF InsertOffline
  <2>2. PICK c \in Task : /\ SessionTasks' = {c} /\ c.next = "deleteSession" /\ c.kind = "close"
                          /\ c.session = t.session /\ c.at = t.at
    BY <1>1, <1>7, <2>1, AloneGoto DEF Statements
  <2>3. CloseTells(c)'
    BY <1>1, <1>2, <1>6, <1>7, <2>2 DEF TaskTells, CloseTells
  <2>4. QED
    BY <2>2, <2>3, OneTells DEF TaskTells
<1>8. CASE t.kind = "boot"
  <2>1. OnlineRows(history') = {}
    BY <1>4, <1>5 DEF OnlineRows, Unended
  <2>2. PICK c : c = [t EXCEPT !.rows = {}, !.next = "clear"] /\ tasks' = {c}
    BY <1>8, <2>1 DEF InsertOffline, BootNext
  <2>3. c.kind = "boot" /\ c.next = "clear"
    BY <1>1, <1>8, <2>2 DEF Task
  <2>4. SessionTasks' = {c}
    BY <2>2, <2>3 DEF SessionTasks
  <2>5. BootTells(c)'
    BY <1>6, <2>3 DEF BootTells
  <2>6. QED
    BY <2>3, <2>4, <2>5, OneTells DEF TaskTells
<1>9. QED
  BY <1>3, <1>7, <1>8

LEMMA DeleteTells ==
  ASSUME BootInv, SocketsUsed, InTime, CalmTells, calm # "no", NEW t \in tasks, DeleteSession(t)
  PROVE  CalmTells'
<1>1. SessionTasks = {t} /\ TaskTells(t) /\ t.next = "deleteSession" /\ t.kind = "close"
  BY Alone DEF DeleteSession, TaskFits
<1>2. UNCHANGED <<clock, phase, session, history, run, calm, onlineTicks>> /\ Finish(t)
  BY DEF DeleteSession
<1>3. SessionTasks' = {}
  BY <1>1, <1>2, FinishSessionTasks
<1>4. CloseTells(t) /\ Unended' = Unended
  BY <1>1, <1>2 DEF TaskTells, Unended
<1>5. session' = NoSession /\ Offline'
  BY <1>1, <1>2, <1>4 DEF CloseTells, Offline
<1>6. calm = "always" => socketRow' = NoSession
  BY <1>4 DEF CloseTells, DeleteSession
<1>7. Settled'
  BY <1>2, <1>5, <1>6 DEF Settled
<1>8. QED
  BY <1>3, <1>7, NoneTells

LEMMA ClearTells ==
  ASSUME BootInv, SocketsUsed, InTime, CalmTells, calm # "no", NEW t \in tasks, ClearSessions(t)
  PROVE  CalmTells'
<1>1. SessionTasks = {t} /\ TaskTells(t) /\ t.next = "clear" /\ t.kind \in {"boot", "bootOpen"}
  BY Alone DEF ClearSessions, TaskOK
<1>2. UNCHANGED <<clock, session, history, run, calm, onlineTicks>> /\ socketRow' = NoSession /\ Finish(t)
  BY DEF ClearSessions
<1>3. SessionTasks' = {}
  BY <1>1, <1>2, FinishSessionTasks
<1>4. BootTells(t) /\ Unended' = Unended
  BY <1>1, <1>2 DEF TaskTells, Unended
<1>5. session = NoSession
  BY <1>1 DEF BootInv, PresenceInv, OnlyTheBootBoots, NobodyWhileDown
<1>6. Offline'
  BY <1>1, <1>4 DEF BootTells, Offline
<1>7. Settled'
  BY <1>2, <1>5, <1>6 DEF Settled
<1>8. QED
  BY <1>3, <1>7, NoneTells

\* A schema script that meets the stored session's own interval changes nothing.
LEMMA RepairedSame ==
  ASSUME TypeOK, socketRow # NoSession, Online(socketRow)
  PROVE  Repaired = history
<1>0. PICK o : o = OnlineInterval(socketRow, Never)
  OBVIOUS
<1>1. o \in history /\ o.start = socketRow.since /\ socketRow.since \in Nat /\ \A i \in history : IsOpen(i) => i = o
  BY <1>0 DEF Online, Unended, OnlineInterval, TypeOK, Session
<1> DEFINE Ended(i) == IF IsOpen(i) /\ i.start < socketRow.since THEN [i EXCEPT !.end = socketRow.since] ELSE i
           h == {Ended(i) : i \in history}
<1>2. \A i \in history : Ended(i) = i
  BY <1>1
<1>3. Repaired = InsertIgnore(h, o)
  BY <1>0 DEF Repaired
<1> HIDE DEF Ended
<1>4. h = history
  BY <1>2
<1> HIDE DEF h
<1>5. InsertIgnore(h, o) = h
  BY <1>1, <1>4 DEF InsertIgnore
<1>6. QED
  BY <1>3, <1>4, <1>5

\* What a boot finds, when nothing disturbed the run before it.
LEMMA BootFinds ==
  ASSUME BootInv, CalmTells, calm # "no", phase = "down"
  PROVE  SessionTasks = {} /\ session = NoSession /\ Settled
<1>1. session = NoSession
  BY DEF BootInv, PresenceInv, NobodyWhileDown
<1>2. ASSUME NEW t \in SessionTasks PROVE FALSE
  <2>1. TaskTells(t) /\ t \in tasks /\ t \in Task /\ t.kind # "register"
    BY <1>2 DEF CalmTells, SessionTasks, BootInv, PresenceInv, TaskOK
  <2>2. t.kind \in {"connect", "touch", "close", "boot", "bootOpen"}
    BY <2>1 DEF Task, Kinds
  <2>3. t.kind \notin {"boot", "bootOpen"}
    BY <2>1 DEF BootInv, OnlyTheBootBoots
  <2>4. QED
    BY <1>1, <2>1, <2>2, <2>3 DEF TaskTells, ConnectTells, TouchTells, CloseTells
<1>3. QED
  BY <1>1, <1>2 DEF CalmTells

\* The end that a boot gives to the session it finds.
LEMMA BootEnd ==
  ASSUME BootInv, CalmTells, calm = "always", phase = "down", socketRow # NoSession, NEW c,
         c = NewTask("boot", socketRow, ShutdownTime, "closeOpen")
  PROVE  Online(socketRow) /\ socketRow.since .. EndOf(c) - 1 \subseteq onlineTicks
<1>1. session = NoSession /\ Settled
  BY BootFinds
<1>2. /\ Online(socketRow) /\ run.stopped = Never /\ run.beat # Never
      /\ socketRow.since .. Later(run.beat, socketRow.beat) - 1 \subseteq onlineTicks
  BY <1>1 DEF Settled
<1>3. c.kind = "boot" /\ c.session = socketRow /\ c.at = run.beat
  BY <1>2 DEF NewTask, ShutdownTime
<1>4. run.beat \in Nat /\ socketRow.since \in Nat /\ socketRow.beat \in Nat
  BY <1>2 DEF BootInv, PresenceInv, TypeOK, Session
<1>5. EndOf(c) = Later(run.beat, Later(socketRow.since, socketRow.beat))
  BY <1>3 DEF EndOf
<1>6. \A i \in socketRow.since .. EndOf(c) - 1 : i \in socketRow.since .. Later(run.beat, socketRow.beat) - 1
  BY <1>4, <1>5 DEF Later
<1>7. QED
  BY <1>2, <1>6

LEMMA BootStarts ==
  ASSUME BootInv, SocketsUsed, InTime, CalmTells, Boot
  PROVE  CalmTells'
<1> SUFFICES ASSUME calm # "no" PROVE CalmTells'
  BY DEF Boot, CalmTells
<1>1. session = NoSession /\ Settled /\ TypeOK
  BY BootFinds DEF Boot, BootInv, PresenceInv
<1>2. UNCHANGED <<clock, session, socketRow, calm, onlineTicks>> /\ history' = Repaired /\ phase = "down"
  BY DEF Boot
<1>3. CASE socketRow # NoSession
  <2>1. PICK c : c = NewTask("boot", socketRow, ShutdownTime, "closeOpen") /\ tasks' = {c}
    BY <1>3 DEF Boot
  <2>2. c.kind = "boot" /\ c.next = "closeOpen" /\ c.session = socketRow
    BY <2>1 DEF NewTask
  <2>3. SessionTasks' = {c}
    BY <2>1, <2>2 DEF SessionTasks
  <2>4. ASSUME calm = "always"
        PROVE  Online(c.session)' /\ c.session.since .. EndOf(c)' - 1 \subseteq onlineTicks
    <3>1. Online(socketRow) /\ socketRow.since .. EndOf(c) - 1 \subseteq onlineTicks
      BY <1>2, <1>3, <2>1, <2>4, BootEnd
    <3>2. Unended' = Unended
      BY <1>1, <1>2, <1>3, <3>1, RepairedSame DEF Unended
    <3>3. EndOf(c)' = EndOf(c)
      BY DEF EndOf
    <3>4. QED
      BY <1>2, <2>2, <3>1, <3>2, <3>3 DEF Online
  <2>5. BootTells(c)'
    BY <1>2, <2>2, <2>4 DEF BootTells
  <2>6. QED
    BY <2>2, <2>3, <2>5, OneTells DEF TaskTells
<1>4. CASE socketRow = NoSession
  <2>1. Offline
    BY <1>1, <1>4 DEF Settled
  <2>2. OnlineRows(history) = {}
    BY <2>1 DEF Offline, OnlineRows, Unended
  <2>3. PICK b : b = NewTask("boot", NoSession, ShutdownTime, "clear")
    OBVIOUS
  <2>4. PICK c : c = [b EXCEPT !.rows = {}, !.next = "clear"] /\ tasks' = {c}
    BY <1>4, <2>2, <2>3 DEF Boot, BootNext
  <2>5. c.kind = "boot" /\ c.next = "clear"
    BY <2>3, <2>4 DEF NewTask
  <2>6. SessionTasks' = {c}
    BY <2>4, <2>5 DEF SessionTasks
  <2>7. Unended' = Unended
    BY <1>2, <1>4 DEF Repaired, Unended
  <2>8. BootTells(c)'
    BY <2>1, <2>5, <2>7 DEF BootTells, Offline
  <2>9. QED
    BY <2>5, <2>6, <2>8, OneTells DEF TaskTells
<1>5. QED
  BY <1>3, <1>4

LEMMA ExitTells ==
  ASSUME BootInv, SocketsUsed, InTime, CalmTells, Exit
  PROVE  CalmTells'
<1>1. CASE tasks # {} \/ calm = "no"
  BY <1>1 DEF Exit, CalmTells
<1>2. CASE tasks = {} /\ calm # "no"
  <2>1. UNCHANGED <<clock, socketRow, history, run, onlineTicks, calm>> /\ session' = NoSession /\ phase' = "down"
        /\ tasks' = {}
    BY <1>2 DEF Exit, tables
  <2>2. SessionTasks' = {} /\ SessionTasks = {} /\ Unended' = Unended
    BY <1>2, <2>1 DEF SessionTasks, Unended
  <2>3. Settled
    BY <1>2, <2>2 DEF CalmTells
  <2>4. CASE session = NoSession
    <3>1. phase # "down"
      BY DEF Exit
    <3>2. QED
      BY <2>1, <2>2, <2>3, <2>4, <3>1, NoneTells DEF Settled, Offline
  <2>5. CASE session # NoSession
    <3>1. phase = "up"
      BY <2>5 DEF BootInv, PresenceInv, NobodyWhileDown
    <3>2. run.stopped = Never /\ run.beat # Never /\ run.beat <= clock
          /\ session.since .. clock - 1 \subseteq onlineTicks
      BY <2>5, <3>1 DEF InTime
    <3>3. /\ socketRow # NoSession /\ socketRow.socket = session.socket /\ socketRow.since = session.since
          /\ socketRow.beat <= clock /\ Online(session)
      BY <2>3, <2>5 DEF Settled
    <3>4. Online(socketRow)'
      BY <2>1, <2>2, <3>3 DEF Online, OnlineInterval
    <3>5. clock \in Nat /\ run.beat \in Nat /\ socketRow.since \in Nat /\ socketRow.beat \in Nat
      BY <3>2, <3>3 DEF BootInv, PresenceInv, TypeOK, Session
    <3>6. \A i \in socketRow.since .. Later(run.beat, socketRow.beat) - 1 : i \in session.since .. clock - 1
      BY <3>2, <3>3, <3>5 DEF Later
    <3>7. (socketRow.since .. Later(run.beat, socketRow.beat) - 1 \subseteq onlineTicks)'
      BY <2>1, <3>2, <3>6 DEF Later
    <3>8. Settled'
      BY <2>1, <3>2, <3>3, <3>4, <3>7 DEF Settled
    <3>9. QED
      BY <2>2, <3>8, NoneTells
  <2>6. QED
    BY <2>4, <2>5
<1>3. QED
  BY <1>1, <1>2

LEMMA TickTells ==
  ASSUME BootInv, CalmTells, Tick
  PROVE  CalmTells'
<1>1. /\ UNCHANGED <<phase, session, socketRow, history, run, tasks, calm>> /\ clock' = clock + 1
      /\ onlineTicks \subseteq onlineTicks' /\ clock \in Nat
  BY DEF Tick, tables, BootInv, PresenceInv, TypeOK
<1>2. SessionTasks' = SessionTasks /\ Unended' = Unended
  BY <1>1 DEF SessionTasks, Unended
<1>3. socketRow # NoSession => socketRow.beat \in Nat
  BY DEF BootInv, PresenceInv, TypeOK, Session
<1>4. socketRow # NoSession /\ socketRow.beat <= clock => socketRow.beat <= clock'
  BY <1>1, <1>3
<1>5. Settled => Settled'
  BY <1>1, <1>2, <1>4 DEF Settled, Online, Offline
<1>6. ASSUME NEW t, TaskTells(t) PROVE TaskTells(t)'
  <2>1. EndOf(t)' = EndOf(t)
    BY DEF EndOf
  <2>2. ConnectTells(t) => ConnectTells(t)'
    BY <1>1, <1>2 DEF ConnectTells
  <2>3. TouchTells(t) => TouchTells(t)'
    BY <1>1, <1>2 DEF TouchTells, Online
  <2>4. CloseTells(t) => CloseTells(t)'
    BY <1>1, <1>2, <2>1 DEF CloseTells, Online, Offline
  <2>5. BootTells(t) => BootTells(t)'
    BY <1>1, <1>2, <2>1 DEF BootTells, Online, Offline
  <2>6. QED
    BY <1>6, <2>2, <2>3, <2>4, <2>5 DEF TaskTells
<1>7. QED
  BY <1>1, <1>2, <1>5, <1>6 DEF CalmTells

LEMMA CalmTellsStep ==
  ASSUME BootInv, SocketsUsed, InTime, CalmTells, [Next]_vars
  PROVE  CalmTells'
<1>1. CASE UNCHANGED vars \/ ServerHeartbeat \/ StopRun
  BY <1>1, SameTells DEF vars, tables, ServerHeartbeat, StopRun, SessionTasks
<1>2. ASSUME NEW t \in tasks, PutDevice(t) PROVE CalmTells'
  <2>1. t.kind = "register" /\ Finish(t)
    BY <1>2 DEF PutDevice, SocketsUsed, TaskFits
  <2>2. SessionTasks' = SessionTasks
    BY <2>1, FinishSessionTasks DEF SessionTasks
  <2>3. QED
    BY <1>2, <2>2, SameTells DEF PutDevice
<1>3. ASSUME NEW t \in tasks, FailStatement(t) PROVE CalmTells'
  BY <1>3 DEF FailStatement, CalmTells
<1>4. ASSUME NEW t \in tasks,
             \/ PutSession(t) \/ PutSessionRefused(t) \/ EnsureDevice(t) \/ CloseOpenStatus(t) \/ InsertOnline(t)
             \/ InsertClosed(t) \/ InsertOffline(t) \/ DeleteSession(t) \/ ClearSessions(t)
      PROVE  CalmTells'
  <2>1. calm' = calm
    BY <1>4 DEF PutSession, PutSessionRefused, EnsureDevice, CloseOpenStatus, InsertOnline, InsertClosed, InsertOffline,
                DeleteSession, ClearSessions
  <2>2. CASE calm = "no"
    BY <2>1, <2>2 DEF CalmTells
  <2>3. CASE calm # "no"
    BY <1>4, <2>3, PutSessionTells, EnsureTells, CloseOpenTells, InsertOnlineTells, InsertClosedTells, InsertOfflineTells,
       DeleteTells, ClearTells
  <2>4. QED
    BY <2>2, <2>3
<1>5. QED
  BY <1>1, <1>2, <1>3, <1>4, AcceptTells, HeartbeatTells, DropTells, ShutdownTells, BootStarts, ExitTells, TickTells DEF Next

\* No statement ends an online interval beyond the time the device was online.
LEMMA OnlineTimeStep ==
  ASSUME BootInv, HistoryInv, [Next]_vars
  PROVE  OnlineTimeIsReal'
<1> SUFFICES ASSUME calm' = "always" PROVE OnlineTimeIsReal'
  BY DEF OnlineTimeIsReal
<1> DEFINE Real(i) == i.status = "online" /\ ~IsOpen(i) => i.start .. i.end - 1 \subseteq onlineTicks
<1>1. calm = "always"
  BY DEF Next, vars, tables, Accept, Begin, Heartbeat, Drop, PutDevice, PutSession, PutSessionRefused, EnsureDevice,
         CloseOpenStatus, InsertOnline, InsertClosed, InsertOffline, DeleteSession, FailStatement, ClearSessions, Boot,
         ServerHeartbeat, Shutdown, StopRun, Exit, Tick
<1>2. /\ \A i \in history : Real(i)
      /\ SocketsUsed /\ InTime /\ CalmTells /\ calm # "no" /\ TypeOK
  BY <1>1 DEF HistoryInv, OnlineTimeIsReal, BootInv, PresenceInv
<1>3. onlineTicks \subseteq onlineTicks'
  BY DEF Next, vars, tables, Accept, Heartbeat, Drop, PutDevice, PutSession, PutSessionRefused, EnsureDevice,
         CloseOpenStatus, InsertOnline, InsertClosed, InsertOffline, DeleteSession, FailStatement, ClearSessions, Boot,
         ServerHeartbeat, Shutdown, StopRun, Exit, Tick
<1>4. SUFFICES ASSUME NEW i \in history' PROVE Real(i)
  BY <1>3 DEF OnlineTimeIsReal
<1>5. CASE i \in history
  BY <1>2, <1>5
<1>6. CASE history' = history
  BY <1>2, <1>6
<1>7. ASSUME NEW t \in tasks, CloseOpenStatus(t) PROVE Real(i)
  <2>1. /\ TaskTells(t) /\ t \in Task /\ t.next = "closeOpen" /\ t.session \in Session
        /\ t.kind \in {"connect", "close", "boot", "bootOpen"}
    BY <1>2, <1>7, Alone DEF CloseOpenStatus, TaskOK
  <2>2. PICK j \in history : i = IF IsOpen(j) THEN [j EXCEPT !.end = EndOf(t)] ELSE j
    BY <1>7 DEF CloseOpenStatus, CloseOpen
  <2>3. CASE ~IsOpen(j)
    BY <1>2, <2>2, <2>3
  <2>4. CASE IsOpen(j)
    <3>1. j \in Unended /\ i.status = j.status /\ i.start = j.start /\ i.end = EndOf(t)
      BY <2>2, <2>4 DEF Unended, TypeOK, Interval
    <3>2. CASE t.kind = "connect"
      <4>1. ConnectTells(t) /\ EndOf(t) = t.at
        BY <2>1, <3>2 DEF TaskTells, ConnectTells, EndOf, Later
      <4>2. QED
        BY <1>1, <3>1, <4>1 DEF ConnectTells
    <3>3. CASE t.kind \in {"close", "boot"}
      <4>1. Online(t.session) /\ t.session.since .. EndOf(t) - 1 \subseteq onlineTicks
        BY <1>1, <2>1, <3>3 DEF TaskTells, CloseTells, BootTells
      <4>2. i.start = t.session.since
        BY <3>1, <4>1 DEF Online, OnlineInterval
      <4>3. QED
        BY <3>1, <4>1, <4>2
    <3>4. t.kind # "bootOpen"
      BY <2>1 DEF TaskTells, BootTells
    <3>5. QED
      BY <2>1, <3>2, <3>3, <3>4
  <2>5. QED
    BY <2>3, <2>4
<1>8. ASSUME NEW t \in tasks, InsertOnline(t) PROVE Real(i)
  <2>1. i \in history \/ i = OnlineInterval(t.session, Never)
    BY <1>8, InsertAdds DEF InsertOnline
  <2>2. IsOpen(OnlineInterval(t.session, Never))
    BY DEF IsOpen, OnlineInterval
  <2>3. QED
    BY <1>5, <2>1, <2>2
<1>9. ASSUME NEW t \in tasks, InsertClosed(t) PROVE Real(i)
  <2>1. TaskTells(t) /\ t.next = "insertClosed" /\ t.kind \in {"close", "boot", "bootOpen"}
    BY <1>2, <1>9, Alone DEF InsertClosed, TaskOK
  <2>2. QED
    BY <1>1, <2>1 DEF TaskTells, CloseTells, BootTells
<1>10. ASSUME NEW t \in tasks, InsertOffline(t) PROVE Real(i)
  <2>1. i \in history \/ i = OfflineInterval(t.session, EndOf(t))
    BY <1>10, InsertAdds DEF InsertOffline
  <2>2. OfflineInterval(t.session, EndOf(t)).status = "offline"
    BY DEF OfflineInterval
  <2>3. QED
    BY <1>5, <2>1, <2>2
<1>11. CASE Boot
  <2>1. phase = "down" /\ history' = Repaired
    BY <1>11 DEF Boot
  <2>2. CASE socketRow = NoSession
    BY <1>6, <2>1, <2>2 DEF Repaired
  <2>3. CASE socketRow # NoSession
    <3>1. PICK c : c = NewTask("boot", socketRow, ShutdownTime, "closeOpen")
      OBVIOUS
    <3>2. Online(socketRow)
      BY <1>1, <1>2, <2>1, <2>3, <3>1, BootEnd
    <3>3. QED
      BY <1>2, <1>6, <2>1, <2>3, <3>2, RepairedSame
  <2>4. QED
    BY <2>2, <2>3
<1>12. QED
  <2>1. \/ history' = history \/ Boot
        \/ \E t \in tasks : CloseOpenStatus(t) \/ InsertOnline(t) \/ InsertClosed(t) \/ InsertOffline(t)
    BY DEF Next, vars, tables, Accept, Heartbeat, Drop, PutDevice, PutSession, PutSessionRefused, EnsureDevice,
           DeleteSession, FailStatement, ClearSessions, ServerHeartbeat, Shutdown, StopRun, Exit, Tick
  <2>2. QED
    BY <1>6, <1>7, <1>8, <1>9, <1>10, <1>11, <2>1

LEMMA HistoryTells ==
  ASSUME BootInv, HistoryInv
  PROVE  HistoryTellsSession
<1>1. OnlineTimeIsReal
  BY DEF HistoryInv
<1>2. SUFFICES ASSUME phase = "up", tasks = {}, calm # "no"
               PROVE  IF session # NoSession
                      THEN /\ socketRow # NoSession /\ socketRow.socket = session.socket
                           /\ Unended = {OnlineInterval(session, Never)}
                      ELSE /\ calm = "always" => socketRow = NoSession
                           /\ \A i \in Unended : i.status = "offline"
                           /\ Cardinality(Unended) <= 1
  BY <1>1 DEF HistoryTellsSession
<1>3. Settled
  BY <1>2 DEF HistoryInv, CalmTells, SessionTasks
<1>4. CASE session # NoSession
  BY <1>3, <1>4 DEF Settled, Online
<1>5. CASE session = NoSession
  <2>1. Offline /\ (calm = "always" => socketRow = NoSession)
    BY <1>2, <1>3, <1>5 DEF Settled
  <2>2. Cardinality(Unended) <= 1
    <3>1. CASE Unended = {}
      BY <3>1, FS_EmptySet
    <3>2. CASE Unended # {}
      <4>1. PICK i : i \in Unended
        BY <3>2
      <4>2. Unended = {i}
        BY <2>1, <4>1 DEF Offline
      <4>3. QED
        BY <4>2, FS_Singleton
    <3>3. QED
      BY <3>1, <3>2
  <2>3. QED
    BY <1>5, <2>1, <2>2 DEF Offline
<1>6. QED
  BY <1>4, <1>5

-----------------------------------------------------------------------------
(* The theorems.                                                           *)

\* The invariant of types, tasks and sockets, which the others rest on.
THEOREM InvAlways == Spec => []PresenceInv
<1>1. PresenceInv /\ [Next]_vars => PresenceInv'
  BY HandlersInv, StatementsInv, ServerInv DEF Next
<1>2. QED
  BY InitInv, <1>1, PTL DEF Spec

\* Every variable keeps its type, and device_status_history its unique key.
THEOREM TypeCorrect == Spec => []TypeOK
<1>1. PresenceInv => TypeOK
  BY DEF PresenceInv
<1>2. QED
  BY <1>1, InvAlways, PTL

\* While its newest socket is connected a device is online with that socket,
\* and in no other case: no late disconnect, heartbeat, shutdown or restart
\* breaks this, for any number of sockets.
THEOREM SessionFollowsSocket == Spec => []SessionOfLatestSocket
<1>1. PresenceInv => SessionOfLatestSocket
  BY DEF PresenceInv
<1>2. QED
  BY <1>1, InvAlways, PTL

\* Whatever a server run left behind, the next boot leaves no session row and
\* no open online interval for a device that has not connected yet.
THEOREM BootLeavesNobodyOnline == Spec => []NobodyOnlineAfterBoot
<1>1. PresenceInv /\ [Next]_vars => PresenceInv'
  BY HandlersInv, StatementsInv, ServerInv DEF Next
<1>2. BootInv /\ [Next]_vars => BootInv'
  BY <1>1, BootNextInv DEF BootInv
<1>3. BootInv => NobodyOnlineAfterBoot
  BY DEF BootInv, PresenceInv, TypeOK, QuietUntilConnected, NobodyOnlineAfterBoot, Unended,
         OnlineRows, Interval
<1>4. QED
  BY BootInitInv, <1>2, <1>3, PTL DEF Spec

\* When nothing is in flight and the last connect or disconnect ran on its
\* own, the tables tell what memory tells, and no online interval of an
\* undisturbed history covers time without a session, for any number of
\* sockets, tasks, failures and crashes.
THEOREM HistoryTellsAlways == Spec => []HistoryTellsSession
<1>1. PresenceInv /\ [Next]_vars => PresenceInv'
  BY HandlersInv, StatementsInv, ServerInv DEF Next
<1>2. BootInv /\ [Next]_vars => BootInv'
  BY <1>1, BootNextInv DEF BootInv
<1>3. BootInv /\ HistoryInv /\ [Next]_vars => HistoryInv'
  BY SocketsStep, InTimeStep, CalmTellsStep, OnlineTimeStep DEF HistoryInv
<1>4. BootInv /\ HistoryInv => HistoryTellsSession
  BY HistoryTells
<1>5. QED
  BY BootInitInv, HistoryInit, <1>2, <1>3, <1>4, PTL DEF Spec

=============================================================================
