-------------------------- MODULE AlertLifecycleProofs --------------------------
(***************************************************************************)
(* Theorems about AlertLifecycle for any alerts, readings, setpoints and   *)
(* bounds: types, soundness of the index of open alerts, and the direction *)
(* in which an alert moves.                                                *)
(***************************************************************************)
EXTENDS AlertLifecycle, TLAPS

\* TypeOK is inductive only together with the index: a repeated alarm reads
\* the record the index names.
AlertInv == TypeOK /\ ActiveIsOpen

-----------------------------------------------------------------------------
(* What the repository's operations keep.                                  *)

\* The part of the state that belongs to the repository.
RepositoryOK ==
  /\ IsTable(alerts)
  /\ active \in Alerts \cup {NoAlert}
  /\ writes \subseteq Write
  /\ loose \subseteq Alerts
  /\ neat \in BOOLEAN
  /\ ActiveIsOpen

\* No record becomes less settled, and a resolved one stays what it is.
MovesOn ==
  \A a \in DOMAIN alerts \cap DOMAIN alerts' :
    /\ Rank[alerts[a].status] <= Rank[alerts'[a].status]
    /\ ~IsOpen(alerts[a]) => alerts'[a] = alerts[a]

LEMMA EmptyTable == IsTable(<< >>) /\ DOMAIN << >> = {}
  BY DEF IsTable

LEMMA RankIsNat ==
  ASSUME NEW r \in Record
  PROVE  Rank[r.status] \in 0..2
  BY DEF Record, Rank

LEMMA AcknowledgedType ==
  ASSUME NEW r \in Record
  PROVE  Acknowledged(r) \in Record /\ Acknowledged(r).status = "acknowledged"
<1>1. r.since \in Nat /\ r.count \in Nat \ {0} /\ r.acks + 1 \in Nat
  BY DEF Record
<1> DEFINE s == [r EXCEPT !.status = "acknowledged"]
<1>2. /\ s \in Record /\ s.status = "acknowledged" /\ s.acks = r.acks
      /\ Acknowledged(r) = [s EXCEPT !.acks = r.acks + 1]
  BY DEF Acknowledged, Record
<1> HIDE DEF s
<1>3. QED
  BY <1>1, <1>2 DEF Record

LEMMA UpdateKeeps ==
  ASSUME RepositoryOK, NEW a \in DOMAIN alerts, NEW r \in Record, Update(a, r)
  PROVE  RepositoryOK'
<1>1. a \in Alerts
  BY DEF RepositoryOK, IsTable
<1>2. IsTable(alerts')
  BY <1>1 DEF RepositoryOK, IsTable, Update
<1>3. active' \in Alerts \cup {NoAlert} /\ neat' \in BOOLEAN
  BY <1>1 DEF RepositoryOK, Update
<1>4. ActiveIsOpen'
  BY DEF Update, ActiveIsOpen
<1>5. writes' \subseteq Write /\ loose' \subseteq Alerts
  <2>1. [alert |-> a, record |-> r] \in Write
    BY <1>1 DEF Write
  <2>2. QED
    BY <1>1, <2>1 DEF RepositoryOK, Update
<1>6. QED
  BY <1>2, <1>3, <1>4, <1>5 DEF RepositoryOK

LEMMA UpdateMovesOn ==
  ASSUME RepositoryOK, NEW a \in DOMAIN alerts, NEW r \in Record, Update(a, r),
         IsOpen(alerts[a]), Rank[alerts[a].status] <= Rank[r.status]
  PROVE  MovesOn
<1>1. \A b \in DOMAIN alerts : alerts[b] \in Record
  BY DEF RepositoryOK, IsTable
<1>2. alerts' = [alerts EXCEPT ![a] = r]
  BY DEF Update
<1>3. QED
  BY <1>1, <1>2, RankIsNat DEF MovesOn

LEMMA SaveKeeps ==
  ASSUME RepositoryOK, NEW a \in Alerts \ DOMAIN alerts, NEW r \in Record, IsOpen(r), Save(a, r)
  PROVE  RepositoryOK' /\ MovesOn
<1>1. alerts' = [x \in DOMAIN alerts \cup {a} |-> IF x = a THEN r ELSE alerts[x]]
  BY DEF Save
<1>2. IsTable(alerts') /\ ActiveIsOpen'
  BY <1>1 DEF RepositoryOK, IsTable, Save, ActiveIsOpen
<1>3. [alert |-> a, record |-> r] \in Write
  BY DEF Write
<1>4. RepositoryOK'
  BY <1>2, <1>3 DEF RepositoryOK, Save
<1>5. MovesOn
  BY <1>1, RankIsNat DEF MovesOn, RepositoryOK, IsTable
<1>6. QED
  BY <1>4, <1>5

\* evaluateMetric keeps the repository in order and moves alerts on.
LEMMA EvaluateKeeps ==
  ASSUME RepositoryOK, verdict \in {"none", "above", "below"}, NEW m \in Message, Evaluate(m)
  PROVE  RepositoryOK' /\ MovesOn /\ verdict' \in {"none", "above", "below"}
<1>1. CASE UNCHANGED <<alerts, active, writes, loose, neat>>
  BY <1>1, RankIsNat
  DEF RepositoryOK, MovesOn, IsTable, ActiveIsOpen, Evaluate
<1>2. verdict' \in {"none", "above", "below"}
  BY DEF Evaluate
<1>3. CASE active # NoAlert /\ Update(active, Repeat(alerts[active]))
  <2>1. active \in DOMAIN alerts /\ IsOpen(alerts[active]) /\ alerts[active] \in Record
    BY <1>3 DEF RepositoryOK, ActiveIsOpen, IsTable
  <2>2. Repeat(alerts[active]) \in Record /\ Repeat(alerts[active]).status = alerts[active].status
    BY <2>1 DEF Repeat, Record
  <2>3. QED
    BY <1>2, <1>3, <2>1, <2>2, UpdateKeeps, UpdateMovesOn, RankIsNat
<1>4. CASE active # NoAlert /\ Update(active, Resolve(alerts[active]))
  <2>1. active \in DOMAIN alerts /\ IsOpen(alerts[active]) /\ alerts[active] \in Record
    BY <1>4 DEF RepositoryOK, ActiveIsOpen, IsTable
  <2>2. Resolve(alerts[active]) \in Record /\ Resolve(alerts[active]).status = "resolved"
    BY <2>1 DEF Resolve, Record
  <2>3. Rank["resolved"] = 2
    BY DEF Rank
  <2>4. QED
    BY <1>2, <1>4, <2>1, <2>2, <2>3, UpdateKeeps, UpdateMovesOn, RankIsNat
<1>5. CASE \E a \in Alerts \ (DOMAIN alerts \cup DOMAIN rows) :
             Save(a, [status |-> "active", since |-> m.at, count |-> 1, acks |-> 0])
  <2> DEFINE r == [status |-> "active", since |-> m.at, count |-> 1, acks |-> 0]
  <2>1. r \in Record /\ IsOpen(r)
    BY DEF Record, IsOpen, Message
  <2>2. PICK a \in Alerts \ DOMAIN alerts : Save(a, r)
    BY <1>5
  <2>3. QED
    BY <1>2, <2>1, <2>2, SaveKeeps
<1>6. QED
  BY <1>1, <1>3, <1>4, <1>5 DEF Evaluate

-----------------------------------------------------------------------------
(* The invariant.                                                          *)

LEMMA InvIsRepositoryOK == ASSUME AlertInv PROVE RepositoryOK
  BY DEF AlertInv, TypeOK, RepositoryOK

LEMMA InitInv == Init => AlertInv
  BY AlertAssumption
  DEF Init, AlertInv, TypeOK, IsTable, ActiveIsOpen, NoDeletion

\* One case per action; MovesOn is proved beside the invariant for the
\* actions of a server run.
LEMMA NextInv ==
  ASSUME AlertInv, [Next]_vars
  PROVE  AlertInv' /\ (left'.restarts = left.restarts => MovesOn)
<1> USE AlertAssumption, InvIsRepositoryOK
<1>0. \A b \in DOMAIN alerts : alerts[b] \in Record /\ Rank[alerts[b].status] \in 0..2
  BY RankIsNat DEF AlertInv, TypeOK, IsTable
<1>1. ASSUME NEW value \in Values, Receive(value)
      PROVE  AlertInv' /\ MovesOn
  <2> DEFINE m == [at |-> received', value |-> value]
  <2>1. received' \in Nat /\ m \in Message
    BY <1>1 DEF Receive, AlertInv, TypeOK, Message
  <2>2. CASE Evaluate(m) /\ UNCHANGED handlers
    <3>1. RepositoryOK' /\ MovesOn /\ verdict' \in {"none", "above", "below"}
      BY <2>1, <2>2, EvaluateKeeps DEF AlertInv, TypeOK
    <3>2. QED
      BY <1>1, <2>1, <2>2, <3>1 DEF AlertInv, TypeOK, IsTable, RepositoryOK, Receive
  <2>3. CASE /\ handlers' = handlers \cup {m}
             /\ UNCHANGED <<alerts, active, writes, verdict, loose, neat>>
    BY <1>0, <1>1, <2>1, <2>3
    DEF AlertInv, TypeOK, IsTable, ActiveIsOpen, Receive, MovesOn
  <2>4. QED
    BY <1>1, <2>2, <2>3 DEF Receive
<1>2. ASSUME NEW m \in handlers, Resume(m)
      PROVE  AlertInv' /\ MovesOn
  <2>1. m \in Message
    BY <1>2 DEF AlertInv, TypeOK
  <2>2. RepositoryOK' /\ MovesOn /\ verdict' \in {"none", "above", "below"}
    BY <1>2, <2>1, EvaluateKeeps DEF AlertInv, TypeOK, Resume
  <2>3. QED
    BY <1>2, <2>2 DEF AlertInv, TypeOK, IsTable, RepositoryOK, Resume
<1>3. ASSUME NEW a \in Alerts, Acknowledge(a)
      PROVE  AlertInv' /\ MovesOn
  <2> DEFINE r == Acknowledged(alerts[a])
  <2>1. a \in DOMAIN alerts /\ IsOpen(alerts[a]) /\ Update(a, r) /\ alerts[a] \in Record
    BY <1>0, <1>3 DEF Acknowledge
  <2>2. r \in Record /\ r.status = "acknowledged"
    BY <2>1, AcknowledgedType
  <2>3. alerts[a].status \in {"active", "acknowledged"}
    BY <2>1 DEF Record, IsOpen
  <2>4. Rank[alerts[a].status] <= Rank[r.status]
    BY <2>2, <2>3 DEF Rank
  <2>5. RepositoryOK' /\ MovesOn
    BY <2>1, <2>2, <2>4, UpdateKeeps, UpdateMovesOn
  <2>6. left' \in [actions : Nat, changes : Nat, deletions : Nat, restarts : Nat]
    BY <1>3 DEF Acknowledge, AlertInv, TypeOK
  <2>7. QED
    BY <1>3, <2>5, <2>6 DEF AlertInv, TypeOK, IsTable, RepositoryOK, Acknowledge
<1>4. ASSUME NEW a \in Alerts, ResolveByOperator(a)
      PROVE  AlertInv' /\ MovesOn
  <2>1. /\ a \in DOMAIN alerts /\ IsOpen(alerts[a]) /\ alerts[a] \in Record
        /\ Update(a, Resolve(alerts[a]))
    BY <1>0, <1>4 DEF ResolveByOperator
  <2>2. /\ Resolve(alerts[a]) \in Record
        /\ Rank[alerts[a].status] <= Rank[Resolve(alerts[a]).status]
    BY <2>1 DEF Record, Rank, IsOpen, Resolve
  <2>3. RepositoryOK' /\ MovesOn
    BY <2>1, <2>2, UpdateKeeps, UpdateMovesOn
  <2>4. left' \in [actions : Nat, changes : Nat, deletions : Nat, restarts : Nat]
    BY <1>4 DEF ResolveByOperator, AlertInv, TypeOK
  <2>5. QED
    BY <1>4, <2>3, <2>4 DEF AlertInv, TypeOK, IsTable, RepositoryOK, ResolveByOperator
<1>5. ASSUME Configure PROVE AlertInv' /\ MovesOn
  BY <1>0, <1>5 DEF AlertInv, TypeOK, IsTable, ActiveIsOpen, Configure, MovesOn
<1>6. ASSUME NEW w \in writes, LandWrite(w) PROVE AlertInv' /\ MovesOn
  <2>1. w.alert \in Alerts /\ w.record \in Record
    BY <1>6 DEF AlertInv, TypeOK, Write
  <2>2. IsTable(rows')
    BY <1>6, <2>1 DEF AlertInv, TypeOK, IsTable, LandWrite, WithRow
  <2>3. QED
    BY <1>0, <1>6, <2>2 DEF AlertInv, TypeOK, IsTable, ActiveIsOpen, LandWrite, MovesOn
<1>7. ASSUME StartDeletion PROVE AlertInv' /\ MovesOn
  BY <1>0, <1>7 DEF AlertInv, TypeOK, IsTable, ActiveIsOpen, StartDeletion, MovesOn
<1>8. ASSUME DeleteAlerts PROVE AlertInv' /\ MovesOn
  <2>1. alerts' = [x \in DOMAIN alerts \ deletion.ids |-> alerts[x]]
    BY <1>8 DEF DeleteAlerts, Restrict
  <2>2. IsTable(alerts') /\ IsTable(rows')
    BY <1>8, <2>1, EmptyTable DEF AlertInv, TypeOK, IsTable, DeleteAlerts
  <2>3. ActiveIsOpen'
    <3>1. CASE deletion.ids = {}
      BY <1>8, <2>1, <3>1 DEF AlertInv, ActiveIsOpen, DeleteAlerts
    <3>2. CASE deletion.ids # {}
      BY <1>8, <3>2 DEF ActiveIsOpen, DeleteAlerts
    <3>3. QED
      BY <3>1, <3>2
  <2>4. MovesOn
    BY <1>0, <2>1 DEF MovesOn
  <2>5. {w.alert : w \in writes} \subseteq Alerts
    BY DEF AlertInv, TypeOK, Write
  <2>6. QED
    BY <1>8, <2>2, <2>3, <2>4, <2>5 DEF AlertInv, TypeOK, IsTable, DeleteAlerts
<1>9. ASSUME DeleteRows PROVE AlertInv' /\ MovesOn
  <2>1. {w.alert : w \in writes} \subseteq Alerts
    BY DEF AlertInv, TypeOK, Write
  <2>2. QED
    BY <1>0, <1>9, <2>1, EmptyTable DEF AlertInv, TypeOK, IsTable, ActiveIsOpen, DeleteRows, MovesOn
<1>10. ASSUME DeleteDevice PROVE AlertInv' /\ MovesOn
  BY <1>0, <1>10 DEF AlertInv, TypeOK, IsTable, ActiveIsOpen, DeleteDevice, MovesOn, NoDeletion
<1>11. ASSUME Register PROVE AlertInv' /\ MovesOn
  BY <1>0, <1>11 DEF AlertInv, TypeOK, IsTable, ActiveIsOpen, Register, MovesOn
<1>12. ASSUME Restart PROVE AlertInv' /\ left'.restarts # left.restarts
  <2>1. ActiveIsOpen' /\ active' \in Alerts \cup {NoAlert}
    BY <1>12 DEF AlertInv, TypeOK, IsTable, ActiveIsOpen, Restart, LatestOpenRow, OpenRows
  <2>2. /\ left' \in [actions : Nat, changes : Nat, deletions : Nat, restarts : Nat]
        /\ left'.restarts # left.restarts
    BY <1>12 DEF AlertInv, TypeOK, Restart
  <2>3. QED
    BY <1>12, <2>1, <2>2 DEF AlertInv, TypeOK, IsTable, Restart, NoDeletion
<1>13. ASSUME UNCHANGED vars PROVE AlertInv' /\ MovesOn
  BY <1>0, <1>13 DEF AlertInv, TypeOK, IsTable, ActiveIsOpen, vars, MovesOn
<1>14. QED
  BY <1>1, <1>2, <1>3, <1>4, <1>5, <1>6, <1>7, <1>8, <1>9, <1>10, <1>11, <1>12, <1>13
  DEF Next

-----------------------------------------------------------------------------
(* The theorems.                                                           *)

THEOREM InvAlways == Spec => []AlertInv
<1>1. AlertInv /\ [Next]_vars => AlertInv'
  BY NextInv
<1>2. QED
  BY InitInv, <1>1, PTL DEF Spec

\* Every variable keeps its type.
THEOREM TypeCorrect == Spec => []TypeOK
<1>1. AlertInv => TypeOK
  BY DEF AlertInv
<1>2. QED
  BY <1>1, InvAlways, PTL

\* The index of open alerts never names a resolved or a deleted alert, however
\* many messages, operators, deletions and restarts interleave.
THEOREM ActiveAlwaysOpen == Spec => []ActiveIsOpen
<1>1. AlertInv => ActiveIsOpen
  BY DEF AlertInv
<1>2. QED
  BY <1>1, InvAlways, PTL

\* Within a server run an alert only moves on, and a resolved one stays as it is.
THEOREM AlertsMoveOn == Spec => StatusMovesOn
<1>1. AlertInv /\ [Next]_vars =>
        [left'.restarts = left.restarts =>
           \A a \in DOMAIN alerts \cap DOMAIN alerts' :
             /\ Rank[alerts[a].status] <= Rank[alerts'[a].status]
             /\ ~IsOpen(alerts[a]) => alerts'[a] = alerts[a]]_vars
  BY NextInv DEF MovesOn
<1>2. QED
  BY <1>1, InvAlways, PTL DEF Spec, StatusMovesOn

-----------------------------------------------------------------------------
(* Agreement of the table with memory, and the one open alert.             *)
(*                                                                         *)
(* TableTellsMemory speaks of alerts with no write under way; what makes   *)
(* it inductive is what holds while one is: it is the only one, and it     *)
(* carries the record, but for the details of repeated acknowledgements.   *)

Tells(r, s) == r = s \/ (s.acks > 1 /\ r = [s EXCEPT !.acks = r.acks])

AcksCounted(r) == r.status = "acknowledged" => r.acks > 0

CountedEverywhere ==
  /\ \A a \in DOMAIN alerts : AcksCounted(alerts[a])
  /\ \A a \in DOMAIN rows : AcksCounted(rows[a])
  /\ \A w \in writes : AcksCounted(w.record)

SettledAt(a) ==
  a \notin loose =>
    /\ \A w \in Pending(a) :
         Pending(a) = {w} /\ a \in DOMAIN alerts /\ Tells(w.record, alerts[a])
    /\ Pending(a) = {} =>
         /\ a \in DOMAIN rows <=> a \in DOMAIN alerts
         /\ a \in DOMAIN rows => Tells(rows[a], alerts[a])

Settled == CountedEverywhere /\ \A a \in Alerts : SettledAt(a)

\* What nothing disturbed stays settled.
LEMMA SameSettles ==
  ASSUME NEW a \in Alerts, SettledAt(a),
         a \notin loose' => a \notin loose,
         Pending(a)' = Pending(a),
         a \in DOMAIN alerts' <=> a \in DOMAIN alerts, alerts'[a] = alerts[a],
         a \in DOMAIN rows' <=> a \in DOMAIN rows, rows'[a] = rows[a]
  PROVE  SettledAt(a)'
  BY DEF SettledAt

\* So does an alert whose one write carries its record.
LEMMA OneWriteSettles ==
  ASSUME NEW a \in Alerts, NEW w, Pending(a)' = {w}, a \in DOMAIN alerts', w.record = alerts'[a]
  PROVE  SettledAt(a)'
<1>1. Tells(w.record, alerts'[a])
  BY DEF Tells
<1>2. \A x \in Pending(a)' : Pending(a)' = {x} /\ Tells(x.record, alerts'[a])
  BY <1>1
<1>3. Pending(a)' # {}
  OBVIOUS
<1>4. QED
  BY <1>2, <1>3 DEF SettledAt

\* An acknowledgement that is not written changes nothing the row tells.
LEMMA TellsAcknowledged ==
  ASSUME NEW r \in Record, NEW s \in Record, Tells(r, s), s.status = "acknowledged", s.acks > 0
  PROVE  Tells(r, Acknowledged(s))
<1>1. Acknowledged(s) = [s EXCEPT !.acks = s.acks + 1]
  BY DEF Acknowledged, Record
<1>2. Acknowledged(s).acks > 1
  BY <1>1 DEF Record
<1>3. r = [Acknowledged(s) EXCEPT !.acks = r.acks]
  <2>1. r.acks \in Nat
    BY DEF Record
  <2>2. [Acknowledged(s) EXCEPT !.acks = r.acks] = [s EXCEPT !.acks = r.acks]
    BY <1>1 DEF Record
  <2>3. CASE r = s
    BY <2>2, <2>3 DEF Record
  <2>4. CASE r = [s EXCEPT !.acks = r.acks]
    BY <2>2, <2>4
  <2>5. QED
    BY <2>3, <2>4 DEF Tells
<1>4. QED
  BY <1>2, <1>3 DEF Tells

LEMMA UpdateSettles ==
  ASSUME RepositoryOK, Settled, IsTable(rows), UNCHANGED rows,
         NEW a \in DOMAIN alerts, NEW r \in Record, AcksCounted(r), Update(a, r),
         \/ ShouldPersist(alerts[a], r)
         \/ alerts[a].status = "acknowledged" /\ r = Acknowledged(alerts[a])
  PROVE  Settled'
<1> DEFINE w == [alert |-> a, record |-> r]
<1>1. /\ a \in Alerts /\ alerts[a] \in Record
      /\ alerts' = [alerts EXCEPT ![a] = r]
      /\ DOMAIN alerts' = DOMAIN alerts /\ alerts'[a] = r
      /\ \A b \in Alerts \ {a} : alerts'[b] = alerts[b]
  BY DEF RepositoryOK, IsTable, Update
<1>2. /\ w.alert = a /\ w.record = r
      /\ writes' \subseteq writes \cup {w} /\ writes \subseteq writes'
  BY DEF Update
<1> HIDE DEF w
<1>3. CountedEverywhere'
  BY <1>1, <1>2 DEF Settled, CountedEverywhere
<1>4. ASSUME NEW b \in Alerts \ {a} PROVE SettledAt(b)'
  <2>1. Pending(b)' = Pending(b)
    BY <1>2 DEF Pending
  <2>2. b \notin loose' => b \notin loose
    BY DEF Update
  <2>3. QED
    BY <1>1, <2>1, <2>2, SameSettles DEF Settled
<1>5. SettledAt(a)'
  <2>1. CASE ShouldPersist(alerts[a], r) /\ Pending(a) # {}
    <3>1. a \in loose'
      BY <1>1, <2>1 DEF Update
    <3>2. QED
      BY <3>1 DEF SettledAt
  <2>2. CASE ShouldPersist(alerts[a], r) /\ Pending(a) = {}
    <3>1. writes' = writes \cup {w} /\ loose' = loose \ {a}
      BY <2>2 DEF Update, w
    <3>2. Pending(a)' = {w}
      BY <1>2, <2>2, <3>1 DEF Pending
    <3>3. QED
      BY <1>1, <1>2, <3>2, OneWriteSettles
  <2>3. CASE ~ShouldPersist(alerts[a], r)
    <3>1. alerts[a].status = "acknowledged" /\ r = Acknowledged(alerts[a]) /\ alerts[a].acks > 0
      BY <2>3 DEF Settled, CountedEverywhere, AcksCounted
    <3>2. Pending(a)' = Pending(a) /\ loose' = loose
      BY <2>3 DEF Update, Pending
    <3>3. \A x \in Pending(a) : x.record \in Record
      BY DEF RepositoryOK, Write, Pending
    <3>4. a \in DOMAIN rows => rows[a] \in Record
      BY DEF IsTable
    <3>5. QED
      BY <1>1, <3>1, <3>2, <3>3, <3>4, TellsAcknowledged DEF Settled, SettledAt
  <2>4. QED
    BY <2>1, <2>2, <2>3
<1>6. QED
  BY <1>3, <1>4, <1>5 DEF Settled

LEMMA SaveSettles ==
  ASSUME RepositoryOK, Settled, UNCHANGED rows, NEW a \in Alerts \ (DOMAIN alerts \cup DOMAIN rows),
         Pending(a) = {}, NEW r \in Record, AcksCounted(r), Save(a, r)
  PROVE  Settled'
<1> DEFINE w == [alert |-> a, record |-> r]
<1>1. /\ DOMAIN alerts' = DOMAIN alerts \cup {a} /\ alerts'[a] = r
      /\ \A b \in DOMAIN alerts : alerts'[b] = alerts[b]
  BY DEF Save
<1>2. writes' = writes \cup {w} /\ w.alert = a /\ w.record = r /\ loose' = loose \ {a}
  BY DEF Save
<1> HIDE DEF w
<1>3. CountedEverywhere'
  BY <1>1, <1>2 DEF Settled, CountedEverywhere
<1>4. ASSUME NEW b \in Alerts \ {a} PROVE SettledAt(b)'
  <2>1. Pending(b)' = Pending(b)
    BY <1>2 DEF Pending
  <2>2. b \notin loose' => b \notin loose
    BY <1>2
  <2>3. b \in DOMAIN alerts' <=> b \in DOMAIN alerts
    BY <1>1
  <2>4. b \in DOMAIN alerts => alerts'[b] = alerts[b]
    BY <1>1
  <2>5. SettledAt(b)
    BY DEF Settled
  <2>6. QED
    BY <2>1, <2>2, <2>3, <2>4, <2>5 DEF SettledAt
<1>5. SettledAt(a)'
  <2>1. Pending(a)' = {w}
    BY <1>2 DEF Pending
  <2>2. QED
    BY <1>1, <1>2, <2>1, OneWriteSettles
<1>6. QED
  BY <1>3, <1>4, <1>5 DEF Settled

\* A deletion has read every alert there is, unless one was raised since.
DeletionReadAll == deletion.step = "alerts" /\ neat => DOMAIN alerts \subseteq deletion.ids

OneOpenInv == Settled /\ OneOpenAlert /\ DeletionReadAll /\ AlertTellsReading

\* An update of an open alert: it was the indexed one, and it is again if it stays open.
LEMMA UpdateOneOpen ==
  ASSUME RepositoryOK, OneOpenAlert, NEW a \in DOMAIN alerts, IsOpen(alerts[a]), NEW r, Update(a, r)
  PROVE  /\ OneOpenAlert'
         /\ neat' = neat /\ DOMAIN alerts' = DOMAIN alerts
         /\ IsOpen(r) => active' = a
         /\ ~IsOpen(r) /\ neat => \A b \in DOMAIN alerts' : ~IsOpen(alerts'[b])
<1>1. /\ alerts' = [alerts EXCEPT ![a] = r]
      /\ active' = IF IsOpen(r) THEN a ELSE NoAlert
      /\ neat' = neat
  BY DEF Update
<1>2. neat => \A b \in DOMAIN alerts : IsOpen(alerts[b]) => b = a
  BY DEF OneOpenAlert
<1>3. QED
  BY <1>1, <1>2 DEF OneOpenAlert

\* No alert is open when none is indexed.
LEMMA NoneOpenUnindexed ==
  ASSUME RepositoryOK, OneOpenAlert, active = NoAlert, neat
  PROVE  \A b \in DOMAIN alerts : ~IsOpen(alerts[b])
  BY AlertAssumption DEF RepositoryOK, IsTable, OneOpenAlert

LEMMA SaveOneOpen ==
  ASSUME RepositoryOK, OneOpenAlert, active = NoAlert,
         NEW a \in Alerts \ DOMAIN alerts, NEW r, Save(a, r)
  PROVE  OneOpenAlert' /\ active' = a /\ (neat' => deletion.step # "alerts")
<1>1. /\ DOMAIN alerts' = DOMAIN alerts \cup {a} /\ active' = a
      /\ \A b \in DOMAIN alerts : alerts'[b] = alerts[b]
      /\ neat' = (neat /\ deletion.step # "alerts")
  BY DEF Save
<1>2. QED
  BY <1>1, NoneOpenUnindexed DEF OneOpenAlert

LEMMA EvaluateOneOpen ==
  ASSUME RepositoryOK, IsTable(rows), OneOpenInv, UNCHANGED <<rows, deletion>>,
         setpoint \in Setpoints, NEW m \in Message, Evaluate(m)
  PROVE  OneOpenInv'
<1> USE DEF OneOpenInv
<1>0. m.value \in Nat /\ Threshold \in Nat
  BY AlertAssumption DEF Message, Threshold
<1>1. CASE ~enabled
  <2>1. UNCHANGED <<alerts, active, writes, verdict, loose, neat>>
    BY <1>1 DEF Evaluate
  <2>2. QED
    BY <2>1 DEF Settled, CountedEverywhere, SettledAt, Pending, OneOpenAlert, DeletionReadAll,
      AlertTellsReading
<1>2. CASE enabled /\ m.value > Threshold /\ active # NoAlert
  <2> DEFINE r == Repeat(alerts[active])
  <2>1. verdict' = "above" /\ Update(active, r)
    BY <1>0, <1>2 DEF Evaluate
  <2>2. active \in DOMAIN alerts /\ IsOpen(alerts[active]) /\ alerts[active] \in Record
    BY <1>2 DEF RepositoryOK, ActiveIsOpen, IsTable
  <2>3. /\ r \in Record /\ r.status = alerts[active].status /\ r.acks = alerts[active].acks
        /\ r.count # alerts[active].count
    BY <2>2 DEF Repeat, Record
  <2>4. AcksCounted(r) /\ IsOpen(r) /\ ShouldPersist(alerts[active], r)
    BY <2>2, <2>3 DEF Settled, CountedEverywhere, AcksCounted, IsOpen, ShouldPersist
  <2> HIDE DEF r
  <2>5. Settled'
    BY <2>1, <2>2, <2>3, <2>4, UpdateSettles
  <2>6. OneOpenAlert' /\ neat' = neat /\ DOMAIN alerts' = DOMAIN alerts /\ active' = active
    BY <2>1, <2>2, <2>4, UpdateOneOpen
  <2>7. QED
    BY <1>2, <2>1, <2>5, <2>6 DEF DeletionReadAll, AlertTellsReading
<1>3. CASE enabled /\ m.value > Threshold /\ active = NoAlert
  <2> DEFINE r == [status |-> "active", since |-> m.at, count |-> 1, acks |-> 0]
  <2>1. PICK a \in Alerts \ (DOMAIN alerts \cup DOMAIN rows) : Pending(a) = {} /\ Save(a, r)
    BY <1>0, <1>3 DEF Evaluate
  <2>2. verdict' = "above"
    BY <1>0, <1>3 DEF Evaluate
  <2>3. r \in Record /\ AcksCounted(r)
    BY DEF Record, AcksCounted, Message
  <2> HIDE DEF r
  <2>4. Settled'
    BY <2>1, <2>3, SaveSettles
  <2>5. OneOpenAlert' /\ active' = a /\ (neat' => deletion.step # "alerts")
    BY <1>3, <2>1, SaveOneOpen
  <2>6. QED
    BY <2>1, <2>2, <2>4, <2>5, AlertAssumption DEF DeletionReadAll, AlertTellsReading
<1>4. CASE enabled /\ ~(m.value > Threshold) /\ active # NoAlert
  <2> DEFINE r == Resolve(alerts[active])
  <2>1. verdict' = "below" /\ Update(active, r)
    BY <1>0, <1>4 DEF Evaluate
  <2>2. active \in DOMAIN alerts /\ IsOpen(alerts[active]) /\ alerts[active] \in Record
    BY <1>4 DEF RepositoryOK, ActiveIsOpen, IsTable
  <2>3. r \in Record /\ r.status = "resolved"
    BY <2>2 DEF Resolve, Record
  <2>4. AcksCounted(r) /\ ~IsOpen(r) /\ ShouldPersist(alerts[active], r)
    BY <2>3 DEF AcksCounted, IsOpen, ShouldPersist
  <2> HIDE DEF r
  <2>5. Settled'
    BY <2>1, <2>2, <2>3, <2>4, UpdateSettles
  <2>6. /\ OneOpenAlert' /\ neat' = neat /\ DOMAIN alerts' = DOMAIN alerts
        /\ neat => \A b \in DOMAIN alerts' : ~IsOpen(alerts'[b])
    BY <2>1, <2>2, <2>4, UpdateOneOpen
  <2>7. QED
    BY <2>1, <2>5, <2>6 DEF DeletionReadAll, AlertTellsReading
<1>5. CASE enabled /\ ~(m.value > Threshold) /\ active = NoAlert
  <2>1. verdict' = "below" /\ UNCHANGED <<alerts, active, writes, loose, neat>>
    BY <1>0, <1>5 DEF Evaluate
  <2>2. neat => \A b \in DOMAIN alerts : ~IsOpen(alerts[b])
    BY <1>5, NoneOpenUnindexed
  <2>3. QED
    BY <2>1, <2>2 DEF Settled, CountedEverywhere, SettledAt, Pending, OneOpenAlert,
      DeletionReadAll, AlertTellsReading
<1>6. QED
  BY <1>1, <1>2, <1>3, <1>4, <1>5

LEMMA OneOpenInit == Init => OneOpenInv
  BY DEF Init, OneOpenInv, Settled, CountedEverywhere, SettledAt, Pending, OneOpenAlert,
         DeletionReadAll, NoDeletion, AlertTellsReading

LEMMA OneOpenNext ==
  ASSUME AlertInv, OneOpenInv, [Next]_vars
  PROVE  OneOpenInv'
<1>1. /\ RepositoryOK /\ IsTable(rows) /\ setpoint \in Setpoints /\ handlers \subseteq Message
      /\ received \in Nat /\ writes \subseteq Write
      /\ \A a \in DOMAIN alerts : a \in Alerts /\ alerts[a] \in Record
  BY InvIsRepositoryOK DEF AlertInv, TypeOK, IsTable
\* What leaves the records, the table and the writes alone.
<1>2. ASSUME UNCHANGED <<alerts, active, rows, writes, deletion, verdict, loose, neat>>
      PROVE  OneOpenInv'
  BY <1>2 DEF OneOpenInv, Settled, CountedEverywhere, SettledAt, Pending, OneOpenAlert,
    DeletionReadAll, AlertTellsReading
<1>3. ASSUME NEW value \in Values, Receive(value) PROVE OneOpenInv'
  <2> DEFINE m == [at |-> received', value |-> value]
  <2>1. m \in Message
    BY <1>1, <1>3 DEF Receive, Message
  <2>2. UNCHANGED <<rows, deletion>>
    BY <1>3 DEF Receive
  <2>3. Evaluate(m) \/ UNCHANGED <<alerts, active, writes, verdict, loose, neat>>
    BY <1>3 DEF Receive
  <2> HIDE DEF m
  <2>4. QED
    BY <1>1, <1>2, <2>1, <2>2, <2>3, EvaluateOneOpen
<1>4. ASSUME NEW m \in handlers, Resume(m) PROVE OneOpenInv'
  BY <1>1, <1>4, EvaluateOneOpen DEF Resume
<1>5. ASSUME NEW a \in Alerts, Acknowledge(a) PROVE OneOpenInv'
  <2> DEFINE r == Acknowledged(alerts[a])
  <2>1. /\ a \in DOMAIN alerts /\ IsOpen(alerts[a]) /\ Update(a, r) /\ alerts[a] \in Record
        /\ UNCHANGED <<rows, deletion, verdict>>
    BY <1>1, <1>5 DEF Acknowledge
  <2>2. r \in Record /\ r.status = "acknowledged" /\ IsOpen(r)
    BY <2>1, AcknowledgedType DEF IsOpen
  <2>3. AcksCounted(r)
    BY <2>1 DEF AcksCounted, Acknowledged, Record
  <2>4. ShouldPersist(alerts[a], r) \/ alerts[a].status = "acknowledged"
    BY <2>2 DEF ShouldPersist
  <2>5. Settled'
    BY <1>1, <2>1, <2>2, <2>3, <2>4, UpdateSettles DEF OneOpenInv
  <2>6. OneOpenAlert' /\ neat' = neat /\ DOMAIN alerts' = DOMAIN alerts /\ active' = a
    <3> HIDE DEF r
    <3>1. QED
      BY <1>1, <2>1, <2>2, UpdateOneOpen DEF OneOpenInv
  <2>7. ~(verdict = "below" /\ neat)
    BY <2>1 DEF OneOpenInv, AlertTellsReading
  <2>8. QED
    BY <1>1, <2>1, <2>5, <2>6, <2>7, AlertAssumption
    DEF OneOpenInv, DeletionReadAll, AlertTellsReading
<1>6. ASSUME NEW a \in Alerts, ResolveByOperator(a) PROVE OneOpenInv'
  <2> DEFINE r == Resolve(alerts[a])
  <2>1. /\ a \in DOMAIN alerts /\ IsOpen(alerts[a]) /\ Update(a, r) /\ alerts[a] \in Record
        /\ UNCHANGED <<rows, deletion>> /\ verdict' = "none"
    BY <1>1, <1>6 DEF ResolveByOperator
  <2>2. r \in Record /\ AcksCounted(r) /\ ShouldPersist(alerts[a], r)
    BY <2>1 DEF Resolve, Record, AcksCounted, ShouldPersist, IsOpen
  <2> HIDE DEF r
  <2>3. Settled'
    BY <1>1, <2>1, <2>2, UpdateSettles DEF OneOpenInv
  <2>4. OneOpenAlert' /\ neat' = neat /\ DOMAIN alerts' = DOMAIN alerts
    BY <1>1, <2>1, UpdateOneOpen DEF OneOpenInv
  <2>5. QED
    BY <2>1, <2>3, <2>4 DEF OneOpenInv, DeletionReadAll, AlertTellsReading
<1>7. CASE Configure \/ DeleteDevice \/ Register \/ UNCHANGED vars
  <2>1. CASE DeleteDevice
    BY <2>1 DEF DeleteDevice, NoDeletion, OneOpenInv, Settled, CountedEverywhere, SettledAt,
      Pending, OneOpenAlert, DeletionReadAll, AlertTellsReading
  <2>2. QED
    BY <1>2, <1>7, <2>1 DEF Configure, Register, vars
<1>8. CASE StartDeletion
  BY <1>8 DEF StartDeletion, OneOpenInv, Settled, CountedEverywhere, SettledAt,
    Pending, OneOpenAlert, DeletionReadAll, AlertTellsReading
<1>9. ASSUME NEW w \in writes, LandWrite(w) PROVE OneOpenInv'
  <2> DEFINE a == w.alert
  <2>1. a \in Alerts /\ w.record \in Record
    BY <1>1 DEF Write
  <2>2. /\ UNCHANGED <<alerts, active, deletion, verdict, loose, neat>>
        /\ writes' = writes \ {w}
        /\ DOMAIN rows' = DOMAIN rows \cup {a} /\ rows'[a] = w.record
        /\ \A b \in DOMAIN rows \ {a} : rows'[b] = rows[b]
    BY <1>9 DEF LandWrite, WithRow
  <2>3. CountedEverywhere'
    BY <2>2 DEF OneOpenInv, Settled, CountedEverywhere
  <2>4. ASSUME NEW b \in Alerts \ {a} PROVE SettledAt(b)'
    <3>1. Pending(b)' = Pending(b)
      BY <2>2 DEF Pending
    <3>2. b \in DOMAIN rows' <=> b \in DOMAIN rows
      BY <2>2
    <3>3. b \in DOMAIN rows => rows'[b] = rows[b]
      BY <2>2
    <3>4. QED
      BY <2>2, <3>1, <3>2, <3>3 DEF OneOpenInv, Settled, SettledAt
  <2>5. SettledAt(a)'
    <3>1. CASE a \in loose
      BY <2>2, <3>1 DEF SettledAt
    <3>2. CASE a \notin loose
      <4>1. w \in Pending(a)
        BY DEF Pending
      <4>2. Pending(a) = {w} /\ a \in DOMAIN alerts /\ Tells(w.record, alerts[a])
        BY <2>1, <3>2, <4>1 DEF OneOpenInv, Settled, SettledAt
      <4>3. Pending(a)' = {}
        BY <2>2, <4>2 DEF Pending
      <4>4. QED
        BY <2>2, <4>2, <4>3 DEF SettledAt
    <3>3. QED
      BY <3>1, <3>2
  <2>6. QED
    BY <2>2, <2>3, <2>4, <2>5
    DEF OneOpenInv, Settled, OneOpenAlert, DeletionReadAll, AlertTellsReading
<1>10. CASE DeleteAlerts
  <2>1. /\ alerts' = [x \in DOMAIN alerts \ deletion.ids |-> alerts[x]]
        /\ DOMAIN rows' = {} /\ writes' = writes
        /\ active' = IF deletion.ids # {} THEN NoAlert ELSE active
        /\ loose' = loose \cup {w.alert : w \in writes} \cup (DOMAIN alerts \ deletion.ids)
        /\ deletion.step = "alerts" /\ deletion'.step = "purge"
        /\ neat' = (neat /\ writes = {}) /\ verdict' = "none"
    BY <1>10, EmptyTable DEF DeleteAlerts, Restrict
  <2>2. CountedEverywhere'
    BY <2>1 DEF OneOpenInv, Settled, CountedEverywhere
  <2>3. ASSUME NEW b \in Alerts, b \notin loose' PROVE SettledAt(b)'
    <3>1. Pending(b)' = {} /\ b \notin DOMAIN alerts' /\ b \notin DOMAIN rows'
      BY <2>1, <2>3 DEF Pending
    <3>2. QED
      BY <3>1 DEF SettledAt
  <2>4. \A b \in Alerts : SettledAt(b)'
    BY <2>3 DEF SettledAt
  <2>5. neat' => DOMAIN alerts' = {}
    BY <2>1 DEF OneOpenInv, DeletionReadAll
  <2>6. QED
    BY <2>1, <2>2, <2>4, <2>5
    DEF OneOpenInv, Settled, OneOpenAlert, DeletionReadAll, AlertTellsReading
<1>11. CASE DeleteRows
  <2>1. /\ UNCHANGED <<alerts, active, writes, verdict>>
        /\ DOMAIN rows' = {} /\ deletion'.step = "device"
        /\ loose' = loose \cup DOMAIN alerts \cup DOMAIN rows \cup {w.alert : w \in writes}
        /\ neat' => neat
    <3>1. deletion'.step = "device"
      BY <1>11 DEF DeleteRows, AlertInv, TypeOK
    <3>2. QED
      BY <1>11, <3>1, EmptyTable DEF DeleteRows
  <2>2. CountedEverywhere'
    BY <2>1 DEF OneOpenInv, Settled, CountedEverywhere
  <2>3. ASSUME NEW b \in Alerts, b \notin loose' PROVE SettledAt(b)'
    <3>1. Pending(b)' = {} /\ b \notin DOMAIN alerts' /\ b \notin DOMAIN rows'
      BY <2>1, <2>3 DEF Pending
    <3>2. QED
      BY <3>1 DEF SettledAt
  <2>4. \A b \in Alerts : SettledAt(b)'
    BY <2>3 DEF SettledAt
  <2>5. QED
    BY <2>1, <2>2, <2>4
    DEF OneOpenInv, Settled, OneOpenAlert, DeletionReadAll, AlertTellsReading
<1>12. CASE Restart
  <2>1. /\ alerts' = rows /\ rows' = rows /\ writes' = {} /\ loose' = {}
        /\ IF LatestOpenRow = {} THEN active' = NoAlert ELSE active' \in LatestOpenRow
        /\ neat' = (neat /\ writes = {} /\ loose = {}) /\ verdict' = "none"
        /\ deletion'.step = "none"
    BY <1>12 DEF Restart, NoDeletion
  <2>2. Settled'
    <3>1. CountedEverywhere'
      BY <2>1 DEF OneOpenInv, Settled, CountedEverywhere
    <3>2. \A b \in Alerts : SettledAt(b)'
      BY <2>1 DEF SettledAt, Pending, Tells
    <3>3. QED
      BY <3>1, <3>2 DEF Settled
  <2>3. OneOpenAlert'
    <3> SUFFICES ASSUME neat, writes = {}, loose = {}, NEW b \in DOMAIN rows, IsOpen(rows[b])
                 PROVE  b = active'
      BY <2>1 DEF OneOpenAlert
    <3>1. ASSUME NEW c \in DOMAIN rows, IsOpen(rows[c]) PROVE c = active
      <4>1. c \in Alerts /\ Pending(c) = {} /\ SettledAt(c)
        BY <1>1 DEF OneOpenInv, Settled, IsTable, Pending
      <4>2. c \in DOMAIN alerts /\ Tells(rows[c], alerts[c])
        BY <4>1 DEF SettledAt
      <4>3. alerts[c].status = rows[c].status
        BY <1>1, <4>2 DEF Tells, Record
      <4>4. QED
        BY <3>1, <4>2, <4>3 DEF OneOpenInv, OneOpenAlert, IsOpen
    <3>2. OpenRows = {b}
      BY <3>1 DEF OpenRows
    <3>3. rows[b].since \in Nat
      BY <1>1 DEF IsTable, Record
    <3>4. LatestOpenRow = {b}
      BY <3>2, <3>3 DEF LatestOpenRow
    <3>5. QED
      BY <2>1, <3>4
  <2>4. QED
    BY <2>1, <2>2, <2>3 DEF OneOpenInv, DeletionReadAll, AlertTellsReading
<1>13. QED
  BY <1>3, <1>4, <1>5, <1>6, <1>7, <1>8, <1>9, <1>10, <1>11, <1>12 DEF Next

THEOREM OneOpenInvAlways == Spec => []OneOpenInv
<1>1. AlertInv /\ [Next]_vars => AlertInv'
  BY NextInv
<1>2. AlertInv /\ OneOpenInv /\ [Next]_vars => OneOpenInv'
  BY OneOpenNext
<1>3. QED
  BY InitInv, OneOpenInit, <1>1, <1>2, PTL DEF Spec

\* A rule has at most one open alert on a device, the indexed one, unless a
\* deletion or a restart met a change that was under way.
THEOREM OneOpenAlertOnly == Spec => []OneOpenAlert
<1>1. OneOpenInv => OneOpenAlert
  BY DEF OneOpenInv
<1>2. QED
  BY <1>1, OneOpenInvAlways, PTL

\* There is an open alert exactly when the reading evaluated last was above
\* the setpoint.
THEOREM AlertFollowsReading == Spec => []AlertTellsReading
<1>1. OneOpenInv => AlertTellsReading
  BY DEF OneOpenInv
<1>2. QED
  BY <1>1, OneOpenInvAlways, PTL

\* Writes that overlapped nothing leave in the table what memory has.
THEOREM TableFollowsMemory == Spec => []TableTellsMemory
<1>1. OneOpenInv => TableTellsMemory
  BY DEF OneOpenInv, Settled, SettledAt, TableTellsMemory, Tells
<1>2. QED
  BY <1>1, OneOpenInvAlways, PTL

=============================================================================
