------------------------------ MODULE ZonePage ------------------------------
(* The zone page of the client (ZoneManagement.tsx) and the zone routes it     *)
(* talks to: the list with its filter, order and page number, the form that    *)
(* creates or renames a zone, and the dialog that removes one after showing    *)
(* which devices it would take from it.  Requests are answered in any order;   *)
(* the page may be left and entered again while they are out.                  *)
EXTENDS Integers, FiniteSets, Sequences, SequencesExt

CONSTANTS ZoneIds,      \* the numbers zones get, in the order of their names
          FirstZones,   \* the zones an earlier day left
          ZonePageSize, \* rows of one page (8 in the code)
          ZoneBudget,   \* bound: how often the user, and others, may act
          ZoneNone      \* no zone, no dialog

VARIABLES zones,    \* the zones table: zone -> [touched, described, devices]
          zpage,    \* the state of the mounted component
          zasks     \* the requests under way (two of the same kind with the same query are one)
zvars == <<zones, zpage, zasks>>

ZoneQueries == [filter : {"all", "with-description"}, sort : {"updated-desc", "name-asc"}, page : 1 .. Cardinality(ZoneIds)]
FirstQuery == [filter |-> "all", sort |-> "updated-desc", page |-> 1]
Unmounted == [mount |-> 0, shown |-> <<>>, query |-> FirstQuery, totalPages |-> 1, loading |-> FALSE, refreshing |-> FALSE,
              form |-> ZoneNone, saving |-> FALSE, candidate |-> ZoneNone, impact |-> ZoneNone, checking |-> FALSE,
              deleting |-> FALSE, left |-> ZoneBudget]
IsMounted == zpage.mount % 2 = 1
Request == [kind |-> "load", mount |-> zpage.mount, query |-> zpage.query, zone |-> ZoneNone, full |-> FALSE, force |-> FALSE,
            seen |-> ZoneNone, then |-> "nothing", reply |-> [is |-> "pending"]]

-----------------------------------------------------------------------------
(* The server. *)

ZoneOrder(sort, z, y) ==
  IF sort = "updated-desc" THEN zones[z].touched > zones[y].touched \/ (zones[z].touched = zones[y].touched /\ z > y) ELSE z < y
Matching(q) == {z \in DOMAIN zones : q.filter = "all" \/ zones[z].described}
ListPage(q) ==
  LET rows == SetToSortSeq(Matching(q), LAMBDA z, y : ZoneOrder(q.sort, z, y))
      pages == IF rows = <<>> THEN 1 ELSE (Len(rows) + ZonePageSize - 1) \div ZonePageSize
      page == Min({q.page, pages})
  IN  [is |-> "done", items |-> SubSeq(rows, (page - 1) * ZonePageSize + 1, Min({page * ZonePageSize, Len(rows)})), page |-> page, totalPages |-> pages]
\* parseZones sorts the rows of a page by their last update, whatever order was asked for.
ParseZones(items) == SortSeq(items, LAMBDA z, y : ZoneOrder("updated-desc", z, y))
Clock == Max({0} \cup {zones[z].touched : z \in DOMAIN zones}) + 1   \* later than every earlier touch

ListServed(a) == [a EXCEPT !.reply = [ListPage(a.query) EXCEPT !.items = ParseZones(@)]]
ImpactServed(a) == [a EXCEPT !.reply = IF a.zone \in DOMAIN zones THEN [is |-> "done", zone |-> a.zone, devices |-> zones[a.zone].devices] ELSE [is |-> "refused"]]
Touched == [touched |-> Clock, described |-> TRUE, devices |-> 0]
Create(a) ==
  \E z \in ZoneIds \ DOMAIN zones :
    /\ zones' = [y \in DOMAIN zones \cup {z} |-> IF y = z THEN Touched ELSE zones[y]]
    /\ zasks' = (zasks \ {a}) \cup {[a EXCEPT !.reply.is = "done"]}
Rename(a) ==
  IF a.zone \in DOMAIN zones
  THEN /\ zones' = [zones EXCEPT ![a.zone] = [Touched EXCEPT !.devices = zones[a.zone].devices]]
       /\ zasks' = (zasks \ {a}) \cup {[a EXCEPT !.reply.is = "done"]}
  ELSE /\ zasks' = (zasks \ {a}) \cup {[a EXCEPT !.reply.is = "refused"]}
       /\ UNCHANGED zones
\* A zone with devices goes only by force.
DeleteRefused(a) == a.zone \notin DOMAIN zones \/ (zones[a.zone].devices > 0 /\ ~a.force)
DeleteZone(a) ==
  /\ zones' = IF DeleteRefused(a) THEN zones ELSE [z \in DOMAIN zones \ {a.zone} |-> zones[z]]
  /\ zasks' = (zasks \ {a}) \cup {[a EXCEPT !.reply.is = IF DeleteRefused(a) THEN "refused" ELSE "done"]}
Serve(a) ==
  /\ a.reply.is = "pending"
  /\ \/ a.kind = "load" /\ zasks' = (zasks \ {a}) \cup {ListServed(a)} /\ UNCHANGED zones
     \/ a.kind = "impact" /\ zasks' = (zasks \ {a}) \cup {ImpactServed(a)} /\ UNCHANGED zones
     \/ a.kind = "save" /\ a.zone = ZoneNone /\ Create(a)
     \/ a.kind = "save" /\ a.zone # ZoneNone /\ Rename(a)
     \/ a.kind = "delete" /\ DeleteZone(a)
  /\ UNCHANGED zpage
\* A request, or the answer to one that was carried out, is lost: the page sees a failure either way.
Lost(a) ==
  /\ a.reply.is # "refused"
  /\ zasks' = (zasks \ {a}) \cup {[a EXCEPT !.reply.is = "refused"]}
  /\ zpage.left > 0 /\ zpage' = [zpage EXCEPT !.left = @ - 1]
  /\ UNCHANGED zones
\* Somebody assigns a device to a zone while the page is open.
Assigned(z) ==
  /\ zones[z].devices = 0 /\ zpage.left > 0
  /\ zones' = [zones EXCEPT ![z].devices = 1]
  /\ zpage' = [zpage EXCEPT !.left = @ - 1]
  /\ UNCHANGED zasks

-----------------------------------------------------------------------------
(* The page. *)

Act(v) == /\ zpage.left > 0 /\ IsMounted
          /\ zpage' = [v EXCEPT !.left = @ - 1]
Ask(a) == zasks' = zasks \cup {a}
NoDialog == zpage.form = ZoneNone /\ zpage.candidate = ZoneNone

MountZonePage ==
  /\ ~IsMounted /\ zpage.left > 0
  /\ LET v == [Unmounted EXCEPT !.mount = zpage.mount + 1, !.loading = TRUE, !.left = zpage.left - 1]
     IN  /\ zpage' = v
         /\ Ask([Request EXCEPT !.mount = v.mount, !.query = v.query, !.full = TRUE])
  /\ UNCHANGED zones
\* What an unmounted component still gets is thrown away; what it sent is still carried out.
LeaveZonePage ==
  /\ IsMounted
  /\ zpage' = [Unmounted EXCEPT !.mount = zpage.mount + 1, !.left = zpage.left]
  /\ UNCHANGED <<zones, zasks>>

\* Another filter or order shows its first page; the effect on the query loads it.
ChangeQuery(q) ==
  /\ NoDialog /\ q # zpage.query
  /\ \/ q.page = 1
     \/ q.page \in {zpage.query.page - 1, zpage.query.page + 1} \cap 1 .. zpage.totalPages /\ q = [zpage.query EXCEPT !.page = q.page]
  /\ Act([zpage EXCEPT !.query = q, !.refreshing = TRUE])
  /\ Ask([Request EXCEPT !.query = q])
  /\ UNCHANGED zones
Refresh ==
  /\ NoDialog /\ ~zpage.loading /\ ~zpage.refreshing /\ ~zpage.saving /\ ~zpage.deleting
  /\ Act([zpage EXCEPT !.refreshing = TRUE])
  /\ Ask(Request)
  /\ UNCHANGED zones

OpenForm(z) ==   \* z is ZoneNone in the form of a new zone
  /\ NoDialog
  /\ Act([zpage EXCEPT !.form = [zone |-> z]])
  /\ UNCHANGED <<zones, zasks>>
CloseFormModal ==
  /\ zpage.form # ZoneNone /\ ~zpage.saving /\ IsMounted
  /\ zpage' = [zpage EXCEPT !.form = ZoneNone]
  /\ UNCHANGED <<zones, zasks>>
SubmitForm ==
  /\ zpage.form # ZoneNone /\ ~zpage.saving
  /\ Act([zpage EXCEPT !.saving = TRUE])
  /\ Ask([Request EXCEPT !.kind = "save", !.zone = zpage.form.zone])
  /\ UNCHANGED zones

LoadDeleteImpact(z) == [Request EXCEPT !.kind = "impact", !.zone = z]
OpenDeleteModal(z) ==
  /\ NoDialog
  /\ Act([zpage EXCEPT !.candidate = z, !.impact = ZoneNone, !.checking = TRUE])
  /\ Ask(LoadDeleteImpact(z))
  /\ UNCHANGED zones
Busy == zpage.deleting \/ zpage.checking
CloseDeleteModal ==
  /\ zpage.candidate # ZoneNone /\ ~Busy /\ IsMounted
  /\ zpage' = [zpage EXCEPT !.candidate = ZoneNone, !.impact = ZoneNone]
  /\ UNCHANGED <<zones, zasks>>
Affected == zpage.impact # ZoneNone /\ zpage.impact.devices > 0
ConfirmDelete ==
  /\ zpage.candidate # ZoneNone /\ ~Busy
  /\ Act([zpage EXCEPT !.deleting = TRUE])
  /\ Ask([Request EXCEPT !.kind = "delete", !.zone = zpage.candidate, !.force = Affected,
                         !.seen = IF Affected THEN zpage.impact.zone ELSE ZoneNone])
  /\ UNCHANGED zones

-----------------------------------------------------------------------------
(* The answers. *)

\* The rows of any answer are shown, whichever query it was for; a page the server
\* moved is followed, and loaded again.
MovedTo(a) == IF a.reply.page # a.query.page THEN a.reply.page ELSE zpage.query.page
Listed(a) == [zpage EXCEPT !.shown = a.reply.items, !.totalPages = a.reply.totalPages, !.query.page = MovedTo(a)]
Finished(v, a) == [v EXCEPT !.loading = @ /\ ~a.full, !.refreshing = v.query # zpage.query]
\* The save or the removal that waited for the list ends with it.
Continued(v, a) ==
  CASE a.then = "save"    -> [v EXCEPT !.form = ZoneNone, !.saving = FALSE]
    [] a.then = "delete"  -> [v EXCEPT !.deleting = FALSE]
    [] a.then = "nothing" -> v
LoadAnswered(a) ==
  LET v == IF a.reply.is = "refused" THEN zpage ELSE Listed(a)
  IN  /\ zpage' = Continued(Finished(v, a), a)
      /\ zasks' = (zasks \ {a}) \cup (IF v.query = zpage.query THEN {} ELSE {[Request EXCEPT !.query = v.query]})
ImpactAnswered(a) ==
  /\ zpage' = [zpage EXCEPT !.checking = FALSE,
                 !.impact = IF a.reply.is = "refused" THEN [zone |-> a.zone, devices |-> 0]
                            ELSE [zone |-> a.reply.zone, devices |-> a.reply.devices]]
  /\ zasks' = zasks \ {a}
SaveAnswered(a) ==
  IF a.reply.is = "refused"
  THEN zpage' = [zpage EXCEPT !.saving = FALSE] /\ zasks' = zasks \ {a}
  ELSE /\ zpage' = [zpage EXCEPT !.refreshing = TRUE]
       /\ zasks' = (zasks \ {a}) \cup {[Request EXCEPT !.query = a.query, !.then = "save"]}
DeleteAnswered(a) ==
  IF a.reply.is = "refused"
  THEN zpage' = [zpage EXCEPT !.deleting = FALSE] /\ zasks' = zasks \ {a}
  ELSE /\ zpage' = [zpage EXCEPT !.candidate = ZoneNone, !.impact = ZoneNone, !.refreshing = TRUE]
       /\ zasks' = (zasks \ {a}) \cup {[Request EXCEPT !.query = a.query, !.then = "delete"]}
Answered(a) ==
  /\ a.reply.is # "pending"
  /\ UNCHANGED zones
  /\ \/ a.mount # zpage.mount /\ zasks' = zasks \ {a} /\ UNCHANGED zpage
     \/ a.mount = zpage.mount /\ a.kind = "load" /\ LoadAnswered(a)
     \/ a.mount = zpage.mount /\ a.kind = "impact" /\ ImpactAnswered(a)
     \/ a.mount = zpage.mount /\ a.kind = "save" /\ SaveAnswered(a)
     \/ a.mount = zpage.mount /\ a.kind = "delete" /\ DeleteAnswered(a)

-----------------------------------------------------------------------------
ZoneInit == zones = FirstZones /\ zpage = Unmounted /\ zasks = {}
ZoneNext ==
  \/ MountZonePage \/ LeaveZonePage \/ Refresh \/ CloseFormModal \/ SubmitForm \/ CloseDeleteModal \/ ConfirmDelete
  \/ \E q \in ZoneQueries : ChangeQuery(q)
  \/ \E z \in {ZoneNone} \cup Range(zpage.shown) : OpenForm(z)
  \/ \E z \in ZoneIds : z \in Range(zpage.shown) /\ OpenDeleteModal(z)
  \/ \E z \in DOMAIN zones : Assigned(z)
  \/ \E a \in zasks : Serve(a) \/ Lost(a) \/ Answered(a)
ZoneFairness == WF_zvars(\E a \in zasks : Serve(a)) /\ WF_zvars(\E a \in zasks : Answered(a))
ZoneSpec == ZoneInit /\ [][ZoneNext]_zvars /\ ZoneFairness

-----------------------------------------------------------------------------
(* The dialogs are about the zone they name: what the removal dialog says of   *)
(* the devices was looked up for its candidate, a zone is taken from its       *)
(* devices by force only after the dialog said that this zone has some, and    *)
(* the form that an answer closes is the one that was sent.  No id is compared *)
(* when an answer arrives: only the buttons and the guards of the dialogs keep *)
(* the answer of one zone from the dialog of another.                          *)
DialogsKeepTheirZone ==
  /\ zpage.impact # ZoneNone => zpage.impact.zone = zpage.candidate
  /\ \A a \in zasks :
       /\ a.kind = "delete" /\ a.force => a.seen = a.zone
       /\ a.kind = "save" /\ a.mount = zpage.mount => zpage.saving /\ zpage.form = [zone |-> a.zone]
=============================================================================
