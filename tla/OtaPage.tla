------------------------------- MODULE OtaPage -------------------------------
(* Firmware updates: the update page (OtaManagement.tsx) and the routes that   *)
(* store a firmware file, send it to the chosen devices one after another and  *)
(* look their commands up.  The page asks for the commands of the last run     *)
(* every two seconds, whether or not the last answer has come.                 *)
EXTENDS Integers, FiniteSets, Sequences

CONSTANTS Boards,       \* the devices firmware is sent to
          Binaries,     \* firmware files of the user's disk
          OtaBudget,    \* bound: clicks, and changes of who is connected
          MaxLookups,   \* bound: lookups under way at a time
          OtaNone

VARIABLES fleet,        \* the server: who is connected, the commands, the dispatch that is being carried out
          opage,        \* the state of the mounted component
          oasks         \* the requests under way
ovars == <<fleet, opage, oasks>>

Closed == [mount |-> 0, file |-> OtaNone, bin |-> OtaNone, uploading |-> FALSE, online |-> {}, selected |-> {},
           loading |-> FALSE, dispatching |-> FALSE, run |-> OtaNone, rows |-> <<>>, left |-> OtaBudget]
Visiting == opage.mount % 2 = 1
\* A request; `then` keeps what its continuation has at hand.
Req(kind, what) == [kind |-> kind, mount |-> opage.mount, what |-> what, reply |-> [is |-> "pending"]]
Send(a) == oasks' = oasks \cup {a}
Replied(a, r) == oasks' = (oasks \ {a}) \cup {[a EXCEPT !.reply = r]}
User(v) == Visiting /\ opage.left > 0 /\ opage' = [v EXCEPT !.left = @ - 1]

-----------------------------------------------------------------------------
(* The server. *)

Upload(a) == Replied(a, [is |-> "done", bin |-> a.what]) /\ UNCHANGED fleet
ListOnline(a) == Replied(a, [is |-> "done", online |-> fleet.connected]) /\ UNCHANGED fleet
\* Dispatch walks the devices in turn; each command is stored before the next device is looked at.
DispatchBegin(a) ==
  /\ fleet.sending = OtaNone
  /\ fleet' = [fleet EXCEPT !.sending = [ask |-> a, todo |-> a.what.to, items |-> <<>>]]
  /\ UNCHANGED oasks
DispatchNext ==
  /\ fleet.sending # OtaNone /\ fleet.sending.todo # {}
  /\ LET s == fleet.sending
         d == CHOOSE x \in s.todo : TRUE
         id == Len(fleet.commands) + 1
         accepted == d \in fleet.connected
     IN  fleet' = [fleet EXCEPT
           !.commands = IF accepted THEN Append(@, [device |-> d, bin |-> s.ask.what.bin, status |-> "sent", ack |-> "none"]) ELSE @,
           !.sending = [@ EXCEPT !.todo = s.todo \ {d}, !.items = Append(@, [device |-> d, command |-> IF accepted THEN id ELSE 0])]]
  /\ UNCHANGED <<opage, oasks>>
DispatchEnd ==
  /\ fleet.sending # OtaNone /\ fleet.sending.todo = {}
  /\ Replied(fleet.sending.ask, [is |-> "done", items |-> fleet.sending.items])
  /\ fleet' = [fleet EXCEPT !.sending = OtaNone]
  /\ UNCHANGED opage
Lookup(a) ==
  /\ Replied(a, [is |-> "done", found |-> [id \in {a.what[i].command : i \in DOMAIN a.what} \ {0} |-> fleet.commands[id]]])
  /\ UNCHANGED fleet
OtaServe(a) ==
  /\ a.reply.is = "pending" /\ UNCHANGED opage
  /\ \/ a.kind = "upload" /\ Upload(a)
     \/ a.kind = "devices" /\ ListOnline(a)
     \/ a.kind = "dispatch" /\ DispatchBegin(a)
     \/ a.kind = "lookup" /\ Lookup(a)
\* A request, or the answer to one that was carried out, is lost: the page sees a failure either way.
OtaLost(a) ==
  /\ a.reply.is # "refused" /\ (fleet.sending # OtaNone => fleet.sending.ask # a)
  /\ Replied(a, [is |-> "refused"])
  /\ opage.left > 0 /\ opage' = [opage EXCEPT !.left = @ - 1]
  /\ UNCHANGED fleet

\* The device reports how its command goes, or says nothing until the command times out.
Report(id) ==
  /\ LET c == fleet.commands[id] IN
       \/ c.ack \in {"none", "downloading"} /\ c.status # "timeout"
          /\ \E r \in {"downloading", "success", "failed"} \ {c.ack} :
               fleet' = [fleet EXCEPT !.commands[id] = [c EXCEPT !.status = "acked", !.ack = r]]
       \/ c.status = "sent" /\ fleet' = [fleet EXCEPT !.commands[id].status = "timeout"]
  /\ UNCHANGED <<opage, oasks>>
Connects(d) ==
  /\ opage.left > 0
  /\ fleet' = [fleet EXCEPT !.connected = IF d \in @ THEN @ \ {d} ELSE @ \cup {d}]
  /\ opage' = [opage EXCEPT !.left = @ - 1]
  /\ UNCHANGED oasks

-----------------------------------------------------------------------------
(* The page. *)

MountOtaPage ==
  /\ ~Visiting /\ opage.left > 0
  /\ opage' = [Closed EXCEPT !.mount = opage.mount + 1, !.loading = TRUE, !.left = opage.left - 1]
  /\ Send([Req("devices", OtaNone) EXCEPT !.mount = opage.mount + 1])
  /\ UNCHANGED fleet
LeaveOtaPage ==
  /\ Visiting
  /\ opage' = [Closed EXCEPT !.mount = opage.mount + 1, !.left = opage.left]
  /\ UNCHANGED <<fleet, oasks>>
LoadDevices ==
  /\ ~opage.loading
  /\ User([opage EXCEPT !.loading = TRUE])
  /\ Send(Req("devices", OtaNone))
  /\ UNCHANGED fleet
UploadBin ==
  /\ opage.file # OtaNone /\ ~opage.uploading /\ opage.bin = OtaNone
  /\ User([opage EXCEPT !.uploading = TRUE])
  /\ Send(Req("upload", opage.file))
  /\ UNCHANGED fleet
\* A file picked in the place of an uploaded one is uploaded at once.
HandlePickedFile(f) ==
  /\ IF opage.bin # OtaNone
     THEN User([opage EXCEPT !.file = f, !.bin = OtaNone, !.uploading = TRUE]) /\ Send(Req("upload", f))
     ELSE User([opage EXCEPT !.file = f]) /\ UNCHANGED oasks
  /\ UNCHANGED fleet
ForgetFile ==
  /\ opage.file # OtaNone \/ opage.bin # OtaNone
  /\ User([opage EXCEPT !.file = OtaNone, !.bin = OtaNone])
  /\ UNCHANGED <<fleet, oasks>>
ToggleDevice(d) ==
  /\ User([opage EXCEPT !.selected = IF d \in @ THEN @ \ {d} ELSE @ \cup {d}])
  /\ UNCHANGED <<fleet, oasks>>
SelectShown(ds) == User([opage EXCEPT !.selected = ds]) /\ UNCHANGED <<fleet, oasks>>
StartOta ==
  /\ ~opage.dispatching /\ opage.bin # OtaNone /\ opage.selected # {}
  /\ User([opage EXCEPT !.dispatching = TRUE])
  /\ Send(Req("dispatch", [to |-> opage.selected, bin |-> opage.bin]))
  /\ UNCHANGED fleet
\* Asked when a run begins and every two seconds after.
RefreshProgress ==
  /\ Visiting /\ opage.run # OtaNone
  /\ Cardinality({a \in oasks : a.kind = "lookup" /\ a.mount = opage.mount}) < MaxLookups
  /\ Send(Req("lookup", opage.run))
  /\ UNCHANGED <<fleet, opage>>

-----------------------------------------------------------------------------
(* The answers. *)

DevicesAnswered(a) ==
  opage' = [opage EXCEPT !.loading = FALSE, !.online = IF a.reply.is = "done" THEN a.reply.online ELSE {},
              !.selected = IF a.reply.is = "done" THEN @ \cap a.reply.online ELSE @]
UploadAnswered(a) ==
  opage' = [opage EXCEPT !.uploading = FALSE, !.bin = IF a.reply.is = "done" THEN a.what ELSE OtaNone,
              !.file = IF a.reply.is = "done" THEN a.what ELSE @]
FirstPhase(item) == IF item.command = 0 THEN "failed" ELSE "in_progress"
DispatchAnswered(a) ==
  opage' = IF a.reply.is = "done"
           THEN [opage EXCEPT !.dispatching = FALSE, !.run = a.reply.items,
                   !.rows = [i \in DOMAIN a.reply.items |-> FirstPhase(a.reply.items[i])]]
           ELSE [opage EXCEPT !.dispatching = FALSE, !.run = OtaNone, !.rows = <<>>]
DerivePhase(c) ==
  CASE c.status = "timeout" -> "timeout"
    [] c.status # "timeout" /\ c.ack = "failed" -> "failed"
    [] c.ack = "success" -> "confirmed"
    [] c.status = "sent" -> "queued"
    [] c.ack = "downloading" -> "in_progress"
Rows(items, found) == [i \in DOMAIN items |-> IF items[i].command = 0 THEN "failed" ELSE DerivePhase(found[items[i].command])]
\* The rows of an answer are shown even when a later run has begun meanwhile.
LookupAnswered(a) == opage' = IF a.reply.is = "done" THEN [opage EXCEPT !.rows = Rows(a.what, a.reply.found)] ELSE opage
OtaAnswered(a) ==
  /\ a.reply.is # "pending" /\ oasks' = oasks \ {a} /\ UNCHANGED fleet
  /\ \/ a.mount # opage.mount /\ UNCHANGED opage
     \/ a.mount = opage.mount /\ a.kind = "devices" /\ DevicesAnswered(a)
     \/ a.mount = opage.mount /\ a.kind = "upload" /\ UploadAnswered(a)
     \/ a.mount = opage.mount /\ a.kind = "dispatch" /\ DispatchAnswered(a)
     \/ a.mount = opage.mount /\ a.kind = "lookup" /\ LookupAnswered(a)

-----------------------------------------------------------------------------
OtaInit == /\ fleet = [connected |-> Boards, commands |-> <<>>, sending |-> OtaNone]
           /\ opage = Closed /\ oasks = {}
OtaNext ==
  \/ MountOtaPage \/ LeaveOtaPage \/ LoadDevices \/ UploadBin \/ ForgetFile \/ StartOta \/ RefreshProgress
  \/ DispatchNext \/ DispatchEnd
  \/ \E f \in Binaries : HandlePickedFile(f)
  \/ \E d \in opage.online : ToggleDevice(d)
  \/ \E ds \in {{}, opage.online} : SelectShown(ds)
  \/ \E d \in Boards : Connects(d)
  \/ \E id \in DOMAIN fleet.commands : Report(id)
  \/ \E a \in oasks : OtaServe(a) \/ OtaLost(a) \/ OtaAnswered(a)
OtaFairness ==
  /\ WF_ovars(\E a \in oasks : OtaServe(a)) /\ WF_ovars(\E a \in oasks : OtaAnswered(a))
  /\ WF_ovars(RefreshProgress)
  /\ WF_ovars(DispatchNext) /\ WF_ovars(DispatchEnd)
OtaSpec == OtaInit /\ [][OtaNext]_ovars /\ OtaFairness

-----------------------------------------------------------------------------
(* The firmware that a run would send is the file the page shows as chosen:    *)
(* whatever is picked, dropped or forgotten while an upload is out, its answer *)
(* brings its own file back with it.                                           *)
FirmwareIsShown == opage.bin # OtaNone => opage.bin = opage.file

(* Lookups overlap and overtake each other, and one of an earlier run may come *)
(* after a later one began; still, once every command of the run has ended,    *)
(* the page comes to show how, unless it is left or another run begins.        *)
Ended(id) == fleet.commands[id].status = "timeout" \/ fleet.commands[id].ack \in {"success", "failed"}
RunEnded == opage.run # OtaNone /\ \A i \in DOMAIN opage.run : opage.run[i].command # 0 => Ended(opage.run[i].command)
Outcome == [i \in DOMAIN opage.run |->
  LET id == opage.run[i].command IN
    IF id = 0 THEN "failed" ELSE IF fleet.commands[id].status = "timeout" THEN "timeout"
    ELSE IF fleet.commands[id].ack = "success" THEN "confirmed" ELSE "failed"]
ProgressOwed == RunEnded /\ opage.run # OtaNone /\ opage.rows # Outcome
=============================================================================
