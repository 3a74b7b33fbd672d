------------------------------- MODULE Kiosk -------------------------------
(* The wall displays: the page that sends a picture of itself once             *)
(* (DisplayScreenshotReporter.tsx), the watcher that reloads it when the       *)
(* server serves another build (AppVersionWatcher.tsx), the service that keeps *)
(* the last picture of a display (display-screenshot.service.ts) and the panel *)
(* that lists the pictures and tells the displays to reload                    *)
(* (DisplayScreenshotsPanel.tsx).                                              *)
EXTENDS Integers, FiniteSets

CONSTANTS Retries,      \* how many failed attempts are followed by another (5 in the code)
          KioskBudget,  \* bound: changes of the display, builds, clicks and failures
          Builds        \* bound: the last build that is deployed

VARIABLES display,      \* the page of the display: what it shows of, its reporter and its watcher
          pictures,     \* the directory of the display: its image and its record, and the uploads being stored
          served,       \* the build of version.json
          gallery,      \* the panel, on another machine
          kleft         \* what is left of the budget
kvars == <<display, pictures, served, gallery, kleft>>

Page(build) == [build |-> build, visible |-> TRUE, connected |-> TRUE, state |-> "idle", timer |-> TRUE, tries |-> 0, gaveUp |-> FALSE,
                checking |-> FALSE, reloading |-> FALSE]
Spends == kleft > 0 /\ kleft' = kleft - 1

-----------------------------------------------------------------------------
(* The reporter. *)

AttemptInProgress(p) == p.state \in {"capturing", "uploading"}
Schedule(p) == IF p.state = "succeeded" \/ AttemptInProgress(p) \/ p.timer THEN p ELSE [p EXCEPT !.state = "retry-wait", !.timer = TRUE]
Resume(p) ==
  IF ~p.visible \/ ~p.connected \/ p.state = "succeeded" THEN p ELSE Schedule([p EXCEPT !.timer = FALSE])
\* The check of the version goes first: the attempt is put off for a second.
RunAttempt(p) ==
  IF p.state = "succeeded" \/ AttemptInProgress(p) THEN p
  ELSE IF ~p.visible \/ ~p.connected THEN [p EXCEPT !.state = "retry-wait"]
  ELSE IF p.checking THEN Schedule([p EXCEPT !.state = "retry-wait"])
  ELSE [p EXCEPT !.state = "capturing"]
TimerFires ==
  /\ display.timer
  /\ display' = RunAttempt([display EXCEPT !.timer = FALSE])
  /\ UNCHANGED <<pictures, served, gallery, kleft>>
IsRetryable(status) == status \in {"none", "unavailable"}
AttemptFailed(status) ==
  LET again == display.tries < Retries /\ IsRetryable(status)
  IN  display' = [display EXCEPT !.state = "retry-wait", !.tries = @ + 1, !.timer = again, !.gaveUp = ~again]
Captures ==
  /\ display.state = "capturing"
  /\ \/ /\ display' = [display EXCEPT !.state = "uploading"]
        /\ pictures' = [pictures EXCEPT !.next = @ + 1, !.out = @ \cup {[picture |-> pictures.next, step |-> "sent", heard |-> TRUE]}]
        /\ UNCHANGED kleft
     \/ AttemptFailed("none") /\ Spends /\ UNCHANGED pictures
  /\ UNCHANGED <<served, gallery>>
\* The answer, or its loss: the server may be storing still.
Awaited == {u \in pictures.out : u.heard}
Uploaded(u) ==
  /\ u.step = "stored" /\ display' = [display EXCEPT !.state = "succeeded"]
  /\ pictures' = [pictures EXCEPT !.out = @ \ {u}]
  /\ UNCHANGED <<served, gallery, kleft>>
\* 500 of a directory that cannot be written; 400, 413 and 422 of a picture the route does not take.
UploadRefusals == {"unavailable", "refused"}
UploadFails(u) ==
  /\ \/ AttemptFailed("none") /\ pictures' = [pictures EXCEPT !.out = IF u.step = "stored" THEN @ \ {u} ELSE (@ \ {u}) \cup {[u EXCEPT !.heard = FALSE]}]
     \/ /\ u.step = "sent" /\ \E status \in UploadRefusals : AttemptFailed(status)
        /\ pictures' = [pictures EXCEPT !.out = @ \ {u}]
  /\ Spends /\ UNCHANGED <<served, gallery>>

-----------------------------------------------------------------------------
(* The service: the image is written, then the record that names it. *)

Moves(u, step) == (pictures.out \ {u}) \cup (IF step = "stored" /\ ~u.heard THEN {} ELSE {[u EXCEPT !.step = step]})
StoreImage(u) ==
  /\ u.step = "sent"
  /\ pictures' = [pictures EXCEPT !.image = u.picture, !.out = Moves(u, "image")]
  /\ UNCHANGED <<display, served, gallery, kleft>>
StoreRecord(u) ==
  /\ u.step = "image"
  /\ pictures' = [pictures EXCEPT !.record = u.picture, !.out = Moves(u, "stored")]
  /\ UNCHANGED <<display, served, gallery, kleft>>
GetLatest == pictures.record

-----------------------------------------------------------------------------
(* The watcher. *)

MayCheck(p) == ~p.reloading /\ p.visible /\ ~p.checking
CheckVersion(p) == IF MayCheck(p) THEN [p EXCEPT !.checking = TRUE] ELSE p
CheckDue ==   \* the interval, or the socket that connected again
  /\ MayCheck(display) /\ display' = CheckVersion(display)
  /\ UNCHANGED <<pictures, served, gallery, kleft>>
ShouldReload(p) == p.build # served
CheckOver(ok) == [display EXCEPT !.checking = FALSE, !.reloading = @ \/ (ok /\ ShouldReload(display))]
Checked ==
  /\ display.checking
  /\ \/ display' = CheckOver(TRUE) /\ UNCHANGED kleft
     \/ display' = CheckOver(FALSE) /\ Spends
  /\ UNCHANGED <<pictures, served, gallery>>
\* Nothing of the page is left; what it uploaded is stored all the same.
Reloaded ==
  /\ display' = [Page(served) EXCEPT !.visible = display.visible, !.connected = display.connected]
  /\ pictures' = [pictures EXCEPT !.out = {[u EXCEPT !.heard = FALSE] : u \in {w \in @ : w.step # "stored"}}]
Reload == display.reloading /\ display.connected /\ Reloaded /\ UNCHANGED <<served, gallery, kleft>>
Deployed == served < Builds /\ served' = served + 1 /\ UNCHANGED <<display, pictures, gallery, kleft>>

HidePage == display.visible /\ display' = [display EXCEPT !.visible = FALSE] /\ Spends /\ UNCHANGED <<pictures, served, gallery>>
ShowPage ==
  /\ ~display.visible /\ display' = CheckVersion(Resume([display EXCEPT !.visible = TRUE]))
  /\ UNCHANGED <<pictures, served, gallery, kleft>>
GoesOffline == display.connected /\ display' = [display EXCEPT !.connected = FALSE] /\ Spends /\ UNCHANGED <<pictures, served, gallery>>
\* Mutant: the reporter does not hear that the network is back.
OnlineUnheard ==
  /\ ~display.connected /\ display' = CheckVersion([display EXCEPT !.connected = TRUE])
  /\ UNCHANGED <<pictures, served, gallery, kleft>>
BackOnline ==
  /\ ~display.connected /\ display' = CheckVersion(Resume([display EXCEPT !.connected = TRUE]))
  /\ UNCHANGED <<pictures, served, gallery, kleft>>

-----------------------------------------------------------------------------
(* The panel: lists are asked for every ten seconds, whether or not the last one came. *)

NoPanel == [items |-> 0, asked |-> {}, loading |-> FALSE, requesting |-> FALSE]
Asks(kind) == gallery' = [gallery EXCEPT !.asked = @ \cup {[kind |-> kind, list |-> 0, done |-> FALSE]}]
PanelLoads == Spends /\ gallery' = [gallery EXCEPT !.loading = TRUE, !.asked = @ \cup {[kind |-> "list", list |-> 0, done |-> FALSE]}] /\ UNCHANGED <<display, pictures, served>>
PanelPolls == Spends /\ Asks("list") /\ UNCHANGED <<display, pictures, served>>
RequestClientRefresh ==
  /\ ~gallery.loading /\ ~gallery.requesting /\ Spends
  /\ gallery' = [gallery EXCEPT !.requesting = TRUE, !.asked = @ \cup {[kind |-> "refresh", list |-> 0, done |-> FALSE]}]
  /\ UNCHANGED <<display, pictures, served>>
ListLatest(a) ==
  /\ a.kind = "list" /\ ~a.done
  /\ gallery' = [gallery EXCEPT !.asked = (@ \ {a}) \cup {[a EXCEPT !.done = TRUE, !.list = GetLatest]}]
  /\ UNCHANGED <<display, pictures, served, kleft>>
\* Every display that is connected reloads at once.
BroadcastRefresh(a) ==
  /\ a.kind = "refresh" /\ ~a.done
  /\ gallery' = [gallery EXCEPT !.asked = (@ \ {a}) \cup {[a EXCEPT !.done = TRUE]}]
  /\ IF display.connected THEN Reloaded ELSE UNCHANGED <<display, pictures>>
  /\ UNCHANGED <<served, kleft>>
PanelAnswered(a) ==
  /\ gallery' = IF a.kind = "list" THEN [gallery EXCEPT !.asked = @ \ {a}, !.loading = FALSE, !.items = IF a.done THEN a.list ELSE @]
                ELSE [gallery EXCEPT !.asked = @ \ {a}, !.requesting = FALSE]
  /\ IF a.done THEN UNCHANGED kleft ELSE Spends
  /\ UNCHANGED <<display, pictures, served>>

-----------------------------------------------------------------------------
KioskInit ==
  /\ display = Page(1) /\ served = 1 /\ gallery = NoPanel /\ kleft = KioskBudget
  /\ pictures = [image |-> 0, record |-> 0, next |-> 1, out |-> {}]
KioskNext ==
  \/ TimerFires \/ Captures \/ CheckDue \/ Checked \/ Reload \/ Deployed \/ HidePage \/ ShowPage \/ GoesOffline \/ BackOnline
  \/ PanelLoads \/ PanelPolls \/ RequestClientRefresh
  \/ \E u \in Awaited : Uploaded(u) \/ UploadFails(u)
  \/ \E u \in pictures.out : StoreImage(u) \/ StoreRecord(u)
  \/ \E a \in gallery.asked : ListLatest(a) \/ BroadcastRefresh(a) \/ PanelAnswered(a)
KioskFairness == WF_kvars(CheckDue) /\ WF_kvars(Checked) /\ WF_kvars(Reload)
KioskSpec == KioskInit /\ [][KioskNext]_kvars /\ KioskFairness

-----------------------------------------------------------------------------
(* A picture that was not sent yet is on its way as long as the page can be    *)
(* seen and the network is there: an attempt is running or a timer will begin  *)
(* one, whatever hid the page or cut the network meanwhile and whoever         *)
(* cancelled which timer, unless an attempt failed for good.                   *)
PictureIsOnItsWay ==
  display.visible /\ display.connected /\ display.state # "succeeded" /\ ~display.gaveUp => display.timer \/ AttemptInProgress(display)

(* The build of a display is no longer served, and nothing keeps it from       *)
(* loading the new one but checks that failed or ran into their timeout.       *)
BuildOwed == display.build # served /\ display.visible /\ display.connected
=============================================================================
