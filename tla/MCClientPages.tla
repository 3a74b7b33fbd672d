-------------------------- MODULE MCClientPages --------------------------
(* Small worlds for the pages, and starts of the dashboard.                    *)
EXTENDS ClientPages, TLC

CONSTANTS m1, m2, c1, c2   \* devices of the analysis and of the chart

SomeZones == (1 :> [touched |-> 1, described |-> FALSE, devices |-> 1]) @@ (2 :> [touched |-> 0, described |-> TRUE, devices |-> 0])
Sample(x) == [direct |-> x, axes |-> {}]
SomeArchive == (m1 :> <<Sample(1), [direct |-> None, axes |-> {-5, 2}], Sample(-2), [direct |-> None, axes |-> {}], Sample(4)>>) @@ (m2 :> <<>>)
SomeRuns == UNION {[1 .. n -> 0 .. 5] : n \in 0 .. 4}
Card(online, abnormal, name, zone, peak) == [online |-> online, abnormal |-> abnormal, name |-> name, zone |-> zone, peak |-> peak]
SomePark == (1 :> Card(TRUE, FALSE, 2, 1, 1)) @@ (2 :> Card(FALSE, TRUE, 1, 2, 2)) @@ (3 :> Card(TRUE, FALSE, 3, 1, 0))
Reading(ts, uuid, vib) == [ts |-> ts, uuid |-> uuid, vib |-> vib]
SomeRows == (c1 :> {Reading(1, TRUE, TRUE), Reading(2, TRUE, TRUE), Reading(5, TRUE, FALSE), Reading(8, FALSE, TRUE)}) @@ (c2 :> {Reading(1, TRUE, TRUE)})
Taken(bins, x, y, z) == [bins |-> bins, hz |-> 10, axes |-> [x |-> x, y |-> y, z |-> z]]
SomeShades == {[from |-> 5, to |-> 6]}
SomeFrames ==
  (c1 :> ((1 :> Taken(5, <<1, 7, 2, 3, 4>>, <<-1, 0, 0, 2, 9>>, <<1>>)) @@ (2 :> Taken(0, <<1, 2, 3>>, <<4, 4, 4>>, <<>>))
          @@ (8 :> Taken(2, <<1, 2, 3>>, <<4, 4, 4>>, <<2, 1>>))))
  @@ (c2 :> (1 :> Taken(0, <<1, 1>>, <<1, 1>>, <<1, 1>>)))
SomeBodies ==
  {[width |-> w, height |-> h, wallboard |-> FALSE] : w \in {800, 1000, 1536}, h \in {600, 701, 819, 903, 1077, 1260}}
  \cup {[width |-> 3072, height |-> 1897, wallboard |-> TRUE], [width |-> 1000, height |-> 1500, wallboard |-> TRUE]}

Running(polls, changes, most) == [opening |-> FALSE, polls |-> polls, changes |-> changes, most |-> most]
Most(change, alarms, points, checks) == [change |-> change, alerts |-> alarms, history |-> points, check |-> checks]
MCScenarios ==
  {[opening |-> TRUE, polls |-> FALSE, changes |-> {"beat"}, most |-> Most(1, 2, 1, 0)],
   Running(TRUE, {"beat", "name"}, Most(2, 0, 0, 0)), Running(FALSE, {"lost", "fault", "beat"}, Most(2, 0, 0, 0)),
   Running(FALSE, {"alert"}, Most(2, 1, 0, 0)),
   Running(FALSE, {"frame"}, Most(3, 0, 0, 0)), Running(FALSE, {"point"}, Most(1, 0, 1, 1)), Running(FALSE, {"point"}, Most(1, 0, 2, 0)), Rest}
=============================================================================
