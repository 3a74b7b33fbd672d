--------------------------- MODULE MCClientChart ---------------------------
(* The charts of one dialog: the readings of the range (ClientChart) and what  *)
(* is drawn of them (TrendView).  The second takes a range and readings as the *)
(* first may hand them over, whatever they are (Histories), so a behaviour     *)
(* follows one of the two and the other stays as it began.                     *)
EXTENDS ClientChart, TLC

CONSTANTS TrendBudget
VARIABLES looked, view, tiles, drawn, player, tbudget
TrendVars == <<view, tiles, drawn, player, tbudget>>

MCLength     == ("short" :> 4) @@ ("long" :> 6)
MCNextPreset == ("short" :> "long") @@ ("long" :> None)
MCDays       == {[name |-> "day", from |-> 0, to |-> 2]}

Budget(points, selections, devices) == [readings |-> points, picks |-> selections, switches |-> devices]
NoBudget == Budget(0, 0, 0)
MCBudgets == {Budget(1, 2, 1), Budget(2, 0, 2), NoBudget}

Valued(S) == [t \in S |-> 1 + (t % 3)]
Band(from, to, status, reason) == [from |-> from, to |-> to, status |-> status, reason |-> reason]
SomeHistories ==
  {[readings |-> Valued({0, 2, 4, 10, 12, 14, 16}),
    bands |-> {Band(0, 5, "online", "none"), Band(5, 9, "offline", "server"), Band(9, 99, "online", "none")}],
   [readings |-> Valued((0 .. 3) \cup (12 .. 16)), bands |-> {Band(0, 99, "online", "none")}]}
SomeFloor == [n \in 0 .. 32 |-> IF n <= 8 THEN 3 ELSE 4]
SomeLevels == <<[view |-> 4, tile |-> 2], [view |-> 16, tile |-> 4]>>
TV == INSTANCE TrendView WITH
        Histories <- SomeHistories, Span <- 16, NextReading <- 1, Bucket <- 2, MinView <- 2, MinViewSteps <- 1, ZoomStep <- 2,
        GapFloor <- SomeFloor, Levels <- SomeLevels, TileCap <- 3, MaxPoints <- 6, PixelTiles <- 2, NoTrend <- None

ChartInit ==
  /\ looked \in {"range", "trend"}
  /\ Init /\ (left = NoBudget <=> looked = "trend")
  /\ TV!TrendInit
  /\ looked = "range" => view.range.from = 0 /\ view.history = CHOOSE h \in SomeHistories : TRUE
ChartNext ==
  \/ looked = "range" /\ Next /\ UNCHANGED <<looked, TrendVars>>
  \/ looked = "trend" /\ TV!TrendNext /\ UNCHANGED <<looked, vars>>
ChartSpec ==
  /\ ChartInit /\ [][ChartNext]_<<looked, vars, TrendVars>>
  /\ WF_vars(looked = "range" /\ Serve) /\ WF_vars(looked = "range" /\ \E r \in asks : Arrive(r))
  /\ WF_TrendVars(looked = "trend" /\ TV!Tick)

-----------------------------------------------------------------------------
\* What is told of the readings drawn is true of them: no gap where there is none,
\* no line over one.
GapsAreTrue == looked = "trend" => TV!GapsAreTrue

\* A view said to be ready has its tiles, or waits for their answer.
ReadyMeansLoaded == looked = "trend" => TV!ReadyMeansLoaded

\* A range that is selected is shown in the end, or an error, or the chart goes,
\* and a playback ends.
Unsettled == (looked = "range" /\ chart.pending # None) \/ (looked = "trend" /\ player.running)
ChartSettles == Unsettled ~> ~Unsettled
=============================================================================
