-------------------------- MODULE MCCommandLifecycle --------------------------
(***************************************************************************)
(* Small instances of CommandLifecycle for TLC.  A behaviour has a plan:   *)
(* what may happen to one command (three acks against a history of two, a  *)
(* deletion of the device), whether two commands, an OTA command among     *)
(* them, are timed out while nobody removes the device, or the same when   *)
(* somebody does.                                                          *)
(***************************************************************************)
EXTENDS CommandLifecycle, TLC

CONSTANTS d1, d2, c1, c2, a1, a2, a3, Plans
VARIABLE plan

MCDevices  == {d1, d2}
MCCommands == {c1, c2}
MCOwner    == c1 :> d1 @@ c2 :> d2
OneDevice  == {d1}
OneOwner   == c1 :> d1 @@ c2 :> d1

\* The bounds of the two plans, where they differ.
Planned ==
  /\ plan = "outcomes" => c2 \notin used' /\ clock' <= 1
  /\ plan = "timeouts" => a2 \notin used' /\ left'.deletions = MaxDeletions
  \* Nothing tells one ack from another: they come in this order.
  /\ (a2 \in used' => a1 \in used') /\ (a3 \in used' => a2 \in used')
  /\ UNCHANGED plan
PlannedSpec ==
  /\ plan \in Plans /\ Init
  /\ [][Next /\ Planned]_<<plan, vars>>
  /\ WF_vars(Tick /\ Planned) /\ WF_vars(SweepTick /\ Planned)
  /\ WF_vars(SweepStatement /\ Planned) /\ WF_vars(SweepContinues /\ Planned)

\* While its device is not removed, a command that waits for an ack does not wait
\* for ever (processTimeouts).
UndisturbedTimesOut ==
  \A c \in Commands :
    plan = "timeouts" /\ AwaitsAck(c) /\ deviceRow[Owner[c]] ~> ~AwaitsAck(c) \/ ~deviceRow[Owner[c]]
=============================================================================
