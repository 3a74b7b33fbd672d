--------------------------- MODULE MCAlertLifecycle ---------------------------
(* Three messages of one device, above, at and below its setpoint. *)
EXTENDS AlertLifecycle, TLC

CONSTANTS a1, a2, a3

MCAlerts == {a1, a2, a3}

\* No action tells one alert id from another.
AlertSymmetry == Permutations(MCAlerts)

=============================================================================
