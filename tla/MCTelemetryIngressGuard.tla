------------------------ MODULE MCTelemetryIngressGuard ------------------------
(* Two devices and two ids, in pieces: none is another one and a colon. *)
EXTENDS TelemetryIngressGuard, TLC

CONSTANTS a, b, one, two

PlainDevices == {<<a>>, <<b>>}
PlainIds     == {<<one>>, <<two>>}

\* The guard tells no device and no id from another.
GuardSymmetry == Permutations({a, b}) \cup Permutations({one, two})

=============================================================================
