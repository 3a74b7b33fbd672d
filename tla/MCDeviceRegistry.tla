---------------------------- MODULE MCDeviceRegistry ----------------------------
EXTENDS DeviceRegistry, TLC

CONSTANTS a, a2

\* A zone of code a may get a2 when a is taken; one of code a2 has no other.
MCFree == (a :> <<a, a2>>) @@ (a2 :> <<a2>>)

Symmetry == Permutations(Tasks) \cup Permutations(Devices)

=============================================================================
