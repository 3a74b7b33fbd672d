---------------------------- MODULE MCSpectrumFrames ----------------------------
(* One device that sends the axes of one or two captures, with a uuid or     *)
(* without.                                                                  *)
EXTENDS SpectrumFrames, TLC

CONSTANTS x, y, u1

MCAxes  == {x, y}
MCUuids == {u1}

\* No action tells one axis from another.
AxisSymmetry == Permutations(MCAxes)

=============================================================================
