------------------------------ MODULE MCImportJobs ------------------------------
(* Two archives of one device.  The first may replace what its range       *)
(* holds, a point of the second among it; the second has no range, and two *)
(* points that come in one batch or in two.  Where only the ends of jobs   *)
(* matter they are empty, and have no range.                                *)
EXTENDS ImportJobs, TLC

CONSTANTS j1, j2, p1, p2, r1, r2

MCJobs     == {j1, j2}
MCRequests == {r1, r2}
MCPoints   == {p1, p2}
MCFile     == j1 :> {p1} @@ j2 :> {p1, p2}
MCRange    == j1 :> {p1, p2} @@ j2 :> {p1, p2}
MCRanged   == {j1}
MCNoRange  == {}

MCFewPoints == {}
MCFewFile   == j1 :> {} @@ j2 :> {}

\* No action tells one request from another.
RequestSymmetry == Permutations(MCRequests)

=============================================================================
