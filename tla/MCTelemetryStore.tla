--------------------------- MODULE MCTelemetryStore ---------------------------
EXTENDS TelemetryStore

CONSTANTS m1, u1

MCVals == {2}
MCRanges == {<<0, 2>>}
MCKeys == {<<NoId, NoId>>, <<m1, NoId>>, <<m1, u1>>}
MCLimits == {2}

\* Two points of one tick of the first hour, each with an id of its own.
MCStored ==
  {{[id |-> 1, at |-> 1, mid |-> NoId, uuid |-> u1, val |-> 1],
    [id |-> 2, at |-> 1, mid |-> m1, uuid |-> NoId, val |-> 2]}}

\* None, or the first hour with a point the table has and one it has lost.
MCArchives ==
  {[points |-> <<>>],
   [range |-> <<0, 1>>,
    points |-> << [at |-> 0, mid |-> NoId, uuid |-> 0, val |-> 2],
                  [at |-> 1, mid |-> m1, uuid |-> 1, val |-> 2] >>]}
=============================================================================
