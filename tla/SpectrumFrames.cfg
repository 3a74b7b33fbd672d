SPECIFICATION Spec
CONSTANTS
  x = x
  y = y
  u1 = u1
  Axes <- MCAxes
  Uuids <- MCUuids
  NoUuid = NoUuid
  MatchWindow = 1
  FrameFlush = 2
  MaxAttempts = 2
  BatchSize = 2
  MaxTime = 2
  MaxMessages = 4
  MaxErrors = 1
  MaxPurges = 1
  MaxImports = 1
  MaxRestarts = 1
SYMMETRY AxisSymmetry
CHECK_DEADLOCK FALSE
INVARIANTS
  AxesBelongTogether
  RowMatchesFile
