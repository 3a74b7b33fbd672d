\* One device: three acks, one failure, one restart, and one deletion in the plan
\* that looks at outcomes.
CONSTANTS
  d1 = d1
  d2 = d2
  c1 = c1
  c2 = c2
  a1 = a1
  a2 = a2
  a3 = a3
  Plans = {"outcomes", "timeouts"}
  Devices <- OneDevice
  Commands <- MCCommands
  Acks = {a1, a2, a3}
  Owner <- OneOwner
  Ota = {c2}
  Sweep = Sweep
  NoRecord = NoRecord
  CommandTimeout = 1
  OtaMinimum = 2
  MaxAckHistory = 2
  MaxTime = 2
  MaxFailures = 1
  MaxDeletions = 1
  MaxRestarts = 1
SPECIFICATION PlannedSpec
INVARIANT MemoryMatchesStore
INVARIANT AcceptedAcksKept
PROPERTY SettledIsFinal
PROPERTY UndisturbedTimesOut
CHECK_DEADLOCK FALSE
