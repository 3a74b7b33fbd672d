SPECIFICATION Spec
CONSTANTS
  Devices = {d1, d2}
  Names = {own, n1}
  Codes = {a, a2}
  Statuses = {fault}
  a = a
  a2 = a2
  Tasks = {t1, t2}
  None = None
  Absent = Absent
  Default = own
  Free <- MCFree
  FirstZone = a
  Arriving = {"point"}
  MaxZones = 2
  MaxRequests = 3
  MaxCrashes = 1
  MaxArrivals = 1
SYMMETRY Symmetry
INVARIANTS MemoryMatchesTable AnsweredNameKept RemovedStaysAway
CHECK_DEADLOCK FALSE
