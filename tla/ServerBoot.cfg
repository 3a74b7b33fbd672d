SPECIFICATION BootsSpec
CONSTANTS
  s1 = s1
  s2 = s2
  Sockets <- MCSockets
  NoSocket = NoSocket
  NoSession = NoSession
  MaxTime = 1
  MaxBeats = 1
  MaxTasks = 2
  MaxFailures = 1
  MaxCrashes = 2
  d1 = d1
  d2 = d2
  gone = gone
  z1 = z1
  m1 = m1
  u1 = u1
  u2 = u2
  Databases <- MCDatabases
  Zones <- MCZones
  NoZone = NoZone
  Null = Null
  Blank = Blank
  Fallback = TRUE
  MaxCuts = 3
  MaxUses = 3
SYMMETRY SocketSymmetry
CHECK_DEADLOCK FALSE
INVARIANTS
  SessionOfLatestSocket
  NobodyOnlineAfterBoot
  HistoryTellsSession
  ServedSchemaIsCurrent
  NothingLost
