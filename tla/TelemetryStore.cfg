SPECIFICATION StoreSpec
CONSTANTS
  HourLen = 2
  DayLen = 4
  Vals <- MCVals
  NoVal = NoVal
  m1 = m1
  u1 = u1
  Keys <- MCKeys
  Stored <- MCStored
  StartTime = 1
  NoId = NoId
  Ranges <- MCRanges
  Limits <- MCLimits
  Batch = 1
  MaxTime = 2
  MaxPoints = 1
  MaxCrashes = 1
  MaxTasks = 2
  Archives <- MCArchives
INVARIANTS
  HourSumsMatch
  SummariesAnswerAsRows
  CompleteIsWhole
CHECK_DEADLOCK FALSE
