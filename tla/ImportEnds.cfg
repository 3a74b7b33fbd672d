SPECIFICATION Spec
CONSTANTS
  j1 = j1
  j2 = j2
  p1 = p1
  p2 = p2
  r1 = r1
  r2 = r2
  Jobs <- MCJobs
  Requests <- MCRequests
  NoJob = NoJob
  Ranged <- MCNoRange
  Points <- MCFewPoints
  File <- MCFewFile
  DateRange <- MCFewFile
  MaxFaults = 1
CHECK_DEADLOCK FALSE
PROPERTIES
  QueuedEnds
