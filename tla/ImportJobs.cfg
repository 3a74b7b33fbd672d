SPECIFICATION Spec
CONSTANTS
  j1 = j1
  j2 = j2
  p1 = p1
  p2 = p2
  r1 = r1
  r2 = r2
  Jobs <- MCJobs
  Requests <- MCRequests
  NoJob = NoJob
  Ranged <- MCRanged
  Points <- MCPoints
  File <- MCFile
  DateRange <- MCRange
  MaxFaults = 1
SYMMETRY RequestSymmetry
CHECK_DEADLOCK FALSE
INVARIANTS
  FilesMatchRows
  CompletedIsStored
PROPERTIES
  OutcomeStands
