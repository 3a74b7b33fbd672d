SPECIFICATION Spec
CONSTANTS
  a = a
  b = b
  one = one
  two = two
  Devices <- PlainDevices
  Ids <- PlainIds
  NoId = NoId
  DedupeWindow = 1
  Minute = 2
  MaxPerDevice = 2
  MaxGlobal = 3
  MaxTime = 5
SYMMETRY GuardSymmetry
INVARIANTS
  RateKept
  MemoryBounded
PROPERTIES
  ImplementsPolicy
