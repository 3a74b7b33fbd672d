SPECIFICATION Spec
CONSTANTS
  a1 = a1
  a2 = a2
  a3 = a3
  Alerts <- MCAlerts
  NoAlert = NoAlert
  Values = {1, 2}
  Setpoints = {0, 1}
  DefaultSetpoint = 2
  MaxMessages = 3
  MaxActions = 2
  MaxChanges = 1
  MaxWrites = 2
  MaxDeletions = 1
  MaxRestarts = 1
SYMMETRY AlertSymmetry
CHECK_DEADLOCK FALSE
INVARIANTS
  OneOpenAlert
  AlertTellsReading
  
