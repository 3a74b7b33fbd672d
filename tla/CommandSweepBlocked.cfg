\* Two devices with a command each, no failure and no crash, and one deletion of
\* a device while commands are under way.
CONSTANTS
  d1 = d1
  d2 = d2
  c1 = c1
  c2 = c2
  a1 = a1
  a2 = a2
  a3 = a3
  Plans = {"removal"}
  Devices <- MCDevices
  Commands <- MCCommands
  Acks = {}
  Owner <- MCOwner
  Ota = {}
  Sweep = Sweep
  NoRecord = NoRecord
  CommandTimeout = 1
  OtaMinimum = 2
  MaxAckHistory = 1
  MaxTime = 2
  MaxFailures = 0
  MaxDeletions = 1
  MaxRestarts = 0
SPECIFICATION PlannedSpec
CHECK_DEADLOCK FALSE
PROPERTY UnackedTimesOut
