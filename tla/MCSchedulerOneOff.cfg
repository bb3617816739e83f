SPECIFICATION Spec
CONSTANTS
  a = a
  b = b
  Asks <- TwoAsks
  Instants = {0, 2}
  Period = 2
  OnTime = 1
  Lead = 1
  Floor = 1
  MissedCap = 1
  StopMayFail = FALSE
  MaxTime = 3
  MaxRuns = 2
  MaxEdits = 1
  MaxFaults = 1
CHECK_DEADLOCK FALSE
INVARIANTS OccurrenceOnce DueWhileOpenRuns ActiveIsAttended
