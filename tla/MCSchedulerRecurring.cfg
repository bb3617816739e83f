SPECIFICATION Spec
CONSTANTS
  a = a
  b = b
  Asks <- OneAsk
  Instants = {0}
  Period = 3
  OnTime = 1
  Lead = 2
  Floor = 1
  MissedCap = 1
  StopMayFail = TRUE
  MaxTime = 6
  MaxRuns = 2
  MaxEdits = 1
  MaxFaults = 1
CHECK_DEADLOCK FALSE
INVARIANTS TypeOK OneActiveRun Accounted DeletedIsReleased
PROPERTIES TerminalIsFinal
