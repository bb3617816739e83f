SPECIFICATION Spec
CONSTANTS
  N = 3
  MaxHeld = 2
  RelayCap = 1
  MaxInbound = 1
  MaxAcks = 1
  Oversize = {3}
  MaxAge = 0
  SeenClockLead = 0
  FlightBound = 3
  MaxDrops = 0
  MaxRestarts = 0
  MaxCrashes = 1
  MaxTrouble = 0
INVARIANTS AppliedOnce
PROPERTIES ImplementsAtLeastOnce
CHECK_DEADLOCK FALSE
