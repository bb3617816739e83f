SPECIFICATION Spec
CONSTANTS
  N = 1
  MaxHeld = 1
  RelayCap = 1
  MaxInbound = 1
  MaxAcks = 1
  Oversize = {}
  MaxAge = 1
  SeenClockLead = 0
  FlightBound = 3
  MaxDrops = 0
  MaxRestarts = 0
  MaxCrashes = 0
  MaxTrouble = 0
INVARIANTS RefusedIsNeverDelivered
CHECK_DEADLOCK FALSE
