SPECIFICATION FairSpec
CONSTANTS
  N = 1
  MaxHeld = 1
  RelayCap = 1
  MaxInbound = 1
  MaxAcks = 1
  Oversize = {}
  MaxAge = 0
  SeenClockLead = 0
  FlightBound = 3
  MaxDrops = 1
  MaxRestarts = 1
  MaxCrashes = 0
  MaxTrouble = 1
PROPERTIES EventuallySettled
CHECK_DEADLOCK FALSE
