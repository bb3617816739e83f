SPECIFICATION Spec
CONSTANTS
  N = 1
  MaxHeld = 1
  RelayCap = 1
  MaxInbound = 1
  MaxAcks = 1
  Oversize = {}
  MaxAge = 2
  SeenClockLead = 0
  FlightBound = 3
  MaxDrops = 1
  MaxRestarts = 0
  MaxCrashes = 1
  MaxTrouble = 1
INVARIANTS TypeOK DeliveredIsApplied AppliedOnce NothingSilentlyLost HostRefusalIsFinal
PROPERTIES SettledIsFinal NoFoldAfterDelivered ImplementsAtLeastOnce
CHECK_DEADLOCK FALSE
