SPECIFICATION Spec
CONSTANTS
  s1 = s1
  s2 = s2
  a = a
  b = b
  c = c
  Unattributed = Unattributed
  Session <- TwoSessions
  Line <- ThreeLines
  SessionOf <- LineSessions
  Announcing = {s1}
  TurnKeys = {s1, Unattributed}
  MaxLines = 2
  MaxAttempts = 2
  MaxArrivals = 4
  MaxRestarts = 1
  MaxStops = 1
  MaxFaults = 1
CHECK_DEADLOCK FALSE
INVARIANTS TypeOK StampedIsHead WaitIsTimed HandedAtMost
