SPECIFICATION Spec
CONSTANTS
  Uid = {u1, u2}
  Device = {d1, d2, d3}
  Id = {i1}
  Conn = {c1}
  EntryBytes = {1, 2}
  Ttl = {3}
  MaxMessagesPerRecipient = 2
  MaxBytesPerRecipient = 3
  MaxMessagesPerSender = 2
  MaxBytesPerSender = 3
  MaxBytesTotal = 4
  MaxTtl = 1
  RedeliverAfter = 1
  MaxTime = 1
SYMMETRY Symmetry
INVARIANTS TypeOK IndexesAgree TalliesExact WithinLimits
PROPERTIES ArrivalOrder ExpiryNeverExtended
