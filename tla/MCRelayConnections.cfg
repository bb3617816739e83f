SPECIFICATION Spec
CONSTANTS
  s1 = s1
  s2 = s2
  s3 = s3
  agent = agent
  app = app
  u = u
  v = v
  ip1 = ip1
  ip2 = ip2
  other = other
  None = None
  Socket <- Sockets
  Device <- Devices
  Agent <- Agents
  UidOf <- Uids
  AccountOf <- Accounts
  Ip = {ip1, ip2}
  PerIp = 2
  Global = 3
  MaxEpoch = 2
  MaxTs = 2
SYMMETRY Interchangeable
CHECK_DEADLOCK FALSE
INVARIANTS OneHolder SlotsAreSockets PresenceAgrees SilentIsWatched
