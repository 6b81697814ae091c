\* One run at a time and a discovery timer, a failure.
SPECIFICATION FairSpec
CONSTANTS
  c1 = c1
  c2 = c2
  c3 = c3
  p1 = p1
  o1 = o1
  k1 = k1
  r1 = r1
  r2 = r2
  t1 = t1
  Start = start
  None = none
  FirstChannels = {c1}
  PeersOf <- MCPeersOf
  OrderersOf <- MCOrderersOf
  Chaincodes = {k1}
  RunsOn <- MCRunsOn
  Channels = {c1, c2}
  StaleChannels = {}
  Hosts = {p1, o1}
  Refreshes = {r1}
  Timers = {t1}
  MaxConnecting = 1
  MaxBlocks = 0
  FaultKinds = {"db", "query", "block", "discover", "hub"}
  MaxFaults = 1
  MaxCrashes = 0
PROPERTY JoinedChannelServed
