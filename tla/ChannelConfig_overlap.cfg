\* Overlapping runs of the interval, a channel that is joined late, a stale one.
SPECIFICATION Spec
CONSTANTS
  c1 = c1
  c2 = c2
  c3 = c3
  p1 = p1
  o1 = o1
  k1 = k1
  r1 = r1
  r2 = r2
  t1 = t1
  Start = start
  None = none
  FirstChannels = {c1}
  PeersOf <- MCPeersOf
  OrderersOf <- MCOrderersOf
  Chaincodes = {k1}
  RunsOn <- MCRunsOn
  Channels = {c1, c2, c3}
  StaleChannels = {c3}
  Hosts = {p1}
  Refreshes = {r1, r2}
  Timers = {}
  MaxConnecting = 1
  MaxBlocks = 1
  FaultKinds = {}
  MaxFaults = 0
  MaxCrashes = 0
SYMMETRY RefreshSymmetry
INVARIANT TypeOK
INVARIANT RowsDuplicatedOnlyByOverlap
INVARIANT OneHashPerName
INVARIANT ExistReportedOnlyForOtherHash
INVARIANT ReferencesHaveTheirRows
INVARIANT ListedOnce
PROPERTY CountersKept
