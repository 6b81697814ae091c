\* One service, no failure; the node registers the stream after the first getBlock.
SPECIFICATION FairSpec
CONSTANTS
  p1 = p1
  p2 = p2
  Procs = {p1}
  MaxHeight = 3
  MaxStarts = 1
  MaxFaults = 0
  LateSubscribe = TRUE
PROPERTY EveryBlockStored
CHECK_DEADLOCK FALSE
