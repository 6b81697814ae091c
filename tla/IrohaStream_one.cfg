\* One service, a restart and a failure; the node registers the stream in time.
SPECIFICATION FairSpec
CONSTANTS
  p1 = p1
  p2 = p2
  Procs = {p1}
  MaxHeight = 4
  MaxStarts = 2
  MaxFaults = 1
  LateSubscribe = FALSE
INVARIANT NothingSkipped
PROPERTY EndSettles
PROPERTY EveryBlockStored
CHECK_DEADLOCK FALSE
