\* Two services against one database, a failure, and a stream registered late.
SPECIFICATION Spec
CONSTANTS
  p1 = p1
  p2 = p2
  Procs = {p1, p2}
  MaxHeight = 3
  MaxStarts = 2
  MaxFaults = 1
  LateSubscribe = TRUE
SYMMETRY ProcSymmetry
INVARIANT TypeOK
INVARIANT StoredIsPrefix
INVARIANT OneOnBlockAtATime
PROPERTY EndStopsOnBlock
CHECK_DEADLOCK FALSE
