\* Safety with two listeners and the interval, a crash, a database error and a late join.
SPECIFICATION Spec
CONSTANTS
  g = g
  d1 = d1
  i1 = i1
  l1 = l1
  l2 = l2
  MaxHeight = 2
  Txs <- MCTxs
  TxsOf <- ShortLedger
  ConfigBlocks = {0}
  LsccTxs = {d1}
  InvokeTxs = {i1}
  Listeners = {l1, l2}
  Ticks = {t1}
  LateJoin = TRUE
  FaultKinds = {"db", "info", "block", "refresh"}
  MaxFaults = 1
  MaxCrashes = 1
SYMMETRY ListenerSymmetry
INVARIANT TypeOK
INVARIANT NoDuplicateRows
INVARIANT BlockRowImpliesTransactions
INVARIANT AnnouncedOnceAndStored
INVARIANT CountersNeverOverstate
PROPERTY ImplementsMirror
