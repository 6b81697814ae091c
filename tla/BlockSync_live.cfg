\* Liveness across a crash and a peer that fails once.
SPECIFICATION FairSpec
CONSTANTS
  g = g
  d1 = d1
  i1 = i1
  l1 = l1
  l2 = l2
  MaxHeight = 2
  Txs <- MCTxs
  TxsOf <- DeployLedger
  ConfigBlocks = {0}
  LsccTxs = {d1}
  InvokeTxs = {i1}
  Listeners = {l1}
  Ticks = {t1}
  LateJoin = FALSE
  FaultKinds = {"block", "info"}
  MaxFaults = 1
  MaxCrashes = 1
PROPERTY BlocksEventuallyStored
PROPERTY RefreshEventuallyMade
INVARIANT CountersExactWhenQuiet
