\* One failing statement, no crash: a block is never stored.
SPECIFICATION FairSpec
CONSTANTS
  g = g
  d1 = d1
  i1 = i1
  l1 = l1
  l2 = l2
  MaxHeight = 2
  Txs <- MCTxs
  TxsOf <- ShortLedger
  ConfigBlocks = {0}
  LsccTxs = {d1}
  InvokeTxs = {i1}
  Listeners = {l1}
  Ticks = {t1}
  LateJoin = FALSE
  FaultKinds = {"db"}
  MaxFaults = 1
  MaxCrashes = 0
PROPERTY MissingBlocksRepaired
