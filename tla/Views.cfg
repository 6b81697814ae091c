SPECIFICATION ViewsSpec
CONSTANTS
  Network = net1
  Networks = {net1, net2}
  org1 = org1
  org2 = org2
  Orgs = {org1, org2}
  tx1 = tx1
  tx2 = tx2
  Hashes = {tx1, tx2}
  Blocks <- MCBlocks
  Loads = {"dashStats", "transactionByOrg", "peerStatus"}
  Now = 2
  MaxBlock = 2
  MaxTxs = 3
  MaxLate = 1
  MaxFailures = 1
  Peers <- MCPeers
  Chaincodes <- MCChaincodes
  Ledger <- MCLedger
  Filters <- MCFilters
  PageSizes = {1, 2}
  MaxTurns = 3
  None = none
  NotFound = NotFound
  ServerError = ServerError
  ann = ann
  bob = bob
  wonder = wonder
  reader = reader
  node = node
  canRead = canRead
  canGrant = canGrant
INVARIANT ViewsTypeOK
INVARIANT ViewsAgree
INVARIANT PagingLosesNothing
PROPERTY LandingSettles
CHECK_DEADLOCK FALSE
