------------------------------- MODULE MCViews -------------------------------
(* Two networks, a channel of three blocks and a ledger of four on which   *)
(* TLC checks Views.                                                       *)
EXTENDS Views

CONSTANTS org1, org2, tx1, tx2, ann, bob, wonder, reader, node, canRead, canGrant

\* A peer of each organisation; the networks use the same channel.
MCPeers == [n \in Networks |-> <<[net |-> n, mspid |-> org1, type |-> "PEER"],
                                 [net |-> n, mspid |-> org2, type |-> "ORDERER"]>>]
MCChaincodes == [n \in Networks |-> <<[net |-> n]>>]

\* The genesis block, a block with an id twice, and a block with that id again.
MCBlocks ==
  [num \in 0 .. 2 |->
    CASE num = 0 -> [time |-> 1, data |-> <<[hash |-> tx1, org |-> org2]>>]
      [] num = 1 -> [time |-> 1, data |-> <<[hash |-> tx2, org |-> org1],
                                            [hash |-> tx2, org |-> org1]>>]
      [] num = 2 -> [time |-> 2, data |-> <<[hash |-> tx2, org |-> org1]>>]]

Tx(id, creator, commands) ==
  [hash |-> id, creator |-> creator, domain |-> wonder, commands |-> commands]

\* Every command, a block of two transactions, two blocks of one time.
MCLedger ==
  << [time |-> 1, transactions |->
       <<Tx(1, ann, <<[kind |-> "createRole", name |-> reader, permissions |-> {canRead}],
                      [kind |-> "createDomain", id |-> wonder, role |-> reader],
                      [kind |-> "createAccount", id |-> ann, domain |-> wonder],
                      [kind |-> "addPeer", key |-> node]>>)>>],
     [time |-> 2, transactions |->
       <<Tx(2, ann, <<[kind |-> "createAccount", id |-> bob, domain |-> wonder],
                      [kind |-> "grant", to |-> bob, permission |-> canGrant]>>),
         Tx(3, bob, <<[kind |-> "appendRole", id |-> ann, role |-> reader],
                      [kind |-> "setQuorum", id |-> ann, quorum |-> 2]>>)>>],
     [time |-> 2, transactions |->
       <<Tx(4, ann, <<[kind |-> "detachRole", id |-> ann, role |-> reader],
                      [kind |-> "revoke", to |-> bob, permission |-> canGrant]>>)>>],
     [time |-> 3, transactions |-> <<Tx(5, bob, <<>>), Tx(6, ann, <<>>)>>] >>

Filter(after, before, who) == [timeAfter |-> after, timeBefore |-> before, who |-> who]

MCFilters == [block |-> {Filter(2, None, None)},
              transaction |-> {Filter(None, None, ann), Filter(2, 3, None)},
              account |-> {Filter(None, None, bob)}]
=============================================================================
