-------------------------- MODULE MCChannelConfig --------------------------
(* Small networks on which TLC checks ChannelConfig. *)
EXTENDS ChannelConfig, TLC

CONSTANTS c1, c2, c3, p1, o1, k1, r1, r2, t1

\* One peer that runs the chaincode in every channel, and one orderer, in c1 only.
MCPeersOf == [c \in Channels |-> IF c = c1 THEN {p1} ELSE {}]
MCOrderersOf == [c \in Channels |-> IF c = c2 THEN Hosts \ {p1} ELSE {}]
MCRunsOn == [h \in Hosts |-> IF h = p1 THEN Chaincodes ELSE {}]

RefreshSymmetry == Permutations(Refreshes)
=============================================================================
