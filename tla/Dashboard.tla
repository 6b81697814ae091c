------------------------------ MODULE Dashboard ------------------------------
(***************************************************************************)
(* The Fabric side as a reader sees it: the rows the sync process stores,  *)
(* the SQL of MetricService and CRUDService, the REST routes above them,   *)
(* and the client that logs in and loads its views (Login, LandingPage,    *)
(* the operations and reducers of charts, tables and auth), as these are   *)
(* written: App mounts Login, while LandingPage waits to be mounted.       *)
(*                                                                         *)
(* All rows are about one channel (one genesis hash), which more than one  *)
(* network of the configuration may have joined.  What the blocks of the   *)
(* channel hold is given: an id may repeat within a block and in a later   *)
(* one.  A statement succeeds, fails or never returns; a route that does   *)
(* not catch a failure ends the explorer, which fails every request still  *)
(* open.                                                                   *)
(***************************************************************************)
EXTENDS Rows

CONSTANTS
  Networks,
  Network,      \* the network the user logs in to
  Orgs,
  Hashes,       \* ids of transactions
  Blocks,       \* the blocks of the channel: when each was made, the data in it
  Peers,        \* the peer and orderer rows of each network
  Chaincodes,   \* the chaincodes of each network
  Loads,        \* the requests of LandingPage that are followed
  Now,          \* the present; blocks carry times 1 .. Now
  MaxBlock,     \* bound on block numbers
  MaxTxs,       \* bound on transaction rows while no client is open
  MaxLate,      \* bound on transaction rows while one is
  MaxFailures,  \* bound on failing and hanging statements
  None,
  NotFound,     \* the answers of requtil.notFound and of a caught failure
  ServerError

VARIABLES
  db,        \* the tables, in the order of insertion
  server,    \* the explorer: up, stopping after an unhandled rejection, or down
  phase,     \* the client: closed, form, loggingIn, channel, loading, loaded
  token,     \* localStorage holds a token the server accepts
  request,   \* per load: whether it is under way, and what it has read
  store,     \* per load: what its reducer has kept
  timer,     \* the 60 s timer of LandingPage
  dbError,   \* hasDbError
  failures

vars == <<db, server, phase, token, request, store, timer, dbError, failures>>

client == <<phase, token, request, store, timer, dbError>>

-----------------------------------------------------------------------------
(* The rows, and what a statement selects of them.                         *)

InNet(rows, net) == Where(rows, LAMBDA r : r.net = net)

SaveRow(tables, table, row) == [tables EXCEPT ![table] = Append(@, row)]

\* getRowByPkOne, getRowsBySQlCase: the first row, or null.
FirstRow(rows) == IF rows = <<>> THEN None ELSE rows[1]

\* Every row n times.
Joined(rows, n) == [i \in 1 .. n * Len(rows) |-> rows[(i - 1) \div n + 1]]

\* INNER JOIN channel on the genesis hash alone, and on hash and network.
JoinChannelByHash(rows) == Joined(rows, Len(db.channel))

JoinChannel(rows, net) == Joined(rows, Len(InNet(db.channel, net)))

\* queryDatevalidator: the range asked for, or the last day when a date does not parse.
DateRange(from, to) ==
  IF None \in {from, to} THEN [from |-> Now - 1, to |-> Now] ELSE [from |-> from, to |-> to]

Within(row, range) == range.from <= row.time /\ row.time <= range.to

\* orgsArrayToString: no organisation selects all.
OfOrgs(tx, orgs) == orgs # {} => tx.org \in orgs

-----------------------------------------------------------------------------
(* MetricService.                                                          *)

\* getChaincodeCount, getTxCount, getBlockCount.
Count(table, net) == Len(InNet(db[table], net))

GetPeerlistCount(net) == Len(Where(InNet(db.peer, net), LAMBDA p : p.type = "PEER"))

GetPeerData(net) == JoinChannelByHash(InNet(db.peer, net))

GetTxPerChaincode(net) == JoinChannelByHash(InNet(db.chaincodes, net))

GetOrgsData(net) == {r.mspid : r \in Range(InNet(db.peer, net))}

\* getTxBy..., getBlocksBy...: the counts of the n buckets before the present one and of it.
RowsBy(rows, unit, n) ==
  [i \in 1 .. n + 1 |->
    Len(Where(rows, LAMBDA r : Trunc(r.time, unit) = Trunc(Now, unit) - (n + 1 - i) * unit))]

TxBy(net, unit, n) == RowsBy(InNet(db.transactions, net), unit, n)

BlocksBy(net, unit, n) == RowsBy(InNet(db.blocks, net), unit, n)

GetTxByOrgs(net) ==
  LET rows == InNet(db.transactions, net)
  IN  SetToSeq({[org |-> o, count |-> Len(Where(rows, LAMBDA t : t.org = o))] :
                  o \in {t.org : t \in Range(rows)}})

-----------------------------------------------------------------------------
(* CRUDService.                                                            *)

GetTxCountByBlockNum(net, num) ==
  FirstRow(Where(InNet(db.blocks, net), LAMBDA b : b.num = num))

\* The block is not asked for.
GetTransactionByID(net, txhash) ==
  FirstRow(JoinChannel(Where(InNet(db.transactions, net), LAMBDA t : t.hash = txhash), net))

\* ORDER BY blocknum DESC: the blocks one by one put in their places.
Inserted(blocks, b) ==
  Where(blocks, LAMBDA c : c.num > b.num) \o <<b>> \o Where(blocks, LAMBDA c : c.num <= b.num)

Descending(blocks) ==
  LET upTo[n \in 0 .. Len(blocks)] ==
        IF n = 0 THEN <<>> ELSE Inserted(upTo[n - 1], blocks[n])
  IN  upTo[Len(blocks)]

GetBlockActivityList(net) == Limit(JoinChannelByHash(Descending(InNet(db.blocks, net))), 3)

GetTxList(net, num, id, range, orgs) ==
  Reverse(JoinChannel(Where(InNet(db.transactions, net), LAMBDA t :
            t.block >= num /\ t.id >= id /\ OfOrgs(t, orgs) /\ Within(t, range)), net))

\* A block with its transactions; a block none of whose transactions are in the range, or of
\* the organisations, is left out.  The block number of the request is not looked at.
GetBlockAndTxList(net, range, orgs) ==
  LET Txs(b) == Where(InNet(db.transactions, net), LAMBDA t :
                  t.block = b.num /\ OfOrgs(t, orgs) /\ Within(t, range))
      kept == Where(Descending(InNet(db.blocks, net)),
                        LAMBDA b : Within(b, range) /\ Txs(b) # <<>>)
  IN  [i \in DOMAIN kept |->
        [num |-> kept[i].num, txcount |-> kept[i].txcount, txs |-> Txs(kept[i])]]

\* The rows of the network's channels, all joined by the default peer.
GetChannelsInfo(net) == InNet(db.channel, net)

-----------------------------------------------------------------------------
(* Proxy and routes.                                                       *)

\* Proxy.getTxByOrgs: the organisations without a transaction follow with 0.
AppendMissingOrgs(rows, orgs) ==
  rows \o SetToSeq({[org |-> o, count |-> 0] : o \in orgs \ {r.org : r \in Range(rows)}})

\* Proxy.getPeersStatus: what discovery answered is looked up by the mspid of each row.
\* A row whose mspid is not in it is a TypeError that nobody catches.
PeersStatusFails(rows, discovered) ==
  discovered # None /\ \E r \in Range(rows) : r.mspid \notin discovered

PeersStatus(rows) == Where(rows, LAMBDA r : r.type \in {"PEER", "ORDERER"})

\* The route of a block's transaction count.
BlockTransactions(net, num) ==
  LET row == GetTxCountByBlockNum(net, num)
  IN  IF row = None THEN NotFound ELSE [number |-> row.num, txCount |-> row.txcount]

\* Proxy.getCurrentChannel: the channel the profile lists first, and none when the client
\* has not seen its genesis block.
CurrentChannel(known) == IF known THEN "hash" ELSE None

\* The statements of a request, in order; the others have one.
Statements(l) ==
  CASE l = "dashStats" -> <<"chaincodes", "transactions", "blocks", "peer">>
    [] l = "transactionByOrg" -> <<"transactions", "peer">>
    [] OTHER -> <<l>>

Charts == {"dashStats", "transactionByOrg", "peerStatus", "blockActivity", "channelList",
           "blockPerMin", "blockPerHour", "transactionPerMin", "transactionPerHour"}

Tables == {"blockList", "transactionList", "chaincodeList", "peerList", "channels"}

DashboardAssumption ==
  /\ Network \in Networks
  /\ Loads \subseteq Charts \cup Tables
  /\ IsFiniteSet(Orgs)
  /\ DOMAIN Peers = Networks /\ DOMAIN Chaincodes = Networks
  /\ \A net \in Networks :
       /\ Peers[net] \in Seq([net : {net}, mspid : Orgs, type : {"PEER", "ORDERER"}])
       /\ Chaincodes[net] \in Seq([net : {net}])
  /\ None \notin [net : Networks, num : Nat, txcount : Nat, time : Nat]
  /\ Now \in Nat \ {0}
  /\ Blocks \in [0 .. MaxBlock ->
                  [time : 1 .. Now, data : Seq([hash : Hashes, org : Orgs]) \ {<<>>}]]
  /\ MaxBlock \in Nat /\ MaxTxs \in Nat /\ MaxLate \in Nat /\ MaxFailures \in Nat

\* The routes that read a list.
ReadRows(l) ==
  CASE l = "blockActivity" -> GetBlockActivityList(Network)
    [] l = "transactionList" -> GetTxList(Network, 0, 0, DateRange(None, None), {})
    [] l = "chaincodeList" -> GetTxPerChaincode(Network)
    [] l \in {"peerStatus", "peerList"} -> GetPeerData(Network)
    [] l = "blockList" -> GetBlockAndTxList(Network, DateRange(None, None), {})
    [] l \in {"channels", "channelList"} -> GetChannelsInfo(Network)

\* The routes of the histograms; the smaller unit stands for minutes, the larger for hours.
ReadHistogram(l) ==
  CASE l = "transactionPerMin" -> TxBy(Network, 1, 2)
    [] l = "transactionPerHour" -> TxBy(Network, 2, 1)
    [] l = "blockPerMin" -> BlocksBy(Network, 1, 2)
    [] l = "blockPerHour" -> BlocksBy(Network, 2, 1)

Read(l, k) ==
  CASE l = "dashStats" -> IF k = 4 THEN GetPeerlistCount(Network)
                          ELSE Count(Statements(l)[k], Network)
    [] l = "transactionByOrg" -> IF k = 1 THEN GetTxByOrgs(Network) ELSE GetOrgsData(Network)
    [] l \in {"blockPerMin", "blockPerHour", "transactionPerMin", "transactionPerHour"} ->
         ReadHistogram(l)
    [] OTHER -> ReadRows(l)

\* The driver hands counts over as strings, and "0" passes the test of the status route.
Answered(l, got) ==
  CASE l = "dashStats" ->
         [chaincodeCount |-> got[1], txCount |-> got[2], latestBlock |-> got[3],
          peerCount |-> got[4]]
    [] l = "transactionByOrg" -> AppendMissingOrgs(got[1], got[2])
    [] l \in {"peerStatus", "peerList"} -> PeersStatus(got[1])
    [] OTHER -> got[1]

\* What a route answers when a statement fails; None where nobody catches the rejection
\* (getPeersStatus calls getPeerList without the callback that its catch clause calls).
AnsweredOnFailure(l) ==
  CASE l = "dashStats" -> NotFound
    [] l = "chaincodeList" -> <<>>
    [] l = "channels" -> ServerError
    [] OTHER -> None

-----------------------------------------------------------------------------
(* What the sync process stores: transactions of a block, then the block.  *)

Idle == [at |-> "idle", got |-> <<>>]

Init ==
  /\ db = [channel |-> <<>>, peer |-> <<>>, chaincodes |-> <<>>, blocks |-> <<>>,
           transactions |-> <<>>]
  /\ server = "up"
  /\ phase \in {"closed", "form"}
  /\ token = FALSE
  /\ request = [l \in Loads |-> Idle]
  /\ store = [l \in Loads |-> None]
  /\ timer = FALSE
  /\ dbError = FALSE
  /\ failures = 0

\* Bounds: while a client is open, the rows that arrive are of its network, the transactions
\* of the last block.
Storing == IF phase = "closed" THEN Networks ELSE {Network}

TxBound == IF phase = "closed" THEN MaxTxs ELSE MaxLate

Arriving(num) == phase = "closed" \/ num = MaxBlock

\* saveChannel, savePeer, saveChaincode for a network that has no row yet.
StoreChannel ==
  \E net \in Storing :
    /\ InNet(db.channel, net) = <<>>
    /\ db' = [SaveRow(db, "channel", [net |-> net]) EXCEPT
                !.peer = @ \o Peers[net], !.chaincodes = @ \o Chaincodes[net]]
    /\ UNCHANGED <<server, client, failures>>

\* The data of a block, one after the other: what has a row for this block is passed over.
HasTransactionOfAnyBlock(net, num, txhash) ==
  Where(InNet(db.transactions, net), LAMBDA t : t.hash = txhash) # <<>>

HasTransaction(net, num, txhash) ==
  Where(InNet(db.transactions, net), LAMBDA t : t.block = num /\ t.hash = txhash) # <<>>

StoreTransaction ==
  /\ Len(db.transactions) < TxBound
  /\ \E net \in Storing, num \in 0 .. MaxBlock : \E i \in DOMAIN Blocks[num].data :
       LET tx == Blocks[num].data[i]
       IN  /\ Arriving(num)
           /\ InNet(db.channel, net) # <<>>
           /\ GetTxCountByBlockNum(net, num) = None
           /\ \A j \in 1 .. i - 1 : HasTransaction(net, num, Blocks[num].data[j].hash)
           /\ ~HasTransaction(net, num, tx.hash)
           /\ db' = SaveRow(db, "transactions",
                            [net |-> net, block |-> num, hash |-> tx.hash, org |-> tx.org,
                             time |-> Blocks[num].time, id |-> Len(db.transactions) + 1])
  /\ UNCHANGED <<server, client, failures>>

\* txcount is the length of the data, whatever was passed over.
StoreBlock ==
  \E net \in Networks, num \in 0 .. MaxBlock :
    LET data == Blocks[num].data
    IN  /\ GetTxCountByBlockNum(net, num) = None
        /\ \A i \in DOMAIN data : HasTransaction(net, num, data[i].hash)
        /\ db' = SaveRow(db, "blocks", [net |-> net, num |-> num, txcount |-> Len(data),
                                        time |-> Blocks[num].time])
        /\ UNCHANGED <<server, client, failures>>

-----------------------------------------------------------------------------
(* The explorer answers.                                                   *)

\* What the reducers keep: an answer that is no list has no rows, and dashStats keeps it whole.
ChartReducer(l, resp) == IF resp = NotFound /\ l # "dashStats" THEN None ELSE resp

TableReducer(resp) == IF resp = NotFound THEN None ELSE resp

\* The operations dispatch an answer, and an error message instead of a 500.
ChartOperation(l, resp) ==
  l \in Charts /\ store' = IF resp = ServerError THEN store
                          ELSE [store EXCEPT ![l] = ChartReducer(l, resp)]

TableOperation(l, resp) ==
  l \in Tables /\ store' = IF resp = ServerError THEN store
                          ELSE [store EXCEPT ![l] = TableReducer(resp)]

Keep(l, resp) ==
  /\ ChartOperation(l, resp) \/ TableOperation(l, resp)
  /\ request' = [request EXCEPT ![l] = [at |-> "done", got |-> <<>>]]

\* The rejection is not caught: the request stays open and the process will exit.
Reject ==
  /\ server' = "stopping"
  /\ UNCHANGED <<store, request>>

Open(l) == server # "down" /\ request[l].at = "sent"

Statement(l) ==
  /\ Open(l)
  /\ token
  /\ Len(request[l].got) < Len(Statements(l))
  /\ request' = [request EXCEPT ![l].got = Append(@, Read(l, Len(@) + 1))]
  /\ UNCHANGED <<db, server, phase, token, store, timer, dbError, failures>>

StatementFails(l) ==
  /\ Open(l)
  /\ token
  /\ Len(request[l].got) < Len(Statements(l))
  /\ failures < MaxFailures
  /\ failures' = failures + 1
  /\ \/ AnsweredOnFailure(l) # None /\ Keep(l, AnsweredOnFailure(l)) /\ UNCHANGED server
     \/ AnsweredOnFailure(l) = None /\ Reject
     \/ /\ request' = [request EXCEPT ![l].at = "hanging"]
        /\ UNCHANGED <<server, store>>
  /\ UNCHANGED <<db, phase, token, timer, dbError>>

\* External: discovery fails, or answers with some of the organisations.
Respond(l) ==
  /\ Open(l)
  /\ token
  /\ Len(request[l].got) = Len(Statements(l))
  /\ \E discovered \in IF l \in {"peerStatus", "peerList"} THEN {None} \cup SUBSET Orgs ELSE {None} :
       IF PeersStatusFails(request[l].got[1], discovered) THEN Reject
       ELSE Keep(l, Answered(l, request[l].got)) /\ UNCHANGED server
  /\ UNCHANGED <<db, phase, token, timer, dbError, failures>>

\* auth-check answers 401; the client drops its token, and the load ends without data.
Unauthorized(l) ==
  /\ Open(l)
  /\ ~token
  /\ request' = [request EXCEPT ![l] = [at |-> "done", got |-> <<>>]]
  /\ UNCHANGED <<db, server, phase, token, store, timer, dbError, failures>>

\* shutDown ends every connection: the requests still open fail, and each load ends in its
\* catch.
ShutDown ==
  /\ server = "stopping"
  /\ server' = "down"
  /\ request' = [l \in Loads |-> IF request[l].at \in {"sent", "hanging"}
                                 THEN [at |-> "done", got |-> <<>>] ELSE request[l]]
  /\ UNCHANGED <<db, phase, token, store, timer, dbError, failures>>

\* A request that arrives after that fails at once.
Refused(l) ==
  /\ server = "down"
  /\ request[l].at = "sent"
  /\ request' = [request EXCEPT ![l] = [at |-> "done", got |-> <<>>]]
  /\ UNCHANGED <<db, server, phase, token, store, timer, dbError, failures>>

\* changeChannel for a channel that the connection profile does not list: hfc_client throws,
\* and nobody catches it.  Otherwise it changes what no query reads.
ChangeChannelFails ==
  /\ server = "up"
  /\ phase = "loaded"
  /\ failures < MaxFailures
  /\ failures' = failures + 1
  /\ Reject
  /\ UNCHANGED <<db, phase, token, timer, dbError>>

\* External: the token runs out.
TokenExpires ==
  /\ token
  /\ token' = FALSE
  /\ UNCHANGED <<db, server, phase, request, store, timer, dbError, failures>>

-----------------------------------------------------------------------------
(* The client.                                                             *)

SubmitForm ==
  /\ phase = "form"
  /\ server # "down"
  /\ phase' = "loggingIn"
  /\ UNCHANGED <<db, server, token, request, store, timer, dbError, failures>>

LoginAnswered ==
  /\ phase = "loggingIn"
  /\ \/ /\ server # "down"
        /\ phase' = "channel" /\ token' = TRUE
     \/ phase' = "form" /\ UNCHANGED token
  /\ UNCHANGED <<db, server, request, store, timer, dbError, failures>>

\* Without a channel the address of a load is no route of the explorer, but for the lists
\* of channels: 404 at once.
Sent(l, channel) ==
  [at |-> IF channel = None /\ l \notin {"channelList", "channels"} THEN "done" ELSE "sent",
   got |-> <<>>]

StartLoadsWithoutTimer(channel) ==
  /\ phase' = "loading"
  /\ timer' = FALSE
  /\ request' = [l \in Loads |-> Sent(l, channel)]

StartLoads(channel) ==
  /\ phase' = "loading"
  /\ timer' = TRUE
  /\ request' = [l \in Loads |-> Sent(l, channel)]

\* curChannel reads nothing of the database; it fails when the explorer is down or the token
\* has run out, and then so do the loads.
ChannelAnswered ==
  /\ phase = "channel"
  /\ \E known \in BOOLEAN : StartLoads(CurrentChannel(known))
  /\ UNCHANGED <<db, server, token, store, dbError, failures>>

LoadedKeepingTimer ==
  /\ phase = "loading"
  /\ \A l \in Loads : request[l].at = "done"
  /\ phase' = "loaded"
  /\ UNCHANGED <<db, server, token, request, store, timer, dbError, failures>>

Loaded ==
  /\ phase = "loading"
  /\ \A l \in Loads : request[l].at = "done"
  /\ phase' = "loaded"
  /\ timer' = FALSE
  /\ UNCHANGED <<db, server, token, request, store, dbError, failures>>

Timeout ==
  /\ timer
  /\ timer' = FALSE
  /\ dbError' = TRUE
  /\ UNCHANGED <<db, server, phase, token, request, store, failures>>

Serve(l) == Statement(l) \/ Respond(l) \/ Unauthorized(l) \/ Refused(l)

Next ==
  \/ StoreChannel \/ StoreTransaction \/ StoreBlock
  \/ \E l \in Loads : Statement(l) \/ StatementFails(l) \/ Respond(l) \/ Unauthorized(l) \/ Refused(l)
  \/ ShutDown \/ ChangeChannelFails \/ TokenExpires
  \/ SubmitForm \/ LoginAnswered \/ ChannelAnswered
  \/ Loaded \/ Timeout

\* The network answers or fails, a rejection ends the process after 2 s, a timer fires after
\* 60 s; a statement that hangs never returns, the user need not act.
Fairness ==
  /\ \A l \in Loads : WF_vars(Serve(l))
  /\ WF_vars(ShutDown)
  /\ WF_vars(LoginAnswered) /\ WF_vars(ChannelAnswered)
  /\ WF_vars(Loaded) /\ WF_vars(Timeout)

Spec == Init /\ [][Next]_vars /\ Fairness

-----------------------------------------------------------------------------
(* Properties.                                                             *)

TypeOK ==
  /\ server \in {"up", "stopping", "down"}
  /\ phase \in {"closed", "form", "loggingIn", "channel", "loading", "loaded"}
  /\ token \in BOOLEAN
  /\ \A l \in Loads :
       /\ request[l].at \in {"idle", "sent", "hanging", "done"}
       /\ Len(request[l].got) <= Len(Statements(l))
       /\ request[l].at # "idle" <=> phase \in {"loading", "loaded"}
  /\ timer => phase = "loading"
  /\ failures \in 0 .. MaxFailures

Always == [from |-> 1, to |-> Now]

Counts(rows) == [i \in DOMAIN rows |-> rows[i].count]

\* Every organisation of the peers or of a transaction appears once.
OrgsOnce(rows, orgs) ==
  /\ \A i, j \in DOMAIN rows : rows[i].org = rows[j].org => i = j
  /\ orgs \subseteq {r.org : r \in Range(rows)}

HashesOf(num) == {tx.hash : tx \in Range(Blocks[num].data)}

\* A listed block shows each id in its data once, and counts the repeated ones too, as does
\* the route that counts its transactions.
BlockAgrees(net, b) ==
  /\ {t.hash : t \in Range(b.txs)} = HashesOf(b.num)
  /\ \A i, j \in DOMAIN b.txs : b.txs[i].hash = b.txs[j].hash => i = j
  /\ b.txcount = Len(Blocks[b.num].data)
  /\ BlockTransactions(net, b.num).txCount = b.txcount

\* Looking up an id that is shown finds a transaction of that id in the network, and the one
\* shown if no other block has the id: the block shown may be another one otherwise.
LookupAgrees(net, b, t) ==
  LET found == GetTransactionByID(net, t.hash)
  IN  /\ found \in Range(InNet(db.transactions, net))
      /\ found.hash = t.hash
      /\ (\A num \in 0 .. MaxBlock : t.hash \in HashesOf(num) => num = b.num) => found = t

\* What different statements say of the same network agrees, whatever other networks store:
\* counts, lists, charts and organisations, and with the blocks of the channel.
StatementsAgree(net) ==
  LET orgs == SetToSeq(Orgs)
      txs == Count("transactions", net)
      blocks == Count("blocks", net)
      byOrgs == AppendMissingOrgs(GetTxByOrgs(net), GetOrgsData(net))
      list == GetBlockAndTxList(net, Always, {})
  IN  /\ InNet(db.channel, net) # <<>> =>
           /\ Len(GetTxList(net, 0, 0, Always, {})) = txs
           /\ SumOf([i \in DOMAIN orgs |-> Len(GetTxList(net, 0, 0, Always, {orgs[i]}))]) = txs
           /\ \A b \in Range(list) : \A t \in Range(b.txs) : LookupAgrees(net, b, t)
      /\ SumOf(TxBy(net, 1, Now - 1)) = txs /\ SumOf(TxBy(net, 2, Now)) = txs
      /\ SumOf(BlocksBy(net, 1, Now - 1)) = blocks /\ SumOf(BlocksBy(net, 2, Now)) = blocks
      /\ SumOf(Counts(byOrgs)) = txs
      /\ OrgsOnce(byOrgs, GetOrgsData(net))
      /\ Len(list) = blocks
      /\ \A b \in Range(list) : BlockAgrees(net, b)

\* The statements that join on the hash alone show the rows of this network only, and each
\* of them once per network that has joined the channel.
HashJoinsAgree(net) ==
  InNet(db.channel, net) # <<>> =>
    LET joined == Len(db.channel)
        peers == PeersStatus(GetPeerData(net))
        latest == GetBlockActivityList(net)
    IN  /\ Range(peers) = Range(Peers[net])
        /\ Len(peers) = joined * Len(Peers[net])
        /\ Len(Where(peers, LAMBDA p : p.type = "PEER")) = joined * GetPeerlistCount(net)
        /\ Len(GetTxPerChaincode(net)) = joined * Count("chaincodes", net)
        /\ Len(latest) = Min({3, joined * Count("blocks", net)})
        /\ \A i \in DOMAIN latest :
             latest[i].num = GetBlockAndTxList(net, Always, {})[(i - 1) \div joined + 1].num

\* What a request put together from several statements is true of the database although rows
\* were stored between them.
AnswersAgree ==
  /\ "transactionByOrg" \in Loads /\ store["transactionByOrg"] # None =>
       LET rows == store["transactionByOrg"]
       IN  /\ OrgsOnce(rows, {})
           /\ SumOf(Counts(rows)) <= Count("transactions", Network)
  /\ "dashStats" \in Loads /\ store["dashStats"] \notin {None, NotFound} =>
       /\ store["dashStats"].txCount <= Count("transactions", Network)
       /\ store["dashStats"].latestBlock <= Count("blocks", Network)

ViewsAgree ==
  /\ \A net \in Networks : StatementsAgree(net) /\ HashJoinsAgree(net)
  /\ AnswersAgree

\* Whoever logs in sees the form, the views or the error page in the end, although
\* statements fail or hang and the explorer exits.
LandingSettles ==
  phase \in {"loggingIn", "channel", "loading"} ~>
    (phase \in {"form", "loaded"} \/ dbError)
=============================================================================
