# A TLA+ model of Hyperledger Explorer

The repository holds two backends and a browser client. Both backends do the same job:
they mirror the blocks of a ledger into PostgreSQL, serve the tables to browsers and tell
them of new blocks. What is hard is the mirroring: it is driven by several callers at
once, it survives crashes only through what is in the tables, and almost none of its
failures is caught. Around it are the processes that start, talk and end, the identities
they share, and the views that read the tables while they change. Each of these is a module.

## 1. Inventory

### Fabric explorer (`app/`, `main.js`, `sync.js`)

| Component | State | Operations | Talks to |
|---|---|---|---|
| Parent process: `main.js`, `app/Explorer.js`, `Platform.js`, `Proxy.js` | clients per network, list of listeners, web sockets | start, `changeNetwork`, `processSyncMessage`, `broadcast`, `shutDown` | child processes (IPC), browsers, PostgreSQL, peers |
| Sync child: `sync.js`, `app/Synchronizer.js`, `SyncPlatform.js` | client, event hub, two intervals | `initialize`, `isChannelEventHubConnected`, `send`, `destroy`, `shutDown` | parent (IPC), PostgreSQL, peers |
| Block synchronisation: `SyncService.js` | `blocksInProcess`, `synchInProcess`, pending timers | `processBlockEvent`, `synchBlocks`, `synchNetworkConfigToDB`, `insert*` | `CRUDService`, `MetricService`, gateway, parent |
| Channel event hubs: `FabricEvent.js` | static map of listeners | `initialize`, `createChannelEventHub`, `connectChannelEventHub`, `disconnectEventHubs` | fabric-network, `processBlockEvent` |
| Tables: `CRUDService.js`, `MetricService.js`, `PgService.js`, `explorerpg.sql` | blocks, transactions, channel, chaincodes, peer, orderer and reference tables | `saveBlock`, `saveTransaction`, `save*`, `findMissingBlockNumber`, queries | PostgreSQL |
| Client and gateway: `FabricClient.js`, `FabricGateway.js` | channels, genesis hashes, wallet, gateway connection, discovery | `initialize`, `initializeNewChannel`, `initializeChannelFromDiscover`, `queryBlock`, `queryChainInfo`, `enroll*` | peers, CA |
| Users: `UserService.js`, `authroutes.js`, `local-login.js`, `auth-check.js` | wallet, sessions | `authenticate`, `register`, `enroll`, `reconnectGw` | gateway, CA |
| REST: `dbroutes.js`, `platformroutes.js`, `requestutils.js` | none | read-only queries | tables, `Proxy` |

### Iroha backend (`iroha/src`)

| Component | State | Operations | Talks to |
|---|---|---|---|
| Sync: `sync.ts`, `iroha-api.ts` | `height`, `onBlockLock`, `streamQueue`, `end`, `result` | `sync`, `streamBlocks`, `fetchCommits`, `getBlock`, `end` | Iroha node (gRPC), `IrohaDb` |
| Tables: `iroha-db.ts`, `postgres.sql` | block, transaction, account, peer, role, domain | `init`, `applyBlock`, counts, paged lists, loaders | PostgreSQL |
| Server: `server.ts`, `graphql.ts`, `prometheus.ts` | metric counters | GraphQL queries, metrics | `IrohaDb` |

### Client (`client/src`)

Redux stores (`charts`, `tables`, `auth`, `theme`) filled by requests whose answers arrive in
any order, and React components that show them.

### What is hard, and what makes each part correct

* Block synchronisation. The listeners and the interval work on the same blocks with an
  await between every two SQL statements; nothing in the schema prevents a second row; the
  process may die anywhere. Correct: one row per block and transaction, no block row without
  its transactions, one sound announcement, counters that do not run ahead, every block
  stored and every discovery made in the end.
* Iroha sync. Catch-up and stream run at once; an ended or failing service must stop; the
  next one starts at a count of rows. Correct: the table is a prefix of the ledger, one
  `onBlock` at a time, nothing falls between catch-up and stream, `end()` is final.
* Channel configuration. Overlapping refreshes read, await and then write. Correct: one
  channel entry and row per channel.
* Parent and children. Messages may be lost when a side dies; an error on either side is a
  shutdown. Correct: a browser is told of stored blocks only; a shutdown ends.
* Gateway. All requests share one connection that an enrolment takes down and up.
* Gateway, correct: of overlapping registrations of a name one at most is confirmed; the
  reconnections do not leave the connection closed; a failed start can be followed by a good one.
* Statements and views: what different statements say of the same blocks agrees; a browser that
  logs in ends at a form, at its views or at the error page, whatever fails.
* Iroha lists: blocks arrive and answers are late while a reader pages. Correct: no row is missed.

`PROJECT.json` lists the hazards at their lines. Some properties are silent where the code does what a
hazard describes, and the hazard's note says so: `ExistReportedOnlyForOtherHash` and `CountersKept` once runs
have overlapped (a false EXISTCHANNEL ends the child, a counter goes back to 0), `GatewayOpenWhenQuiet`
once a connect has failed (the gateway stays closed), `PagingLosesNothing` once an answer handed on again
has left its `nextAfter` in the pages.

## 2. Modules

| Module | Role |
|---|---|
| `LedgerMirror` | abstract specification: blocks become visible whole, once, and are announced once, later |
| `BlockSync` | the Fabric sync child for one channel; refines `LedgerMirror` |
| `ChannelConfig` | how the sync child finds channels, saves their configuration and registers listeners |
| `Explorer` | parent and children: start, fork, messages, broadcast, signals, faults, shutdown |
| `Gateway` | the wallet, the authority and the one gateway that requests share |
| `Dashboard` | the Fabric tables as the REST routes read them, and the client that loads its views |
| `Rows` | tables as sequences of rows and what SQL does with them; `Dashboard` and `IrohaLists` extend it |
| `IrohaStream` | the Iroha sync services against one database |
| `IrohaLists` | the Iroha tables as `applyBlock` fills them and GraphQL reads them, and the paged lists |
| `MCBlockSync`, `MCChannelConfig`, `MCIrohaStream`, `MCViews` | instances for TLC |
| `Views` | composes `Dashboard` and `IrohaLists`: one of the two clients is on the screen |
| `BlockSyncProofs` | theorems of `BlockSync` |
| `IrohaStreamProofs`, `IrohaListsProofs` | theorems of `IrohaStream` and of `IrohaLists` |
| `RowsProofs` | lemmas about `Rows` and about sums, used by the next two |
| `ViewsProofs` | theorems of `Views`, which compose those of `IrohaListsProofs` with the Fabric side |
| `ChannelConfigProofs`, `GatewayProofs`, `ExplorerProofs` | theorems of `ChannelConfig`, `Gateway` and `Explorer` |

How they fit: `Explorer` has every process but abstracts what a child does between its messages;
`BlockSync` (blocks of one channel) and `ChannelConfig` (channels and their rows) are the two
halves of what it does. `StoreBlock` of `ChannelConfig` stands for all of `BlockSync`, and
`InitializeNewChannel`, `InsertNewChannel` of `BlockSync` for all of `ChannelConfig`. `Dashboard` reads
the rows that those two promise: one row per block, the transactions before the block.
`IrohaStream` applies a block in one step; `IrohaLists` says what that step does.

### BlockSync

A *caller* is a block listener or a run of the interval. `pc[d]` names the await at which
caller `d` is suspended; one action is the code from that await to the next.

| Action | Code |
|---|---|
| `Begin`, `Return`, `Finish` | `processBlockEvent`: guard and push of the key (426-429), discovery timer of a CONFIG block, entry of the loop; its return; removal of the key (689-690) |
| `TxCount`, `TxInsert`, `TxChaincode`, `TxChannel` | the four statements of `saveTransaction` |
| `NextTx` | the end of a turn of the loop over the transactions and the start of the next, with its lscc timer |
| `BlkCount`, `BlkInsert`, `BlkChannel`, `Notify` | the three statements of `saveBlock`, the BLOCK message |
| `DbError` | a rejected statement: no `catch` up to the caller, so the key stays; `sync.js` shuts down, or a listener's dispatcher swallows the error |
| `Attach`, `Deliver` | `createChannelEventHub`, and the listener it registers at block 1 |
| `Tick`, `ChainInfo`, `FindMissing`, `Fetch`, `SynchDone` | the interval and the awaits of `synchBlocks` |
| `ChainInfoFails`, `FetchFails` | the gateway catches an error and answers null: the height of null throws, a null block is skipped |
| `RefreshTimer`, `RefreshTimerFails` | the 10 s timers: discovery, chaincode row, UPDATECHANNEL or CHAINCODE |
| `InitializeNewChannel`, `InsertNewChannel`, `InsertNewChaincode` | the periodic refresh, as far as the counters feel it |
| `Boot`, `Crash`, `Die` | start of the child, and its end: memory is lost, the tables stay |

Decisions a reader should know:

* Two listeners for one channel are possible: `isChannelEventHubConnected` is false until the
  awaits of `createChannelEventHub` are over, and the interval then starts another.
* `fabric-network` is not in the repository. Whether it logs a rejection of the listener's
  callback or lets it become an unhandled rejection depends on its version; `DbError` allows both.
* The NEWCHANNEL branch (`SyncService.js` 435-462) cannot be reached from either caller: the
  genesis hash is set before the channel is in the client's list. It is not modelled.
* A timer is a block in the set `timers`. Several timers of one block do the same thing.
* `Die` drops the process at once, where `shutDown` leaves it two more seconds with a closed
  database connection.
* The contents of rows are abstracted to identities; `txRows[b][x]` counts rows per block and txid.

### IrohaStream

`loop[p]` is where the catch-up function of service `p` is suspended, `cons[p]` where its
`streamTryConsume` is; `Consume` is the synchronous stretch of `streamTryConsume` from one await
to the next. `wire` and `sub` are the node's side of the stream: it sends a commit to the streams
it has registered (`Subscribe`). `LateSubscribe` says whether the first `getBlock` may be
answered before that; nothing in the code prevents it. `applyBlock` is one database transaction
and so one step, which fails when the height is there already (UNIQUE). Several services may
run against one database: `npm run start` and `npm run start:sync` both start one.

### ChannelConfig

`pc[r]` is the await at which run `r` of `synchNetworkConfigToDB` is suspended: the one of the
start-up, those of the 30 s interval, which does not wait for the run before it, and those of the
discovery timers.

| Action | Code |
|---|---|
| `Boot`, `ClientChannels`, `ClientNewChannel`, `ClientDone` | `FabricClient.initialize` and its loop over `queryChannels` |
| `StartRefresh`, `QueryChannels`, `NewChannel` | the interval, `GetChannels`, the loop that appends unknown channels |
| `GenesisBlock`, `GetChannel`, `ExistChannel`, `SaveChannelCount`, `SaveChannelInsert`, `SaveChannelUpdate` | the loop over the live array, `insertNewChannel`, `existChannel`, `saveChannel` |
| `StartTimer`, `Discover`, `InstantiatedChaincodes`, `SaveCount`, `SaveInsert`, `ChannelDone` | `insertFromDiscoveryResults`: peers, orderers, chaincodes and their references, each a count and an INSERT |
| `HubTick`, `Connected`, `Disconnect` | `FabricEvent`: a pending registration per call, one map entry per channel |
| `RunFails`, `Throw`, `ShutDown`, `Exit`, `Join`, `StoreBlock` | a rejection nobody awaits, the shutdown, and the world outside |

The rows are counted by the columns on which the `SELECT count(1)` of each save selects, so that a
second row is a number above 1. The saves of one channel that the code makes in a loop are a set
`todo`, taken in the orders that the references allow (`SavedBefore`).

### Explorer

A child is a network and the number of the start that forked it, so that a child which outlives its
parent is another one than the child of the next start.

| Action | Code |
|---|---|
| `Start`, `ConnectDb`, `RetryDb`, `LoseDb` | `main.js`, `PersistenceFactory`, `PgService.handleDisconnect` |
| `BuildClient`, `Listen` | `Platform.buildClients`, `FabricClient.initialize`, `initializeListener`, the server |
| `Signal`, `PanicTimer`, `Destroy`, `Exit`, `KillParent` | the handlers of `main.js`, `shutDown`, `server.close` and its timers |
| `Connect`, `Leave`, `BroadcastBlock`, `ProcessSyncMessage` | web sockets, `Broadcaster`, `Proxy.processSyncMessage` |
| `ChildStart`, `Count`, `Insert`, `SendUpdate`, `TakeSignal`, `Finish`, `ChildFails` | `sync.js`, `Synchronizer`, the two halves of `saveBlock`, `ForkSenderHandler.send` |

Statements under way when a child ends are carried out by the database or lost (`StatementsSettle`).

### Gateway

| Action | Code |
|---|---|
| `BootStart`, `BootLookup`, `BootPut`, `BootEnroll`, `BootConnect`, `BootFails` | `FabricGateway.initialize`; without an authority the put of the identity is not awaited |
| `Login`, `AuthCheck`, `Arrive` | `UserService.authenticate`, `local-login`, `auth-check`, the admin routes |
| `WalletGet`, `GetUserContext`, `CaRegister`, `EnrollCaIdentity`, `WalletPut`, `Reconnect` | `register`, `enroll`, `enrollCaIdentity`, `reconnectGw`, await by await |
| `Query`, `Crash` | a query through the shared gateway; the process dies, wallet and authority stay |

### Dashboard and IrohaLists

`Dashboard` has one operator per statement of `MetricService` and `CRUDService`, named like the
method, over tables that are sequences of rows; joins are modelled by what they do to the number of
rows. What the blocks of the channel hold is given (`Blocks`): an id may be twice in a block, the
second time as DUPLICATE_TXID, and again in a later block. `StoreTransaction` goes through the data in
order and passes over what has a row for this block (`HasTransaction`), `StoreBlock` counts the data
whatever was passed over, and `GetTransactionByID` asks for the id alone: what a block counts, its rows and
what a lookup finds are different things, and `ViewsAgree` says how they are related. A request of the client reads its statements one by one while rows are stored between them,
and a route answers what the code answers when one fails, which for several routes is nothing.
`LandingPage`, which this fork's `App` does not mount, is modelled as it is written.

`IrohaLists` has `applyBlock` with all its commands, the lists with their `nextAfter`, the loaders, the
histograms and the dialogs as operators, and as actions what happens to a list on the screen:
`AnswerList` and `AnswerTotal` (two statements), `Deliver`, `Rerender` (Apollo hands the previous
answer on again), `OnPageChange`, `OnPageSizeChange`, `OnFilterChange`. `Apply` stores the next
block of `Ledger`. What the node commits is assumed (`LedgerAssumption`): no transaction hash twice,
a creator that has an account after the block or none at all, and commands that its stateful
validation accepts (`Accepted`: an account is created once and in a known domain, a default or
appended role is known, only an account grants). The first is what `applyBlock` relies on where
`postgres.sql` says UNIQUE, and of a ledger that breaks it a block is never stored; the creator is
nullable there. A genesis block may create the account that created it: hence after the block.

## 3. Runs

| Run | Instance | Shows |
|---|---|---|
| `blocksync_safety` | 2 blocks, one of 3 transactions with a repeated id and an lscc deployment, 2 listeners, 1 interval run, late join, 1 failing call of any kind, 1 crash | rows single, blocks whole, announcements sound, counters bounded, and `BlockSync` refines `LedgerMirror` |
| `blocksync_live` | 2 blocks, deployment in the second transaction, 1 crash, 1 peer failure | every block stored, every discovery made; counters exact as long as nothing failed |
| `blocksync_repair` | 2 blocks, 1 failing statement, no crash | counterexample: the block of a listener's failed statement is never stored (finding) |
| `iroha_two` | 2 services, 3 blocks, 2 starts, 1 failure, late registration allowed | prefix, exclusion, finality of `end()` |
| `iroha_one` | 1 service, 4 blocks, 2 starts, 1 failure, timely registration | no gap between catch-up and stream, every block stored, `end()` settles |
| `iroha_late` | 1 service, 3 blocks, no failure, late registration | counterexample: a block between null and registration stops the service (finding) |
| `config_overlap` | 3 channels, one of them stale, 2 interval runs beside the start-up's, no fault or crash | what overlapping runs can do to rows, counters and the channel list, and what nothing can do |
| `config_single` | 2 channels, 2 hosts, 1 interval run, 1 timer, 1 failing call of any kind | a channel joined late is saved and listened to |
| `explorer` | 2 networks, one in conflict with the database, 1 block, 2 starts, 1 socket, 1 signal, 1 fault of any kind | one writer per network, notifications told once, every shutdown ends, a conflict ends the explorer |
| `explorer_retry` | 1 network, the first connection to the database fails | counterexample: the retry is never a connection (finding) |
| `gateway` | 2 users, 3 requests, with and without an authority, 1 fault, 1 crash | one registration per name, the gateway left open, a start succeeds in the end |
| `dashboard` | 2 networks on 1 channel of 3 blocks, one with an id twice, which the next block has again; 2 organisations, 3 rows of transactions, or 1 while a client is open, 1 failing or hanging statement; 4 Iroha blocks with every command, 2 page sizes, 3 turns of the reader | views agree, paging misses no row, a login settles |

Why the bounds are enough.

* Two callers on one block are the least for a race, three (two listeners and the interval) let one
  overtake another; a block with three transactions has a first, a middle and a last; a repeated id
  needs two. One failure and one crash are enough to lose each update or timer once, and the proofs
  cover more of both. For Iroha the hand-over needs one block fetched, one queued and one on its way;
  four blocks leave one to follow.
* `config_overlap`: overlap needs two runs, and the start-up's makes a third; one channel is there from
  the start, one joined late, one stale. Failures would only end runs early here (`Throw` ends the
  process) and are in `config_single`. The counter of blocks needs one block to be set back.
* `explorer`: two starts are the least for a child that outlives its parent; two networks let one
  child bring down the other's parent. `MaxLag` bounds the messages in a pipe to two,
  one to be handled and one behind it.
* `gateway`: two requests race for a name, the third is of the other user or a query.
* `dashboard`: two networks are enough to tell a statement that forgets the network from one that does
  not, two times tell a bucket from the next. An id repeated in one block and in the next is the least for
  `txcount`, rows and lookups to differ. Three rows (`MaxTxs`) store all blocks of a network or some of
  both. `MaxLate`, `Storing` and `Arriving` keep the rows that arrive while a client is open few (the last
  block, of the client's network), because the agreement of the statements is checked on all rows with the
  client closed. The reader's three turns allow a filter, a page and a change of size. On the Iroha side
  the views read the tables only, so that `ViewsAgree` is evaluated before the reader's first turn.

Fairness. `BlockSync`: the event loop runs what is pending and the intervals keep firing, so the
callers' steps, the listeners, the interval and the timers are weakly fair. Nothing in the
repository starts a dead child again, so `Boot` is not fair, and the liveness properties assume
`[]<>alive`. `InsertNewChaincode` needs no fairness: no property depends on it. `IrohaStream`: the
service's own steps, the delivery of sent blocks and the registration of the stream are fair;
starts, signals and failures are not. `ChannelConfig`: the intervals and the answers of peers and
database; `JoinedChannelServed` assumes that the process stays up. `Explorer`: timers, promises and
pipes; signals, faults, browsers and the restart of the parent are not. `Gateway`: promises, and the
start of the explorer, whose container restarts. `Dashboard`: the network answers or fails, the timers
fire; a statement that hangs never answers, and a user need not act.

The deadlock check is off where the system really stops: in the `iroha` runs and in `explorer` when the
bounded number of starts is used up and all have ended, in `gateway` when every request is answered
and no crash is left, in `dashboard` when a client is closed and all rows are stored, or the reader
has no turn left.

## 4. Findings

* `MissingBlocksRepaired` is violated. A statement rejected inside a block listener leaves the
  block's key in `blocksInProcess` for the life of the process; `synchBlocks` reports the block
  as missing at every interval, fetches it, and `processBlockEvent` returns at its guard.
* `EveryBlockStored` is violated with a late registration. `streamBlocks` does not wait for the
  stream before it asks for blocks; a block committed between the null answer and the
  registration is lost, and each later one is dropped because it is not the expected height.
* `RetryReconnects` is violated. `handleDisconnect` hands itself to `setTimeout` without its object
  (`PgService.js` 106): the retry reads `this.client` of a timer and throws, again so in its handler,
  and the explorer shuts down 2 s later instead of reconnecting.

Weaknesses met while modelling that no run refutes, because the models keep to what the code does:

* `nextAfter` of an Iroha block list is `after` plus the number of items. With a time range it points
  before rows already shown, which repeat on the next page; with `reverse` it pages the wrong way.
  The paging properties say that no row is missed, which holds, and leave `PagesFollow` out for blocks
  with a time range.
* While a request is under way Apollo may hand the previous answer on with the new variables, and its
  `nextAfter` enters `pages`; the pages that follow may then skip rows (`stale` in `IrohaLists`).
* `getPeerData`, `getTxPerChaincode` and `getBlockActivityList` join `channel` on the genesis hash alone:
  each row is there once per network that has joined the channel (`HashJoinsAgree`), so that the latest
  blocks may be one block three times.
* `txcount` is the length of a block's data, and counts an id twice that `saveTransaction` stores once: the
  transactions listed for a block may be fewer than it says (`BlockAgrees`).
* `getTransactionByID` asks for the id without the block: of an id that a later block repeats it shows the
  first row, which may be another block's (`LookupAgrees`).
* A histogram leaves out a block created at the very start of its first bucket.
* `/status` answers with the counts as strings, so that its test for a missing count never fails;
  `/transaction` without a row is not answered at all; `getPeersStatus` calls `getPeerList` without the
  callback its `catch` clause calls; a rejection in several routes ends the explorer.
* `changeChannel` for a channel the profile does not list ends the explorer.
* An expired token is removed from `localStorage` and the loads end without data; the page stays.
* `createdBy` is nullable in `graphql.gql`, and `Transactions.js` 322 and `TransactionView.js` 243 read
  its `id` unasked; only a genesis transaction may lack a creator.
* The block search opens block 1 of an empty ledger, and a height typed before the total is known is
  not clamped (`Blocks.js` 151-166).
* Peers, roles and domains are shown up to the hundredth.

## 5. Proofs

All theorems hold for every value of the constants: every ledger, every number of callers, services,
networks, requests and sockets, and every bound on failures and crashes. They rest on the ASSUMEs of
the modules only.

* `TypeCorrect` (`BlockSyncProofs`): `TypeOK`.
* `NoDuplicates`, `BlocksAreWhole`, `AnnouncementsAreSound`: from the inductive invariant `IInv`.
  The properties alone are not inductive: that an INSERT adds the first row depends on the count
  two statements earlier, which stays true because no other caller may touch the block meanwhile.
  `IInv` says so: a caller inside a block holds its key (`HoldsKey`), two callers hold different
  keys (`KeysDiffer`), the transactions before its own are stored (`StoredSoFar`), what a count
  found still holds (`CountStillHolds`). `NothingStored` treats all steps that store nothing at
  once, `InsideBlock` those of one caller.
* `CountersLagBehind`, `CountersExact` (`BlockSyncProofs`). A row is *counted* when it is stored and no
  caller stands between its INSERT and its UPDATE; `CounterInv` says that a counter is at most the number
  of counted rows. The UPDATE of a caller makes its row counted, since by `KeysDiffer` no other caller is
  on the way with the same row; failures and crashes only make more rows counted. As long as nothing has
  failed the bound is an equality (`ExactInv`), because the channel's row is there whenever the process is.
* `SyncImplementsMirror` (`BlockSyncProofs`): with the extra invariant that a block has rows of its own transactions
  only, `BlkInsert` maps to `Mirror`, `Notify` to `Announce`, `Commit` to `Commit`, and every other
  step to a stutter; in particular `TxInsert` never touches a visible block.
* `TypeCorrect`, `PrefixStored`, `HandlersExclude`, `EndIsFinal` (`IrohaStreamProofs`): from one invariant,
  `StreamInv`. Until the catch-up loop has handed over, the lock is taken and `streamTryConsume`
  idle (`LoopOwnsLock`), and `streamTryConsume` keeps the lock as long as it is busy
  (`ConsumerOwnsLock`). The two share `height`, so only this exclusion makes it stay the number
  of the block in hand across their awaits (`LoopHolds`, `ConsumerHolds`). Every block below
  `height` is stored (`StoredBelow`), so the block that an INSERT adds, not stored yet, is the one
  after the prefix, also when other services have moved the prefix on meanwhile. `Frame` disposes
  of the services that a step leaves alone. `EndIsFinal` needs of it the types only.
* `NothingFallsBetween` (`IrohaStreamProofs`): under `~LateSubscribe`, `NothingSkipped`. On top of
  `StreamInv`, queue and wire together are one rising run of heights without a gap that ends at the
  ledger (`TidyStream`: `Rising`, `Before`, `Gapless`), and the service is at the height from which
  it goes on: an answer of null means that everything from `height` on is queued or on the wire
  (`NullMeansCovered`), and so it stays after the hand-over (`HandedOver`). `LateSubscribe` is exactly what breaks `NullMeansCovered`: see the second finding.
* `TypeCorrect`, `OneRegistration`, `GatewayStaysOpen` (`GatewayProofs`): `RegisteredOnce` follows from
  what the authority knows: a request that was told of success made its name known
  (`AnsweredWhenDone`, `TakenKnown`), and two cannot have made the same name known (`TakenOnce`).
  `GatewayOpenWhenQuiet` needs that whenever the gateway is closed some request is about to connect it
  (`OpenOrConnecting`), which several reconnections at once keep true, because each of them connects.
* `TypeCorrect`, `RowsStaySingle`, `ToldExactlyOnce` (`ExplorerProofs`). For the rows: unless a parent was
  killed, only children of the present start are active (`OnlyOwnChildren`), a block that one has counted
  has no row yet (`PendingUnwritten`), and what has ended has nothing pending (`IdleHasNothingPending`). For the notifications: a message in a pipe is of a block that its child
  wrote, and no block is in it twice (`PipesSound`, `AnnouncedHasRow`), and what a socket heard plus
  what the pipe holds is what was announced since the socket was opened (`Told`, `SocketsSound`).
* `TypeCorrect`, `OneHash`, `RowsBounded`, `Listing`, `ExistTrue`, `CountersStay`, `References`
  (`ChannelConfigProofs`), all from `InvariantIsInductive`, whose invariant has five parts beside the types.
  `LifeInv`: the start-up's run is alone until it returns. `HashInv`: a run about to save a channel has seen
  that no other genesis hash has its name. `AloneInv`: as long as no runs have overlapped, what a run has
  read is still so when it writes. `CountInv`: when they do overlap, the rows of a key plus the runs that
  are about to insert it, and the entries of a channel plus the runs about to append it, never exceed the
  number of runs, because a run turns to an INSERT only when there is no row; with the pending INSERTs
  left out the bound would not be inductive. `RefInv`: whatever row a row still to be saved refers to is
  there, or saved before it by the same run (`Settled`). Steps are first sorted by what they do to runs
  and rows (`StepShape`), so that each part is proved by five cases.

* `ListsTypes`, `ListsLoseNothing` (`IrohaListsProofs`): `TypeOK` and `PagingLosesNothing` of the Iroha
  lists, from the invariant `ListsInv`. None of the three parts of `PagingLosesNothing` is inductive.
  That pages follow needs that every table is numbered from 1 without a gap (`DbOK`), which every
  command of `applyBlock` keeps (`CommandKeeps`, `BlockKeeps`). That the page on the screen is exact
  when its answer arrives needs that "after" belonged to the page when the request was sent
  (`PagesOK`), and that what the server has read stays right although blocks arrive before it is
  delivered (`AnswerOK`): a block only adds rows behind the others and changes nothing that "after" or a
  filter looks at (`Grows`, `PositionsStable`). That no row falls between two filtered pages needs that the next
  "after" is at most a page of matching rows beyond the last (`NextAfter`), also when the answer was
  read long ago, and that "after" is never beyond the last entry of `pages`.
  What a statement returns is a recursive function over the rows (`Selected`), and so is
  `applyBlock` over transactions and commands; that such a function exists and what it yields is proved by induction on
  the number of rows (`SelectedEquation`, `SelectedPositions`, `AfterCommandsEquation`). The
  induction is stated with a set (`NatInduct`: a set of naturals that has 0 and the successors of its
  elements is `Nat`), because the induction theorems of the library take an operator as a parameter.
* `ViewsTypes`, `ViewsLoseNothing` (`ViewsProofs`): the same of the composition that TLC runs, and the
  types of `Dashboard`. For these, a request holds a sequence of what its statements have read, never longer
  than the statements are many (`Requests`), and a request that is over has forgotten it.

* `ViewsAlwaysAgree` (`ViewsProofs`): `ViewsAgree`, that is, what different statements say of the same
  blocks agrees on both sides.
  Fabric (`FabricData`): rows have their types (`RowTypes`: times from 1 to `Now`); a network has its peers
  and chaincodes with its channel and only once, a row of a transaction is from the data of its block, an id
  has one row per block and network, and a stored block counts its data and has a row for each id in it
  (`Stored`). That the rows are single needs the count before the INSERT (`HasIs`, `TxStored`). With it the buckets of a histogram and the organisations
  are classes into which the rows fall, each row into one, so that the sum of their counts is
  the number of rows; `ORDER BY blocknum DESC` keeps the number of rows (`DescendingIs`);
  and a lookup by id finds a row of the id (`LookupOf`), the one shown if no other block has it.
  `JoinedIs` and `JoinedSelect` say what a join on the hash repeats.
  `AnswersInv` is about a client whose request is between two statements: what it has read was true when it
  was read, and stays within the tables since no statement deletes a row. Without it the last part of `ViewsAgree`, about
  what the reducers keep, is not inductive.
  Iroha (`TablesInv`): with h rows of blocks the tables are `TablesAfter[h]`, the first h blocks of the
  ledger applied one by one. What is in them is then a matter of the ledger only, proved by induction
  over blocks, transactions and commands (`Data`: rows are numbered, ids and hashes single, and what
  refers to a row has it; `Whole`: each block has its transactions, in order). `LedgerAssumption` is what makes this go through for commands. The
  sums over minutes, hours and domains are sums over classes again. As the tables do not depend on the
  reader, `ListsShowTheLedger` (`IrohaListsProofs`) has `IrohaViewsAgree` in every state, although the run
  evaluates it before the reader's first turn only. The proof found conjuncts too strong for
  ledgers other than the four blocks of the run, and they now say what the code does: peers and roles are
  shown up to the hundredth only, the times of blocks need not rise with their heights, and a transaction
  may have no creator.
  For these proofs `WHERE`, `SUM` and the order of rows are recursive functions (`Rows`) instead of the
  folds and sorts of the community modules, which take operators as parameters.

What a recursive function computes is proved throughout by the induction on a set of naturals
described above. Only model-checked: all liveness properties (liveness under fairness and ENABLED are
out of the prover's reach), and the three counterexamples. No module uses RECURSIVE operators.

## 6. Not modelled, and what is left

Not modelled, and why:

* The operations of the client's redux state that no mounted component is connected to: change of
  channel, searches of the old tables, the list of networks, logout and registration.
* Histograms by day, week, month and year, which no route uses.
* The route of a block by number (`platformroutes.js` 89), which asks a peer and reads no table.
* The building of SQL strings, validation and parsing of REST parameters beyond the date range, Swagger.
* Certificates, connection profiles and discovery results beyond the names they yield.
* `IrohaDb.init`'s check of the schema and the start-up of the GraphQL server, which run once and keep
  no state; `iroha/out` and the generated gRPC code, which are compiled from what is modelled.
* Layout, themes, charts as drawings, the notification panel.
* The fabric-network, gRPC and Apollo libraries beyond what is stated above.
* Deployment scripts, Docker files and the end-to-end tests.

Left to model: the composition of `BlockSync` and `ChannelConfig` in one process, which
would let the counter updates of one meet the channel rows of the other with more than one channel;
its states are beyond TLC at useful bounds.
