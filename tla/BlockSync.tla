----------------------------- MODULE BlockSync ------------------------------
(***************************************************************************)
(* The sync child process of one network, for one channel: how blocks of   *)
(* the Fabric ledger reach the PostgreSQL tables.                          *)
(*                                                                         *)
(* Two kinds of callers run SyncService.processBlockEvent concurrently on  *)
(* the one event loop: block listeners, which are handed every block from  *)
(* block 1 on, and the periodic SyncService.synchBlocks, which fetches the *)
(* blocks the database lacks.  Each of their awaits is a step of its own   *)
(* here.  A step is one SQL statement together with the code that runs     *)
(* until the next await.                                                   *)
(*                                                                         *)
(* The child may die between any two steps; the tables survive it.         *)
(***************************************************************************)
EXTENDS Naturals, Sequences, FiniteSets

CONSTANTS
  MaxHeight,     \* bound on the ledger's height
  Txs,           \* transaction ids
  TxsOf,         \* TxsOf[b]: the transaction ids of block b, in order
  ConfigBlocks,  \* blocks whose first transaction is of type CONFIG
  LsccTxs,       \* transactions that deploy a chaincode through lscc
  InvokeTxs,     \* transactions that invoke the deployed chaincode
  Listeners,     \* block listeners that may be registered for the channel
  Ticks,         \* concurrent runs of the block-sync interval
  LateJoin,      \* may the channel be unknown when the process starts?
  FaultKinds,    \* which calls may fail: "db", "info", "block", "refresh"
  MaxFaults,     \* bound on failing calls
  MaxCrashes     \* bound on crashes from outside

Blocks == 0 .. MaxHeight - 1
Deliverers == Listeners \cup Ticks

ASSUME HeightAssumption == MaxHeight \in Nat \ {0}
ASSUME LedgerAssumption ==
  /\ TxsOf \in [Blocks -> Seq(Txs)]
  /\ \A b \in Blocks : TxsOf[b] # <<>>
ASSUME KindAssumption ==
  /\ ConfigBlocks \subseteq Blocks
  /\ LsccTxs \subseteq Txs
  /\ InvokeTxs \subseteq Txs
  /\ LateJoin \in BOOLEAN
  /\ FaultKinds \subseteq {"db", "info", "block", "refresh"}
  /\ MaxFaults \in Nat
  /\ MaxCrashes \in Nat
ASSUME CallersAssumption == Listeners \cap Ticks = {}

VARIABLES
  height,           \* external: blocks 0 .. height-1 are on the ledger
  alive,            \* the child process runs
  known,            \* the channel and its genesis hash are in the FabricClient
  next,             \* next[l]: block listener l is handed next, 0 if not registered
  pc,               \* pc[d]: the await at which caller d is suspended
  blk,              \* blk[d]: the block d is processing
  idx,              \* idx[d]: index in that block of the transaction d is at
  missing,          \* missing[t]: the blocks synchBlocks run t has still to fetch
  synchInProcess,   \* is the channel's key in SyncService.synchInProcess?
  blocksInProcess,  \* keys of the module-level array of that name
  timers,           \* blocks with a pending 10 s discovery timer
  blockRows,        \* table blocks: number of rows for each block
  txRows,           \* table transactions: number of rows for each block and txid
  chanRow,          \* has table channel the channel's row?
  chanBlocks,       \* its column blocks
  chanTrans,        \* its column trans
  ccRow,            \* has table chaincodes the chaincode's row?
  ccTxcount,        \* its column txcount
  sent,             \* sent[b]: BLOCK notifications sent to the parent process
  refreshed,        \* blocks whose UPDATECHANNEL or CHAINCODE notification was sent
  faults, crashes   \* bounded counters

callVars == <<pc, blk, idx>>
hubVars == <<next, missing>>
keyVars == <<synchInProcess, blocksInProcess>>
chanVars == <<chanRow, chanBlocks, chanTrans>>
ccVars == <<ccRow, ccTxcount>>
rowVars == <<blockRows, txRows>>
outVars == <<sent, refreshed>>
procVars == <<alive, known>>
budget == <<faults, crashes>>
vars == <<height, procVars, hubVars, callVars, keyVars, timers,
          rowVars, chanVars, ccVars, outVars, budget>>

\* The awaits inside processBlockEvent, all of them on a database statement.
InTx == {"txCount", "txInsert", "txChaincode", "txChannel"}
InBlk == {"blkCount", "blkInsert", "blkChannel"}
InBlock == InTx \cup InBlk \cup {"notify"}
InSynch == {"info", "missing", "fetch"}

TxAt(d) == TxsOf[blk[d]][idx[d]]

\* A block whose processing schedules a discovery: CONFIG, or the deployment at index i.
LsccAt(b, i) == b \notin ConfigBlocks /\ TxsOf[b][i] \in LsccTxs
NeedsRefresh(b) ==
  b \in ConfigBlocks \/ \E i \in 1 .. Len(TxsOf[b]) : LsccAt(b, i)
Deployed == \E b \in Blocks : b < height /\ \E i \in 1 .. Len(TxsOf[b]) : LsccAt(b, i)

Fault(kind) ==
  /\ kind \in FaultKinds
  /\ faults < MaxFaults
  /\ faults' = faults + 1
  /\ UNCHANGED crashes

-----------------------------------------------------------------------------
Init ==
  /\ height = 1
  /\ alive = FALSE
  /\ known = FALSE
  /\ next = [l \in Listeners |-> 0]
  /\ pc = [d \in Deliverers |-> "wait"]
  /\ blk = [d \in Deliverers |-> 0]
  /\ idx = [d \in Deliverers |-> 1]
  /\ missing = [t \in Ticks |-> {}]
  /\ synchInProcess = FALSE
  /\ blocksInProcess = {}
  /\ timers = {}
  /\ blockRows = [b \in Blocks |-> 0]
  /\ txRows = [b \in Blocks |-> [x \in Txs |-> 0]]
  /\ chanRow = FALSE
  /\ chanBlocks = 0
  /\ chanTrans = 0
  /\ ccRow = FALSE
  /\ ccTxcount = 0
  /\ sent = [b \in Blocks |-> 0]
  /\ refreshed = {}
  /\ faults = 0
  /\ crashes = 0

-----------------------------------------------------------------------------
(* The world outside the child process. *)

\* External: the orderers and peers commit one more block.
Commit ==
  /\ height < MaxHeight
  /\ height' = height + 1
  /\ UNCHANGED <<procVars, hubVars, callVars, keyVars, timers,
                 rowVars, chanVars, ccVars, outVars, budget>>

\* The end of the process, by a crash or by its own shutDown: all memory is lost.
\* The statement in flight is either done (the step before) or not (this step).
Die ==
  /\ alive
  /\ alive' = FALSE
  /\ known' = FALSE
  /\ next' = [l \in Listeners |-> 0]
  /\ pc' = [d \in Deliverers |-> "wait"]
  /\ blk' = [d \in Deliverers |-> 0]
  /\ idx' = [d \in Deliverers |-> 1]
  /\ missing' = [t \in Ticks |-> {}]
  /\ synchInProcess' = FALSE
  /\ blocksInProcess' = {}
  /\ timers' = {}
  /\ UNCHANGED <<height, rowVars, chanVars, ccVars, outVars>>

Crash ==
  /\ crashes < MaxCrashes
  /\ crashes' = crashes + 1
  /\ UNCHANGED faults
  /\ Die

\* The process starts.  SyncPlatform.initialize awaits synchNetworkConfigToDB, which
\* inserts the rows of the channels the client has found, before any block is handled.
\* A channel the peer has not joined yet (or failed to initialize) is not among them.
Boot(joined) ==
  /\ ~alive
  /\ joined \/ LateJoin
  /\ alive' = TRUE
  /\ known' = joined
  /\ chanRow' = (chanRow \/ joined)
  /\ UNCHANGED <<height, hubVars, callVars, keyVars, timers,
                 rowVars, chanBlocks, chanTrans, ccVars, outVars, budget>>

-----------------------------------------------------------------------------
(* The periodic synchNetworkConfigToDB, as far as the block tables feel it. *)

\* initializeNewChannel: the genesis hash and the channel enter the client's memory.
InitializeNewChannel ==
  /\ alive
  /\ ~known
  /\ known' = TRUE
  /\ UNCHANGED <<height, alive, hubVars, callVars, keyVars, timers,
                 rowVars, chanVars, ccVars, outVars, budget>>

\* insertNewChannel, some awaits later: the row is inserted, with both counters 0.
InsertNewChannel ==
  /\ alive
  /\ known
  /\ ~chanRow
  /\ chanRow' = TRUE
  /\ UNCHANGED <<height, procVars, hubVars, callVars, keyVars, timers,
                 rowVars, chanBlocks, chanTrans, ccVars, outVars, budget>>

\* insertNewChannelChaincode: the row of an instantiated chaincode, with txcount 0.
InsertNewChaincode ==
  /\ alive
  /\ known
  /\ Deployed
  /\ ~ccRow
  /\ ccRow' = TRUE
  /\ UNCHANGED <<height, procVars, hubVars, callVars, keyVars, timers,
                 rowVars, chanVars, ccTxcount, outVars, budget>>

-----------------------------------------------------------------------------
(* processBlockEvent. *)

\* Its synchronous start, up to the first await that matters.  The guard and the push
\* happen in one go; the second caller of a block in process goes away empty-handed.
BeginUnguarded(d, b) ==
  /\ blocksInProcess' = blocksInProcess \cup {b}
  /\ timers' = IF b \in ConfigBlocks \/ LsccAt(b, 1) THEN timers \cup {b} ELSE timers
  /\ pc' = [pc EXCEPT ![d] = "txCount"]
  /\ blk' = [blk EXCEPT ![d] = b]
  /\ idx' = [idx EXCEPT ![d] = 1]

Begin(d, b) ==
  /\ b \notin blocksInProcess
  /\ BeginUnguarded(d, b)

ReturnToFetch(d) ==
  /\ pc' = [pc EXCEPT ![d] = "fetch"]
  /\ blk' = [blk EXCEPT ![d] = 0]
  /\ idx' = [idx EXCEPT ![d] = 1]

\* It returns to its caller: a listener waits for its next event, synchBlocks goes on.
Return(d) ==
  /\ pc' = [pc EXCEPT ![d] = IF d \in Listeners THEN "wait" ELSE "fetch"]
  /\ blk' = [blk EXCEPT ![d] = 0]
  /\ idx' = [idx EXCEPT ![d] = 1]

Finish(d) ==
  /\ Return(d)
  /\ blocksInProcess' = blocksInProcess \ {blk[d]}

\* The end of one turn of the loop over the transactions.
LastTxSkipped(d) ==
  /\ UNCHANGED <<blk, timers>>
  /\ \/ /\ idx[d] + 1 < Len(TxsOf[blk[d]])
        /\ pc' = [pc EXCEPT ![d] = "txCount"]
        /\ idx' = [idx EXCEPT ![d] = @ + 1]
     \/ /\ idx[d] + 1 >= Len(TxsOf[blk[d]])
        /\ pc' = [pc EXCEPT ![d] = "blkCount"]
        /\ UNCHANGED idx

NextTx(d) ==
  /\ UNCHANGED blk
  /\ \/ /\ idx[d] < Len(TxsOf[blk[d]])
        /\ pc' = [pc EXCEPT ![d] = "txCount"]
        /\ idx' = [idx EXCEPT ![d] = @ + 1]
        /\ timers' = IF LsccAt(blk[d], idx[d] + 1) THEN timers \cup {blk[d]} ELSE timers
     \/ /\ idx[d] >= Len(TxsOf[blk[d]])
        /\ pc' = [pc EXCEPT ![d] = "blkCount"]
        /\ UNCHANGED <<idx, timers>>

At(d, label) == alive /\ pc[d] = label
Goto(d, label) == pc' = [pc EXCEPT ![d] = label] /\ UNCHANGED <<blk, idx, timers>>

Increment(row, counter) == IF row THEN counter + 1 ELSE counter

\* saveTransaction: select count(1); a transaction already stored is skipped.
TxCountAlwaysUpdates(d) ==
  /\ At(d, "txCount")
  /\ Goto(d, IF txRows[blk[d]][TxAt(d)] = 0 THEN "txInsert" ELSE "txChaincode")
  /\ UNCHANGED <<height, procVars, hubVars, keyVars, rowVars, chanVars, ccVars,
                 outVars, budget>>

TxCount(d) ==
  /\ At(d, "txCount")
  /\ \/ txRows[blk[d]][TxAt(d)] = 0 /\ Goto(d, "txInsert")
     \/ txRows[blk[d]][TxAt(d)] # 0 /\ NextTx(d)
  /\ UNCHANGED <<height, procVars, hubVars, keyVars, rowVars, chanVars, ccVars,
                 outVars, budget>>

\* saveTransaction: insert the row.
TxInsert(d) ==
  /\ At(d, "txInsert")
  /\ txRows' = [txRows EXCEPT ![blk[d]][TxAt(d)] = @ + 1]
  /\ Goto(d, "txChaincode")
  /\ UNCHANGED <<height, procVars, hubVars, keyVars, blockRows, chanVars, ccVars,
                 outVars, budget>>

\* saveTransaction: update chaincodes set txcount = txcount + 1 where name = ...
TxChaincode(d) ==
  /\ At(d, "txChaincode")
  /\ ccTxcount' = Increment(ccRow /\ TxAt(d) \in InvokeTxs, ccTxcount)
  /\ Goto(d, "txChannel")
  /\ UNCHANGED <<height, procVars, hubVars, keyVars, rowVars, chanVars, ccRow,
                 outVars, budget>>

\* saveTransaction: update channel set trans = trans + 1 where channel_genesis_hash = ...
TxChannel(d) ==
  /\ At(d, "txChannel")
  /\ chanTrans' = Increment(chanRow, chanTrans)
  /\ NextTx(d)
  /\ UNCHANGED <<height, procVars, hubVars, keyVars, rowVars, chanRow, chanBlocks,
                 ccVars, outVars, budget>>

\* saveBlock: select count(1); false for a block already stored, which is not announced.
BlkCountAlwaysTrue(d) ==
  /\ At(d, "blkCount")
  /\ Goto(d, IF blockRows[blk[d]] = 0 THEN "blkInsert" ELSE "notify")
  /\ UNCHANGED <<height, procVars, hubVars, keyVars, rowVars, chanVars, ccVars,
                 outVars, budget>>

BlkCount(d) ==
  /\ At(d, "blkCount")
  /\ \/ blockRows[blk[d]] = 0 /\ Goto(d, "blkInsert") /\ UNCHANGED blocksInProcess
     \/ blockRows[blk[d]] # 0 /\ Finish(d) /\ UNCHANGED timers
  /\ UNCHANGED <<height, procVars, hubVars, synchInProcess, rowVars, chanVars, ccVars,
                 outVars, budget>>

\* saveBlock: insert the row.
BlkInsert(d) ==
  /\ At(d, "blkInsert")
  /\ blockRows' = [blockRows EXCEPT ![blk[d]] = @ + 1]
  /\ Goto(d, "blkChannel")
  /\ UNCHANGED <<height, procVars, hubVars, keyVars, txRows, chanVars, ccVars,
                 outVars, budget>>

\* saveBlock: update channel set blocks = blocks + 1 where channel_genesis_hash = ...
BlkChannelForgotten(d) ==
  /\ At(d, "blkChannel")
  /\ Goto(d, "notify")
  /\ UNCHANGED <<height, procVars, hubVars, keyVars, rowVars, chanVars, ccVars,
                 outVars, budget>>

BlkChannel(d) ==
  /\ At(d, "blkChannel")
  /\ chanBlocks' = Increment(chanRow, chanBlocks)
  /\ Goto(d, "notify")
  /\ UNCHANGED <<height, procVars, hubVars, keyVars, rowVars, chanRow, chanTrans,
                 ccVars, outVars, budget>>

\* The answer to that update: send the BLOCK notification and release the key.
Notify(d) ==
  /\ At(d, "notify")
  /\ sent' = [sent EXCEPT ![blk[d]] = @ + 1]
  /\ Finish(d)
  /\ UNCHANGED <<height, procVars, hubVars, synchInProcess, timers, rowVars, chanVars,
                 ccVars, refreshed, budget>>

\* A statement is rejected.  No code between here and the caller catches it, so the
\* key stays in blocksInProcess.  In synchBlocks, which nobody awaits, it becomes an
\* unhandled rejection and sync.js shuts down; out of a listener it goes to the
\* library, which either logs it or lets it become the same rejection.
DbError(d) ==
  /\ alive
  /\ pc[d] \in InTx \cup InBlk \cup {"missing"}
  /\ Fault("db")
  /\ \/ Die
     \/ /\ d \in Listeners
        /\ Return(d)
        /\ UNCHANGED <<height, procVars, hubVars, keyVars, timers, rowVars, chanVars,
                       ccVars, outVars>>

-----------------------------------------------------------------------------
(* The block listeners of FabricEvent. *)

\* createChannelEventHub: addBlockListener with startBlock 1.
AttachAtHead(l) ==
  /\ alive
  /\ known
  /\ next[l] = 0
  /\ next' = [next EXCEPT ![l] = height]
  /\ UNCHANGED <<height, procVars, missing, callVars, keyVars, timers, rowVars,
                 chanVars, ccVars, outVars, budget>>

Attach(l) ==
  /\ alive
  /\ known
  /\ next[l] = 0
  /\ next' = [next EXCEPT ![l] = 1]
  /\ UNCHANGED <<height, procVars, missing, callVars, keyVars, timers, rowVars,
                 chanVars, ccVars, outVars, budget>>

\* The library hands the listener its next block, one at a time and in order.
Deliver(l) ==
  /\ At(l, "wait")
  /\ next[l] \in 1 .. height - 1
  /\ next' = [next EXCEPT ![l] = @ + 1]
  /\ \/ Begin(l, next[l])
     \/ next[l] \in blocksInProcess /\ UNCHANGED <<callVars, blocksInProcess, timers>>
  /\ UNCHANGED <<height, procVars, missing, synchInProcess, rowVars, chanVars, ccVars,
                 outVars, budget>>

-----------------------------------------------------------------------------
(* The interval: isChannelEventHubConnected, then synchBlocks. *)

\* Only a channel with a listener is synchronised; a run in process makes it return.
Tick(t) ==
  /\ At(t, "wait")
  /\ known
  /\ \E l \in Listeners : next[l] # 0
  /\ ~synchInProcess
  /\ synchInProcess' = TRUE
  /\ Goto(t, "info")
  /\ UNCHANGED <<height, procVars, hubVars, blocksInProcess, rowVars, chanVars,
                 ccVars, outVars, budget>>

\* queryChainInfo answers: the candidates are all blocks up to the height it reports.
ChainInfoOneTooMany(t) ==
  /\ At(t, "info")
  /\ missing' = [missing EXCEPT ![t] = (0 .. height) \cap Blocks]
  /\ Goto(t, "missing")
  /\ UNCHANGED <<height, procVars, next, keyVars, rowVars, chanVars, ccVars, outVars,
                 budget>>

ChainInfo(t) ==
  /\ At(t, "info")
  /\ missing' = [missing EXCEPT ![t] = 0 .. height - 1]
  /\ Goto(t, "missing")
  /\ UNCHANGED <<height, procVars, next, keyVars, rowVars, chanVars, ccVars, outVars,
                 budget>>

\* queryChainInfo has caught an error and answered null: reading its height throws.
ChainInfoFails(t) ==
  /\ At(t, "info")
  /\ Fault("info")
  /\ Die

\* findMissingBlockNumber answers: the candidates without a row in blocks.
FindMissing(t) ==
  /\ At(t, "missing")
  /\ missing' = [missing EXCEPT ![t] = {b \in @ : blockRows[b] = 0}]
  /\ Goto(t, "fetch")
  /\ UNCHANGED <<height, procVars, next, keyVars, rowVars, chanVars, ccVars, outVars,
                 budget>>

\* queryBlock answers with the block, which is processed unless it is in process.
Fetch(t) ==
  /\ At(t, "fetch")
  /\ \E b \in missing[t] :
       /\ missing' = [missing EXCEPT ![t] = @ \ {b}]
       /\ \/ Begin(t, b)
          \/ b \in blocksInProcess /\ UNCHANGED <<callVars, blocksInProcess, timers>>
  /\ UNCHANGED <<height, procVars, next, synchInProcess, rowVars, chanVars, ccVars,
                 outVars, budget>>

\* queryBlock has caught an error and answered null: the block is left for another run.
FetchFails(t) ==
  /\ At(t, "fetch")
  /\ Fault("block")
  /\ \E b \in missing[t] : missing' = [missing EXCEPT ![t] = @ \ {b}]
  /\ UNCHANGED <<height, procVars, next, callVars, keyVars, timers, rowVars, chanVars,
                 ccVars, outVars>>

\* The loop ends and the run's key is removed.
SynchDoneKeepingKey(t) ==
  /\ At(t, "fetch")
  /\ missing[t] = {}
  /\ Goto(t, "wait")
  /\ UNCHANGED <<height, procVars, hubVars, keyVars, rowVars, chanVars, ccVars,
                 outVars, budget>>

SynchDone(t) ==
  /\ At(t, "fetch")
  /\ missing[t] = {}
  /\ synchInProcess' = FALSE
  /\ Goto(t, "wait")
  /\ UNCHANGED <<height, procVars, hubVars, blocksInProcess, rowVars, chanVars,
                 ccVars, outVars, budget>>

-----------------------------------------------------------------------------
(* The timers that processBlockEvent leaves behind. *)

\* 10 s later: discovery, its rows, and the UPDATECHANNEL or CHAINCODE notification.
RefreshTimer(b) ==
  /\ alive
  /\ b \in timers
  /\ timers' = timers \ {b}
  /\ ccRow' = (ccRow \/ Deployed)
  /\ refreshed' = refreshed \cup {b}
  /\ UNCHANGED <<height, procVars, hubVars, callVars, keyVars, rowVars, chanVars,
                 ccTxcount, sent, budget>>

\* The callback throws: nobody holds its promise, so the process shuts down.
RefreshTimerFails(b) ==
  /\ b \in timers
  /\ Fault("refresh")
  /\ Die

-----------------------------------------------------------------------------
\* What caller d does next inside processBlockEvent.
ProcessBlock(d) ==
  \/ TxCount(d) \/ TxInsert(d) \/ TxChaincode(d) \/ TxChannel(d)
  \/ BlkCount(d) \/ BlkInsert(d) \/ BlkChannel(d) \/ Notify(d)

\* What run t of the interval does next outside processBlockEvent.
Synch(t) == ChainInfo(t) \/ FindMissing(t) \/ Fetch(t) \/ SynchDone(t)

Next ==
  \/ Commit
  \/ Crash
  \/ \E joined \in BOOLEAN : Boot(joined)
  \/ InitializeNewChannel \/ InsertNewChannel \/ InsertNewChaincode
  \/ \E d \in Deliverers : ProcessBlock(d) \/ DbError(d)
  \/ \E l \in Listeners : Attach(l) \/ Deliver(l)
  \/ \E t \in Ticks : Tick(t) \/ Synch(t) \/ ChainInfoFails(t) \/ FetchFails(t)
  \/ \E b \in Blocks : RefreshTimer(b) \/ RefreshTimerFails(b)

Spec == Init /\ [][Next]_vars

\* The event loop runs every pending callback, the intervals keep firing, the peers and
\* the database answer.  Nothing restarts the process, so Boot is not fair.
Fairness ==
  /\ WF_vars(InitializeNewChannel)
  /\ WF_vars(InsertNewChannel)
  /\ \A d \in Deliverers : WF_vars(ProcessBlock(d))
  /\ \A l \in Listeners : WF_vars(Attach(l)) /\ WF_vars(Deliver(l))
  /\ \A t \in Ticks : WF_vars(Tick(t)) /\ WF_vars(Synch(t))
  /\ \A b \in Blocks : WF_vars(RefreshTimer(b))

FairSpec == Spec /\ Fairness

-----------------------------------------------------------------------------
(* Properties. *)

CallTypeOK ==
  /\ pc \in [Deliverers -> {"wait"} \cup InSynch \cup InBlock]
  /\ \A l \in Listeners : pc[l] \notin InSynch
  /\ blk \in [Deliverers -> Blocks]
  /\ idx \in [Deliverers -> Nat \ {0}]
HubTypeOK ==
  /\ height \in 1 .. MaxHeight
  /\ next \in [Listeners -> 0 .. MaxHeight]
  /\ missing \in [Ticks -> SUBSET Blocks]
ProcessTypeOK ==
  /\ alive \in BOOLEAN
  /\ known \in BOOLEAN
  /\ synchInProcess \in BOOLEAN
  /\ blocksInProcess \subseteq Blocks
  /\ timers \subseteq Blocks
RowTypeOK ==
  /\ blockRows \in [Blocks -> Nat]
  /\ txRows \in [Blocks -> [Txs -> Nat]]
  /\ sent \in [Blocks -> Nat]
  /\ refreshed \subseteq Blocks
CounterTypeOK ==
  /\ chanRow \in BOOLEAN
  /\ ccRow \in BOOLEAN
  /\ chanBlocks \in Nat
  /\ chanTrans \in Nat
  /\ ccTxcount \in Nat
  /\ faults \in Nat
  /\ crashes \in Nat

\* Types of the variables; a listener is never inside synchBlocks.
TypeOK ==
  /\ CallTypeOK
  /\ HubTypeOK
  /\ ProcessTypeOK
  /\ RowTypeOK
  /\ CounterTypeOK

Active(d) == pc[d] \in InBlock
TxSet(b) == {TxsOf[b][i] : i \in 1 .. Len(TxsOf[b])}

\* The tables have no UNIQUE constraint: only the count before each INSERT and the keys
\* of blocksInProcess keep a block or a transaction that is delivered twice, by two
\* listeners, a listener and the interval, or again after a restart, from two rows.
OneRow(b) == blockRows[b] <= 1 /\ \A x \in Txs : txRows[b][x] <= 1
NoDuplicateRows == \A b \in Blocks : OneRow(b)

\* findMissingBlockNumber looks at table blocks alone, so a block row must never be
\* there without all its transactions: nobody would ever store the others.
WholeBlock(b) ==
  blockRows[b] > 0 => b < height /\ \A x \in TxSet(b) : txRows[b][x] = 1
BlockRowImpliesTransactions == \A b \in Blocks : WholeBlock(b)

\* The parent tells the browsers of a block at most once, whatever is delivered again and
\* whenever the process dies, and never of a block they could not find in the database.
AnnouncedOnce(b) == sent[b] <= 1 /\ (sent[b] = 1 => blockRows[b] = 1)
AnnouncedOnceAndStored == \A b \in Blocks : AnnouncedOnce(b)

StoredBlocks == {b \in Blocks : blockRows[b] > 0}
StoredTxs == {r \in Blocks \X Txs : txRows[r[1]][r[2]] > 0}

\* The counters of table channel and chaincodes lag behind the rows (an update that a
\* crash, a failed statement or a missing channel row has swallowed is never made up
\* for) but never run ahead of them.
CountersNeverOverstate ==
  /\ chanBlocks <= Cardinality(StoredBlocks)
  /\ chanTrans <= Cardinality(StoredTxs)
  /\ ccTxcount <= Cardinality({r \in StoredTxs : r[2] \in InvokeTxs})

\* As long as nothing has failed, and with the channel row there from the start, the
\* counters of table channel are exact whenever no caller is between an INSERT and its
\* UPDATE, and every stored block is announced as soon as its caller is done with it.
NothingFailed == ~LateJoin /\ faults = 0 /\ crashes = 0
CountersExactWhenQuiet ==
  NothingFailed =>
    /\ (\A d \in Deliverers : pc[d] # "blkChannel")
          => chanBlocks = Cardinality(StoredBlocks)
    /\ (\A d \in Deliverers : pc[d] \notin {"txChaincode", "txChannel"})
          => chanTrans = Cardinality(StoredTxs)
    /\ (\A d \in Deliverers : ~Active(d)) => \A b \in Blocks : sent[b] = blockRows[b]

\* The inductive invariant behind the three properties above.  A caller inside a block
\* holds its key and two callers hold different keys; the transactions before its own are
\* stored; what it has read with a count is still so at its INSERT.
HoldsKey(d) == alive /\ blk[d] < height /\ blk[d] \in blocksInProcess
KeysDiffer == \A d, e \in Deliverers : Active(d) /\ Active(e) /\ d # e => blk[d] # blk[e]
FetchedBelowHeight == \A t \in Ticks : \A b \in missing[t] : b < height
StoredSoFar(d) ==
  /\ idx[d] <= Len(TxsOf[blk[d]])
  /\ pc[d] \in InTx => \A i \in 1 .. idx[d] - 1 : txRows[blk[d]][TxsOf[blk[d]][i]] = 1
  /\ pc[d] \in {"txChaincode", "txChannel"} => txRows[blk[d]][TxAt(d)] = 1
  /\ pc[d] \notin InTx => \A x \in TxSet(blk[d]) : txRows[blk[d]][x] = 1
CountStillHolds(d) ==
  /\ pc[d] = "txInsert" => txRows[blk[d]][TxAt(d)] = 0
  /\ pc[d] = "blkInsert" => blockRows[blk[d]] = 0
  /\ pc[d] \in {"blkChannel", "notify"} => blockRows[blk[d]] = 1 /\ sent[blk[d]] = 0
CallerInv(d) == Active(d) => HoldsKey(d) /\ StoredSoFar(d) /\ CountStillHolds(d)
BlockInv(b) == OneRow(b) /\ WholeBlock(b) /\ AnnouncedOnce(b)
IInv ==
  /\ TypeOK
  /\ KeysDiffer
  /\ FetchedBelowHeight
  /\ \A d \in Deliverers : CallerInv(d)
  /\ \A b \in Blocks : BlockInv(b)

\* With the mapping below the sync engine implements LedgerMirror: a reader of the tables
\* sees blocks appear whole and stay as they are.
Mirror == INSTANCE LedgerMirror WITH
  Contents <- [b \in Blocks |-> TxSet(b)],
  mirrored <- {<<b, {x \in Txs : txRows[b][x] > 0}>> : b \in StoredBlocks},
  announced <- {b \in Blocks : sent[b] > 0}
ImplementsMirror == Mirror!Spec

\* As long as the process is up again and again, every block of the ledger is stored,
\* whether a listener delivers it, drops it, or a peer fails to return it once.
BlocksEventuallyStored ==
  []<>alive => \A b \in Blocks : (b < height) ~> (blockRows[b] = 1)

\* The discovery that a CONFIG block or a deployment calls for is made although a crash
\* forgets its timer: the listener of the next process is handed the block again.  (Block
\* 0 is skipped by the listeners; the start-up itself does its discovery.)
RefreshEventuallyMade ==
  []<>alive => \A b \in Blocks \ {0} :
    (b < height /\ NeedsRefresh(b)) ~> (b \in refreshed)

\* The comment above the interval (SyncPlatform.js:123) says that it is there for
\* "validating any missing block from the current client ledger": while the process stays
\* up, no missing block is left out for ever.
MissingBlocksRepaired ==
  <>[]alive => \A b \in Blocks : (b < height) ~> (blockRows[b] = 1)
=============================================================================
