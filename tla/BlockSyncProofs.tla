-------------------------- MODULE BlockSyncProofs ---------------------------
(***************************************************************************)
(* Proofs about BlockSync, for every ledger, set of listeners and bound:   *)
(* its types, the rows and announcements, that it implements LedgerMirror, *)
(* and the counters of a channel.                                          *)
(***************************************************************************)
EXTENDS BlockSync, FiniteSetTheorems, TLAPS

(* Block numbers and the positions in a block, as the provers need them. *)
LEMMA BlockFacts ==
  /\ MaxHeight \in Nat \ {0}
  /\ Blocks \subseteq Nat
  /\ 0 \in Blocks
  /\ \A b \in Blocks : Len(TxsOf[b]) \in Nat \ {0}
  /\ \A b \in Blocks : \A i \in 1 .. Len(TxsOf[b]) : TxsOf[b][i] \in Txs
<1>1. MaxHeight \in Nat \ {0}
  BY HeightAssumption
<1>2. Blocks \subseteq Nat /\ 0 \in Blocks
  BY <1>1 DEF Blocks
<1>3. ASSUME NEW b \in Blocks
      PROVE  TxsOf[b] \in Seq(Txs) /\ TxsOf[b] # <<>>
  BY LedgerAssumption
<1>4. ASSUME NEW b \in Blocks
      PROVE  /\ Len(TxsOf[b]) \in Nat \ {0}
             /\ \A i \in 1 .. Len(TxsOf[b]) : TxsOf[b][i] \in Txs
  <2>1. TxsOf[b] \in Seq(Txs) /\ TxsOf[b] # <<>>
    BY <1>3
  <2> QED
    BY <2>1
<1> QED
  BY <1>1, <1>2, <1>4

-----------------------------------------------------------------------------
(* Type correctness. *)

LEMMA InitTypeOK == Init => TypeOK
<1> SUFFICES ASSUME Init PROVE TypeOK
  OBVIOUS
<1> USE BlockFacts DEF Init
<1>1. CallTypeOK
  BY DEF CallTypeOK, InSynch, Deliverers
<1>2. HubTypeOK
  BY DEF HubTypeOK
<1>3. ProcessTypeOK
  BY DEF ProcessTypeOK
<1>4. RowTypeOK
  BY DEF RowTypeOK
<1>5. CounterTypeOK
  BY DEF CounterTypeOK
<1> QED
  BY <1>1, <1>2, <1>3, <1>4, <1>5 DEF TypeOK

(* What happens to the variables of a caller inside a block. *)
LEMMA CallSteps ==
  ASSUME TypeOK, NEW d \in Deliverers, pc[d] \in InBlock
  PROVE  /\ \A label \in InBlock : Goto(d, label) => CallTypeOK' /\ timers' = timers
         /\ NextTx(d) => CallTypeOK' /\ timers' \subseteq Blocks
         /\ Return(d) => CallTypeOK'
         /\ Finish(d) => CallTypeOK' /\ blocksInProcess' \subseteq Blocks
<1> USE BlockFacts DEF TypeOK, CallTypeOK, ProcessTypeOK
<1>0. d \in Listeners \/ d \in Ticks
  BY DEF Deliverers
<1>1. ASSUME NEW label \in InBlock, Goto(d, label)
      PROVE  CallTypeOK' /\ timers' = timers
  BY <1>1 DEF Goto, InBlock, InTx, InBlk, InSynch
<1>2. ASSUME NextTx(d)
      PROVE  CallTypeOK' /\ timers' \subseteq Blocks
  <2>1. timers' \subseteq Blocks
    <3>1. timers' = timers \/ timers' = timers \cup {blk[d]}
      BY <1>2 DEF NextTx
    <3>2. blk[d] \in Blocks
      OBVIOUS
    <3> QED
      BY <3>1, <3>2
  <2>2. pc' = [pc EXCEPT ![d] = "txCount"] \/ pc' = [pc EXCEPT ![d] = "blkCount"]
    BY <1>2 DEF NextTx
  <2>3. idx' \in [Deliverers -> Nat \ {0}] /\ blk' = blk
    BY <1>2 DEF NextTx
  <2>4. pc' \in [Deliverers -> {"wait"} \cup InSynch \cup InBlock]
    BY <2>2 DEF InBlock, InTx, InBlk
  <2>5. \A l \in Listeners : pc'[l] \notin InSynch
    BY <2>2 DEF InSynch, Deliverers
  <2> QED
    BY <2>1, <2>3, <2>4, <2>5
<1>3. ASSUME Return(d)
      PROVE  CallTypeOK'
  <2>1. pc' \in [Deliverers -> {"wait"} \cup InSynch \cup InBlock]
    BY <1>3 DEF Return, InSynch
  <2>2. \A l \in Listeners : pc'[l] \notin InSynch
    <3>1. CASE d \in Listeners
      BY <3>1, <1>3 DEF Return, InSynch, Deliverers
    <3>2. CASE d \notin Listeners
      BY <3>2, <1>3 DEF Return, InSynch, Deliverers
    <3> QED
      BY <3>1, <3>2
  <2>3. blk' \in [Deliverers -> Blocks] /\ idx' \in [Deliverers -> Nat \ {0}]
    BY <1>3 DEF Return
  <2> QED
    BY <2>1, <2>2, <2>3
<1>4. ASSUME Finish(d)
      PROVE  CallTypeOK' /\ blocksInProcess' \subseteq Blocks
  BY <1>3, <1>4 DEF Finish
<1> QED
  BY <1>1, <1>2, <1>3, <1>4

LEMMA IncrementedRow ==
  ASSUME NEW S, NEW f \in [S -> Nat], NEW x
  PROVE  [f EXCEPT ![x] = f[x] + 1] \in [S -> Nat]
<1>1. CASE x \in S
  BY <1>1
<1>2. CASE x \notin S
  BY <1>2
<1> QED
  BY <1>1, <1>2

LEMMA ProcessBlockTypeOK ==
  ASSUME TypeOK, NEW d \in Deliverers, ProcessBlock(d)
  PROVE  TypeOK'
<1> USE DEF TypeOK, procVars, hubVars, keyVars, rowVars, chanVars, ccVars, outVars, budget
<1>0. pc[d] \in InBlock
  BY DEF ProcessBlock, TxCount, TxInsert, TxChaincode, TxChannel, BlkCount, BlkInsert,
         BlkChannel, Notify, At, InBlock, InTx, InBlk
<1>a. blk[d] \in Blocks
  BY DEF CallTypeOK
<1>1. CASE TxCount(d)
  <2>1. CallTypeOK' /\ timers' \subseteq Blocks
    BY <1>0, <1>1, CallSteps DEF TxCount, InBlock, InTx, ProcessTypeOK
  <2> QED
    BY <1>1, <2>1 DEF TxCount, HubTypeOK, ProcessTypeOK, RowTypeOK, CounterTypeOK
<1>2. CASE TxInsert(d)
  <2>1. CallTypeOK' /\ timers' = timers
    BY <1>0, <1>2, CallSteps DEF TxInsert, InBlock, InTx
  <2>2. RowTypeOK'
    <3> DEFINE old == txRows[blk[d]]
               row == [old EXCEPT ![TxAt(d)] = old[TxAt(d)] + 1]
    <3>0. old \in [Txs -> Nat]
      BY <1>a DEF RowTypeOK
    <3>1. row \in [Txs -> Nat]
      BY <3>0, IncrementedRow
    <3>2. txRows' = [txRows EXCEPT ![blk[d]] = row]
      BY <1>2 DEF TxInsert
    <3>3. UNCHANGED <<blockRows, sent, refreshed>>
      BY <1>2 DEF TxInsert
    <3> QED
      BY <1>a, <3>1, <3>2, <3>3 DEF RowTypeOK
  <2> QED
    BY <1>2, <2>1, <2>2 DEF TxInsert, HubTypeOK, ProcessTypeOK, CounterTypeOK
<1>3. CASE TxChaincode(d)
  <2>1. CallTypeOK' /\ timers' = timers
    BY <1>0, <1>3, CallSteps DEF TxChaincode, InBlock, InTx
  <2>2. CounterTypeOK'
    BY <1>3 DEF TxChaincode, CounterTypeOK, Increment
  <2> QED
    BY <1>3, <2>1, <2>2 DEF TxChaincode, HubTypeOK, ProcessTypeOK, RowTypeOK
<1>4. CASE TxChannel(d)
  <2>1. CallTypeOK' /\ timers' \subseteq Blocks
    BY <1>0, <1>4, CallSteps DEF TxChannel
  <2>2. CounterTypeOK'
    BY <1>4 DEF TxChannel, CounterTypeOK, Increment
  <2> QED
    BY <1>4, <2>1, <2>2 DEF TxChannel, HubTypeOK, ProcessTypeOK, RowTypeOK
<1>5. CASE BlkCount(d)
  <2>1. CallTypeOK' /\ timers' = timers /\ blocksInProcess' \subseteq Blocks
    BY <1>0, <1>5, CallSteps DEF BlkCount, InBlock, InBlk, ProcessTypeOK
  <2> QED
    BY <1>5, <2>1 DEF BlkCount, HubTypeOK, ProcessTypeOK, RowTypeOK, CounterTypeOK
<1>6. CASE BlkInsert(d)
  <2>1. CallTypeOK' /\ timers' = timers
    BY <1>0, <1>6, CallSteps DEF BlkInsert, InBlock, InBlk
  <2>2. RowTypeOK'
    BY <1>a, <1>6 DEF BlkInsert, RowTypeOK
  <2> QED
    BY <1>6, <2>1, <2>2 DEF BlkInsert, HubTypeOK, ProcessTypeOK, CounterTypeOK
<1>7. CASE BlkChannel(d)
  <2>1. CallTypeOK' /\ timers' = timers
    BY <1>0, <1>7, CallSteps DEF BlkChannel, InBlock, InBlk
  <2>2. CounterTypeOK'
    BY <1>7 DEF BlkChannel, CounterTypeOK, Increment
  <2> QED
    BY <1>7, <2>1, <2>2 DEF BlkChannel, HubTypeOK, ProcessTypeOK, RowTypeOK
<1>8. CASE Notify(d)
  <2>1. CallTypeOK' /\ blocksInProcess' \subseteq Blocks
    BY <1>0, <1>8, CallSteps DEF Notify
  <2>2. RowTypeOK'
    BY <1>a, <1>8 DEF Notify, RowTypeOK
  <2> QED
    BY <1>8, <2>1, <2>2 DEF Notify, HubTypeOK, ProcessTypeOK, CounterTypeOK
<1> QED
  BY <1>1, <1>2, <1>3, <1>4, <1>5, <1>6, <1>7, <1>8 DEF ProcessBlock

(* The end of the process and the start of processBlockEvent. *)
LEMMA DieTypeOK ==
  ASSUME TypeOK, Die, faults' \in Nat, crashes' \in Nat
  PROVE  TypeOK'
<1> USE BlockFacts DEF Die, TypeOK, rowVars, chanVars, ccVars, outVars
<1>1. CallTypeOK'
  BY DEF CallTypeOK, InSynch, Deliverers
<1>2. HubTypeOK'
  BY DEF HubTypeOK
<1>3. ProcessTypeOK'
  BY DEF ProcessTypeOK
<1>4. RowTypeOK'
  BY DEF RowTypeOK
<1>5. CounterTypeOK'
  BY DEF CounterTypeOK
<1> QED
  BY <1>1, <1>2, <1>3, <1>4, <1>5

LEMMA BeginTypes ==
  ASSUME TypeOK, NEW d \in Deliverers, NEW b \in Blocks, Begin(d, b)
  PROVE  CallTypeOK' /\ blocksInProcess' \subseteq Blocks /\ timers' \subseteq Blocks
<1> USE DEF TypeOK, CallTypeOK, ProcessTypeOK, Begin, BeginUnguarded
<1>1. pc' \in [Deliverers -> {"wait"} \cup InSynch \cup InBlock]
  BY DEF InBlock, InTx
<1>2. \A l \in Listeners : pc'[l] \notin InSynch
  BY DEF InSynch, Deliverers
<1>3. blk' \in [Deliverers -> Blocks] /\ idx' \in [Deliverers -> Nat \ {0}]
  OBVIOUS
<1>4. timers' = timers \/ timers' = timers \cup {b}
  OBVIOUS
<1>5. blocksInProcess' \subseteq Blocks
  OBVIOUS
<1> QED
  BY <1>1, <1>2, <1>3, <1>4, <1>5

LEMMA NextTypeOK == TypeOK /\ [Next]_vars => TypeOK'
<1> SUFFICES ASSUME TypeOK, [Next]_vars
             PROVE  TypeOK'
  OBVIOUS
<1> USE BlockFacts DEF procVars, hubVars, callVars, keyVars, rowVars, chanVars, ccVars,
                       outVars, budget
<1>1. CASE Commit
  <2>1. HubTypeOK'
    BY <1>1 DEF Commit, TypeOK, HubTypeOK
  <2> QED
    BY <1>1, <2>1 DEF Commit, TypeOK, CallTypeOK, ProcessTypeOK, RowTypeOK, CounterTypeOK
<1>2. CASE Crash
  BY <1>2, DieTypeOK DEF Crash, TypeOK, CounterTypeOK
<1>3. ASSUME NEW joined \in BOOLEAN, Boot(joined)
      PROVE  TypeOK'
  <2>1. ProcessTypeOK'
    BY <1>3 DEF Boot, TypeOK, ProcessTypeOK
  <2>2. CounterTypeOK'
    BY <1>3 DEF Boot, TypeOK, CounterTypeOK
  <2> QED
    BY <1>3, <2>1, <2>2 DEF Boot, TypeOK, CallTypeOK, HubTypeOK, RowTypeOK
<1>4. CASE InitializeNewChannel
  <2>1. ProcessTypeOK'
    BY <1>4 DEF InitializeNewChannel, TypeOK, ProcessTypeOK
  <2> QED
    BY <1>4, <2>1 DEF InitializeNewChannel, TypeOK, CallTypeOK, HubTypeOK, RowTypeOK,
                      CounterTypeOK
<1>5. CASE InsertNewChannel \/ InsertNewChaincode
  <2>1. CounterTypeOK'
    BY <1>5 DEF InsertNewChannel, InsertNewChaincode, TypeOK, CounterTypeOK
  <2> QED
    BY <1>5, <2>1 DEF InsertNewChannel, InsertNewChaincode, TypeOK, CallTypeOK, HubTypeOK,
                      RowTypeOK, ProcessTypeOK
<1>6. ASSUME NEW d \in Deliverers, ProcessBlock(d)
      PROVE  TypeOK'
  BY <1>6, ProcessBlockTypeOK
<1>7. ASSUME NEW d \in Deliverers, DbError(d)
      PROVE  TypeOK'
  <2>1. faults' \in Nat /\ crashes' \in Nat
    BY <1>7 DEF DbError, Fault, TypeOK, CounterTypeOK
  <2>2. CASE Die
    BY <2>1, <2>2, DieTypeOK
  <2>3. CASE d \in Listeners /\ Return(d) /\ ~Die
    <3>1. pc[d] \in InBlock
      BY <1>7, <2>3 DEF DbError, TypeOK, CallTypeOK, InBlock, InSynch
    <3>2. CallTypeOK'
      BY <2>3, <3>1, CallSteps
    <3>3. UNCHANGED <<height, procVars, hubVars, keyVars, timers, rowVars, chanVars,
                      ccVars, outVars>>
      BY <1>7, <2>3 DEF DbError
    <3> QED
      BY <2>1, <3>2, <3>3 DEF TypeOK, HubTypeOK, ProcessTypeOK, RowTypeOK, CounterTypeOK
  <2> QED
    BY <1>7, <2>2, <2>3 DEF DbError
<1>8. ASSUME NEW l \in Listeners, Attach(l)
      PROVE  TypeOK'
  <2>1. HubTypeOK'
    BY <1>8 DEF Attach, TypeOK, HubTypeOK
  <2> QED
    BY <1>8, <2>1 DEF Attach, TypeOK, CallTypeOK, ProcessTypeOK, RowTypeOK, CounterTypeOK
<1>9. ASSUME NEW l \in Listeners, Deliver(l)
      PROVE  TypeOK'
  <2>1. HubTypeOK'
    BY <1>9 DEF Deliver, TypeOK, HubTypeOK
  <2>2. next[l] \in Blocks /\ l \in Deliverers
    BY <1>9 DEF Deliver, TypeOK, HubTypeOK, Blocks, Deliverers
  <2>3. CallTypeOK' /\ blocksInProcess' \subseteq Blocks /\ timers' \subseteq Blocks
    <3>1. CASE Begin(l, next[l])
      BY <2>2, <3>1, BeginTypes
    <3>2. CASE UNCHANGED <<callVars, blocksInProcess, timers>>
      BY <3>2 DEF TypeOK, CallTypeOK, ProcessTypeOK
    <3> QED
      BY <1>9, <3>1, <3>2 DEF Deliver
  <2> QED
    BY <1>9, <2>1, <2>3 DEF Deliver, TypeOK, ProcessTypeOK, RowTypeOK, CounterTypeOK
<1>10. ASSUME NEW t \in Ticks, Tick(t) \/ ChainInfo(t) \/ FindMissing(t) \/ SynchDone(t)
       PROVE  TypeOK'
  <2>1. PICK label \in {"wait", "info", "missing", "fetch"} : Goto(t, label)
    BY <1>10 DEF Tick, ChainInfo, FindMissing, SynchDone
  <2>2. CallTypeOK' /\ timers' = timers
    <3>1. pc' \in [Deliverers -> {"wait"} \cup InSynch \cup InBlock]
      BY <2>1 DEF Goto, TypeOK, CallTypeOK, InSynch, Deliverers
    <3>2. \A l \in Listeners : pc'[l] \notin InSynch
      BY <2>1, CallersAssumption DEF Goto, TypeOK, CallTypeOK, Deliverers
    <3> QED
      BY <2>1, <3>1, <3>2 DEF Goto, TypeOK, CallTypeOK
  <2>3. HubTypeOK'
    <3>1. missing' \in [Ticks -> SUBSET Blocks]
      BY <1>10 DEF Tick, ChainInfo, FindMissing, SynchDone, TypeOK, HubTypeOK, Blocks
    <3> QED
      BY <1>10, <3>1 DEF Tick, ChainInfo, FindMissing, SynchDone, TypeOK, HubTypeOK
  <2>4. ProcessTypeOK'
    BY <1>10, <2>2 DEF Tick, ChainInfo, FindMissing, SynchDone, TypeOK, ProcessTypeOK
  <2>5. UNCHANGED <<rowVars, chanVars, ccVars, outVars, budget>>
    BY <1>10 DEF Tick, ChainInfo, FindMissing, SynchDone
  <2> QED
    BY <2>2, <2>3, <2>4, <2>5 DEF TypeOK, RowTypeOK, CounterTypeOK
<1>11. ASSUME NEW t \in Ticks, Fetch(t)
       PROVE  TypeOK'
  <2>1. PICK b \in missing[t] :
          /\ missing' = [missing EXCEPT ![t] = @ \ {b}]
          /\ \/ Begin(t, b)
             \/ b \in blocksInProcess /\ UNCHANGED <<callVars, blocksInProcess, timers>>
    BY <1>11 DEF Fetch
  <2>2. b \in Blocks /\ t \in Deliverers
    BY DEF TypeOK, HubTypeOK, Deliverers
  <2>3. CallTypeOK' /\ blocksInProcess' \subseteq Blocks /\ timers' \subseteq Blocks
    <3>1. CASE Begin(t, b)
      BY <2>2, <3>1, BeginTypes
    <3>2. CASE UNCHANGED <<callVars, blocksInProcess, timers>>
      BY <3>2 DEF TypeOK, CallTypeOK, ProcessTypeOK
    <3> QED
      BY <2>1, <3>1, <3>2
  <2>4. HubTypeOK'
    BY <1>11, <2>1 DEF Fetch, TypeOK, HubTypeOK
  <2> QED
    BY <1>11, <2>3, <2>4 DEF Fetch, TypeOK, ProcessTypeOK, RowTypeOK, CounterTypeOK
<1>12. ASSUME NEW t \in Ticks, FetchFails(t)
       PROVE  TypeOK'
  <2>1. HubTypeOK'
    BY <1>12 DEF FetchFails, TypeOK, HubTypeOK
  <2>2. CounterTypeOK'
    BY <1>12 DEF FetchFails, Fault, TypeOK, CounterTypeOK
  <2> QED
    BY <1>12, <2>1, <2>2 DEF FetchFails, TypeOK, CallTypeOK, ProcessTypeOK, RowTypeOK
<1>13. ASSUME NEW t \in Ticks, ChainInfoFails(t)
       PROVE  TypeOK'
  BY <1>13, DieTypeOK DEF ChainInfoFails, Fault, TypeOK, CounterTypeOK
<1>14. ASSUME NEW b \in Blocks, RefreshTimer(b)
       PROVE  TypeOK'
  <2>1. ProcessTypeOK' /\ RowTypeOK'
    BY <1>14 DEF RefreshTimer, TypeOK, ProcessTypeOK, RowTypeOK
  <2>2. CounterTypeOK'
    BY <1>14 DEF RefreshTimer, TypeOK, CounterTypeOK
  <2> QED
    BY <1>14, <2>1, <2>2 DEF RefreshTimer, TypeOK, CallTypeOK, HubTypeOK
<1>15. ASSUME NEW b \in Blocks, RefreshTimerFails(b)
       PROVE  TypeOK'
  BY <1>15, DieTypeOK DEF RefreshTimerFails, Fault, TypeOK, CounterTypeOK
<1>16. CASE UNCHANGED vars
  BY <1>16 DEF vars, TypeOK, CallTypeOK, HubTypeOK, ProcessTypeOK, RowTypeOK, CounterTypeOK
<1> QED
  BY <1>1, <1>2, <1>3, <1>4, <1>5, <1>6, <1>7, <1>8, <1>9, <1>10, <1>11, <1>12, <1>13,
     <1>14, <1>15, <1>16 DEF Next, Synch

(* Type correctness of every reachable state of the sync engine. *)
THEOREM TypeCorrect == Spec => []TypeOK
<1>1. Init => TypeOK
  BY InitTypeOK
<1>2. TypeOK /\ [Next]_vars => TypeOK'
  BY NextTypeOK
<1> QED
  BY <1>1, <1>2, PTL DEF Spec

-----------------------------------------------------------------------------
(* The inductive invariant. *)

LEMMA InitIInv == Init => IInv
<1> SUFFICES ASSUME Init PROVE IInv
  OBVIOUS
<1>1. TypeOK
  BY InitTypeOK
<1>2. \A d \in Deliverers : ~Active(d)
  BY DEF Init, Active, InBlock, InTx, InBlk
<1>3. FetchedBelowHeight
  BY DEF Init, FetchedBelowHeight
<1>4. \A b \in Blocks : BlockInv(b)
  BY DEF Init, BlockInv, OneRow, WholeBlock, AnnouncedOnce
<1> QED
  BY <1>1, <1>2, <1>3, <1>4 DEF IInv, KeysDiffer, CallerInv

(* A step that stores and announces nothing and starts no caller on a block keeps IInv:
   the callers that are still inside a block are where they were and hold their keys. *)
LEMMA NothingStored ==
  ASSUME IInv, TypeOK', FetchedBelowHeight', height <= height',
         UNCHANGED <<blockRows, txRows, sent>>,
         \A d \in Deliverers : Active(d)' =>
           /\ pc'[d] = pc[d] /\ blk'[d] = blk[d] /\ idx'[d] = idx[d]
           /\ alive' /\ blk[d] \in blocksInProcess'
  PROVE  IInv'
<1> USE DEF IInv
<1>0. height \in Nat /\ height' \in Nat /\ \A b \in Blocks : b \in Nat
  BY BlockFacts DEF TypeOK, HubTypeOK
<1>1. \A d \in Deliverers : Active(d)' => Active(d)
  BY DEF Active
<1>2. KeysDiffer'
  BY <1>1 DEF KeysDiffer
<1>3. ASSUME NEW d \in Deliverers, Active(d)'
      PROVE  HoldsKey(d)' /\ StoredSoFar(d)' /\ CountStillHolds(d)'
  <2>1. CallerInv(d) /\ Active(d) /\ blk[d] \in Blocks
    BY <1>1, <1>3 DEF TypeOK, CallTypeOK
  <2>2. HoldsKey(d)'
    BY <1>0, <1>3, <2>1 DEF CallerInv, HoldsKey
  <2>3. StoredSoFar(d)'
    BY <1>3, <2>1 DEF CallerInv, StoredSoFar, TxAt
  <2>4. CountStillHolds(d)'
    BY <1>3, <2>1 DEF CallerInv, CountStillHolds, TxAt
  <2> QED
    BY <2>2, <2>3, <2>4
<1>4. ASSUME NEW b \in Blocks
      PROVE  BlockInv(b)'
  <2>1. BlockInv(b)
    OBVIOUS
  <2>2. OneRow(b)' /\ AnnouncedOnce(b)'
    BY <2>1 DEF BlockInv, OneRow, AnnouncedOnce
  <2>3. WholeBlock(b)'
    BY <1>0, <2>1 DEF BlockInv, WholeBlock
  <2> QED
    BY <2>2, <2>3 DEF BlockInv
<1> QED
  BY <1>2, <1>3, <1>4 DEF CallerInv

(* A step of one caller on its block.  What concerns the other callers and the other
   blocks is kept, so IInv' needs only what concerns d and the block b it works on. *)
LEMMA OneCallerMoves ==
  ASSUME IInv, TypeOK', NEW d \in Deliverers, NEW b \in Blocks,
         UNCHANGED <<height, alive>>, FetchedBelowHeight',
         \A e \in Deliverers \ {d} :
           /\ pc'[e] = pc[e] /\ blk'[e] = blk[e] /\ idx'[e] = idx[e]
           /\ Active(e) => blk[e] # b /\ blk[e] \in blocksInProcess',
         \A c \in Blocks \ {b} :
           blockRows'[c] = blockRows[c] /\ txRows'[c] = txRows[c] /\ sent'[c] = sent[c],
         Active(d)' => blk'[d] = b,
         CallerInv(d)', BlockInv(b)'
  PROVE  IInv'
<1> USE DEF IInv
<1>1. ASSUME NEW e \in Deliverers \ {d}, Active(e)'
      PROVE  /\ Active(e) /\ blk[e] # b /\ blk[e] \in Blocks /\ CallerInv(e)
             /\ pc'[e] = pc[e] /\ blk'[e] = blk[e] /\ idx'[e] = idx[e]
             /\ blk[e] \in blocksInProcess'
  BY <1>1 DEF Active, TypeOK, CallTypeOK
<1>2. KeysDiffer'
  BY <1>1 DEF KeysDiffer
<1>3. ASSUME NEW e \in Deliverers \ {d}, Active(e)'
      PROVE  HoldsKey(e)' /\ StoredSoFar(e)' /\ CountStillHolds(e)'
  <2>1. HoldsKey(e)'
    BY <1>1, <1>3 DEF CallerInv, HoldsKey
  <2>2. StoredSoFar(e)'
    BY <1>1, <1>3, SMTT(20) DEF CallerInv, StoredSoFar, TxAt
  <2>3. CountStillHolds(e)'
    BY <1>1, <1>3 DEF CallerInv, CountStillHolds, TxAt
  <2> QED
    BY <2>1, <2>2, <2>3
<1>4. ASSUME NEW c \in Blocks \ {b}
      PROVE  BlockInv(c)'
  BY DEF BlockInv, OneRow, WholeBlock, AnnouncedOnce
<1> QED
  BY <1>2, <1>3, <1>4 DEF CallerInv

(* What is known of a caller inside a block, and of the block it is in. *)
LEMMA InsideBlock ==
  ASSUME IInv, NEW d \in Deliverers, Active(d)
  PROVE  /\ blk[d] \in Blocks
         /\ idx[d] \in Nat \ {0}
         /\ Len(TxsOf[blk[d]]) \in Nat \ {0}
         /\ idx[d] <= Len(TxsOf[blk[d]])
         /\ TxAt(d) \in Txs
         /\ TxSet(blk[d]) \subseteq Txs
         /\ HoldsKey(d) /\ StoredSoFar(d) /\ CountStillHolds(d)
         /\ BlockInv(blk[d])
         /\ blockRows[blk[d]] \in Nat /\ sent[blk[d]] \in Nat
         /\ \A x \in Txs : txRows[blk[d]][x] \in Nat
<1>1. blk[d] \in Blocks /\ idx[d] \in Nat \ {0}
  BY DEF IInv, TypeOK, CallTypeOK
<1>2. HoldsKey(d) /\ StoredSoFar(d) /\ CountStillHolds(d) /\ BlockInv(blk[d])
  BY <1>1 DEF IInv, CallerInv
<1>3. idx[d] <= Len(TxsOf[blk[d]])
  BY <1>2 DEF StoredSoFar
<1>4. TxAt(d) \in Txs /\ TxSet(blk[d]) \subseteq Txs
  <2>1. /\ Len(TxsOf[blk[d]]) \in Nat
        /\ \A i \in 1 .. Len(TxsOf[blk[d]]) : TxsOf[blk[d]][i] \in Txs
    BY <1>1, BlockFacts
  <2>2. idx[d] \in 1 .. Len(TxsOf[blk[d]])
    BY <1>1, <1>3, <2>1
  <2>3. TxAt(d) \in Txs
    BY <2>1, <2>2 DEF TxAt
  <2>4. TxSet(blk[d]) \subseteq Txs
    BY <2>1 DEF TxSet
  <2> QED
    BY <2>3, <2>4
<1>5. /\ blockRows[blk[d]] \in Nat /\ sent[blk[d]] \in Nat
      /\ \A x \in Txs : txRows[blk[d]][x] \in Nat
  BY <1>1 DEF IInv, TypeOK, RowTypeOK
<1> QED
  BY <1>1, <1>2, <1>3, <1>4, <1>5, BlockFacts

(* The next turn of the loop, once the transaction d is at is stored. *)
LEMMA NextTxKeeps ==
  ASSUME IInv, NEW d \in Deliverers, pc[d] \in InTx, NextTx(d),
         UNCHANGED <<height, alive, blocksInProcess, blockRows, txRows, sent>>,
         txRows[blk[d]][TxAt(d)] = 1
  PROVE  blk'[d] = blk[d] /\ CallerInv(d)'
<1>1. Active(d)
  BY DEF Active, InBlock
<1>2. blk'[d] = blk[d] /\ HoldsKey(d)'
  BY <1>1, InsideBlock DEF NextTx, HoldsKey
<1>3. \A i \in 1 .. idx[d] : txRows[blk[d]][TxsOf[blk[d]][i]] = 1
  BY <1>1, InsideBlock DEF StoredSoFar, TxAt
<1>4. CASE idx[d] < Len(TxsOf[blk[d]])
  <2>1. pc'[d] = "txCount" /\ idx'[d] = idx[d] + 1
    BY <1>1, <1>4, InsideBlock DEF NextTx, IInv, TypeOK, CallTypeOK
  <2>2. StoredSoFar(d)'
    BY <1>1, <1>2, <1>3, <1>4, <2>1, InsideBlock DEF StoredSoFar, InTx
  <2>3. CountStillHolds(d)'
    BY <2>1 DEF CountStillHolds
  <2> QED
    BY <1>2, <2>2, <2>3 DEF CallerInv
<1>5. CASE idx[d] >= Len(TxsOf[blk[d]])
  <2>1. pc'[d] = "blkCount" /\ idx'[d] = idx[d]
    BY <1>1, <1>5, InsideBlock DEF NextTx, IInv, TypeOK, CallTypeOK
  <2>2. \A x \in TxSet(blk[d]) : txRows[blk[d]][x] = 1
    BY <1>1, <1>3, <1>5, InsideBlock DEF TxSet
  <2>3. StoredSoFar(d)'
    BY <1>1, <1>2, <2>1, <2>2, InsideBlock DEF StoredSoFar, InTx
  <2>4. CountStillHolds(d)'
    BY <2>1 DEF CountStillHolds
  <2> QED
    BY <1>2, <2>3, <2>4 DEF CallerInv
<1> QED
  BY <1>1, <1>4, <1>5, InsideBlock

LEMMA ProcessBlockIInv ==
  ASSUME IInv, TypeOK', NEW d \in Deliverers, ProcessBlock(d)
  PROVE  IInv'
<1> USE DEF procVars, hubVars, keyVars, rowVars, chanVars, ccVars, outVars, budget
<1>1. Active(d) /\ alive
  BY DEF ProcessBlock, TxCount, TxInsert, TxChaincode, TxChannel, BlkCount, BlkInsert,
         BlkChannel, Notify, At, Active, InBlock, InTx, InBlk
<1>b. PICK b \in Blocks : b = blk[d]
  BY <1>1, InsideBlock
<1> USE <1>b
<1>2. /\ UNCHANGED <<height, alive>>
      /\ FetchedBelowHeight'
      /\ \A e \in Deliverers \ {d} : pc'[e] = pc[e] /\ blk'[e] = blk[e] /\ idx'[e] = idx[e]
  <2>1. UNCHANGED <<height, alive, missing>>
    BY DEF ProcessBlock, TxCount, TxInsert, TxChaincode, TxChannel, BlkCount, BlkInsert,
           BlkChannel, Notify
  <2>2. Goto(d, "txInsert") \/ Goto(d, "txChaincode") \/ Goto(d, "txChannel") \/
        Goto(d, "blkInsert") \/ Goto(d, "blkChannel") \/ Goto(d, "notify") \/ NextTx(d) \/
        Return(d)
    BY DEF ProcessBlock, TxCount, TxInsert, TxChaincode, TxChannel, BlkCount, BlkInsert,
           BlkChannel, Notify, Finish
  <2>3. \A e \in Deliverers \ {d} : pc'[e] = pc[e] /\ blk'[e] = blk[e] /\ idx'[e] = idx[e]
    BY <2>2 DEF Goto, NextTx, Return, IInv, TypeOK, CallTypeOK
  <2> QED
    BY <2>1, <2>3 DEF IInv, FetchedBelowHeight
<1>3. \A e \in Deliverers \ {d} : Active(e) => blk[e] # b /\ blk[e] \in blocksInProcess'
  <2>1. blocksInProcess' = blocksInProcess \/ blocksInProcess' = blocksInProcess \ {b}
    BY DEF ProcessBlock, TxCount, TxInsert, TxChaincode, TxChannel, BlkCount, BlkInsert,
           BlkChannel, Notify, Finish
  <2>2. \A e \in Deliverers \ {d} : Active(e) => blk[e] # b /\ blk[e] \in blocksInProcess
    BY <1>1 DEF IInv, KeysDiffer, CallerInv, HoldsKey
  <2> QED
    BY <2>1, <2>2
<1>4. \A c \in Blocks \ {b} :
        blockRows'[c] = blockRows[c] /\ txRows'[c] = txRows[c] /\ sent'[c] = sent[c]
  BY DEF ProcessBlock, TxCount, TxInsert, TxChaincode, TxChannel, BlkCount, BlkInsert,
         BlkChannel, Notify, IInv, TypeOK, RowTypeOK
<1>5. SUFFICES (Active(d)' => blk'[d] = b) /\ CallerInv(d)' /\ BlockInv(b)'
  BY <1>1, <1>2, <1>3, <1>4, InsideBlock, OneCallerMoves
<1>6. CASE TxCount(d)
  <2>1. UNCHANGED <<blocksInProcess, blockRows, txRows, sent>>
    BY <1>6 DEF TxCount
  <2>2. BlockInv(b)'
    BY <1>1, <1>2, <2>1, InsideBlock DEF BlockInv, OneRow, WholeBlock, AnnouncedOnce
  <2>3. CASE txRows[b][TxAt(d)] = 0 /\ Goto(d, "txInsert")
    <3>1. pc'[d] = "txInsert" /\ blk'[d] = b /\ idx'[d] = idx[d]
      BY <2>3 DEF Goto, IInv, TypeOK, CallTypeOK
    <3>2. HoldsKey(d)'
      BY <1>1, <1>2, <2>1, <3>1, InsideBlock DEF HoldsKey
    <3>3. StoredSoFar(d)'
      BY <1>1, <1>6, <2>1, <3>1, InsideBlock DEF StoredSoFar, InTx, TxCount, At
    <3>4. CountStillHolds(d)'
      BY <2>1, <2>3, <3>1 DEF CountStillHolds, TxAt
    <3> QED
      BY <2>2, <3>1, <3>2, <3>3, <3>4 DEF CallerInv
  <2>4. CASE txRows[b][TxAt(d)] # 0 /\ NextTx(d)
    <3>1. txRows[b][TxAt(d)] = 1
      BY <1>1, <2>4, InsideBlock DEF BlockInv, OneRow
    <3>2. pc[d] \in InTx
      BY <1>6 DEF TxCount, At, InTx
    <3> QED
      BY <1>2, <2>1, <2>2, <2>4, <3>1, <3>2, NextTxKeeps
  <2> QED
    BY <1>6, <2>3, <2>4 DEF TxCount
<1>7. CASE TxInsert(d)
  <2>1. /\ UNCHANGED <<blocksInProcess, blockRows, sent>>
        /\ pc[d] = "txInsert" /\ pc'[d] = "txChaincode" /\ blk'[d] = b /\ idx'[d] = idx[d]
    BY <1>7 DEF TxInsert, At, Goto, IInv, TypeOK, CallTypeOK
  <2>2. txRows[b][TxAt(d)] = 0
    BY <1>1, <2>1, InsideBlock DEF CountStillHolds
  <2>3. /\ txRows'[b][TxAt(d)] = 1
        /\ \A x \in Txs \ {TxAt(d)} : txRows'[b][x] = txRows[b][x]
    BY <1>1, <1>7, <2>2, InsideBlock DEF TxInsert, IInv, TypeOK, RowTypeOK
  <2>4. \A x \in Txs : txRows[b][x] = 1 => txRows'[b][x] = 1
    BY <2>2, <2>3
  <2>5. HoldsKey(d)'
    BY <1>1, <1>2, <2>1, InsideBlock DEF HoldsKey
  <2>6. StoredSoFar(d)'
    <3>1. \A i \in 1 .. idx[d] - 1 : TxsOf[b][i] \in Txs /\ txRows[b][TxsOf[b][i]] = 1
      <4>1. 1 .. idx[d] - 1 \subseteq 1 .. Len(TxsOf[b])
        BY <1>1, InsideBlock
      <4> QED
        BY <1>1, <2>1, <4>1, InsideBlock, BlockFacts DEF StoredSoFar, InTx
    <3> QED
      BY <1>1, <2>1, <2>3, <2>4, <3>1, InsideBlock DEF StoredSoFar, InTx, TxAt
  <2>7. CountStillHolds(d)'
    BY <2>1 DEF CountStillHolds
  <2>8. BlockInv(b)'
    <3>1. OneRow(b)'
      BY <1>1, <2>1, <2>3, InsideBlock DEF BlockInv, OneRow
    <3>2. WholeBlock(b)'
      BY <1>1, <1>2, <2>1, <2>4, InsideBlock DEF BlockInv, WholeBlock
    <3>3. AnnouncedOnce(b)'
      BY <1>1, <2>1, InsideBlock DEF BlockInv, AnnouncedOnce
    <3> QED
      BY <3>1, <3>2, <3>3 DEF BlockInv
  <2> QED
    BY <2>1, <2>5, <2>6, <2>7, <2>8 DEF CallerInv
<1>8. CASE TxChaincode(d) \/ BlkChannel(d)
  <2>1. /\ UNCHANGED <<blocksInProcess, blockRows, txRows, sent>>
        /\ \/ pc[d] = "txChaincode" /\ pc'[d] = "txChannel"
           \/ pc[d] = "blkChannel" /\ pc'[d] = "notify"
        /\ blk'[d] = b /\ idx'[d] = idx[d]
    BY <1>8 DEF TxChaincode, BlkChannel, At, Goto, IInv, TypeOK, CallTypeOK
  <2>2. HoldsKey(d)'
    BY <1>1, <1>2, <2>1, InsideBlock DEF HoldsKey
  <2>3. StoredSoFar(d)'
    <3>0. StoredSoFar(d)
      BY <1>1, InsideBlock
    <3>1. CASE pc[d] = "txChaincode" /\ pc'[d] = "txChannel"
      BY <2>1, <3>0, <3>1 DEF StoredSoFar, InTx, TxAt
    <3>2. CASE pc[d] = "blkChannel" /\ pc'[d] = "notify"
      BY <2>1, <3>0, <3>2 DEF StoredSoFar, InTx
    <3> QED
      BY <2>1, <3>1, <3>2
  <2>4. CountStillHolds(d)'
    BY <1>1, <2>1, InsideBlock DEF CountStillHolds
  <2>5. BlockInv(b)'
    BY <1>1, <1>2, <2>1, InsideBlock DEF BlockInv, OneRow, WholeBlock, AnnouncedOnce
  <2> QED
    BY <2>1, <2>2, <2>3, <2>4, <2>5 DEF CallerInv
<1>9. CASE TxChannel(d)
  <2>1. UNCHANGED <<blocksInProcess, blockRows, txRows, sent>> /\ NextTx(d)
    BY <1>9 DEF TxChannel
  <2>2. txRows[b][TxAt(d)] = 1 /\ pc[d] \in InTx
    BY <1>1, <1>9, InsideBlock DEF TxChannel, At, StoredSoFar, InTx
  <2>3. BlockInv(b)'
    BY <1>1, <1>2, <2>1, InsideBlock DEF BlockInv, OneRow, WholeBlock, AnnouncedOnce
  <2> QED
    BY <1>2, <2>1, <2>2, <2>3, NextTxKeeps
<1>10. CASE BlkCount(d)
  <2>1. UNCHANGED <<blockRows, txRows, sent>> /\ pc[d] = "blkCount"
    BY <1>10 DEF BlkCount, At
  <2>2. BlockInv(b)'
    BY <1>1, <1>2, <2>1, InsideBlock DEF BlockInv, OneRow, WholeBlock, AnnouncedOnce
  <2>3. CASE blockRows[b] = 0 /\ Goto(d, "blkInsert") /\ UNCHANGED blocksInProcess
    <3>1. pc'[d] = "blkInsert" /\ blk'[d] = b /\ idx'[d] = idx[d]
      BY <2>3 DEF Goto, IInv, TypeOK, CallTypeOK
    <3>2. HoldsKey(d)'
      BY <1>1, <1>2, <2>3, <3>1, InsideBlock DEF HoldsKey
    <3>3. StoredSoFar(d)'
      BY <1>1, <2>1, <3>1, InsideBlock DEF StoredSoFar, InTx
    <3>4. CountStillHolds(d)'
      BY <2>1, <2>3, <3>1 DEF CountStillHolds
    <3> QED
      BY <2>2, <3>1, <3>2, <3>3, <3>4 DEF CallerInv
  <2>4. CASE Finish(d)
    <3>1. ~Active(d)'
      BY <2>4 DEF Finish, Return, IInv, TypeOK, CallTypeOK, Active, InBlock, InTx, InBlk
    <3> QED
      BY <2>2, <3>1 DEF CallerInv
  <2> QED
    BY <1>10, <2>3, <2>4 DEF BlkCount
<1>11. CASE BlkInsert(d)
  <2>1. /\ UNCHANGED <<blocksInProcess, txRows, sent>>
        /\ pc[d] = "blkInsert" /\ pc'[d] = "blkChannel" /\ blk'[d] = b /\ idx'[d] = idx[d]
    BY <1>11 DEF BlkInsert, At, Goto, IInv, TypeOK, CallTypeOK
  <2>2. blockRows[b] = 0 /\ sent[b] = 0
    BY <1>1, <2>1, InsideBlock DEF CountStillHolds, BlockInv, AnnouncedOnce
  <2>3. blockRows'[b] = 1
    BY <1>1, <1>11, <2>2, InsideBlock DEF BlkInsert, IInv, TypeOK, RowTypeOK
  <2>4. HoldsKey(d)'
    BY <1>1, <1>2, <2>1, InsideBlock DEF HoldsKey
  <2>5. StoredSoFar(d)'
    BY <1>1, <2>1, InsideBlock DEF StoredSoFar, InTx
  <2>6. CountStillHolds(d)'
    BY <2>1, <2>2, <2>3 DEF CountStillHolds
  <2>7. b < height /\ \A x \in TxSet(b) : txRows[b][x] = 1
    BY <1>1, <2>1, InsideBlock DEF HoldsKey, StoredSoFar, InTx
  <2>8. BlockInv(b)'
    BY <1>1, <1>2, <2>1, <2>2, <2>3, <2>7, InsideBlock
       DEF BlockInv, OneRow, WholeBlock, AnnouncedOnce
  <2> QED
    BY <2>1, <2>4, <2>5, <2>6, <2>8 DEF CallerInv
<1>12. CASE Notify(d)
  <2>1. UNCHANGED <<blockRows, txRows>> /\ pc[d] = "notify" /\ Finish(d)
    BY <1>12 DEF Notify, At
  <2>2. ~Active(d)'
    BY <2>1 DEF Finish, Return, IInv, TypeOK, CallTypeOK, Active, InBlock, InTx, InBlk
  <2>3. blockRows[b] = 1 /\ sent[b] = 0
    BY <1>1, <2>1, InsideBlock DEF CountStillHolds
  <2>4. sent'[b] = 1
    BY <1>1, <1>12, <2>3, InsideBlock DEF Notify, IInv, TypeOK, RowTypeOK
  <2>5. BlockInv(b)'
    BY <1>1, <1>2, <2>1, <2>3, <2>4, InsideBlock
       DEF BlockInv, OneRow, WholeBlock, AnnouncedOnce
  <2> QED
    BY <2>2, <2>5 DEF CallerInv
<1> QED
  BY <1>6, <1>7, <1>8, <1>9, <1>10, <1>11, <1>12 DEF ProcessBlock

(* The start of processBlockEvent: the guard on blocksInProcess keeps the callers apart. *)
LEMMA BeginIInv ==
  ASSUME IInv, TypeOK', NEW d \in Deliverers, NEW b \in Blocks, b < height, alive,
         ~Active(d), Begin(d, b), UNCHANGED <<height, alive, blockRows, txRows, sent>>,
         FetchedBelowHeight'
  PROVE  IInv'
<1>1. /\ pc'[d] = "txCount" /\ blk'[d] = b /\ idx'[d] = 1
      /\ \A e \in Deliverers \ {d} : pc'[e] = pc[e] /\ blk'[e] = blk[e] /\ idx'[e] = idx[e]
  BY DEF Begin, BeginUnguarded, IInv, TypeOK, CallTypeOK
<1>2. \A e \in Deliverers \ {d} : Active(e) => blk[e] # b /\ blk[e] \in blocksInProcess'
  BY DEF Begin, BeginUnguarded, IInv, CallerInv, HoldsKey
<1>3. CallerInv(d)'
  <2>1. HoldsKey(d)'
    BY <1>1 DEF HoldsKey, Begin, BeginUnguarded
  <2>2. StoredSoFar(d)'
    BY <1>1, BlockFacts DEF StoredSoFar, InTx
  <2>3. CountStillHolds(d)'
    BY <1>1 DEF CountStillHolds
  <2> QED
    BY <2>1, <2>2, <2>3 DEF CallerInv
<1>4. BlockInv(b)'
  <2>1. BlockInv(b)
    BY DEF IInv
  <2> QED
    BY <2>1 DEF BlockInv, OneRow, WholeBlock, AnnouncedOnce
<1> QED
  BY <1>1, <1>2, <1>3, <1>4, OneCallerMoves

LEMMA DieIInv ==
  ASSUME IInv, TypeOK', Die
  PROVE  IInv'
<1>1. \A d \in Deliverers : ~Active(d)'
  BY DEF Die, Active, InBlock, InTx, InBlk
<1>2. FetchedBelowHeight'
  BY DEF Die, FetchedBelowHeight
<1>3. UNCHANGED <<height, blockRows, txRows, sent>>
  BY DEF Die, rowVars, outVars
<1>4. height <= height'
  BY <1>3 DEF IInv, TypeOK, HubTypeOK
<1> QED
  BY <1>1, <1>2, <1>3, <1>4, NothingStored

LEMMA NextIInv == IInv /\ [Next]_vars => IInv'
<1> SUFFICES ASSUME IInv, [Next]_vars
             PROVE  IInv'
  OBVIOUS
<1> USE DEF procVars, hubVars, callVars, keyVars, rowVars, chanVars, ccVars, outVars, budget
<1>t. TypeOK' /\ TypeOK
  BY NextTypeOK DEF IInv
<1>h. height \in Nat /\ height' \in Nat
  BY <1>t, BlockFacts DEF TypeOK, HubTypeOK
<1>a. ASSUME NEW d \in Deliverers, Active(d)
      PROVE  alive /\ blk[d] \in blocksInProcess
  BY <1>a DEF IInv, CallerInv, HoldsKey
<1>f. FetchedBelowHeight
  BY DEF IInv
<1>1. CASE UNCHANGED <<height, alive, missing, callVars, blocksInProcess,
                       blockRows, txRows, sent>>
  <2>1. FetchedBelowHeight' /\ height <= height'
    BY <1>1, <1>f, <1>h DEF FetchedBelowHeight
  <2>2. \A d \in Deliverers : Active(d)' = Active(d)
    BY <1>1 DEF Active
  <2> QED
    BY <1>1, <1>t, <1>a, <2>1, <2>2, NothingStored
<1>2. CASE Commit
  <2>1. FetchedBelowHeight' /\ height <= height'
    <3>1. missing' = missing /\ height' = height + 1
      BY <1>2 DEF Commit
    <3>2. \A t \in Ticks : \A b \in missing[t] : b \in Nat
      BY <1>t, BlockFacts DEF TypeOK, HubTypeOK
    <3> QED
      BY <1>h, <1>f, <3>1, <3>2 DEF FetchedBelowHeight
  <2>2. UNCHANGED <<alive, callVars, blocksInProcess, blockRows, txRows, sent>>
    BY <1>2 DEF Commit
  <2>3. \A d \in Deliverers : Active(d)' = Active(d)
    BY <2>2 DEF Active
  <2> QED
    BY <1>t, <1>a, <2>1, <2>2, <2>3, NothingStored
<1>3. ASSUME NEW joined \in BOOLEAN, Boot(joined)
      PROVE  IInv'
  <2>1. UNCHANGED <<height, missing, callVars, blocksInProcess, blockRows, txRows, sent>>
    BY <1>3 DEF Boot
  <2>2. FetchedBelowHeight' /\ height <= height'
    BY <1>f, <1>h, <2>1 DEF FetchedBelowHeight
  <2>3. \A d \in Deliverers : ~Active(d)'
    BY <1>3, <1>a, <2>1 DEF Boot, Active
  <2> QED
    BY <1>t, <2>1, <2>2, <2>3, NothingStored
<1>4. CASE Die
  BY <1>4, <1>t, DieIInv
<1>5. ASSUME NEW d \in Deliverers, ProcessBlock(d)
      PROVE  IInv'
  BY <1>5, <1>t, ProcessBlockIInv
<1>6. ASSUME NEW d \in Deliverers, DbError(d)
      PROVE  IInv'
  <2>1. CASE ~Die
    <3>1. /\ Return(d) /\ d \in Listeners
          /\ UNCHANGED <<height, alive, missing, blocksInProcess, blockRows, txRows, sent>>
      BY <1>6, <2>1 DEF DbError
    <3>2. FetchedBelowHeight' /\ height <= height'
      BY <1>f, <1>h, <3>1 DEF FetchedBelowHeight
    <3>3. /\ pc'[d] = "wait"
          /\ \A e \in Deliverers \ {d} :
               pc'[e] = pc[e] /\ blk'[e] = blk[e] /\ idx'[e] = idx[e]
      BY <1>t, <3>1 DEF Return, TypeOK, CallTypeOK
    <3>4. ~Active(d)' /\ \A e \in Deliverers \ {d} : Active(e)' = Active(e)
      BY <3>3 DEF Active, InBlock, InTx, InBlk
    <3> QED
      BY <1>t, <1>a, <3>1, <3>2, <3>3, <3>4, NothingStored
  <2> QED
    BY <1>4, <2>1
<1>7. ASSUME NEW l \in Listeners, Deliver(l)
      PROVE  IInv'
  <2>1. CASE Begin(l, next[l])
    <3>1. l \in Deliverers /\ next[l] \in Blocks /\ next[l] < height /\ alive /\ ~Active(l)
      BY <1>7, <1>t, BlockFacts
         DEF Deliver, At, Active, InBlock, InTx, InBlk, Deliverers, Blocks, TypeOK, HubTypeOK
    <3>2. UNCHANGED <<height, alive, missing, blockRows, txRows, sent>>
      BY <1>7 DEF Deliver
    <3>3. FetchedBelowHeight'
      BY <1>f, <3>2 DEF FetchedBelowHeight
    <3> QED
      BY <1>t, <2>1, <3>1, <3>2, <3>3, BeginIInv
  <2> QED
    BY <1>1, <1>7, <2>1 DEF Deliver
<1>8. ASSUME NEW t \in Ticks, Tick(t) \/ ChainInfo(t) \/ FindMissing(t) \/ SynchDone(t)
      PROVE  IInv'
  <2>1. /\ t \in Deliverers /\ ~Active(t)
        /\ \E label \in {"wait", "info", "missing", "fetch"} : Goto(t, label)
    BY <1>8 DEF Tick, ChainInfo, FindMissing, SynchDone, At, Active, InBlock, InTx, InBlk,
                Deliverers
  <2>2. UNCHANGED <<height, alive, blocksInProcess, blockRows, txRows, sent>>
    BY <1>8 DEF Tick, ChainInfo, FindMissing, SynchDone
  <2>3. ~Active(t)'
    BY <1>t, <2>1 DEF Goto, Active, InBlock, InTx, InBlk, TypeOK, CallTypeOK
  <2>4. \A e \in Deliverers \ {t} : pc'[e] = pc[e] /\ blk'[e] = blk[e] /\ idx'[e] = idx[e]
    BY <1>t, <2>1 DEF Goto, TypeOK, CallTypeOK
  <2>5. \A e \in Deliverers \ {t} : Active(e)' = Active(e)
    BY <2>4 DEF Active
  <2>6. FetchedBelowHeight'
    <3>1. \A s \in Ticks : \A b \in missing'[s] : b \in missing[s] \/ b \in 0 .. height - 1
      BY <1>8, <1>t DEF Tick, ChainInfo, FindMissing, SynchDone, TypeOK, HubTypeOK
    <3> QED
      BY <1>f, <1>h, <2>2, <3>1 DEF FetchedBelowHeight
  <2>7. height <= height'
    BY <1>h, <2>2
  <2> QED
    BY <1>t, <1>a, <2>2, <2>3, <2>4, <2>5, <2>6, <2>7, NothingStored
<1>9. ASSUME NEW t \in Ticks, Fetch(t)
      PROVE  IInv'
  <2>1. PICK b \in missing[t] :
          /\ missing' = [missing EXCEPT ![t] = @ \ {b}]
          /\ \/ Begin(t, b)
             \/ b \in blocksInProcess /\ UNCHANGED <<callVars, blocksInProcess, timers>>
    BY <1>9 DEF Fetch
  <2>2. /\ t \in Deliverers /\ b \in Blocks /\ b < height /\ alive /\ ~Active(t)
    BY <1>9, <1>t, <1>f
       DEF Fetch, At, Active, InBlock, InTx, InBlk, Deliverers, TypeOK, HubTypeOK,
           FetchedBelowHeight
  <2>3. UNCHANGED <<height, alive, blockRows, txRows, sent>>
    BY <1>9 DEF Fetch
  <2>4. FetchedBelowHeight' /\ height <= height'
    BY <1>t, <1>f, <1>h, <2>1, <2>3 DEF FetchedBelowHeight, TypeOK, HubTypeOK
  <2>5. CASE Begin(t, b)
    BY <1>t, <2>2, <2>3, <2>4, <2>5, BeginIInv
  <2>6. CASE UNCHANGED <<callVars, blocksInProcess, timers>>
    <3>1. \A d \in Deliverers : Active(d)' = Active(d)
      BY <2>6 DEF Active
    <3> QED
      BY <1>t, <1>a, <2>3, <2>4, <2>6, <3>1, NothingStored
  <2> QED
    BY <2>1, <2>5, <2>6
<1>10. ASSUME NEW t \in Ticks, FetchFails(t)
       PROVE  IInv'
  <2>1. UNCHANGED <<height, alive, callVars, blocksInProcess, blockRows, txRows, sent>>
    BY <1>10 DEF FetchFails
  <2>2. FetchedBelowHeight' /\ height <= height'
    BY <1>10, <1>t, <1>f, <1>h, <2>1 DEF FetchFails, FetchedBelowHeight, TypeOK, HubTypeOK
  <2>3. \A d \in Deliverers : Active(d)' = Active(d)
    BY <2>1 DEF Active
  <2> QED
    BY <1>t, <1>a, <2>1, <2>2, <2>3, NothingStored
<1>11. CASE InitializeNewChannel \/ InsertNewChannel \/ InsertNewChaincode
  BY <1>1, <1>11 DEF InitializeNewChannel, InsertNewChannel, InsertNewChaincode
<1>12. ASSUME NEW l \in Listeners, Attach(l)
       PROVE  IInv'
  BY <1>1, <1>12 DEF Attach
<1>13. ASSUME NEW b \in Blocks, RefreshTimer(b)
       PROVE  IInv'
  BY <1>1, <1>13 DEF RefreshTimer
<1>14. CASE UNCHANGED vars
  BY <1>1, <1>14 DEF vars
<1> QED
  BY <1>2, <1>3, <1>4, <1>5, <1>6, <1>7, <1>8, <1>9, <1>10, <1>11, <1>12, <1>13, <1>14
     DEF Next, Synch, Crash, ChainInfoFails, RefreshTimerFails

LEMMA InductiveInvariant == Spec => []IInv
<1>1. Init => IInv
  BY InitIInv
<1>2. IInv /\ [Next]_vars => IInv'
  BY NextIInv
<1> QED
  BY <1>1, <1>2, PTL DEF Spec

(* However often and by whomever a block is delivered, across any number of crashes and
   failing statements, no block and no transaction of it gets a second row. *)
THEOREM NoDuplicates == Spec => []NoDuplicateRows
<1>1. IInv => NoDuplicateRows
  BY DEF IInv, BlockInv, NoDuplicateRows
<1> QED
  BY <1>1, InductiveInvariant, PTL

(* A block row is never there without the rows of all transactions of the block, so
   that what findMissingBlockNumber does not report is really complete. *)
THEOREM BlocksAreWhole == Spec => []BlockRowImpliesTransactions
<1>1. IInv => BlockRowImpliesTransactions
  BY DEF IInv, BlockInv, BlockRowImpliesTransactions
<1> QED
  BY <1>1, InductiveInvariant, PTL

(* Each block is announced to the parent process at most once, and once it is stored. *)
THEOREM AnnouncementsAreSound == Spec => []AnnouncedOnceAndStored
<1>1. IInv => AnnouncedOnceAndStored
  BY DEF IInv, BlockInv, AnnouncedOnceAndStored
<1> QED
  BY <1>1, InductiveInvariant, PTL

-----------------------------------------------------------------------------
(* The sync engine implements LedgerMirror. *)

(* IInv does not say that the rows of a block belong to it, and the refinement needs it:
   a mirrored block has the transactions of the ledger's block and no others. *)
OwnTransactions == \A b \in Blocks : \A x \in Txs : txRows[b][x] > 0 => x \in TxSet(b)

RefinementInv == IInv /\ OwnTransactions

(* Only TxInsert touches table transactions, and only for a transaction of its block. *)
LEMMA OnlyTxInsertAddsTxRows ==
  ASSUME IInv, [Next]_vars
  PROVE  \/ UNCHANGED txRows
         \/ \E d \in Deliverers : TxInsert(d)
<1> USE DEF vars, rowVars
<1>1. CASE Die
  BY <1>1 DEF Die
<1> QED
  BY <1>1 DEF Next, Commit, Crash, Boot, InitializeNewChannel, InsertNewChannel,
     InsertNewChaincode, ProcessBlock, TxCount, TxChaincode, TxChannel, BlkCount, BlkInsert,
     BlkChannel, Notify, DbError, Attach, Deliver, Tick, Synch, ChainInfo, ChainInfoFails,
     FindMissing, Fetch, FetchFails, SynchDone, RefreshTimer, RefreshTimerFails

(* What is known of a caller that is about to insert the row of a transaction. *)
LEMMA AtTxInsert ==
  ASSUME IInv, NEW d \in Deliverers, TxInsert(d)
  PROVE  /\ blk[d] \in Blocks
         /\ TxAt(d) \in TxSet(blk[d])
         /\ TxAt(d) \in Txs
         /\ blockRows[blk[d]] = 0
<1>1. TypeOK /\ CallerInv(d) /\ blk[d] \in Blocks /\ BlockInv(blk[d])
  BY DEF IInv, TypeOK, CallTypeOK
<1>2. Active(d) /\ pc[d] = "txInsert"
  BY DEF TxInsert, At, Active, InBlock, InTx
<1>3. idx[d] \in 1 .. Len(TxsOf[blk[d]])
  BY <1>1, <1>2, BlockFacts DEF CallerInv, StoredSoFar, TypeOK, CallTypeOK
<1>4. TxAt(d) \in TxSet(blk[d]) /\ TxAt(d) \in Txs
  BY <1>1, <1>3, BlockFacts DEF TxAt, TxSet
<1>5. txRows[blk[d]][TxAt(d)] = 0
  BY <1>1, <1>2 DEF CallerInv, CountStillHolds
<1>6. blockRows[blk[d]] \in Nat
  BY <1>1 DEF TypeOK, RowTypeOK
<1>7. ~(blockRows[blk[d]] > 0)
  BY <1>1, <1>4, <1>5 DEF BlockInv, WholeBlock
<1> QED
  BY <1>1, <1>4, <1>6, <1>7

LEMMA InsertedRow ==
  ASSUME IInv, NEW d \in Deliverers, TxInsert(d)
  PROVE  \A b \in Blocks : \A x \in Txs :
           txRows'[b][x] = IF b = blk[d] /\ x = TxAt(d) THEN txRows[b][x] + 1
                                                       ELSE txRows[b][x]
<1>1. txRows \in [Blocks -> [Txs -> Nat]]
  BY DEF IInv, TypeOK, RowTypeOK
<1>2. txRows' = [txRows EXCEPT ![blk[d]][TxAt(d)] = @ + 1]
  BY DEF TxInsert
<1> QED
  BY <1>1, <1>2, AtTxInsert

LEMMA OwnTransactionsKept == RefinementInv /\ [Next]_vars => OwnTransactions'
<1> SUFFICES ASSUME RefinementInv, [Next]_vars
             PROVE  OwnTransactions'
  OBVIOUS
<1>1. CASE UNCHANGED txRows
  BY <1>1 DEF RefinementInv, OwnTransactions, TxSet
<1>2. ASSUME NEW d \in Deliverers, TxInsert(d)
      PROVE  OwnTransactions'
  <2>1. ASSUME NEW b \in Blocks, NEW x \in Txs, txRows'[b][x] > 0
        PROVE  x \in TxSet(b)
    <3>1. CASE b = blk[d] /\ x = TxAt(d)
      BY <1>2, <3>1, AtTxInsert DEF RefinementInv
    <3>2. CASE ~(b = blk[d] /\ x = TxAt(d))
      BY <1>2, <2>1, <3>2, InsertedRow DEF RefinementInv, OwnTransactions
    <3> QED
      BY <3>1, <3>2
  <2> QED
    BY <2>1 DEF OwnTransactions, TxSet
<1> QED
  BY <1>1, <1>2, OnlyTxInsertAddsTxRows DEF RefinementInv

LEMMA RefinementInvariant == Spec => []RefinementInv
<1>1. Init => RefinementInv
  BY InitIInv DEF RefinementInv, OwnTransactions, Init
<1>2. RefinementInv /\ [Next]_vars => RefinementInv'
  BY NextIInv, OwnTransactionsKept DEF RefinementInv
<1> QED
  BY <1>1, <1>2, PTL DEF Spec

-----------------------------------------------------------------------------
(* The mapping. *)

Visible(b) == <<b, {x \in Txs : txRows[b][x] > 0}>>
Mirrored == {Visible(b) : b \in StoredBlocks}

(* A step that leaves the tables and the notifications alone maps to a stutter, or to the
   ledger's Commit. *)
LEMMA SilentStep ==
  ASSUME UNCHANGED <<height, blockRows, txRows, sent>>
  PROVE  UNCHANGED Mirror!vars
BY DEF Mirror!vars, StoredBlocks

LEMMA StepImplements == RefinementInv /\ [Next]_vars => [Mirror!Next]_(Mirror!vars)
<1> SUFFICES ASSUME RefinementInv, [Next]_vars
             PROVE  [Mirror!Next]_(Mirror!vars)
  OBVIOUS
<1> USE DEF procVars, hubVars, callVars, keyVars, rowVars, chanVars, ccVars, outVars, budget
<1>t. TypeOK /\ IInv /\ OwnTransactions
  BY DEF RefinementInv, IInv
<1>1. CASE Commit
  <2>1. height \in Blocks /\ height' = height + 1
    BY <1>1, <1>t, BlockFacts DEF Commit, Blocks, TypeOK, HubTypeOK
  <2>2. UNCHANGED <<blockRows, txRows, sent>>
    BY <1>1 DEF Commit
  <2>3. Mirror!Commit
    BY <2>1, <2>2 DEF Mirror!Commit, StoredBlocks
  <2> QED
    BY <2>3 DEF Mirror!Next
<1>2. ASSUME NEW d \in Deliverers, TxInsert(d)
      PROVE  UNCHANGED Mirror!vars
  <2>1. UNCHANGED <<height, blockRows, sent>>
    BY <1>2 DEF TxInsert
  <2>2. StoredBlocks' = StoredBlocks
    BY <2>1 DEF StoredBlocks
  <2>3. blk[d] \notin StoredBlocks
    BY <1>t, <1>2, AtTxInsert DEF StoredBlocks
  <2>4. ASSUME NEW b \in StoredBlocks
        PROVE  {x \in Txs : txRows'[b][x] > 0} = {x \in Txs : txRows[b][x] > 0}
    <3>1. b \in Blocks /\ b # blk[d]
      BY <2>3 DEF StoredBlocks
    <3> QED
      BY <1>t, <1>2, <3>1, InsertedRow
  <2> QED
    BY <2>1, <2>2, <2>4 DEF Mirror!vars
<1>3. ASSUME NEW d \in Deliverers, BlkInsert(d)
      PROVE  Mirror!Next
  <2>0. PICK b \in Blocks : b = blk[d]
    BY <1>t DEF TypeOK, CallTypeOK
  <2>1. b \in Blocks /\ CallerInv(d) /\ Active(d) /\ pc[d] = "blkInsert"
    BY <1>3, <1>t DEF IInv, BlkInsert, At, Active, InBlock, InBlk
  <2>2. b < height /\ blockRows[b] = 0 /\ \A x \in TxSet(b) : txRows[b][x] = 1
    BY <2>0, <2>1 DEF CallerInv, HoldsKey, StoredSoFar, CountStillHolds, InTx
  <2>3. TxSet(b) \subseteq Txs
    BY <2>1, BlockFacts DEF TxSet
  <2>4. {x \in Txs : txRows[b][x] > 0} = TxSet(b)
    BY <1>t, <2>1, <2>2, <2>3 DEF OwnTransactions
  <2>5. blockRows' = [blockRows EXCEPT ![b] = @ + 1] /\ UNCHANGED <<height, txRows, sent>>
    BY <1>3, <2>0 DEF BlkInsert
  <2>6. StoredBlocks' = StoredBlocks \cup {b}
    BY <1>t, <2>1, <2>2, <2>5 DEF StoredBlocks, TypeOK, RowTypeOK
  <2>7. b \notin StoredBlocks
    BY <2>2 DEF StoredBlocks
  <2>8. Mirror!Mirror(b)
    BY <2>1, <2>2, <2>4, <2>5, <2>6, <2>7 DEF Mirror!Mirror
  <2> QED
    BY <2>8 DEF Mirror!Next
<1>4. ASSUME NEW d \in Deliverers, Notify(d)
      PROVE  Mirror!Next
  <2>0. PICK b \in Blocks : b = blk[d]
    BY <1>t DEF TypeOK, CallTypeOK
  <2>1. b \in Blocks /\ CallerInv(d) /\ Active(d) /\ pc[d] = "notify"
    BY <1>4, <1>t DEF IInv, Notify, At, Active, InBlock
  <2>2. blockRows[b] = 1 /\ sent[b] = 0
    BY <2>0, <2>1 DEF CallerInv, CountStillHolds
  <2>3. sent' = [sent EXCEPT ![b] = @ + 1] /\ UNCHANGED <<height, blockRows, txRows>>
    BY <1>4, <2>0 DEF Notify
  <2>4. b \in StoredBlocks /\ StoredBlocks' = StoredBlocks
    BY <2>1, <2>2, <2>3 DEF StoredBlocks
  <2>5. {c \in Blocks : sent'[c] > 0} = {c \in Blocks : sent[c] > 0} \cup {b}
    BY <1>t, <2>1, <2>2, <2>3 DEF TypeOK, RowTypeOK
  <2>6. UNCHANGED Mirrored
    BY <2>3, <2>4 DEF Mirrored, Visible
  <2>7. Visible(b) \in Mirrored /\ Visible(b)[1] = b
    BY <2>4 DEF Mirrored, Visible
  <2>8. Mirror!Announce(b)
    <3>1. b \notin {c \in Blocks : sent[c] > 0}
      BY <2>2
    <3>2. \E m \in Mirrored : m[1] = b
      BY <2>7
    <3>3. \E m \in {<<c, {x \in Txs : txRows[c][x] > 0}>> : c \in StoredBlocks} : m[1] = b
      BY <3>2 DEF Mirrored, Visible
    <3>4. UNCHANGED <<height, {<<c, {x \in Txs : txRows[c][x] > 0}>> : c \in StoredBlocks}>>
      BY <2>3, <2>6 DEF Mirrored, Visible
    <3> QED
      BY <2>5, <3>1, <3>3, <3>4 DEF Mirror!Announce
  <2> QED
    BY <2>8 DEF Mirror!Next
<1>5. CASE Die
  BY <1>5, SilentStep DEF Die
<1>6. ASSUME NEW d \in Deliverers,
             TxCount(d) \/ TxChaincode(d) \/ TxChannel(d) \/ BlkCount(d) \/ BlkChannel(d)
      PROVE  UNCHANGED Mirror!vars
  BY <1>6, SilentStep DEF TxCount, TxChaincode, TxChannel, BlkCount, BlkChannel
<1>7. ASSUME NEW d \in Deliverers, DbError(d)
      PROVE  UNCHANGED Mirror!vars
  BY <1>5, <1>7, SilentStep DEF DbError, Die
<1>8. ASSUME NEW t \in Ticks, Tick(t) \/ Synch(t) \/ FetchFails(t)
      PROVE  UNCHANGED Mirror!vars
  BY <1>8, SilentStep DEF Tick, Synch, ChainInfo, FindMissing, Fetch, SynchDone, FetchFails
<1>9. ASSUME NEW l \in Listeners, Attach(l) \/ Deliver(l)
      PROVE  UNCHANGED Mirror!vars
  BY <1>9, SilentStep DEF Attach, Deliver
<1>10. CASE \/ \E joined \in BOOLEAN : Boot(joined)
            \/ InitializeNewChannel \/ InsertNewChannel \/ InsertNewChaincode
            \/ \E b \in Blocks : RefreshTimer(b)
  BY <1>10, SilentStep DEF Boot, InitializeNewChannel, InsertNewChannel, InsertNewChaincode,
                           RefreshTimer
<1>11. CASE UNCHANGED vars
  BY <1>11, SilentStep DEF vars
<1> QED
  BY <1>1, <1>2, <1>3, <1>4, <1>5, <1>6, <1>7, <1>8, <1>9, <1>10, <1>11
     DEF Next, ProcessBlock, Crash, ChainInfoFails, RefreshTimerFails

(* Readers of the tables and of the notifications see what LedgerMirror allows: blocks
   appear whole, once, stay as they are, and are announced once, after they appeared. *)
THEOREM SyncImplementsMirror == Spec => ImplementsMirror
<1>1. Init => Mirror!Init
  BY DEF Init, Mirror!Init, StoredBlocks
<1>2. RefinementInv /\ [Next]_vars => [Mirror!Next]_(Mirror!vars)
  BY StepImplements
<1> QED
  BY <1>1, <1>2, RefinementInvariant, PTL DEF Spec, ImplementsMirror, Mirror!Spec

-----------------------------------------------------------------------------
(* The counters in tables channel and chaincodes never run ahead of the rows, and are      *)
(* exact as long as nothing has failed.                                                    *)

(* The callers between an INSERT and the UPDATE of a counter, and what is stored without  *)
(* being on such a way.                                                                   *)
Between == {"blkChannel", "txChaincode", "txChannel"}
AtBlock(d, b) == pc[d] = "blkChannel" /\ blk[d] = b
AtTx(d, r) == blk[d] = r[1] /\ TxAt(d) = r[2]

CountedBlocks == {b \in StoredBlocks : \A d \in Deliverers : ~AtBlock(d, b)}
CountedTxs ==
  {r \in StoredTxs : \A d \in Deliverers : pc[d] \in {"txChaincode", "txChannel"} => ~AtTx(d, r)}
CountedCalls ==
  {r \in StoredTxs : /\ r[2] \in InvokeTxs
                     /\ \A d \in Deliverers : pc[d] = "txChaincode" => ~AtTx(d, r)}

(* The tables are finite, and a counter has been moved for a counted row only. *)
CounterInv ==
  /\ IsFiniteSet(StoredTxs)
  /\ chanBlocks <= Cardinality(CountedBlocks)
  /\ chanTrans <= Cardinality(CountedTxs)
  /\ ccTxcount <= Cardinality(CountedCalls)

-----------------------------------------------------------------------------
(* A counter goes up by at most one, and then there is one counted row more. *)
LEMMA CountedKept ==
  ASSUME NEW n \in Nat, NEW m \in Nat, NEW S, NEW T, IsFiniteSet(T), S \subseteq T,
         n <= Cardinality(S),
         m = n \/ (m = n + 1 /\ \E x \in T : x \notin S)
  PROVE  m <= Cardinality(T)
<1>1. IsFiniteSet(S) /\ Cardinality(S) \in Nat /\ Cardinality(T) \in Nat
      /\ Cardinality(S) <= Cardinality(T)
  BY FS_Subset, FS_CardinalityType
<1>2. CASE m = n
  BY <1>1, <1>2
<1>3. CASE m = n + 1 /\ \E x \in T : x \notin S
  <2>1. PICK x \in T : x \notin S
    BY <1>3
  <2>2. /\ IsFiniteSet(S \cup {x}) /\ Cardinality(S \cup {x}) = Cardinality(S) + 1
    BY <1>1, <2>1, FS_AddElement
  <2>3. S \cup {x} \subseteq T
    BY <2>1
  <2>4. Cardinality(S \cup {x}) <= Cardinality(T)
    BY <2>3, FS_Subset
  <2> QED
    BY <1>1, <1>3, <2>2, <2>4
<1> QED
  BY <1>2, <1>3

LEMMA BlocksFinite == IsFiniteSet(Blocks)
<1>1. 0 \in Int /\ MaxHeight - 1 \in Int
  BY HeightAssumption
<1> QED
  BY <1>1, FS_Interval DEF Blocks

LEMMA FiniteTables ==
  ASSUME IsFiniteSet(StoredTxs')
  PROVE  /\ IsFiniteSet(CountedBlocks') /\ IsFiniteSet(CountedTxs')
         /\ IsFiniteSet(CountedCalls')
<1>1. IsFiniteSet(Blocks)
  BY BlocksFinite
<1>2. CountedBlocks' \subseteq Blocks /\ CountedTxs' \subseteq StoredTxs'
      /\ CountedCalls' \subseteq StoredTxs'
  BY DEF CountedBlocks, StoredBlocks, CountedTxs, CountedCalls
<1> QED
  BY <1>1, <1>2, FS_Subset

(* How the counters follow when rows are counted that were not. *)
LEMMA CountersFollow ==
  ASSUME CounterInv, TypeOK, TypeOK', IsFiniteSet(StoredTxs'),
         CountedBlocks \subseteq CountedBlocks', CountedTxs \subseteq CountedTxs',
         CountedCalls \subseteq CountedCalls',
         \/ chanBlocks' = chanBlocks
         \/ chanBlocks' = chanBlocks + 1 /\ \E b \in CountedBlocks' : b \notin CountedBlocks,
         \/ chanTrans' = chanTrans
         \/ chanTrans' = chanTrans + 1 /\ \E r \in CountedTxs' : r \notin CountedTxs,
         \/ ccTxcount' = ccTxcount
         \/ ccTxcount' = ccTxcount + 1 /\ \E r \in CountedCalls' : r \notin CountedCalls
  PROVE  CounterInv'
<1>1. /\ chanBlocks \in Nat /\ chanTrans \in Nat /\ ccTxcount \in Nat
      /\ chanBlocks' \in Nat /\ chanTrans' \in Nat /\ ccTxcount' \in Nat
  BY DEF TypeOK, CounterTypeOK
<1>2. IsFiniteSet(CountedBlocks') /\ IsFiniteSet(CountedTxs') /\ IsFiniteSet(CountedCalls')
  BY FiniteTables
<1>3. chanBlocks' <= Cardinality(CountedBlocks')
  BY <1>1, <1>2, CountedKept DEF CounterInv
<1>4. chanTrans' <= Cardinality(CountedTxs')
  BY <1>1, <1>2, CountedKept DEF CounterInv
<1>5. ccTxcount' <= Cardinality(CountedCalls')
  BY <1>1, <1>2, CountedKept DEF CounterInv
<1> QED
  BY <1>3, <1>4, <1>5 DEF CounterInv

(* A step that keeps the counters and no row, and after which a caller is on such a way   *)
(* only where it was before.                                                              *)
LEMMA NothingCounted ==
  ASSUME CounterInv, TypeOK, TypeOK',
         UNCHANGED <<blockRows, txRows, chanBlocks, chanTrans, ccTxcount>>,
         \A d \in Deliverers : pc'[d] \in Between =>
           pc'[d] = pc[d] /\ blk'[d] = blk[d] /\ idx'[d] = idx[d]
  PROVE  CounterInv'
<1>1. StoredTxs' = StoredTxs /\ StoredBlocks' = StoredBlocks
  BY DEF StoredTxs, StoredBlocks
<1>2. \A d \in Deliverers : \A b : AtBlock(d, b)' => AtBlock(d, b)
  BY DEF AtBlock, Between
<1>3. \A d \in Deliverers : \A r : pc'[d] \in Between /\ AtTx(d, r)' => pc'[d] = pc[d] /\ AtTx(d, r)
  BY DEF AtTx, TxAt
<1>4. CountedBlocks \subseteq CountedBlocks'
  BY <1>1, <1>2 DEF CountedBlocks
<1>5. CountedTxs \subseteq CountedTxs'
  BY <1>1, <1>3 DEF CountedTxs, Between
<1>6. CountedCalls \subseteq CountedCalls'
  BY <1>1, <1>3 DEF CountedCalls, Between
<1>7. IsFiniteSet(StoredTxs')
  BY <1>1 DEF CounterInv
<1> QED
  BY <1>4, <1>5, <1>6, <1>7, CountersFollow

-----------------------------------------------------------------------------
(* The steps of a caller on a database row or a counter. *)
Storing(d) == TxInsert(d) \/ TxChaincode(d) \/ TxChannel(d) \/ BlkInsert(d) \/ BlkChannel(d)

LEMMA StoringFacts ==
  ASSUME IInv, NEW d \in Deliverers, Storing(d) \/ Notify(d)
  PROVE  /\ TypeOK /\ alive
         /\ blk[d] \in Blocks /\ TxAt(d) \in Txs /\ CountStillHolds(d) /\ StoredSoFar(d)
         /\ \A e \in Deliverers \ {d} : pc'[e] = pc[e] /\ (pc[e] \in Between => blk[e] # blk[d])
         /\ \A e \in Deliverers \ {d} : blk'[e] = blk[e] /\ TxAt(e)' = TxAt(e)
         /\ \A e \in Deliverers \ {d} : \A c : AtBlock(e, c)' <=> AtBlock(e, c)
         /\ \A e \in Deliverers \ {d} : \A s : AtTx(e, s)' <=> AtTx(e, s)
<1>0. /\ alive /\ Active(d)
      /\ pc[d] \in {"txInsert", "txChaincode", "txChannel", "blkInsert", "blkChannel", "notify"}
  BY DEF Storing, TxInsert, TxChaincode, TxChannel, BlkInsert, BlkChannel, Notify, At, Active,
         InBlock, InTx, InBlk
<1>1. /\ TypeOK /\ blk[d] \in Blocks /\ TxAt(d) \in Txs /\ CountStillHolds(d) /\ StoredSoFar(d)
  BY <1>0, InsideBlock DEF IInv
<1>2. /\ \A e \in Deliverers \ {d} : pc'[e] = pc[e] /\ blk'[e] = blk[e] /\ idx'[e] = idx[e]
  BY <1>1 DEF Storing, TxInsert, TxChaincode, TxChannel, BlkInsert, BlkChannel, Notify, Goto,
              NextTx, Finish, Return, TypeOK, CallTypeOK
<1>3. \A e \in Deliverers \ {d} : pc[e] \in Between => blk[e] # blk[d]
  BY <1>0 DEF IInv, KeysDiffer, Active, Between, InBlock, InTx, InBlk
<1>4. \A e \in Deliverers \ {d} : TxAt(e)' = TxAt(e)
  BY <1>2 DEF TxAt
<1> QED
  BY <1>0, <1>1, <1>2, <1>3, <1>4 DEF AtBlock, AtTx

LEMMA InsertStores ==
  ASSUME IInv, NEW d \in Deliverers, TxInsert(d), NEW r \in Blocks \X Txs,
         r[1] = blk[d], r[2] = TxAt(d)
  PROVE  r \notin StoredTxs /\ StoredTxs' = StoredTxs \cup {r}
<1>1. /\ TypeOK /\ blk[d] \in Blocks /\ TxAt(d) \in Txs /\ CountStillHolds(d)
      /\ pc[d] = "txInsert"
  BY StoringFacts DEF Storing, TxInsert, At
<1>2. txRows[r[1]][r[2]] = 0
  BY <1>1 DEF CountStillHolds
<1>3. \A s \in Blocks \X Txs : s = r <=> s[1] = blk[d] /\ s[2] = TxAt(d)
  OBVIOUS
<1>4. \A c \in Blocks, x \in Txs :
        txRows'[c][x] = txRows[c][x] + (IF c = blk[d] /\ x = TxAt(d) THEN 1 ELSE 0)
  BY <1>1 DEF TxInsert, TypeOK, RowTypeOK
<1>5. \A s \in Blocks \X Txs :
        txRows'[s[1]][s[2]] = txRows[s[1]][s[2]] + (IF s = r THEN 1 ELSE 0)
  BY <1>3, <1>4
<1>6. \A s \in Blocks \X Txs : txRows[s[1]][s[2]] \in Nat
  BY <1>1 DEF TypeOK, RowTypeOK
<1> QED
  BY <1>2, <1>5, <1>6 DEF StoredTxs

LEMMA StoringStep ==
  ASSUME IInv, TypeOK', CounterInv, NEW d \in Deliverers, Storing(d)
  PROVE  CounterInv'
<1> USE DEF procVars, hubVars, keyVars, rowVars, chanVars, ccVars, outVars, budget
<1> DEFINE b == blk[d]
<1>1. /\ TypeOK /\ blk[d] \in Blocks /\ TxAt(d) \in Txs /\ CountStillHolds(d) /\ StoredSoFar(d)
  BY StoringFacts
<1>3. blk' = blk
  BY DEF Storing, TxInsert, TxChaincode, TxChannel, BlkInsert, BlkChannel, Goto, NextTx
<1>4. \A e \in Deliverers \ {d} : pc'[e] = pc[e] /\ (pc[e] \in Between => blk[e] # blk[d])
  BY StoringFacts
<1>5. /\ \A e \in Deliverers \ {d} : \A c : AtBlock(e, c)' <=> AtBlock(e, c)
      /\ \A e \in Deliverers \ {d} : \A s : AtTx(e, s)' <=> AtTx(e, s)
  BY StoringFacts
<1>6. PICK r \in Blocks \X Txs : r[1] = b /\ r[2] = TxAt(d)
  <2> DEFINE r == <<blk[d], TxAt(d)>>
  <2>1. r \in Blocks \X Txs /\ r[1] = b /\ r[2] = TxAt(d)
    BY <1>1
  <2> HIDE DEF r
  <2> QED
    BY <2>1
<1>7. \A s \in Blocks \X Txs : AtTx(d, s) <=> s = r
  BY <1>1, <1>6 DEF AtTx
<1>8. CASE TxInsert(d)
  <2>1. /\ pc[d] = "txInsert" /\ pc'[d] = "txChaincode" /\ idx' = idx
        /\ UNCHANGED <<blockRows, chanBlocks, chanTrans, ccTxcount>>
    BY <1>1, <1>8 DEF TxInsert, At, Goto, TypeOK, CallTypeOK
  <2>2. r \notin StoredTxs /\ StoredTxs' = StoredTxs \cup {r}
    BY <1>6, <1>8, InsertStores
  <2>3. IsFiniteSet(StoredTxs')
    BY <2>2, FS_AddElement DEF CounterInv
  <2>4. \A s : AtTx(d, s)' <=> AtTx(d, s)
    BY <1>3, <2>1 DEF AtTx, TxAt
  <2>5. CountedBlocks \subseteq CountedBlocks'
    BY <1>5, <2>1 DEF CountedBlocks, StoredBlocks, AtBlock
  <2>6. CountedTxs \subseteq CountedTxs' /\ CountedCalls \subseteq CountedCalls'
    <3>1. \A s \in StoredTxs : ~AtTx(d, s)
      BY <1>7, <2>2 DEF StoredTxs
    <3> QED
      BY <1>4, <1>5, <2>2, <2>4, <3>1 DEF CountedTxs, CountedCalls
  <2> QED
    BY <1>1, <2>1, <2>3, <2>5, <2>6, CountersFollow
<1>9. CASE TxChaincode(d)
  <2>1. /\ pc[d] = "txChaincode" /\ pc'[d] = "txChannel" /\ idx' = idx
        /\ UNCHANGED <<blockRows, txRows, chanBlocks, chanTrans>>
        /\ ccTxcount' = Increment(ccRow /\ TxAt(d) \in InvokeTxs, ccTxcount)
    BY <1>1, <1>9 DEF TxChaincode, At, Goto, TypeOK, CallTypeOK
  <2>2. StoredTxs' = StoredTxs /\ StoredBlocks' = StoredBlocks
    BY <2>1 DEF StoredTxs, StoredBlocks
  <2>3. r \in StoredTxs
    BY <1>1, <1>6, <2>1 DEF StoredSoFar, StoredTxs
  <2>4. \A s : AtTx(d, s)' <=> AtTx(d, s)
    BY <1>3, <2>1 DEF AtTx, TxAt
  <2>5. CountedBlocks \subseteq CountedBlocks'
    BY <1>5, <2>1, <2>2 DEF CountedBlocks, AtBlock
  <2>6. CountedTxs \subseteq CountedTxs' /\ CountedCalls \subseteq CountedCalls'
    BY <1>4, <1>5, <2>1, <2>2, <2>4 DEF CountedTxs, CountedCalls
  <2>7. ASSUME TxAt(d) \in InvokeTxs
        PROVE  r \in CountedCalls' /\ r \notin CountedCalls
    <3>1. r \notin CountedCalls
      BY <1>6, <1>7, <2>1 DEF CountedCalls
    <3>2. \A e \in Deliverers : pc'[e] = "txChaincode" => ~AtTx(e, r)'
      BY <1>4, <1>5, <1>6, <2>1 DEF AtTx, Between
    <3> QED
      BY <1>6, <2>2, <2>3, <2>7, <3>1, <3>2 DEF CountedCalls
  <2>8. \/ ccTxcount' = ccTxcount
        \/ ccTxcount' = ccTxcount + 1 /\ \E s \in CountedCalls' : s \notin CountedCalls
    BY <2>1, <2>7 DEF Increment
  <2>9. IsFiniteSet(StoredTxs')
    BY <2>2 DEF CounterInv
  <2> QED
    BY <1>1, <2>1, <2>5, <2>6, <2>8, <2>9, CountersFollow
<1>10. CASE TxChannel(d)
  <2>1. /\ pc[d] = "txChannel" /\ pc'[d] \in {"txCount", "blkCount"}
        /\ UNCHANGED <<blockRows, txRows, chanBlocks, ccTxcount>>
        /\ chanTrans' = Increment(chanRow, chanTrans)
    BY <1>1, <1>10 DEF TxChannel, At, NextTx, TypeOK, CallTypeOK
  <2>2. StoredTxs' = StoredTxs /\ StoredBlocks' = StoredBlocks
    BY <2>1 DEF StoredTxs, StoredBlocks
  <2>3. r \in StoredTxs
    BY <1>1, <1>6, <2>1 DEF StoredSoFar, StoredTxs
  <2>4. CountedBlocks \subseteq CountedBlocks'
    BY <1>5, <2>1, <2>2 DEF CountedBlocks, AtBlock
  <2>5. CountedTxs \subseteq CountedTxs' /\ CountedCalls \subseteq CountedCalls'
    BY <1>4, <1>5, <2>1, <2>2 DEF CountedTxs, CountedCalls
  <2>6. r \in CountedTxs' /\ r \notin CountedTxs
    <3>1. r \notin CountedTxs
      BY <1>6, <1>7, <2>1 DEF CountedTxs
    <3>2. \A e \in Deliverers : pc'[e] \in {"txChaincode", "txChannel"} => ~AtTx(e, r)'
      BY <1>4, <1>5, <1>6, <2>1 DEF AtTx, Between
    <3> QED
      BY <2>2, <2>3, <3>1, <3>2 DEF CountedTxs
  <2>7. \/ chanTrans' = chanTrans
        \/ chanTrans' = chanTrans + 1 /\ \E s \in CountedTxs' : s \notin CountedTxs
    BY <2>1, <2>6 DEF Increment
  <2>8. IsFiniteSet(StoredTxs')
    BY <2>2 DEF CounterInv
  <2> QED
    BY <1>1, <2>1, <2>4, <2>5, <2>7, <2>8, CountersFollow
<1>11. CASE BlkInsert(d) \/ BlkChannel(d)
  <2>1. /\ pc'[d] \notin {"txChaincode", "txChannel"}
        /\ UNCHANGED <<txRows, chanTrans, ccTxcount>>
    BY <1>1, <1>11 DEF BlkInsert, BlkChannel, At, Goto, TypeOK, CallTypeOK
  <2>2. StoredTxs' = StoredTxs
    BY <2>1 DEF StoredTxs
  <2>3. CountedTxs \subseteq CountedTxs' /\ CountedCalls \subseteq CountedCalls'
    BY <1>4, <1>5, <2>1, <2>2 DEF CountedTxs, CountedCalls
  <2>4. IsFiniteSet(StoredTxs')
    BY <2>2 DEF CounterInv
  <2>5. CASE BlkInsert(d)
    <3>1. pc[d] = "blkInsert" /\ pc'[d] = "blkChannel" /\ UNCHANGED chanBlocks
      BY <1>1, <2>5 DEF BlkInsert, At, Goto, TypeOK, CallTypeOK
    <3>2. b \notin StoredBlocks
      BY <1>1, <3>1 DEF CountStillHolds, StoredBlocks
    <3>3. StoredBlocks \subseteq StoredBlocks'
      BY <1>1, <2>5 DEF BlkInsert, StoredBlocks, TypeOK, RowTypeOK
    <3>4. CountedBlocks \subseteq CountedBlocks'
      BY <1>3, <1>5, <3>2, <3>3 DEF CountedBlocks, AtBlock
    <3> QED
      BY <1>1, <2>1, <2>3, <2>4, <3>1, <3>4, CountersFollow
  <2>6. CASE BlkChannel(d)
    <3>1. /\ pc[d] = "blkChannel" /\ pc'[d] = "notify" /\ UNCHANGED blockRows
          /\ chanBlocks' = Increment(chanRow, chanBlocks)
      BY <1>1, <2>6 DEF BlkChannel, At, Goto, TypeOK, CallTypeOK
    <3>2. b \in StoredBlocks /\ StoredBlocks' = StoredBlocks
      BY <1>1, <3>1 DEF CountStillHolds, StoredBlocks
    <3>3. CountedBlocks \subseteq CountedBlocks'
      BY <1>5, <3>1, <3>2 DEF CountedBlocks, AtBlock
    <3>4. b \in CountedBlocks' /\ b \notin CountedBlocks
      <4>1. \A e \in Deliverers : ~AtBlock(e, b)'
        BY <1>3, <1>4, <3>1 DEF AtBlock, Between
      <4>2. AtBlock(d, b)
        BY <3>1 DEF AtBlock
      <4> QED
        BY <1>3, <3>2, <4>1, <4>2 DEF CountedBlocks
    <3>5. \/ chanBlocks' = chanBlocks
          \/ chanBlocks' = chanBlocks + 1 /\ \E c \in CountedBlocks' : c \notin CountedBlocks
      BY <3>1, <3>4 DEF Increment
    <3> QED
      BY <1>1, <2>1, <2>3, <2>4, <3>3, <3>5, CountersFollow
  <2> QED
    BY <1>11, <2>5, <2>6
<1> QED
  BY <1>8, <1>9, <1>10, <1>11 DEF Storing

-----------------------------------------------------------------------------
LEMMA InitCounters == Init => CounterInv
<1> SUFFICES ASSUME Init PROVE CounterInv
  OBVIOUS
<1>1. StoredTxs = {} /\ StoredBlocks = {}
  BY DEF Init, StoredTxs, StoredBlocks
<1>2. CountedBlocks = {} /\ CountedTxs = {} /\ CountedCalls = {}
  BY <1>1 DEF CountedBlocks, CountedTxs, CountedCalls
<1> QED
  BY <1>1, <1>2, FS_EmptySet DEF Init, CounterInv

(* A caller that the step moves is not on its way to a counter afterwards. *)
LEMMA NextCounters ==
  ASSUME IInv, CounterInv, [Next]_vars
  PROVE  CounterInv'
<1> USE DEF procVars, hubVars, callVars, keyVars, rowVars, chanVars, ccVars, outVars, budget
<1>t. TypeOK /\ TypeOK'
  BY NextTypeOK DEF IInv
<1>1. CASE UNCHANGED <<callVars, blockRows, txRows, chanBlocks, chanTrans, ccTxcount>>
  BY <1>1, <1>t, NothingCounted
<1>2. CASE Die
  BY <1>2, <1>t, NothingCounted DEF Die, Between
<1>3. ASSUME NEW d \in Deliverers,
             UNCHANGED <<blockRows, txRows, chanBlocks, chanTrans, ccTxcount>>,
             NEW label, label \notin Between, pc' = [pc EXCEPT ![d] = label],
             \A e \in Deliverers \ {d} : blk'[e] = blk[e] /\ idx'[e] = idx[e]
      PROVE  CounterInv'
  BY <1>3, <1>t, NothingCounted DEF TypeOK, CallTypeOK
<1>4. ASSUME NEW d \in Deliverers, ProcessBlock(d)
      PROVE  CounterInv'
  <2>1. CASE TxInsert(d) \/ TxChaincode(d) \/ TxChannel(d) \/ BlkInsert(d) \/ BlkChannel(d)
    BY <1>t, <2>1, StoringStep DEF Storing
  <2>2. CASE TxCount(d) \/ BlkCount(d) \/ Notify(d)
    <3>1. UNCHANGED <<blockRows, txRows, chanBlocks, chanTrans, ccTxcount>>
      BY <2>2 DEF TxCount, BlkCount, Notify
    <3>2. \E label : label \notin Between /\ pc' = [pc EXCEPT ![d] = label]
      BY <2>2 DEF TxCount, BlkCount, Notify, Goto, NextTx, Finish, Return, Between
    <3>3. \A e \in Deliverers \ {d} : blk'[e] = blk[e] /\ idx'[e] = idx[e]
      BY <1>t, <2>2 DEF TxCount, BlkCount, Notify, Goto, NextTx, Finish, Return, TypeOK,
                        CallTypeOK
    <3> QED
      BY <1>3, <3>1, <3>2, <3>3
  <2> QED
    BY <1>4, <2>1, <2>2 DEF ProcessBlock
<1>5. ASSUME NEW d \in Deliverers, DbError(d)
      PROVE  CounterInv'
  <2>1. CASE Return(d) /\ UNCHANGED <<rowVars, chanVars, ccVars>>
    <3> DEFINE back == IF d \in Listeners THEN "wait" ELSE "fetch"
    <3>1. back \notin Between /\ pc' = [pc EXCEPT ![d] = back]
      BY <2>1 DEF Return, Between
    <3>2. \A e \in Deliverers \ {d} : blk'[e] = blk[e] /\ idx'[e] = idx[e]
      BY <1>t, <2>1 DEF Return, TypeOK, CallTypeOK
    <3> QED
      BY <1>3, <2>1, <3>1, <3>2
  <2> QED
    BY <1>2, <1>5, <2>1 DEF DbError
<1>6. ASSUME NEW d \in Deliverers, NEW b, Begin(d, b),
             UNCHANGED <<blockRows, txRows, chanBlocks, chanTrans, ccTxcount>>
      PROVE  CounterInv'
  <2>1. \E label : label \notin Between /\ pc' = [pc EXCEPT ![d] = label]
    BY <1>6 DEF Begin, BeginUnguarded, Between
  <2>2. \A e \in Deliverers \ {d} : blk'[e] = blk[e] /\ idx'[e] = idx[e]
    BY <1>t, <1>6 DEF Begin, BeginUnguarded, TypeOK, CallTypeOK
  <2> QED
    BY <1>3, <1>6, <2>1, <2>2
<1>7. ASSUME NEW l \in Listeners, Deliver(l)
      PROVE  CounterInv'
  BY <1>1, <1>6, <1>7 DEF Deliver, Deliverers
<1>8. ASSUME NEW t \in Ticks, Fetch(t)
      PROVE  CounterInv'
  BY <1>1, <1>6, <1>8 DEF Fetch, Deliverers
<1>9. ASSUME NEW t \in Ticks, Tick(t) \/ ChainInfo(t) \/ FindMissing(t) \/ SynchDone(t)
      PROVE  CounterInv'
  <2>1. /\ UNCHANGED <<blockRows, txRows, chanBlocks, chanTrans, ccTxcount, blk, idx>>
        /\ \E label : label \notin Between /\ pc' = [pc EXCEPT ![t] = label]
    BY <1>9 DEF Tick, ChainInfo, FindMissing, SynchDone, Goto, Between
  <2> QED
    BY <1>3, <2>1 DEF Deliverers
<1>10. CASE UNCHANGED vars \/ Commit \/ InitializeNewChannel \/ InsertNewChannel
            \/ InsertNewChaincode \/ \E joined \in BOOLEAN : Boot(joined)
  BY <1>1, <1>10 DEF vars, Commit, InitializeNewChannel, InsertNewChannel, InsertNewChaincode, Boot
<1>11. CASE (\E l \in Listeners : Attach(l)) \/ (\E t \in Ticks : FetchFails(t))
            \/ (\E b \in Blocks : RefreshTimer(b))
  BY <1>1, <1>11 DEF Attach, FetchFails, RefreshTimer
<1>12. CASE Crash \/ (\E t \in Ticks : ChainInfoFails(t))
            \/ (\E b \in Blocks : RefreshTimerFails(b))
  BY <1>2, <1>12 DEF Crash, ChainInfoFails, RefreshTimerFails
<1> QED
  BY <1>4, <1>5, <1>7, <1>8, <1>9, <1>10, <1>11, <1>12 DEF Next, Synch

(* Whatever fails, crashes or is delivered twice, no counter of table channel or          *)
(* chaincodes is ever above the number of rows it counts.                                 *)
THEOREM CountersLagBehind == Spec => []CountersNeverOverstate
<1>1. Init => IInv /\ CounterInv
  BY InitIInv, InitCounters
<1>2. IInv /\ CounterInv /\ [Next]_vars => (IInv /\ CounterInv)'
  BY NextIInv, NextCounters
<1>3. IInv /\ CounterInv => CountersNeverOverstate
  <2> SUFFICES ASSUME IInv, CounterInv PROVE CountersNeverOverstate
    OBVIOUS
  <2>1. IsFiniteSet(StoredTxs) /\ IsFiniteSet(StoredBlocks)
    <3>1. IsFiniteSet(Blocks) /\ StoredBlocks \subseteq Blocks
      BY BlocksFinite DEF StoredBlocks
    <3> QED
      BY <3>1, FS_Subset DEF CounterInv
  <2>2. CountedBlocks \subseteq StoredBlocks /\ CountedTxs \subseteq StoredTxs
        /\ CountedCalls \subseteq {r \in StoredTxs : r[2] \in InvokeTxs}
        /\ {r \in StoredTxs : r[2] \in InvokeTxs} \subseteq StoredTxs
    BY DEF CountedBlocks, CountedTxs, CountedCalls
  <2> DEFINE calls == {r \in StoredTxs : r[2] \in InvokeTxs}
  <2>3. IsFiniteSet(calls)
    BY <2>1, <2>2, FS_Subset
  <2>4. /\ Cardinality(CountedBlocks) <= Cardinality(StoredBlocks)
        /\ Cardinality(CountedTxs) <= Cardinality(StoredTxs)
        /\ Cardinality(CountedCalls) <= Cardinality(calls)
        /\ IsFiniteSet(CountedBlocks) /\ IsFiniteSet(CountedTxs) /\ IsFiniteSet(CountedCalls)
    BY <2>1, <2>2, <2>3, FS_Subset
  <2>5. \A S : IsFiniteSet(S) => Cardinality(S) \in Nat
    BY FS_CardinalityType
  <2>6. chanBlocks \in Nat /\ chanTrans \in Nat /\ ccTxcount \in Nat
    BY DEF IInv, TypeOK, CounterTypeOK
  <2> HIDE DEF calls
  <2>7. chanBlocks <= Cardinality(StoredBlocks) /\ chanTrans <= Cardinality(StoredTxs)
        /\ ccTxcount <= Cardinality(calls)
    BY <2>1, <2>3, <2>4, <2>5, <2>6 DEF CounterInv
  <2> QED
    BY <2>7 DEF CountersNeverOverstate, calls
<1> QED
  BY <1>1, <1>2, <1>3, PTL DEF Spec

-----------------------------------------------------------------------------
(* As long as nothing has failed the counters are exact. *)

Marked == Between \cup {"notify"}
SentOrOnItsWay(b) ==
  \/ sent[b] = blockRows[b]
  \/ \E d \in Deliverers : pc[d] \in {"blkChannel", "notify"} /\ blk[d] = b

ExactInv ==
  NothingFailed =>
    /\ alive => chanRow
    /\ chanBlocks = Cardinality(CountedBlocks)
    /\ chanTrans = Cardinality(CountedTxs)
    /\ \A b \in Blocks : SentOrOnItsWay(b)

LEMMA InitExact == Init => ExactInv
<1> SUFFICES ASSUME Init PROVE ExactInv
  OBVIOUS
<1>1. StoredTxs = {} /\ StoredBlocks = {}
  BY DEF Init, StoredTxs, StoredBlocks
<1>2. CountedBlocks = {} /\ CountedTxs = {}
  BY <1>1 DEF CountedBlocks, CountedTxs
<1> QED
  BY <1>2, FS_EmptySet DEF Init, ExactInv, SentOrOnItsWay

(* A step that counts nothing and leaves the callers on the way to a counter alone. *)
LEMMA NothingExact ==
  ASSUME ExactInv, NothingFailed, alive' => chanRow',
         UNCHANGED <<blockRows, txRows, sent, chanBlocks, chanTrans>>,
         \A d \in Deliverers : pc[d] \in Marked \/ pc'[d] \in Marked =>
           pc'[d] = pc[d] /\ blk'[d] = blk[d] /\ idx'[d] = idx[d]
  PROVE  ExactInv'
<1>1. StoredTxs' = StoredTxs /\ StoredBlocks' = StoredBlocks
  BY DEF StoredTxs, StoredBlocks
<1>2. \A d \in Deliverers : \A b : AtBlock(d, b)' <=> AtBlock(d, b)
  BY DEF AtBlock, Marked, Between
<1>3. \A d \in Deliverers : \A s :
        /\ pc'[d] \in {"txChaincode", "txChannel"} <=> pc[d] \in {"txChaincode", "txChannel"}
        /\ pc[d] \in {"txChaincode", "txChannel"} => (AtTx(d, s)' <=> AtTx(d, s))
  BY DEF AtTx, TxAt, Marked, Between
<1>4. CountedBlocks' = CountedBlocks
  BY <1>1, <1>2 DEF CountedBlocks
<1>5. CountedTxs' = CountedTxs
  BY <1>1, <1>3 DEF CountedTxs
<1>6. \A b \in Blocks : SentOrOnItsWay(b)'
  BY DEF ExactInv, SentOrOnItsWay, Marked, Between
<1> QED
  BY <1>4, <1>5, <1>6 DEF ExactInv

LEMMA OthersOnTheirWay ==
  ASSUME IInv, ExactInv, NothingFailed, NEW d \in Deliverers, Storing(d) \/ Notify(d),
         \A c \in Blocks \ {blk[d]} : sent'[c] = sent[c] /\ blockRows'[c] = blockRows[c]
  PROVE  \A c \in Blocks \ {blk[d]} : SentOrOnItsWay(c)'
<1> SUFFICES ASSUME NEW c \in Blocks \ {blk[d]}, sent[c] # blockRows[c]
             PROVE  SentOrOnItsWay(c)'
  BY DEF SentOrOnItsWay
<1>1. PICK e \in Deliverers : pc[e] \in {"blkChannel", "notify"} /\ blk[e] = c
  BY DEF ExactInv, SentOrOnItsWay
<1>2. pc'[e] = pc[e] /\ blk'[e] = blk[e]
  BY <1>1, StoringFacts
<1> QED
  BY <1>1, <1>2 DEF SentOrOnItsWay

LEMMA StoringExact ==
  ASSUME IInv, TypeOK', CounterInv, ExactInv, NothingFailed, NEW d \in Deliverers,
         Storing(d) \/ Notify(d)
  PROVE  ExactInv'
<1> USE DEF procVars, hubVars, keyVars, rowVars, chanVars, ccVars, outVars, budget
<1>b. PICK b \in Blocks : b = blk[d]
  BY StoringFacts
<1>1. /\ TypeOK /\ blk[d] \in Blocks /\ TxAt(d) \in Txs /\ CountStillHolds(d) /\ StoredSoFar(d)
      /\ alive
  BY StoringFacts
<1>2. chanRow /\ UNCHANGED chanRow
  BY <1>1 DEF ExactInv, Storing, TxInsert, TxChaincode, TxChannel, BlkInsert, BlkChannel, Notify
<1>4. \A e \in Deliverers \ {d} : pc'[e] = pc[e] /\ (pc[e] \in Between => blk[e] # blk[d])
  BY StoringFacts
<1>5. /\ \A e \in Deliverers \ {d} : \A c : AtBlock(e, c)' <=> AtBlock(e, c)
      /\ \A e \in Deliverers \ {d} : \A s : AtTx(e, s)' <=> AtTx(e, s)
  BY StoringFacts
<1>6. PICK r \in Blocks \X Txs : r[1] = b /\ r[2] = TxAt(d)
  <2> DEFINE r == <<blk[d], TxAt(d)>>
  <2>1. r \in Blocks \X Txs /\ r[1] = b /\ r[2] = TxAt(d)
    BY <1>b, <1>1
  <2> HIDE DEF r
  <2> QED
    BY <2>1
<1>7. \A s \in Blocks \X Txs : AtTx(d, s) <=> s = r
  BY <1>b, <1>1, <1>6 DEF AtTx
<1>8. /\ chanBlocks = Cardinality(CountedBlocks) /\ chanTrans = Cardinality(CountedTxs)
      /\ IsFiniteSet(CountedBlocks) /\ IsFiniteSet(CountedTxs)
  <2>1. IsFiniteSet(Blocks) /\ CountedBlocks \subseteq Blocks /\ CountedTxs \subseteq StoredTxs
    BY BlocksFinite DEF CountedBlocks, StoredBlocks, CountedTxs
  <2> QED
    BY <2>1, FS_Subset DEF ExactInv, CounterInv
<1>e. ASSUME chanBlocks' = Cardinality(CountedBlocks'), chanTrans' = Cardinality(CountedTxs'),
             SentOrOnItsWay(b)', \A c \in Blocks \ {b} : SentOrOnItsWay(c)'
      PROVE  ExactInv'
  BY <1>2, <1>e DEF ExactInv
<1>9. ASSUME UNCHANGED <<sent, blockRows>>, pc[d] \notin {"blkChannel", "notify"}
      PROVE  SentOrOnItsWay(b)' /\ \A c \in Blocks \ {b} : SentOrOnItsWay(c)'
  <2>1. SentOrOnItsWay(b)'
    <3>1. CASE sent[b] = blockRows[b]
      <4>1. blk'[d] = blk[d]
        BY <1>9 DEF Storing, TxInsert, TxChaincode, TxChannel, BlkInsert, BlkChannel, Goto,
                    NextTx, Notify, At
      <4> QED
        BY <1>9, <3>1, <4>1 DEF SentOrOnItsWay
    <3>2. ASSUME NEW e \in Deliverers, pc[e] \in {"blkChannel", "notify"}, blk[e] = b
          PROVE  SentOrOnItsWay(b)'
      <4>1. e # d
        BY <1>9, <3>2
      <4>2. pc'[e] = pc[e] /\ blk'[e] = blk[e] /\ blk'[d] = blk[d]
        BY <1>9, <4>1, StoringFacts DEF Storing, TxInsert, TxChaincode, TxChannel, BlkInsert,
           BlkChannel, Goto, NextTx, Notify, At
      <4> QED
        BY <3>2, <4>2 DEF SentOrOnItsWay
    <3> QED
      BY <1>1, <3>1, <3>2 DEF ExactInv, SentOrOnItsWay
  <2>2. \A c \in Blocks \ {b} : SentOrOnItsWay(c)'
    BY <1>b, <1>9, OthersOnTheirWay
  <2> QED
    BY <2>1, <2>2
<1>10. CASE TxInsert(d)
  <2>1. /\ pc[d] = "txInsert" /\ pc'[d] = "txChaincode" /\ idx' = idx /\ blk' = blk
        /\ UNCHANGED <<blockRows, sent, chanBlocks, chanTrans>>
    BY <1>1, <1>10 DEF TxInsert, At, Goto, TypeOK, CallTypeOK
  <2>2. r \notin StoredTxs /\ StoredTxs' = StoredTxs \cup {r}
    BY <1>b, <1>6, <1>10, InsertStores
  <2>3. \A s : AtTx(d, s)' <=> AtTx(d, s)
    BY <2>1 DEF AtTx, TxAt
  <2>4. CountedBlocks' = CountedBlocks
    BY <1>5, <2>1 DEF CountedBlocks, StoredBlocks, AtBlock
  <2>5. CountedTxs' = CountedTxs
    <3>1. \A s \in StoredTxs : ~AtTx(d, s)
      BY <1>7, <2>2 DEF StoredTxs
    <3>2. AtTx(d, r)'
      BY <1>7, <2>3
    <3> QED
      BY <1>4, <1>5, <2>1, <2>2, <2>3, <3>1, <3>2 DEF CountedTxs
  <2> QED
    BY <1>8, <1>9, <1>e, <2>1, <2>4, <2>5
<1>11. CASE TxChaincode(d)
  <2>1. /\ pc[d] = "txChaincode" /\ pc'[d] = "txChannel" /\ idx' = idx /\ blk' = blk
        /\ UNCHANGED <<blockRows, txRows, sent, chanBlocks, chanTrans>>
    BY <1>1, <1>11 DEF TxChaincode, At, Goto, TypeOK, CallTypeOK
  <2>2. \A s : AtTx(d, s)' <=> AtTx(d, s)
    BY <2>1 DEF AtTx, TxAt
  <2>3. CountedBlocks' = CountedBlocks
    BY <1>5, <2>1 DEF CountedBlocks, StoredBlocks, AtBlock
  <2>4. CountedTxs' = CountedTxs
    BY <1>4, <1>5, <2>1, <2>2 DEF CountedTxs, StoredTxs
  <2> QED
    BY <1>8, <1>9, <1>e, <2>1, <2>3, <2>4
<1>12. CASE TxChannel(d)
  <2>1. /\ pc[d] = "txChannel" /\ pc'[d] \in {"txCount", "blkCount"}
        /\ UNCHANGED <<blockRows, txRows, sent, chanBlocks>> /\ chanTrans' = chanTrans + 1
    BY <1>1, <1>2, <1>12 DEF TxChannel, At, NextTx, TypeOK, CallTypeOK, Increment
  <2>2. StoredTxs' = StoredTxs /\ r \in StoredTxs
    BY <1>b, <1>1, <1>6, <2>1 DEF StoredSoFar, StoredTxs
  <2>3. CountedBlocks' = CountedBlocks
    BY <1>5, <2>1 DEF CountedBlocks, StoredBlocks, AtBlock
  <2>4. \A e \in Deliverers \ {d} : pc[e] \in Between => ~AtTx(e, r)
    BY <1>b, <1>4, <1>6 DEF AtTx
  <2>5. CountedTxs' = CountedTxs \cup {r} /\ r \notin CountedTxs
    <3>1. r \notin CountedTxs
      BY <1>7, <2>1 DEF CountedTxs
    <3>2. \A s \in StoredTxs : AtTx(d, s) <=> s = r
      BY <1>7 DEF StoredTxs
    <3> QED
      BY <1>4, <1>5, <2>1, <2>2, <2>4, <3>1, <3>2 DEF CountedTxs, Between
  <2>6. Cardinality(CountedTxs') = Cardinality(CountedTxs) + 1
    BY <1>8, <2>5, FS_AddElement
  <2> QED
    BY <1>8, <1>9, <1>e, <2>1, <2>3, <2>6
<1>13. CASE BlkInsert(d)
  <2>1. /\ pc[d] = "blkInsert" /\ pc'[d] = "blkChannel" /\ blk' = blk
        /\ UNCHANGED <<txRows, sent, chanBlocks, chanTrans>>
    BY <1>1, <1>13 DEF BlkInsert, At, Goto, TypeOK, CallTypeOK
  <2>2. /\ b \notin StoredBlocks /\ StoredBlocks' = StoredBlocks \cup {b}
        /\ \A c \in Blocks \ {b} : blockRows'[c] = blockRows[c]
    BY <1>b, <1>1, <1>13, <2>1 DEF BlkInsert, CountStillHolds, StoredBlocks, TypeOK, RowTypeOK
  <2>3. CountedBlocks' = CountedBlocks
    BY <1>b, <1>5, <2>1, <2>2 DEF CountedBlocks, AtBlock
  <2>4. CountedTxs' = CountedTxs
    BY <1>4, <1>5, <2>1 DEF CountedTxs, StoredTxs
  <2>5. SentOrOnItsWay(b)' /\ \A c \in Blocks \ {b} : SentOrOnItsWay(c)'
    BY <1>b, <2>1, <2>2, OthersOnTheirWay DEF SentOrOnItsWay, Storing
  <2> QED
    BY <1>8, <1>e, <2>1, <2>3, <2>4, <2>5
<1>14. CASE BlkChannel(d)
  <2>1. /\ pc[d] = "blkChannel" /\ pc'[d] = "notify" /\ blk' = blk
        /\ UNCHANGED <<blockRows, txRows, sent, chanTrans>> /\ chanBlocks' = chanBlocks + 1
    BY <1>1, <1>2, <1>14 DEF BlkChannel, At, Goto, TypeOK, CallTypeOK, Increment
  <2>2. b \in StoredBlocks /\ StoredBlocks' = StoredBlocks
    BY <1>b, <1>1, <2>1 DEF CountStillHolds, StoredBlocks
  <2>3. \A e \in Deliverers \ {d} : ~AtBlock(e, b)
    BY <1>b, <1>4 DEF AtBlock, Between
  <2>4. CountedBlocks' = CountedBlocks \cup {b} /\ b \notin CountedBlocks
    BY <1>b, <1>5, <2>1, <2>2, <2>3 DEF CountedBlocks, AtBlock
  <2>5. Cardinality(CountedBlocks') = Cardinality(CountedBlocks) + 1
    BY <1>8, <2>4, FS_AddElement
  <2>6. CountedTxs' = CountedTxs
    BY <1>4, <1>5, <2>1 DEF CountedTxs, StoredTxs
  <2>7. SentOrOnItsWay(b)' /\ \A c \in Blocks \ {b} : SentOrOnItsWay(c)'
    BY <2>1, OthersOnTheirWay DEF SentOrOnItsWay, Storing
  <2> QED
    BY <1>8, <1>e, <2>1, <2>5, <2>6, <2>7
<1>15. CASE Notify(d)
  <2>1. /\ pc[d] = "notify" /\ pc'[d] \notin Marked
        /\ UNCHANGED <<blockRows, txRows, chanBlocks, chanTrans>>
        /\ sent' = [sent EXCEPT ![b] = @ + 1]
    BY <1>b, <1>1, <1>15 DEF Notify, At, Finish, Return, Marked, Between, TypeOK, CallTypeOK
  <2>2. sent'[b] = blockRows'[b] /\ \A c \in Blocks \ {b} : sent'[c] = sent[c]
    BY <1>b, <1>1, <2>1 DEF CountStillHolds, TypeOK, RowTypeOK
  <2>3. CountedBlocks' = CountedBlocks
    BY <1>5, <2>1 DEF CountedBlocks, StoredBlocks, AtBlock, Marked, Between
  <2>4. CountedTxs' = CountedTxs
    BY <1>4, <1>5, <2>1 DEF CountedTxs, StoredTxs, Marked, Between
  <2>5. SentOrOnItsWay(b)' /\ \A c \in Blocks \ {b} : SentOrOnItsWay(c)'
    BY <1>b, <2>1, <2>2, OthersOnTheirWay DEF SentOrOnItsWay
  <2> QED
    BY <1>8, <1>e, <2>1, <2>3, <2>4, <2>5
<1> QED
  BY <1>10, <1>11, <1>12, <1>13, <1>14, <1>15 DEF Storing

(* Nothing fails in a step after which nothing has failed. *)
LEMMA NoFault ==
  ASSUME TypeOK, TypeOK', [Next]_vars, NothingFailed'
  PROVE  /\ NothingFailed
         /\ \/ UNCHANGED vars \/ Commit \/ Boot(TRUE)
            \/ InitializeNewChannel \/ InsertNewChannel \/ InsertNewChaincode
            \/ \E d \in Deliverers : ProcessBlock(d)
            \/ \E l \in Listeners : Attach(l) \/ Deliver(l)
            \/ \E t \in Ticks : Tick(t) \/ Synch(t)
            \/ \E b \in Blocks : RefreshTimer(b)
<1> USE DEF budget
<1>1. faults \in Nat /\ crashes \in Nat /\ faults' = 0 /\ crashes' = 0 /\ ~LateJoin
  BY DEF TypeOK, CounterTypeOK, NothingFailed
<1>2. \A kind : ~Fault(kind)
  BY <1>1 DEF Fault
<1>3. /\ ~Crash /\ \A d : ~DbError(d)
      /\ \A t : ~ChainInfoFails(t) /\ ~FetchFails(t)
      /\ \A b : ~RefreshTimerFails(b)
  BY <1>1, <1>2 DEF Crash, DbError, ChainInfoFails, FetchFails, RefreshTimerFails
<1>4. \A joined \in BOOLEAN : Boot(joined) => joined = TRUE
  BY <1>1 DEF Boot
<1>5. \/ UNCHANGED vars \/ Commit \/ Boot(TRUE)
      \/ InitializeNewChannel \/ InsertNewChannel \/ InsertNewChaincode
      \/ \E d \in Deliverers : ProcessBlock(d)
      \/ \E l \in Listeners : Attach(l) \/ Deliver(l)
      \/ \E t \in Ticks : Tick(t) \/ Synch(t)
      \/ \E b \in Blocks : RefreshTimer(b)
  BY <1>3, <1>4 DEF Next
<1>6. UNCHANGED budget
  BY <1>5 DEF vars, Commit, Boot, InitializeNewChannel, InsertNewChannel, InsertNewChaincode,
     ProcessBlock, TxCount, TxInsert, TxChaincode, TxChannel, BlkCount, BlkInsert, BlkChannel,
     Notify, Attach, Deliver, Tick, Synch, ChainInfo, FindMissing, Fetch, SynchDone, RefreshTimer
<1> QED
  BY <1>1, <1>5, <1>6 DEF NothingFailed

LEMMA NextExact ==
  ASSUME IInv, CounterInv, ExactInv, [Next]_vars
  PROVE  ExactInv'
<1> SUFFICES ASSUME NothingFailed' PROVE ExactInv'
  BY DEF ExactInv
<1> USE DEF procVars, hubVars, callVars, keyVars, rowVars, chanVars, ccVars, outVars, budget
<1>t. TypeOK /\ TypeOK' /\ NothingFailed
  BY NextTypeOK, NoFault DEF IInv
<1>r. alive => chanRow
  BY <1>t DEF ExactInv
<1>1. CASE /\ UNCHANGED <<callVars, blockRows, txRows, sent, chanBlocks, chanTrans>>
           /\ alive' => chanRow'
  BY <1>1, <1>t, NothingExact
<1>2. ASSUME NEW d \in Deliverers, UNCHANGED <<blockRows, txRows, sent, chanVars, alive>>,
             pc[d] \notin Marked, NEW label, label \notin Marked, pc' = [pc EXCEPT ![d] = label],
             \A e \in Deliverers \ {d} : blk'[e] = blk[e] /\ idx'[e] = idx[e]
      PROVE  ExactInv'
  <2>1. pc'[d] = label /\ \A e \in Deliverers \ {d} : pc'[e] = pc[e]
    BY <1>2, <1>t DEF TypeOK, CallTypeOK
  <2> QED
    BY <1>2, <1>t, <1>r, <2>1, NothingExact
<1>3. ASSUME NEW d \in Deliverers, ProcessBlock(d)
      PROVE  ExactInv'
  <2>1. CASE Storing(d) \/ Notify(d)
    BY <1>t, <2>1, StoringExact
  <2>2. CASE TxCount(d) \/ BlkCount(d)
    <3>1. UNCHANGED <<blockRows, txRows, sent, chanVars, alive>> /\ pc[d] \notin Marked
      BY <2>2 DEF TxCount, BlkCount, At, Marked, Between
    <3>2. \E label : label \notin Marked /\ pc' = [pc EXCEPT ![d] = label]
      BY <2>2 DEF TxCount, BlkCount, Goto, NextTx, Finish, Return, Marked, Between
    <3>3. \A e \in Deliverers \ {d} : blk'[e] = blk[e] /\ idx'[e] = idx[e]
      BY <1>t, <2>2 DEF TxCount, BlkCount, Goto, NextTx, Finish, Return, TypeOK, CallTypeOK
    <3> QED
      BY <1>2, <3>1, <3>2, <3>3
  <2> QED
    BY <1>3, <2>1, <2>2 DEF ProcessBlock, Storing
<1>4. ASSUME NEW d \in Deliverers, NEW b, Begin(d, b), pc[d] \notin Marked,
             UNCHANGED <<blockRows, txRows, sent, chanVars, alive>>
      PROVE  ExactInv'
  <2>1. "txCount" \notin Marked /\ pc' = [pc EXCEPT ![d] = "txCount"]
    BY <1>4 DEF Begin, BeginUnguarded, Marked, Between
  <2>2. \A e \in Deliverers \ {d} : blk'[e] = blk[e] /\ idx'[e] = idx[e]
    BY <1>t, <1>4 DEF Begin, BeginUnguarded, TypeOK, CallTypeOK
  <2> QED
    BY <1>2, <1>4, <2>1, <2>2
<1>5. ASSUME NEW l \in Listeners, Deliver(l)
      PROVE  ExactInv'
  <2>1. l \in Deliverers /\ pc[l] \notin Marked
        /\ UNCHANGED <<blockRows, txRows, sent, chanVars, alive>>
    BY <1>5 DEF Deliver, Deliverers, At, Marked, Between
  <2> QED
    BY <1>1, <1>4, <1>5, <1>r, <2>1 DEF Deliver
<1>6. ASSUME NEW t \in Ticks, Fetch(t)
      PROVE  ExactInv'
  <2>1. t \in Deliverers /\ pc[t] \notin Marked
        /\ UNCHANGED <<blockRows, txRows, sent, chanVars, alive>>
    BY <1>6 DEF Fetch, Deliverers, At, Marked, Between
  <2> QED
    BY <1>1, <1>4, <1>6, <1>r, <2>1 DEF Fetch
<1>7. ASSUME NEW t \in Ticks, Tick(t) \/ ChainInfo(t) \/ FindMissing(t) \/ SynchDone(t)
      PROVE  ExactInv'
  <2>1. /\ t \in Deliverers /\ pc[t] \notin Marked
        /\ UNCHANGED <<blockRows, txRows, sent, chanVars, alive, blk, idx>>
    BY <1>7 DEF Tick, ChainInfo, FindMissing, SynchDone, Goto, At, Deliverers, Marked, Between
  <2>2. \E label : label \notin Marked /\ pc' = [pc EXCEPT ![t] = label]
    BY <1>7 DEF Tick, ChainInfo, FindMissing, SynchDone, Goto, Marked, Between
  <2> QED
    BY <1>2, <2>1, <2>2
<1>8. CASE UNCHANGED vars \/ Commit \/ InitializeNewChannel \/ InsertNewChannel
           \/ InsertNewChaincode \/ Boot(TRUE)
  <2>1. CASE Boot(TRUE)
    <3>1. chanRow'
      BY <2>1, Zenon DEF Boot
    <3> QED
      BY <1>1, <2>1, <3>1 DEF Boot
  <2>2. CASE InsertNewChannel
    <3>1. chanRow'
      BY <2>2, Zenon DEF InsertNewChannel
    <3> QED
      BY <1>1, <2>2, <3>1 DEF InsertNewChannel
  <2>3. CASE UNCHANGED vars \/ Commit \/ InitializeNewChannel \/ InsertNewChaincode
    BY <1>1, <1>r, <2>3 DEF vars, Commit, InitializeNewChannel, InsertNewChaincode
  <2> QED
    BY <1>8, <2>1, <2>2, <2>3
<1>9. CASE (\E l \in Listeners : Attach(l)) \/ (\E b \in Blocks : RefreshTimer(b))
  BY <1>1, <1>9, <1>r DEF Attach, RefreshTimer
<1> QED
  BY <1>t, <1>3, <1>5, <1>6, <1>7, <1>8, <1>9, NoFault DEF Synch

(* As long as nothing has failed, a counter of table channel is the number of rows as     *)
(* soon as no caller stands between an INSERT and its UPDATE, and a block that is stored  *)
(* is announced when its caller is done.                                                  *)
THEOREM CountersExact == Spec => []CountersExactWhenQuiet
<1>1. Init => IInv /\ CounterInv /\ ExactInv
  BY InitIInv, InitCounters, InitExact
<1>2. IInv /\ CounterInv /\ ExactInv /\ [Next]_vars => (IInv /\ CounterInv /\ ExactInv)'
  BY NextIInv, NextCounters, NextExact
<1>3. IInv /\ ExactInv => CountersExactWhenQuiet
  <2> SUFFICES ASSUME ExactInv, NothingFailed PROVE CountersExactWhenQuiet
    BY DEF CountersExactWhenQuiet
  <2>1. (\A d \in Deliverers : pc[d] # "blkChannel") => CountedBlocks = StoredBlocks
    BY DEF CountedBlocks, AtBlock
  <2>2. (\A d \in Deliverers : pc[d] \notin {"txChaincode", "txChannel"}) => CountedTxs = StoredTxs
    BY DEF CountedTxs
  <2>3. (\A d \in Deliverers : ~Active(d)) => \A b \in Blocks : sent[b] = blockRows[b]
    BY DEF ExactInv, SentOrOnItsWay, Active, InBlock, InBlk
  <2> QED
    BY <2>1, <2>2, <2>3 DEF ExactInv, CountersExactWhenQuiet
<1> QED
  BY <1>1, <1>2, <1>3, PTL DEF Spec
=============================================================================
