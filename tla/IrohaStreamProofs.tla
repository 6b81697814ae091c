------------------------- MODULE IrohaStreamProofs --------------------------
(* Proofs about IrohaStream, for every set of services and every bound: the table stays a  *)
(* prefix of the ledger, and onBlockLock keeps the two callers of onBlock apart.           *)
EXTENDS IrohaStream, FiniteSetTheorems, TLAPS

(* What the node hands out, and what waits for onBlock, are committed blocks. *)
Known == 1 .. ledger

KnownBlocks ==
  /\ ledger \in Heights
  /\ answer \in [Procs -> 0 .. ledger]
  /\ hand \in [Procs -> 0 .. ledger]
  /\ queue \in [Procs -> Seq(Known)]
  /\ wire \in [Procs -> Seq(Known)]

StreamStates ==
  /\ stream \in [Procs -> {"none", "open", "ok", "err"}]
  /\ cancelled \in [Procs -> BOOLEAN]
  /\ sub \in [Procs -> BOOLEAN]
  /\ starts \in Nat
  /\ faults \in Nat

(* While the catch-up loop runs, and before it, the lock is taken and streamTryConsume     *)
(* does not run; it keeps the lock as long as it does.                                     *)
LoopOwnsLock(p) ==
  loop[p] \in {"off", "count", "ask", "answer", "apply", "metrics"}
    => lock[p] /\ cons[p] = "idle"
ConsumerOwnsLock(p) == ConsBusy(p) => lock[p]

(* Every block below height is stored; what is in the hands of onBlock is block height,    *)
(* and it is stored once the transaction of applyBlock has committed.                      *)
Prefix == \E n \in 0 .. ledger : rows = 1 .. n
StoredBelow(p) == \A b \in 1 .. height[p] - 1 : b \in rows
LoopHolds(p) ==
  /\ loop[p] = "answer" => answer[p] \in {0, height[p]}
  /\ LoopBusy(p) => answer[p] = height[p]
  /\ loop[p] = "metrics" => height[p] \in rows
ConsumerHolds(p) ==
  /\ ConsBusy(p) => hand[p] = height[p]
  /\ cons[p] = "metrics" => height[p] \in rows

ServiceInv(p) ==
  /\ LoopOwnsLock(p)
  /\ ConsumerOwnsLock(p)
  /\ StoredBelow(p)
  /\ LoopHolds(p)
  /\ ConsumerHolds(p)

StreamInv ==
  /\ ControlTypeOK
  /\ StreamStates
  /\ KnownBlocks
  /\ height \in [Procs -> Nat \ {0}]
  /\ Prefix
  /\ \A p \in Procs : ServiceInv(p)

-----------------------------------------------------------------------------
(* A longer ledger knows the same sequences. *)
LEMMA LongerSequences ==
  ASSUME NEW S, NEW T, S \subseteq T, NEW s \in Seq(S)
  PROVE  s \in Seq(T)
<1>1. Len(s) \in Nat /\ \A i \in 1 .. Len(s) : s[i] \in T
  OBVIOUS
<1>2. s = [i \in 1 .. Len(s) |-> s[i]]
  OBVIOUS
<1>3. [i \in 1 .. Len(s) |-> s[i]] \in Seq(T)
  BY <1>1
<1> QED
  BY <1>2, <1>3

LEMMA Updated ==
  ASSUME NEW S, NEW f \in [Procs -> S], NEW p, NEW v \in S
  PROVE  [f EXCEPT ![p] = v] \in [Procs -> S]
OBVIOUS

LEMMA PrefixCardinality ==
  ASSUME NEW n \in Nat
  PROVE  Cardinality(1 .. n) = n
<1>1. Cardinality(1 .. n) = IF 1 > n THEN 0 ELSE n - 1 + 1
  BY FS_Interval
<1> QED
  BY <1>1

(* A service that a step leaves alone keeps its invariant, whatever others have stored. *)
Untouched(p) ==
  /\ loop'[p] = loop[p]
  /\ cons'[p] = cons[p]
  /\ lock'[p] = lock[p]
  /\ height'[p] = height[p]
  /\ answer'[p] = answer[p]
  /\ hand'[p] = hand[p]

LEMMA Frame ==
  ASSUME NEW p \in Procs, ServiceInv(p), Untouched(p), rows \subseteq rows'
  PROVE  ServiceInv(p)'
BY DEF ServiceInv, Untouched, LoopOwnsLock, ConsumerOwnsLock, StoredBelow, LoopHolds,
       ConsumerHolds, LoopBusy, ConsBusy

(* What streamTryConsume leaves at its next await: it is done, or has handed over h. *)
LEMMA ConsumeStep ==
  ASSUME ControlTypeOK, KnownBlocks, NEW p \in Procs, NEW q \in Seq(Known), NEW h,
         Consume(p, q, h)
  PROVE  /\ cons' \in [Procs -> {"idle", "apply", "metrics"}]
         /\ lock' \in [Procs -> BOOLEAN]
         /\ queue' \in [Procs -> Seq(Known)]
         /\ hand' \in [Procs -> 0 .. ledger]
         /\ \/ cons'[p] = "idle"
            \/ cons'[p] = "apply" /\ lock'[p] /\ hand'[p] = h
         /\ \A o \in Procs \ {p} :
              cons'[o] = cons[o] /\ lock'[o] = lock[o] /\ hand'[o] = hand[o]
<1> USE DEF ControlTypeOK, KnownBlocks, Set
<1>0. ledger \in Nat
  BY BoundsAssumption DEF Heights
<1>1. CASE /\ end[p]
           /\ q # <<>>
           /\ cons' = Set(cons, p, "idle")
           /\ queue' = Set(queue, p, Tail(q))
           /\ lock' = Set(lock, p, TRUE)
           /\ UNCHANGED hand
  <2>1. Tail(q) \in Seq(Known)
    BY <1>1
  <2> QED
    BY <1>1, <2>1
<1>2. ASSUME NEW i \in DOMAIN q, q[i] = h,
             cons' = Set(cons, p, "apply"),
             hand' = Set(hand, p, h),
             queue' = Set(queue, p, SubSeq(q, i + 1, Len(q))),
             lock' = Set(lock, p, TRUE)
      PROVE  /\ cons' \in [Procs -> {"idle", "apply", "metrics"}]
             /\ lock' \in [Procs -> BOOLEAN]
             /\ queue' \in [Procs -> Seq(Known)]
             /\ hand' \in [Procs -> 0 .. ledger]
             /\ cons'[p] = "apply" /\ lock'[p] /\ hand'[p] = h
             /\ \A o \in Procs \ {p} :
                  cons'[o] = cons[o] /\ lock'[o] = lock[o] /\ hand'[o] = hand[o]
  <2>1. h \in 0 .. ledger
    BY <1>0, <1>2 DEF Known
  <2>2. SubSeq(q, i + 1, Len(q)) \in Seq(Known)
    OBVIOUS
  <2> QED
    BY <1>2, <2>1, <2>2
<1>3. CASE /\ cons' = Set(cons, p, "idle")
           /\ queue' = Set(queue, p, <<>>)
           /\ lock' = Set(lock, p, FALSE)
           /\ UNCHANGED hand
  <2>1. <<>> \in Seq(Known)
    OBVIOUS
  <2> QED
    BY <1>3, <2>1
<1> QED
  BY <1>1, <1>2, <1>3 DEF Consume

-----------------------------------------------------------------------------
(* The invariant holds initially, and each action preserves it. *)

LEMMA InitStreamInv == Init => StreamInv
<1> SUFFICES ASSUME Init PROVE StreamInv
  OBVIOUS
<1> USE BoundsAssumption DEF Init
<1>1. ControlTypeOK
  BY DEF ControlTypeOK
<1>2. StreamStates
  BY DEF StreamStates
<1>3. KnownBlocks
  BY DEF KnownBlocks, Heights
<1>4. height \in [Procs -> Nat \ {0}]
  OBVIOUS
<1>5. Prefix
  <2>1. rows = 1 .. 0 /\ 0 \in 0 .. ledger
    OBVIOUS
  <2> QED
    BY <2>1 DEF Prefix
<1>6. ASSUME NEW p \in Procs
      PROVE  ServiceInv(p)
  BY DEF ServiceInv, LoopOwnsLock, ConsumerOwnsLock, StoredBelow, LoopHolds, ConsumerHolds,
         LoopBusy, ConsBusy
<1> QED
  BY <1>1, <1>2, <1>3, <1>4, <1>5, <1>6 DEF StreamInv

(* A block is committed: whatever is known stays known. *)
LEMMA CommitPreserves ==
  ASSUME StreamInv, Commit
  PROVE  StreamInv'
<1> USE DEF Commit, StreamInv, loopVars, consVars, budget
<1>0. ledger \in Nat \ {0} /\ MaxHeight \in Nat /\ ledger' = ledger + 1
  BY BoundsAssumption DEF KnownBlocks, Heights
<1>1. ControlTypeOK'
  BY DEF ControlTypeOK
<1>2. StreamStates'
  BY DEF StreamStates
<1>3. KnownBlocks'
  <2>1. Known \subseteq Known' /\ ledger + 1 \in Known'
    BY <1>0 DEF Known
  <2>2. ASSUME NEW p \in Procs
        PROVE  queue[p] \in Seq(Known') /\ wire[p] \in Seq(Known')
    BY <2>1, LongerSequences DEF KnownBlocks
  <2>3. ASSUME NEW p \in Procs
        PROVE  wire'[p] \in Seq(Known')
    <3>1. Append(wire[p], ledger + 1) \in Seq(Known')
      BY <2>1, <2>2
    <3> QED
      BY <2>2, <3>1
  <2>4. wire' \in [Procs -> Seq(Known')]
    <3>1. wire' = [p \in Procs |-> wire'[p]]
      OBVIOUS
    <3> QED
      BY <2>3, <3>1
  <2>5. queue' \in [Procs -> Seq(Known')]
    BY <2>2 DEF KnownBlocks
  <2>6. ledger' \in Heights
    BY <1>0 DEF Heights
  <2>7. 0 .. ledger \subseteq 0 .. ledger'
    BY <1>0
  <2>8. answer' \in [Procs -> 0 .. ledger'] /\ hand' \in [Procs -> 0 .. ledger']
    BY <2>7 DEF KnownBlocks
  <2> QED
    BY <2>4, <2>5, <2>6, <2>8 DEF KnownBlocks
<1>4. Prefix'
  BY <1>0 DEF Prefix
<1>5. ASSUME NEW p \in Procs
      PROVE  ServiceInv(p)'
  BY Frame DEF Untouched
<1> QED
  BY <1>1, <1>2, <1>3, <1>4, <1>5

(* A step of one service leaves the others alone. *)
LEMMA ServiceStep ==
  ASSUME StreamInv, NEW p \in Procs,
         ControlTypeOK', StreamStates', KnownBlocks', height' \in [Procs -> Nat \ {0}],
         Prefix', rows \subseteq rows', ServiceInv(p)',
         \A o \in Procs \ {p} : Untouched(o)
  PROVE  StreamInv'
<1>1. ASSUME NEW o \in Procs
      PROVE  ServiceInv(o)'
  <2>1. CASE o = p
    BY <2>1
  <2>2. CASE o # p
    BY <2>2, Frame DEF StreamInv
  <2> QED
    BY <2>1, <2>2
<1> QED
  BY <1>1 DEF StreamInv

(* Steps that neither store a block nor touch what onBlock works on. *)
LEMMA StreamStepPreserves ==
  ASSUME StreamInv, NEW p \in Procs,
         Subscribe(p) \/ Terminate(p) \/ StreamCancelled(p) \/ StreamFails(p)
  PROVE  StreamInv'
<1> USE DEF StreamInv, Subscribe, Terminate, StreamCancelled, StreamFails, Fault, Set,
            loopVars, consVars, streamVars, budget
<1>1. ControlTypeOK'
  BY DEF ControlTypeOK
<1>2. StreamStates'
  <2>1. stream' \in [Procs -> {"none", "open", "ok", "err"}] /\ sub' \in [Procs -> BOOLEAN]
    BY DEF StreamStates
  <2>2. cancelled' \in [Procs -> BOOLEAN]
    <3>1. cancelled' = cancelled \/ \E v \in BOOLEAN : cancelled' = [cancelled EXCEPT ![p] = v]
      BY Zenon
    <3> QED
      BY <3>1 DEF StreamStates
  <2>3. starts' \in Nat /\ faults' \in Nat
    BY DEF StreamStates
  <2> QED
    BY <2>1, <2>2, <2>3 DEF StreamStates
<1>3. KnownBlocks'
  <2>1. UNCHANGED <<ledger, answer, hand, queue>>
    OBVIOUS
  <2>2. wire' = wire \/ wire' = [wire EXCEPT ![p] = <<>>]
    OBVIOUS
  <2>3. <<>> \in Seq(Known)
    OBVIOUS
  <2> QED
    BY <2>1, <2>2, <2>3 DEF KnownBlocks, Known
<1>4. UNCHANGED <<rows, ledger, height>> /\ \A o \in Procs : Untouched(o)
  BY DEF Untouched
<1>5. Prefix'
  BY <1>4 DEF Prefix
<1>6. ServiceInv(p)'
  BY <1>4, Frame
<1> QED
  BY <1>1, <1>2, <1>3, <1>4, <1>5, <1>6, ServiceStep

(* sync(): start, the count, a failing count, the end of the process. *)
LEMMA ProcessStepPreserves ==
  ASSUME StreamInv, NEW p \in Procs,
         Start(p) \/ Counted(p) \/ CountFails(p) \/ Exit(p)
  PROVE  StreamInv'
<1> USE DEF Start, Counted, CountFails, Exit, Fault, Set, loopVars, consVars, streamVars,
            budget
<1>0. ledger \in Nat
  BY BoundsAssumption DEF StreamInv, KnownBlocks, Heights
<1>1. ControlTypeOK'
  BY DEF StreamInv, ControlTypeOK
<1>2. StreamStates'
  <2>1. starts' \in Nat /\ faults' \in Nat
    BY DEF StreamInv, StreamStates
  <2>2. stream' \in [Procs -> {"none", "open", "ok", "err"}]
    BY DEF StreamInv, StreamStates
  <2>3. cancelled' \in [Procs -> BOOLEAN] /\ sub' \in [Procs -> BOOLEAN]
    BY DEF StreamInv, StreamStates
  <2> QED
    BY <2>1, <2>2, <2>3 DEF StreamStates
<1>3. KnownBlocks'
  <2>1. ledger' = ledger
    OBVIOUS
  <2>2. <<>> \in Seq(Known) /\ 0 \in 0 .. ledger
    BY <1>0
  <2>3. wire' = wire \/ wire' = [wire EXCEPT ![p] = <<>>]
    OBVIOUS
  <2>4. queue' = queue \/ queue' = [queue EXCEPT ![p] = <<>>]
    OBVIOUS
  <2>5. answer' = answer \/ answer' = [answer EXCEPT ![p] = 0]
    OBVIOUS
  <2>6. hand' = hand \/ hand' = [hand EXCEPT ![p] = 0]
    OBVIOUS
  <2>7. queue' \in [Procs -> Seq(Known)] /\ wire' \in [Procs -> Seq(Known)]
    <3>1. queue \in [Procs -> Seq(Known)] /\ wire \in [Procs -> Seq(Known)]
      BY DEF StreamInv, KnownBlocks
    <3> HIDE DEF Start, Counted, CountFails, Exit
    <3> QED
      BY <2>2, <2>3, <2>4, <3>1, Updated
  <2>8. answer' \in [Procs -> 0 .. ledger] /\ hand' \in [Procs -> 0 .. ledger]
    <3>1. answer \in [Procs -> 0 .. ledger] /\ hand \in [Procs -> 0 .. ledger]
      BY DEF StreamInv, KnownBlocks
    <3> HIDE DEF Start, Counted, CountFails, Exit
    <3> QED
      BY <2>2, <2>5, <2>6, <3>1, Updated
  <2> QED
    BY <2>1, <2>7, <2>8 DEF StreamInv, KnownBlocks, Known
<1>4. UNCHANGED <<rows, ledger>>
  OBVIOUS
<1>5. Prefix'
  BY <1>4 DEF StreamInv, Prefix
<1>6. PICK n \in 0 .. ledger : rows = 1 .. n
  BY DEF StreamInv, Prefix
<1>7. Cardinality(rows) = n
  BY <1>0, <1>6, PrefixCardinality
<1>8. height' \in [Procs -> Nat \ {0}]
  BY <1>0, <1>7 DEF StreamInv
<1>9. \A o \in Procs \ {p} : Untouched(o)
  BY DEF StreamInv, Untouched, ControlTypeOK, KnownBlocks
<1>10. ServiceInv(p)'
  <2>1. CASE Counted(p) /\ ~end[p]
    <3>1. loop'[p] = "ask" /\ height'[p] = n + 1 /\ UNCHANGED <<rows, lock, cons, hand>>
      BY <2>1, <1>7 DEF StreamInv, ControlTypeOK
    <3>2. lock[p] /\ cons[p] = "idle"
      BY <2>1 DEF StreamInv, ServiceInv, LoopOwnsLock
    <3>3. StoredBelow(p)'
      BY <1>0, <1>6, <3>1 DEF StoredBelow
    <3> QED
      BY <3>1, <3>2, <3>3 DEF ServiceInv, LoopOwnsLock, ConsumerOwnsLock, LoopHolds,
         ConsumerHolds, LoopBusy, ConsBusy
  <2>2. CASE Exit(p)
    <3>1. /\ loop'[p] = "off" /\ cons'[p] = "idle" /\ height'[p] = 1 /\ lock'[p]
      BY <2>2 DEF StreamInv, ControlTypeOK
    <3> QED
      BY <3>1 DEF ServiceInv, LoopOwnsLock, ConsumerOwnsLock, StoredBelow, LoopHolds,
         ConsumerHolds, LoopBusy, ConsBusy
  <2>3. CASE Start(p) \/ CountFails(p) \/ (Counted(p) /\ end[p])
    <3>1. loop'[p] \in {"count", "done"} /\ loop[p] \in {"off", "count"}
      BY <2>3 DEF StreamInv, ControlTypeOK
    <3>2. UNCHANGED <<rows, cons, lock, height, hand, answer>>
      BY <2>3
    <3> QED
      BY <3>1, <3>2 DEF StreamInv, ServiceInv, LoopOwnsLock, ConsumerOwnsLock, StoredBelow,
         LoopHolds, ConsumerHolds, LoopBusy, ConsBusy
  <2> QED
    BY <2>1, <2>2, <2>3
<1> QED
  BY <1>1, <1>2, <1>3, <1>4, <1>5, <1>8, <1>9, <1>10, ServiceStep

(* A block arrives on the stream: it is dropped, queued, or streamTryConsume starts. *)
LEMMA DataPreserves ==
  ASSUME StreamInv, NEW p \in Procs, Data(p)
  PROVE  StreamInv'
<1> USE DEF loopVars, consVars, budget
<1> DEFINE q == Append(queue[p], Head(wire[p]))
<1>1. UNCHANGED <<ledger, rows, loop, answer, height, end, failed, stream, cancelled, sub,
                  starts, faults>>
  BY DEF Data
<1>2. wire[p] \in Seq(Known) /\ queue[p] \in Seq(Known) /\ wire[p] # <<>>
  BY DEF Data, StreamInv, KnownBlocks
<1>3. q \in Seq(Known) /\ Tail(wire[p]) \in Seq(Known)
  BY <1>2
<1> HIDE DEF q
<1>4. \/ UNCHANGED <<cons, hand, lock, queue>>
      \/ queue' = [queue EXCEPT ![p] = q] /\ UNCHANGED <<cons, hand, lock>>
      \/ ~lock[p] /\ Consume(p, q, height[p])
  BY DEF Data, Set, q
<1>5. /\ queue' \in [Procs -> Seq(Known)]
      /\ hand' \in [Procs -> 0 .. ledger]
      /\ cons' \in [Procs -> {"idle", "apply", "metrics"}]
      /\ lock' \in [Procs -> BOOLEAN]
      /\ ServiceInv(p)'
      /\ \A o \in Procs \ {p} :
           cons'[o] = cons[o] /\ lock'[o] = lock[o] /\ hand'[o] = hand[o]
  <2>1. ASSUME queue' \in [Procs -> Seq(Known)], UNCHANGED <<cons, hand, lock>>
        PROVE  <1>5!:
    <3>1. Untouched(p)
      BY <1>1, <2>1 DEF Untouched
    <3>2. ServiceInv(p)'
      BY <1>1, <3>1, Frame DEF StreamInv
    <3> QED
      BY <2>1, <3>2 DEF StreamInv, KnownBlocks, ControlTypeOK
  <2>2. CASE UNCHANGED <<cons, hand, lock, queue>>
    BY <2>1, <2>2 DEF StreamInv, KnownBlocks
  <2>3. CASE queue' = [queue EXCEPT ![p] = q] /\ UNCHANGED <<cons, hand, lock>>
    BY <1>3, <2>1, <2>3, Updated DEF StreamInv, KnownBlocks
  <2>4. CASE ~lock[p] /\ Consume(p, q, height[p])
    <3>1. <1>5!1 /\ <1>5!2 /\ <1>5!3 /\ <1>5!4 /\ <1>5!6
      BY <1>3, <2>4, ConsumeStep DEF StreamInv
    <3>2. \/ cons'[p] = "idle"
          \/ cons'[p] = "apply" /\ lock'[p] /\ hand'[p] = height[p]
      BY <1>3, <2>4, ConsumeStep DEF StreamInv
    <3>3. loop[p] \notin {"off", "count", "ask", "answer", "apply", "metrics"}
      BY <2>4 DEF StreamInv, ServiceInv, LoopOwnsLock
    <3>4. ServiceInv(p)'
      BY <1>1, <3>2, <3>3 DEF StreamInv, ServiceInv, LoopOwnsLock, ConsumerOwnsLock,
         StoredBelow, LoopHolds, ConsumerHolds, LoopBusy, ConsBusy
    <3> QED
      BY <3>1, <3>4
  <2> QED
    BY <1>4, <2>2, <2>3, <2>4
<1>6. ControlTypeOK'
  BY <1>1, <1>5 DEF StreamInv, ControlTypeOK
<1>7. StreamStates' /\ Prefix' /\ height' \in [Procs -> Nat \ {0}]
  BY <1>1 DEF StreamInv, StreamStates, Prefix
<1>8. KnownBlocks'
  <2>1. wire' \in [Procs -> Seq(Known)]
    BY <1>3, Updated DEF Data, Set, StreamInv, KnownBlocks
  <2> QED
    BY <1>1, <1>5, <2>1 DEF StreamInv, KnownBlocks, Known
<1>9. \A o \in Procs \ {p} : Untouched(o)
  BY <1>1, <1>5 DEF Untouched
<1> QED
  BY <1>1, <1>5, <1>6, <1>7, <1>8, <1>9, ServiceStep

(* applyBlock stores the block in hand: the one that follows the prefix. *)
LEMMA ApplyPreserves ==
  ASSUME StreamInv, NEW p \in Procs, LoopApplies(p) \/ ConsumerApplies(p)
  PROVE  StreamInv'
<1> USE DEF loopVars, consVars, streamVars, budget
<1>1. UNCHANGED <<ledger, answer, hand, lock, queue, height, end, failed, stream, cancelled,
                  sub, wire, starts, faults>>
  BY DEF LoopApplies, ConsumerApplies
<1>2. ledger \in Nat
  BY BoundsAssumption DEF StreamInv, KnownBlocks, Heights
<1>3. /\ height[p] \notin rows
      /\ rows' = rows \cup {height[p]}
      /\ height[p] \in 1 .. ledger
  <2>1. height[p] \in Nat \ {0}
    BY DEF StreamInv
  <2>2. CASE LoopApplies(p)
    <3>1. answer[p] = height[p] /\ answer[p] \in 0 .. ledger
      BY <2>2 DEF LoopApplies, LoopBusy, StreamInv, ServiceInv, LoopHolds, KnownBlocks
    <3> QED
      BY <1>2, <2>1, <2>2, <3>1 DEF LoopApplies
  <2>3. CASE ConsumerApplies(p)
    <3>1. hand[p] = height[p] /\ hand[p] \in 0 .. ledger
      BY <2>3 DEF ConsumerApplies, ConsBusy, StreamInv, ServiceInv, ConsumerHolds, KnownBlocks
    <3> QED
      BY <1>2, <2>1, <2>3, <3>1 DEF ConsumerApplies
  <2> QED
    BY <2>2, <2>3
<1>4. Prefix'
  <2>1. PICK n \in 0 .. ledger : rows = 1 .. n
    BY DEF StreamInv, Prefix
  <2>2. \A b \in 1 .. height[p] - 1 : b \in rows
    BY DEF StreamInv, ServiceInv, StoredBelow
  <2>3. height[p] = n + 1
    <3>1. height[p] > n
      BY <1>2, <1>3, <2>1
    <3>2. ~(height[p] > n + 1)
      <4>1. SUFFICES ASSUME height[p] > n + 1 PROVE FALSE
        OBVIOUS
      <4>2. n + 1 \in 1 .. height[p] - 1
        BY <1>2, <1>3, <2>1, <4>1
      <4> QED
        BY <1>2, <2>1, <2>2, <4>2
    <3> QED
      BY <1>2, <1>3, <2>1, <3>1, <3>2
  <2>4. rows' = 1 .. n + 1 /\ n + 1 \in 0 .. ledger
    BY <1>2, <1>3, <2>1, <2>3
  <2> QED
    BY <1>1, <2>4 DEF Prefix
<1>5. ControlTypeOK'
  BY <1>1 DEF StreamInv, ControlTypeOK, LoopApplies, ConsumerApplies, Set
<1>6. StreamStates' /\ height' \in [Procs -> Nat \ {0}] /\ KnownBlocks'
  BY <1>1 DEF StreamInv, StreamStates, KnownBlocks, Known
<1>7. \A o \in Procs \ {p} : Untouched(o)
  BY <1>1 DEF StreamInv, ControlTypeOK, LoopApplies, ConsumerApplies, Set, Untouched
<1>8. ServiceInv(p)'
  <2>1. height'[p] \in rows' /\ StoredBelow(p)'
    BY <1>1, <1>3 DEF StreamInv, ServiceInv, StoredBelow
  <2>2. CASE LoopApplies(p)
    <3>1. loop[p] = "apply" /\ loop'[p] = "metrics" /\ cons' = cons
      BY <2>2 DEF LoopApplies, Set, StreamInv, ControlTypeOK
    <3> QED
      BY <1>1, <2>1, <3>1 DEF StreamInv, ServiceInv, LoopOwnsLock, ConsumerOwnsLock,
         LoopHolds, ConsumerHolds, LoopBusy, ConsBusy
  <2>3. CASE ConsumerApplies(p)
    <3>1. cons[p] = "apply" /\ cons'[p] = "metrics" /\ loop' = loop
      BY <2>3 DEF ConsumerApplies, Set, StreamInv, ControlTypeOK
    <3> QED
      BY <1>1, <1>3, <2>1, <3>1 DEF StreamInv, ServiceInv, LoopOwnsLock, ConsumerOwnsLock,
         LoopHolds, ConsumerHolds, LoopBusy, ConsBusy
  <2> QED
    BY <2>2, <2>3
<1> QED
  BY <1>3, <1>4, <1>5, <1>6, <1>7, <1>8, ServiceStep

(* onBlock has returned: height moves past a block that is stored. *)
LEMMA MovedHeight ==
  ASSUME StreamInv, NEW p \in Procs, height[p] \in rows, UNCHANGED rows,
         height' = Set(height, p, height[p] + 1)
  PROVE  /\ height' \in [Procs -> Nat \ {0}]
         /\ height'[p] = height[p] + 1
         /\ \A o \in Procs \ {p} : height'[o] = height[o]
         /\ StoredBelow(p)'
<1>1. height \in [Procs -> Nat \ {0}] /\ \A b \in 1 .. height[p] - 1 : b \in rows
  BY DEF StreamInv, ServiceInv, StoredBelow
<1>2. /\ height' \in [Procs -> Nat \ {0}]
      /\ height'[p] = height[p] + 1
      /\ \A o \in Procs \ {p} : height'[o] = height[o]
  BY <1>1 DEF Set
<1>3. \A b \in 1 .. height'[p] - 1 : b \in 1 .. height[p] - 1 \/ b = height[p]
  BY <1>1, <1>2
<1> QED
  BY <1>1, <1>2, <1>3 DEF StoredBelow

(* streamTryConsume goes on with the next block, or is done. *)
LEMMA ConsumerGoesOnPreserves ==
  ASSUME StreamInv, NEW p \in Procs, ConsumerGoesOn(p)
  PROVE  StreamInv'
<1> USE DEF streamVars, budget
<1>1. UNCHANGED <<ledger, rows, answer, end, failed, stream, cancelled, sub, wire, starts,
                  faults>>
  BY DEF ConsumerGoesOn
<1>2. cons[p] = "metrics" /\ height[p] \in rows
  BY DEF ConsumerGoesOn, StreamInv, ServiceInv, ConsumerHolds
<1>3. /\ height' \in [Procs -> Nat \ {0}]
      /\ height'[p] = height[p] + 1
      /\ \A o \in Procs \ {p} : height'[o] = height[o]
      /\ StoredBelow(p)'
  BY <1>1, <1>2, MovedHeight DEF ConsumerGoesOn
<1>4. queue[p] \in Seq(Known) /\ Consume(p, queue[p], height[p] + 1)
  BY DEF ConsumerGoesOn, StreamInv, KnownBlocks
<1>5. /\ cons' \in [Procs -> {"idle", "apply", "metrics"}]
      /\ lock' \in [Procs -> BOOLEAN]
      /\ queue' \in [Procs -> Seq(Known)]
      /\ hand' \in [Procs -> 0 .. ledger]
      /\ \/ cons'[p] = "idle"
         \/ cons'[p] = "apply" /\ lock'[p] /\ hand'[p] = height[p] + 1
      /\ \A o \in Procs \ {p} :
           cons'[o] = cons[o] /\ lock'[o] = lock[o] /\ hand'[o] = hand[o]
  BY <1>4, ConsumeStep DEF StreamInv
<1>6. loop[p] \in {"drain", "done"}
  BY <1>2 DEF StreamInv, ServiceInv, LoopOwnsLock, ControlTypeOK
<1>7. /\ loop' = [loop EXCEPT ![p] = "done"] \/ loop' = [loop EXCEPT ![p] = loop[p]]
      /\ loop \in [Procs ->
                    {"off", "count", "ask", "answer", "apply", "metrics", "drain", "done"}]
  BY DEF ConsumerGoesOn, Set, StreamInv, ControlTypeOK
<1>8. /\ loop'[p] \in {"drain", "done"}
      /\ \A o \in Procs \ {p} : loop'[o] = loop[o]
      /\ loop' \in [Procs ->
                     {"off", "count", "ask", "answer", "apply", "metrics", "drain", "done"}]
  BY <1>6, <1>7
<1>9. ControlTypeOK'
  BY <1>1, <1>5, <1>8 DEF StreamInv, ControlTypeOK
<1>10. StreamStates' /\ Prefix' /\ KnownBlocks'
  BY <1>1, <1>5 DEF StreamInv, StreamStates, Prefix, KnownBlocks, Known
<1>11. \A o \in Procs \ {p} : Untouched(o)
  BY <1>1, <1>3, <1>5, <1>8 DEF Untouched
<1>12. ServiceInv(p)'
  BY <1>3, <1>5, <1>8 DEF ServiceInv, LoopOwnsLock, ConsumerOwnsLock, LoopHolds,
     ConsumerHolds, LoopBusy, ConsBusy
<1> QED
  BY <1>1, <1>3, <1>9, <1>10, <1>11, <1>12, ServiceStep

(* onBlock or getBlock is rejected: nothing is handed over any more by that caller. *)
LEMMA FailurePreserves ==
  ASSUME StreamInv, NEW p \in Procs, ConsumerFails(p) \/ LoopFails(p)
  PROVE  StreamInv'
<1> USE DEF consVars, loopVars, streamVars, budget
<1>1. UNCHANGED <<ledger, rows, answer, hand, lock, queue, height, end, stream, sub, wire>>
  BY DEF ConsumerFails, LoopFails
<1>2. starts' \in Nat /\ faults' \in Nat
  <2>1. starts' = starts /\ (faults' = faults \/ faults' = faults + 1)
    BY Zenon DEF ConsumerFails, LoopFails, OnBlockFails, Fault
  <2> QED
    BY <2>1 DEF StreamInv, StreamStates
<1>3. /\ loop' = [loop EXCEPT ![p] = "done"] \/ loop' = [loop EXCEPT ![p] = loop[p]]
      /\ cons' = [cons EXCEPT ![p] = "idle"] \/ cons' = cons
      /\ failed' = [failed EXCEPT ![p] = TRUE]
      /\ cancelled' = [cancelled EXCEPT ![p] = TRUE]
  BY DEF ConsumerFails, LoopFails, Set, StreamInv, ControlTypeOK
<1>4. ControlTypeOK' /\ StreamStates'
  <2>1. ControlTypeOK'
    BY <1>1, <1>3 DEF StreamInv, ControlTypeOK
  <2>2. StreamStates'
    BY <1>1, <1>2, <1>3 DEF StreamInv, StreamStates
  <2> QED
    BY <2>1, <2>2
<1>5. KnownBlocks' /\ height' \in [Procs -> Nat \ {0}] /\ Prefix'
  BY <1>1 DEF StreamInv, KnownBlocks, Known, Prefix
<1>6. \A o \in Procs \ {p} : Untouched(o)
  BY <1>1, <1>3 DEF StreamInv, ControlTypeOK, Untouched
<1>7. loop'[p] \in {loop[p], "done"} /\ cons'[p] \in {cons[p], "idle"}
  BY <1>3 DEF StreamInv, ControlTypeOK
<1>8. ServiceInv(p)'
  BY <1>1, <1>7 DEF StreamInv, ServiceInv, LoopOwnsLock, ConsumerOwnsLock, StoredBelow,
     LoopHolds, ConsumerHolds, LoopBusy, ConsBusy
<1> QED
  BY <1>1, <1>4, <1>5, <1>6, <1>8, ServiceStep

(* The catch-up loop: the answer, what is made of it, and the next round. *)
LEMMA LoopStepPreserves ==
  ASSUME StreamInv, NEW p \in Procs, Answer(p) \/ GotBlock(p) \/ LoopGoesOn(p)
  PROVE  StreamInv'
<1> USE DEF consVars, loopVars, streamVars, budget
<1>1. UNCHANGED <<ledger, rows, end, failed, stream, cancelled, sub, wire, starts, faults>>
  BY DEF Answer, GotBlock, LoopGoesOn
<1>2. StreamStates' /\ Prefix'
  BY <1>1 DEF StreamInv, StreamStates, Prefix
<1>3. lock[p] /\ cons[p] = "idle"
  BY DEF Answer, GotBlock, LoopGoesOn, StreamInv, ServiceInv, LoopOwnsLock
<1>4. StoredBelow(p)
  BY DEF StreamInv, ServiceInv
<1>5. CASE Answer(p)
  <2>1. UNCHANGED <<cons, hand, lock, queue, height>>
    BY <1>5 DEF Answer
  <2>2. loop' = [loop EXCEPT ![p] = "answer"]
    BY <1>5 DEF Answer, Set
  <2>3. PICK a \in 0 .. ledger : a \in {0, height[p]} /\ answer' = [answer EXCEPT ![p] = a]
    <3>1. ledger \in Nat /\ height[p] \in Nat
      BY BoundsAssumption DEF StreamInv, KnownBlocks, Heights
    <3> DEFINE a == IF height[p] <= ledger THEN height[p] ELSE 0
    <3>2. a \in 0 .. ledger /\ a \in {0, height[p]}
      BY <3>1
    <3>3. answer' = [answer EXCEPT ![p] = a]
      BY <1>5 DEF Answer, Set
    <3> QED
      BY <3>2, <3>3
  <2>4. ControlTypeOK'
    BY <1>1, <2>1, <2>2 DEF StreamInv, ControlTypeOK
  <2>5. KnownBlocks'
    <3>1. answer' \in [Procs -> 0 .. ledger]
      BY <2>3, Updated DEF StreamInv, KnownBlocks
    <3> QED
      BY <1>1, <2>1, <3>1 DEF StreamInv, KnownBlocks, Known
  <2>6. loop'[p] = "answer" /\ answer'[p] \in {0, height[p]}
    BY <2>2, <2>3 DEF StreamInv, ControlTypeOK, KnownBlocks
  <2>7. \A o \in Procs \ {p} : Untouched(o)
    BY <2>1, <2>2, <2>3 DEF StreamInv, ControlTypeOK, KnownBlocks, Untouched
  <2>8. ServiceInv(p)'
    BY <1>1, <1>3, <1>4, <2>1, <2>6 DEF ServiceInv, LoopOwnsLock, ConsumerOwnsLock,
       StoredBelow, LoopHolds, ConsumerHolds, LoopBusy, ConsBusy
  <2> QED
    BY <1>1, <1>2, <2>1, <2>4, <2>5, <2>7, <2>8, ServiceStep DEF StreamInv
<1>6. CASE LoopGoesOn(p)
  <2>1. UNCHANGED <<cons, hand, lock, queue, answer>>
    BY <1>6 DEF LoopGoesOn
  <2>2. loop[p] = "metrics" /\ loop' = [loop EXCEPT ![p] = "ask"]
    BY <1>6 DEF LoopGoesOn, Set
  <2>3. height[p] \in rows
    BY <2>2 DEF StreamInv, ServiceInv, LoopHolds
  <2>4. /\ height' \in [Procs -> Nat \ {0}]
        /\ height'[p] = height[p] + 1
        /\ \A o \in Procs \ {p} : height'[o] = height[o]
        /\ StoredBelow(p)'
    BY <1>1, <1>6, <2>3, MovedHeight DEF LoopGoesOn
  <2>5. ControlTypeOK'
    BY <1>1, <2>1, <2>2 DEF StreamInv, ControlTypeOK
  <2>6. KnownBlocks'
    BY <1>1, <2>1 DEF StreamInv, KnownBlocks, Known
  <2>7. loop'[p] = "ask" /\ \A o \in Procs \ {p} : Untouched(o)
    BY <2>1, <2>2, <2>4 DEF StreamInv, ControlTypeOK, Untouched
  <2>8. ServiceInv(p)'
    BY <1>3, <2>1, <2>4, <2>7 DEF ServiceInv, LoopOwnsLock, ConsumerOwnsLock,
       LoopHolds, ConsumerHolds, LoopBusy, ConsBusy
  <2> QED
    BY <1>1, <1>2, <2>4, <2>5, <2>6, <2>7, <2>8, ServiceStep
<1>7. CASE GotBlock(p)
  <2>1. loop[p] = "answer" /\ UNCHANGED <<height, answer>>
    BY <1>7 DEF GotBlock
  <2>2. answer[p] \in {0, height[p]}
    BY <2>1 DEF StreamInv, ServiceInv, LoopHolds
  <2>3. CASE ~CaughtUp(p) /\ loop' = Set(loop, p, "apply") /\ UNCHANGED consVars
    <3>1. answer[p] = height[p]
      BY <2>2, <2>3 DEF CaughtUp
    <3>2. loop'[p] = "apply" /\ \A o \in Procs \ {p} : Untouched(o)
      BY <2>1, <2>3 DEF StreamInv, ControlTypeOK, Untouched, Set
    <3>3. ControlTypeOK'
      BY <1>1, <2>3 DEF StreamInv, ControlTypeOK, Set
    <3>4. KnownBlocks'
      BY <1>1, <2>1, <2>3 DEF StreamInv, KnownBlocks, Known
    <3>5. ServiceInv(p)'
      BY <1>1, <1>3, <1>4, <2>1, <2>3, <3>1, <3>2 DEF ServiceInv, LoopOwnsLock,
         ConsumerOwnsLock, StoredBelow, LoopHolds, ConsumerHolds, LoopBusy, ConsBusy
    <3> QED
      BY <1>1, <1>2, <2>1, <3>2, <3>3, <3>4, <3>5, ServiceStep DEF StreamInv
  <2>4. CASE /\ loop' = Set(loop, p, "done")
             /\ lock' = Set(lock, p, FALSE)
             /\ UNCHANGED <<cons, hand, queue>>
    <3>1. loop'[p] = "done" /\ \A o \in Procs \ {p} : Untouched(o)
      BY <2>1, <2>4 DEF StreamInv, ControlTypeOK, Untouched, Set
    <3>2. ControlTypeOK'
      BY <1>1, <2>4 DEF StreamInv, ControlTypeOK, Set
    <3>3. KnownBlocks'
      BY <1>1, <2>1, <2>4 DEF StreamInv, KnownBlocks, Known
    <3>4. ServiceInv(p)'
      BY <1>1, <1>3, <1>4, <2>1, <2>4, <3>1 DEF ServiceInv, LoopOwnsLock,
         ConsumerOwnsLock, StoredBelow, LoopHolds, ConsumerHolds, LoopBusy, ConsBusy
    <3> QED
      BY <1>1, <1>2, <2>1, <3>1, <3>2, <3>3, <3>4, ServiceStep DEF StreamInv
  <2>5. CASE /\ Consume(p, queue[p], height[p])
             /\ loop' = Set(loop, p, IF cons'[p] = "idle" THEN "done" ELSE "drain")
    <3>1. /\ cons' \in [Procs -> {"idle", "apply", "metrics"}]
          /\ lock' \in [Procs -> BOOLEAN]
          /\ queue' \in [Procs -> Seq(Known)]
          /\ hand' \in [Procs -> 0 .. ledger]
          /\ \/ cons'[p] = "idle"
             \/ cons'[p] = "apply" /\ lock'[p] /\ hand'[p] = height[p]
          /\ \A o \in Procs \ {p} :
               cons'[o] = cons[o] /\ lock'[o] = lock[o] /\ hand'[o] = hand[o]
      BY <2>5, ConsumeStep DEF StreamInv, KnownBlocks
    <3>2. loop' = [loop EXCEPT ![p] = "done"] \/ loop' = [loop EXCEPT ![p] = "drain"]
      BY <2>5 DEF Set
    <3>3. loop'[p] \in {"drain", "done"}
      BY <3>2 DEF StreamInv, ControlTypeOK
    <3>4. ControlTypeOK'
      BY <1>1, <3>1, <3>2 DEF StreamInv, ControlTypeOK
    <3>5. KnownBlocks'
      BY <1>1, <2>1, <3>1 DEF StreamInv, KnownBlocks, Known
    <3>6. \A o \in Procs \ {p} : Untouched(o)
      BY <2>1, <3>1, <3>2 DEF StreamInv, ControlTypeOK, Untouched
    <3>7. ServiceInv(p)'
      BY <1>1, <1>4, <2>1, <3>1, <3>3 DEF ServiceInv, LoopOwnsLock, ConsumerOwnsLock,
         StoredBelow, LoopHolds, ConsumerHolds, LoopBusy, ConsBusy
    <3> QED
      BY <1>1, <1>2, <2>1, <3>4, <3>5, <3>6, <3>7, ServiceStep DEF StreamInv
  <2> QED
    BY <1>7, <2>3, <2>4, <2>5 DEF GotBlock
<1> QED
  BY <1>5, <1>6, <1>7

-----------------------------------------------------------------------------
(* What follows from the invariant. *)

LEMMA StreamInvariant == Spec => []StreamInv
<1>1. StreamInv /\ [Next]_vars => StreamInv'
  <2> SUFFICES ASSUME StreamInv, [Next]_vars PROVE StreamInv'
    OBVIOUS
  <2>1. CASE Commit
    BY <2>1, CommitPreserves
  <2>2. ASSUME NEW p \in Procs,
               Subscribe(p) \/ Terminate(p) \/ StreamCancelled(p) \/ StreamFails(p)
        PROVE  StreamInv'
    BY <2>2, StreamStepPreserves
  <2>3. ASSUME NEW p \in Procs, Start(p) \/ Counted(p) \/ CountFails(p) \/ Exit(p)
        PROVE  StreamInv'
    BY <2>3, ProcessStepPreserves
  <2>4. ASSUME NEW p \in Procs, Data(p)
        PROVE  StreamInv'
    BY <2>4, DataPreserves
  <2>5. ASSUME NEW p \in Procs, Answer(p) \/ GotBlock(p) \/ LoopGoesOn(p)
        PROVE  StreamInv'
    BY <2>5, LoopStepPreserves
  <2>6. ASSUME NEW p \in Procs, LoopApplies(p) \/ ConsumerApplies(p)
        PROVE  StreamInv'
    BY <2>6, ApplyPreserves
  <2>7. ASSUME NEW p \in Procs, ConsumerGoesOn(p)
        PROVE  StreamInv'
    BY <2>7, ConsumerGoesOnPreserves
  <2>8. ASSUME NEW p \in Procs, LoopFails(p) \/ ConsumerFails(p)
        PROVE  StreamInv'
    BY <2>8, FailurePreserves
  <2>9. CASE UNCHANGED vars
    BY <2>9 DEF vars, loopVars, consVars, streamVars, budget, StreamInv, ControlTypeOK,
       StreamStates, KnownBlocks, Known, Prefix, ServiceInv, LoopOwnsLock,
       ConsumerOwnsLock, StoredBelow, LoopHolds, ConsumerHolds, LoopBusy, ConsBusy
  <2> QED
    BY <2>1, <2>2, <2>3, <2>4, <2>5, <2>6, <2>7, <2>8, <2>9
    DEF Next, Loop, Consumer, Failure
<1> QED
  BY <1>1, InitStreamInv, PTL DEF Spec

(* The types of the variables; height stays within one of the end of the ledger only       *)
(* because the blocks below it are stored.                                                 *)
THEOREM TypeCorrect == Spec => []TypeOK
<1>1. StreamInv => TypeOK
  <2> SUFFICES ASSUME StreamInv PROVE TypeOK
    OBVIOUS
  <2>0. ledger \in Nat /\ MaxHeight \in Nat /\ ledger <= MaxHeight
    BY BoundsAssumption DEF StreamInv, KnownBlocks, Heights
  <2>1. Known \subseteq Heights /\ 0 .. ledger \subseteq 0 .. MaxHeight
    BY <2>0 DEF Known, Heights
  <2>2. PICK n \in 0 .. ledger : rows = 1 .. n
    BY DEF StreamInv, Prefix
  <2>3. ASSUME NEW p \in Procs
        PROVE  height[p] \in 1 .. MaxHeight + 1
    <3>1. height[p] \in Nat \ {0}
      BY DEF StreamInv
    <3>2. \A b \in 1 .. height[p] - 1 : b \in 1 .. n
      BY <2>2 DEF StreamInv, ServiceInv, StoredBelow
    <3>3. ~(height[p] > n + 1)
      <4>1. SUFFICES ASSUME height[p] > n + 1 PROVE FALSE
        OBVIOUS
      <4>2. n + 1 \in 1 .. height[p] - 1
        BY <2>0, <3>1, <4>1
      <4> QED
        BY <2>0, <3>2, <4>2
    <3> QED
      BY <2>0, <3>1, <3>3
  <2>4. HeightTypeOK
    <3>1. rows \subseteq Heights
      BY <2>0, <2>2 DEF Heights
    <3>2. height \in [Procs -> 1 .. MaxHeight + 1]
      BY <2>3 DEF StreamInv
    <3>3. answer \in [Procs -> 0 .. MaxHeight] /\ hand \in [Procs -> 0 .. MaxHeight]
      BY <2>1 DEF StreamInv, KnownBlocks
    <3> QED
      BY <3>1, <3>2, <3>3 DEF HeightTypeOK, StreamInv, KnownBlocks
  <2>5. ASSUME NEW p \in Procs
        PROVE  queue[p] \in Seq(Heights) /\ wire[p] \in Seq(Heights)
    BY <2>1, LongerSequences DEF StreamInv, KnownBlocks
  <2>6. StreamTypeOK
    BY <2>5 DEF StreamTypeOK, StreamInv, StreamStates, KnownBlocks
  <2> QED
    BY <2>4, <2>6 DEF TypeOK, StreamInv
<1> QED
  BY <1>1, StreamInvariant, PTL

(* Whatever fails, is killed, restarted or runs twice, the blocks stored are 1 .. n for    *)
(* some n the ledger has: sync may start at blockCount() + 1.                              *)
THEOREM PrefixStored == Spec => []StoredIsPrefix
<1>1. StreamInv => StoredIsPrefix
  <2> SUFFICES ASSUME StreamInv PROVE StoredIsPrefix
    OBVIOUS
  <2>1. PICK n \in 0 .. ledger : rows = 1 .. n
    BY DEF StreamInv, Prefix
  <2>2. ledger \in Nat
    BY BoundsAssumption DEF StreamInv, KnownBlocks, Heights
  <2>3. Cardinality(rows) = n
    BY <2>1, <2>2, PrefixCardinality
  <2> QED
    BY <2>1, <2>2, <2>3 DEF StoredIsPrefix
<1> QED
  BY <1>1, StreamInvariant, PTL

(* onBlockLock excludes the catch-up loop and streamTryConsume from onBlock at once.       *)
THEOREM HandlersExclude == Spec => []OneOnBlockAtATime
<1>1. StreamInv => OneOnBlockAtATime
  BY DEF StreamInv, ServiceInv, LoopOwnsLock, OneOnBlockAtATime, LoopBusy, ConsBusy
<1> QED
  BY <1>1, StreamInvariant, PTL

(* After end() neither the loop nor streamTryConsume hands another block to onBlock:       *)
(* both look at end after each of their awaits.                                            *)
HandsOut(p) ==
  \/ LoopBusy(p)' /\ ~LoopBusy(p)
  \/ ConsBusy(p)' /\ ~(ConsBusy(p) /\ hand'[p] = hand[p])

(* streamTryConsume, called at any point, hands nothing to onBlock after end().            *)
LEMMA ConsumeAfterEndHandsNothing ==
  ASSUME ControlTypeOK, DOMAIN hand = Procs, NEW p \in Procs, end[p],
         NEW o \in Procs, NEW q, NEW h, Consume(o, q, h)
  PROVE  ConsBusy(p)' => ConsBusy(p) /\ hand'[p] = hand[p]
<1> USE DEF ConsBusy, Set
<1>1. cons' = [cons EXCEPT ![o] = cons'[o]] /\ cons \in [Procs -> {"idle", "apply", "metrics"}]
  BY DEF ControlTypeOK, Consume
<1>2. CASE o = p
  <2>1. cons' = [cons EXCEPT ![p] = "idle"]
    BY <1>2 DEF Consume
  <2> QED
    BY <1>1, <2>1
<1>3. CASE o # p
  <2>1. cons'[p] = cons[p]
    BY <1>1, <1>3
  <2>2. UNCHANGED hand \/ hand' = [hand EXCEPT ![o] = h]
    BY DEF Consume
  <2>3. hand'[p] = hand[p]
    BY <1>3, <2>2
  <2> QED
    BY <2>1, <2>3
<1> QED
  BY <1>2, <1>3

THEOREM EndIsFinal == Spec => EndStopsOnBlock
<1>1. ASSUME StreamInv, [Next]_vars, NEW p \in Procs, end[p], end'[p]
      PROVE  ~HandsOut(p)
  <2> USE DEF loopVars, consVars, streamVars, budget, LoopBusy, ConsBusy, Set, HandsOut
  <2>0. /\ loop \in [Procs -> {"off", "count", "ask", "answer", "apply", "metrics", "drain", "done"}]
        /\ cons \in [Procs -> {"idle", "apply", "metrics"}]
        /\ end \in [Procs -> BOOLEAN]
    BY <1>1 DEF StreamInv, ControlTypeOK
  <2>1. CASE UNCHANGED vars \/ Commit
    BY <2>1 DEF vars, Commit
  <2>2. ASSUME NEW o \in Procs,
               Subscribe(o) \/ Terminate(o) \/ StreamCancelled(o) \/ StreamFails(o)
        PROVE  ~HandsOut(p)
    BY <2>2 DEF Subscribe, Terminate, StreamCancelled, StreamFails
  <2>3. ASSUME NEW o \in Procs,
               Start(o) \/ Counted(o) \/ CountFails(o) \/ Answer(o) \/ LoopGoesOn(o)
        PROVE  ~HandsOut(p)
    <3>1. UNCHANGED <<cons, hand>>
      BY <2>3 DEF Start, Counted, CountFails, Answer, LoopGoesOn
    <3>2. \E v \in {"count", "ask", "done", "answer"} : loop' = [loop EXCEPT ![o] = v]
      BY <2>3 DEF Start, Counted, CountFails, Answer, LoopGoesOn
    <3> QED
      BY <2>0, <3>1, <3>2
  <2>4. ASSUME NEW o \in Procs, Exit(o)
        PROVE  ~HandsOut(p)
    <3>1. o # p
      BY <1>1, <2>0, <2>4 DEF Exit
    <3> QED
      BY <2>0, <2>4, <3>1 DEF Exit
  <2>5. ASSUME NEW o \in Procs, LoopApplies(o)
        PROVE  ~HandsOut(p)
    BY <2>0, <2>5 DEF LoopApplies
  <2>6. ASSUME NEW o \in Procs, LoopFails(o)
        PROVE  ~HandsOut(p)
    BY <2>0, <2>6 DEF LoopFails
  <2>7. ASSUME NEW o \in Procs, ConsumerApplies(o)
        PROVE  ~HandsOut(p)
    BY <2>0, <2>7 DEF ConsumerApplies
  <2>8. ASSUME NEW o \in Procs, ConsumerFails(o)
        PROVE  ~HandsOut(p)
    <3>1. \E v \in {loop[o], "done"} : loop' = [loop EXCEPT ![o] = v]
      BY <2>8 DEF ConsumerFails
    <3>2. cons' = [cons EXCEPT ![o] = "idle"] /\ UNCHANGED hand
      BY <2>8 DEF ConsumerFails
    <3> QED
      BY <2>0, <3>1, <3>2
  <2>9. ASSUME NEW o \in Procs, NEW q, NEW h, Consume(o, q, h)
        PROVE  ConsBusy(p)' => ConsBusy(p) /\ hand'[p] = hand[p]
    <3>1. ControlTypeOK /\ DOMAIN hand = Procs
      BY <1>1 DEF StreamInv, KnownBlocks
    <3> QED
      BY <1>1, <2>9, <3>1, ConsumeAfterEndHandsNothing
  <2>10. ASSUME NEW o \in Procs, Data(o)
         PROVE  ~HandsOut(p)
    <3>1. UNCHANGED loop
      BY <2>10 DEF Data
    <3>2. UNCHANGED <<cons, hand>> \/ \E q, h : Consume(o, q, h)
      BY <2>10 DEF Data
    <3> QED
      BY <2>9, <3>1, <3>2
  <2>11. ASSUME NEW o \in Procs, ConsumerGoesOn(o)
         PROVE  ~HandsOut(p)
    <3>1. \E v \in {loop[o], "done"} : loop' = [loop EXCEPT ![o] = v]
      BY <2>11 DEF ConsumerGoesOn
    <3>2. \E q, h : Consume(o, q, h)
      BY <2>11 DEF ConsumerGoesOn
    <3> QED
      BY <2>0, <2>9, <3>1, <3>2
  <2>12. ASSUME NEW o \in Procs, GotBlock(o)
         PROVE  ~HandsOut(p)
    <3>1. CASE ~CaughtUp(o)
      <4>1. loop' = [loop EXCEPT ![o] = "apply"] /\ UNCHANGED <<cons, hand>>
        BY <2>12, <3>1 DEF GotBlock
      <4>2. o # p
        BY <1>1, <3>1 DEF CaughtUp
      <4> QED
        BY <2>0, <4>1, <4>2
    <3>2. CASE CaughtUp(o)
      <4>1. \E v \in {"done", "drain"} : loop' = [loop EXCEPT ![o] = v]
        BY <2>12, <3>2 DEF GotBlock
      <4>2. UNCHANGED <<cons, hand>> \/ \E q, h : Consume(o, q, h)
        BY <2>12, <3>2 DEF GotBlock
      <4> QED
        BY <2>0, <2>9, <4>1, <4>2
    <3> QED
      BY <3>1, <3>2
  <2> QED
    BY <1>1, <2>1, <2>2, <2>3, <2>4, <2>5, <2>6, <2>7, <2>8, <2>10, <2>11, <2>12
       DEF Next, Loop, Consumer, Failure
<1>2. StreamInv /\ [Next]_vars
        => [\A p \in Procs : end[p] /\ end'[p]
              => /\ LoopBusy(p)' => LoopBusy(p)
                 /\ ConsBusy(p)' => ConsBusy(p) /\ hand'[p] = hand[p]]_vars
  BY <1>1 DEF HandsOut
<1> QED
  BY <1>2, StreamInvariant, PTL DEF Spec, EndStopsOnBlock

-----------------------------------------------------------------------------
(* No block falls between catch-up and stream, for every number of services and every      *)
(* bound, when the node registers the stream before it answers the first getBlock.         *)

(* The blocks in a queue or on the wire. *)
Elements(s) == {s[i] : i \in DOMAIN s}

Rising(s) == \A i, j \in DOMAIN s : i < j => s[i] < s[j]
Before(s, t) == \A a \in Elements(s), b \in Elements(t) : a < b

(* From the first block they hold up to n, queue q and wire w lack none. *)
Gapless(q, w, n) ==
  \A b \in Elements(q) \cup Elements(w) :
    \A c \in b .. n : c \in Elements(q) \cup Elements(w)

Tidy(q, w, n) == Rising(q) /\ Rising(w) /\ Before(q, w) /\ Gapless(q, w, n)

(* Every block from height h up to n is in q or in w. *)
Covered(h, q, w, n) == \A b \in h .. n : b \in Elements(q) \cup Elements(w)

-----------------------------------------------------------------------------
(* The inductive invariant, besides StreamInv. *)

(* Before the stream is asked for nothing is on it. *)
Unstreamed(p) ==
  /\ loop[p] \in {"off", "count"} => stream[p] = "none"
  /\ stream[p] = "none" => ~sub[p] /\ wire[p] = <<>> /\ queue[p] = <<>>
  /\ Following(p) /\ ~sub[p] => wire[p] = <<>> /\ queue[p] = <<>>

(* A service that was ended does not follow its stream, and one that has had an answer *)
(* is registered.                                                                      *)
EndedOrRegistered(p) ==
  Following(p) =>
    /\ ~end[p]
    /\ loop[p] \in {"answer", "apply", "metrics", "drain", "done"} => sub[p]

TidyStream(p) == Following(p) => Tidy(queue[p], wire[p], ledger)

(* What null promises: the stream brings everything from height on. *)
NullMeansCovered(p) ==
  Following(p) /\ loop[p] = "answer" /\ answer[p] = 0
    => Covered(height[p], queue[p], wire[p], ledger)

HandedOver(p) ==
  Following(p) /\ loop[p] \in {"drain", "done"}
    => \A b \in height[p] .. ledger : b \in Waiting(p)

Handover(p) ==
  /\ Unstreamed(p)
  /\ EndedOrRegistered(p)
  /\ TidyStream(p)
  /\ NullMeansCovered(p)
  /\ HandedOver(p)

HandoverInv == \A p \in Procs : Handover(p)

-----------------------------------------------------------------------------
(* Queues and the wire as sets of blocks. *)

LEMMA AppendElements ==
  ASSUME NEW s \in Seq(Nat), NEW e \in Nat
  PROVE  /\ Elements(Append(s, e)) = Elements(s) \cup {e}
         /\ Rising(s) /\ (\A a \in Elements(s) : a < e) => Rising(Append(s, e))
<1> DEFINE t == Append(s, e)
<1>1. /\ DOMAIN s = 1 .. Len(s) /\ DOMAIN t = 1 .. Len(s) + 1 /\ Len(s) \in Nat
      /\ \A i \in 1 .. Len(s) : t[i] = s[i]
      /\ t[Len(s) + 1] = e
  OBVIOUS
<1> HIDE DEF t
<1>2. Elements(t) = Elements(s) \cup {e}
  <2>1. ASSUME NEW a \in Elements(t) PROVE a \in Elements(s) \cup {e}
    <3>1. PICK i \in DOMAIN t : a = t[i]
      BY <2>1 DEF Elements
    <3>2. CASE i \in DOMAIN s
      BY <1>1, <3>1, <3>2 DEF Elements
    <3>3. CASE i \notin DOMAIN s
      BY <1>1, <3>1, <3>3
    <3> QED
      BY <3>2, <3>3
  <2>2. ASSUME NEW a \in Elements(s) PROVE a \in Elements(t)
    <3>1. PICK i \in DOMAIN s : a = s[i]
      BY <2>2 DEF Elements
    <3>2. i \in DOMAIN t /\ t[i] = a
      BY <1>1, <3>1
    <3> QED
      BY <3>2 DEF Elements
  <2>3. e \in Elements(t)
    <3>1. Len(s) + 1 \in DOMAIN t
      BY <1>1
    <3> QED
      BY <1>1, <3>1 DEF Elements
  <2> QED
    BY <2>1, <2>2, <2>3
<1>3. ASSUME Rising(s), \A a \in Elements(s) : a < e
      PROVE  Rising(t)
  <2> SUFFICES ASSUME NEW i \in DOMAIN t, NEW j \in DOMAIN t, i < j
               PROVE  t[i] < t[j]
    BY DEF Rising
  <2>1. i \in DOMAIN s /\ t[i] = s[i] /\ s[i] \in Elements(s)
    <3>1. i \in DOMAIN s /\ t[i] = s[i]
      BY <1>1
    <3> QED
      BY <3>1 DEF Elements
  <2>2. CASE j \in DOMAIN s
    BY <1>1, <1>3, <2>1, <2>2 DEF Rising
  <2>3. CASE j \notin DOMAIN s
    <3>1. t[j] = e
      BY <1>1, <2>3
    <3> QED
      BY <1>3, <2>1, <3>1
  <2> QED
    BY <2>2, <2>3
<1> QED
  BY <1>2, <1>3 DEF t

LEMMA TailElements ==
  ASSUME NEW s \in Seq(Nat), s # <<>>
  PROVE  /\ Elements(s) = {Head(s)} \cup Elements(Tail(s))
         /\ Rising(s) => Rising(Tail(s)) /\ \A a \in Elements(Tail(s)) : Head(s) < a
<1> DEFINE t == Tail(s)
<1>1. /\ DOMAIN s = 1 .. Len(s) /\ DOMAIN t = 1 .. Len(s) - 1 /\ Len(s) \in Nat \ {0}
      /\ \A i \in DOMAIN t : t[i] = s[i + 1]
      /\ Head(s) = s[1]
  OBVIOUS
<1> HIDE DEF t
<1>2. \A i \in DOMAIN t : i + 1 \in DOMAIN s /\ 1 < i + 1
  BY <1>1
<1>3. Elements(s) = {Head(s)} \cup Elements(t)
  <2>1. ASSUME NEW a \in Elements(s) PROVE a \in {Head(s)} \cup Elements(t)
    <3>1. PICK i \in DOMAIN s : a = s[i]
      BY <2>1 DEF Elements
    <3>2. CASE i = 1
      BY <1>1, <3>1, <3>2
    <3>3. CASE i # 1
      <4>1. i - 1 \in DOMAIN t /\ t[i - 1] = a
        BY <1>1, <3>1, <3>3
      <4> QED
        BY <4>1 DEF Elements
    <3> QED
      BY <3>2, <3>3
  <2>2. ASSUME NEW a \in Elements(t) PROVE a \in Elements(s)
    <3>1. PICK i \in DOMAIN t : a = t[i]
      BY <2>2 DEF Elements
    <3> QED
      BY <1>1, <1>2, <3>1 DEF Elements
  <2>3. Head(s) \in Elements(s)
    <3>1. 1 \in DOMAIN s
      BY <1>1
    <3> QED
      BY <1>1, <3>1 DEF Elements
  <2> QED
    BY <2>1, <2>2, <2>3
<1>4. ASSUME Rising(s)
      PROVE  Rising(t) /\ \A a \in Elements(t) : Head(s) < a
  <2>1. ASSUME NEW i \in DOMAIN t, NEW j \in DOMAIN t, i < j
        PROVE  t[i] < t[j]
    <3>1. i + 1 < j + 1 /\ t[i] = s[i + 1] /\ t[j] = s[j + 1]
      BY <1>1, <2>1
    <3> QED
      BY <1>2, <1>4, <3>1 DEF Rising
  <2>2. ASSUME NEW a \in Elements(t) PROVE Head(s) < a
    <3>1. PICK i \in DOMAIN t : a = t[i]
      BY <2>2 DEF Elements
    <3>2. 1 \in DOMAIN s
      BY <1>1
    <3> QED
      BY <1>1, <1>2, <1>4, <3>1, <3>2 DEF Rising
  <2> QED
    BY <2>1, <2>2 DEF Rising
<1> QED
  BY <1>3, <1>4 DEF t

(* What is left of a queue behind the block at i. *)
LEMMA RestElements ==
  ASSUME NEW s \in Seq(Nat), Rising(s), NEW i \in DOMAIN s
  PROVE  /\ Rising(SubSeq(s, i + 1, Len(s)))
         /\ Elements(SubSeq(s, i + 1, Len(s))) = {a \in Elements(s) : s[i] < a}
<1> DEFINE t == SubSeq(s, i + 1, Len(s))
<1>1. /\ DOMAIN s = 1 .. Len(s) /\ DOMAIN t = 1 .. Len(s) - i /\ Len(s) \in Nat
      /\ i \in 1 .. Len(s)
      /\ \A k \in DOMAIN t : t[k] = s[k + i]
      /\ \A k \in DOMAIN s : s[k] \in Nat
  OBVIOUS
<1> HIDE DEF t
<1>2. \A k \in DOMAIN t : k + i \in DOMAIN s /\ i < k + i
  BY <1>1
<1>3. Rising(t)
  <2> SUFFICES ASSUME NEW j \in DOMAIN t, NEW k \in DOMAIN t, j < k
               PROVE  t[j] < t[k]
    BY DEF Rising
  <2>1. j + i < k + i
    BY <1>1
  <2> QED
    BY <1>1, <1>2, <2>1 DEF Rising
<1>4. ASSUME NEW a \in Elements(t) PROVE a \in Elements(s) /\ s[i] < a
  <2>1. PICK k \in DOMAIN t : a = t[k]
    BY <1>4 DEF Elements
  <2> QED
    BY <1>1, <1>2, <2>1 DEF Elements, Rising
<1>5. ASSUME NEW a \in Elements(s), s[i] < a PROVE a \in Elements(t)
  <2>1. PICK k \in DOMAIN s : a = s[k]
    BY <1>5 DEF Elements
  <2>2. i < k
    <3>1. CASE k = i
      BY <1>1, <1>5, <2>1, <3>1
    <3>2. CASE k < i
      <4>1. s[k] < s[i]
        BY <3>2 DEF Rising
      <4> QED
        BY <1>1, <1>5, <2>1, <4>1
    <3> QED
      BY <1>1, <3>1, <3>2
  <2>3. k - i \in DOMAIN t /\ t[k - i] = a
    BY <1>1, <2>1, <2>2
  <2> QED
    BY <2>3 DEF Elements
<1> QED
  BY <1>3, <1>4, <1>5 DEF t

(* The first block on the wire goes to the end of the queue. *)
LEMMA ReceiveKeepsTidy ==
  ASSUME NEW n \in Nat, NEW q \in Seq(Nat), NEW w \in Seq(Nat), w # <<>>, Tidy(q, w, n)
  PROVE  /\ Append(q, Head(w)) \in Seq(Nat) /\ Tail(w) \in Seq(Nat)
         /\ Tidy(Append(q, Head(w)), Tail(w), n)
         /\ Elements(Append(q, Head(w))) \cup Elements(Tail(w)) = Elements(q) \cup Elements(w)
<1>1. Head(w) \in Nat /\ Tail(w) \in Seq(Nat) /\ Append(q, Head(w)) \in Seq(Nat)
  OBVIOUS
<1>2. /\ Elements(w) = {Head(w)} \cup Elements(Tail(w))
      /\ Rising(Tail(w)) /\ \A a \in Elements(Tail(w)) : Head(w) < a
  BY TailElements DEF Tidy
<1>3. /\ Elements(Append(q, Head(w))) = Elements(q) \cup {Head(w)}
      /\ Rising(Append(q, Head(w)))
  BY <1>1, <1>2, AppendElements DEF Tidy, Before
<1>4. Elements(Append(q, Head(w))) \cup Elements(Tail(w)) = Elements(q) \cup Elements(w)
  BY <1>2, <1>3
<1>5. Before(Append(q, Head(w)), Tail(w))
  BY <1>2, <1>3 DEF Tidy, Before
<1>6. Gapless(Append(q, Head(w)), Tail(w), n)
  BY <1>4 DEF Tidy, Gapless
<1> QED
  BY <1>1, <1>2, <1>3, <1>4, <1>5, <1>6 DEF Tidy

(* A block is committed and sent. *)
LEMMA SendKeepsTidy ==
  ASSUME NEW n \in Nat, NEW q \in Seq(1 .. n), NEW w \in Seq(1 .. n), Tidy(q, w, n)
  PROVE  /\ Tidy(q, Append(w, n + 1), n + 1)
         /\ Elements(Append(w, n + 1)) = Elements(w) \cup {n + 1}
<1>1. q \in Seq(Nat) /\ w \in Seq(Nat) /\ n + 1 \in Nat
  <2>1. 1 .. n \subseteq Nat
    OBVIOUS
  <2> QED
    BY <2>1, LongerSequences
<1>2. \A a \in Elements(q) \cup Elements(w) : a \in Nat /\ a < n + 1
  BY DEF Elements
<1>3. /\ Elements(Append(w, n + 1)) = Elements(w) \cup {n + 1}
      /\ Rising(Append(w, n + 1))
  BY <1>1, <1>2, AppendElements DEF Tidy
<1>4. Before(q, Append(w, n + 1))
  BY <1>2, <1>3 DEF Tidy, Before
<1>5. Gapless(q, Append(w, n + 1), n + 1)
  <2> SUFFICES ASSUME NEW b \in Elements(q) \cup Elements(w) \cup {n + 1},
                      NEW c \in b .. (n + 1)
               PROVE  c \in Elements(q) \cup Elements(w) \cup {n + 1}
    BY <1>3 DEF Gapless
  <2>1. CASE c = n + 1
    BY <2>1
  <2>2. CASE c # n + 1
    <3>1. b \in Elements(q) \cup Elements(w) /\ c \in b .. n
      BY <1>2, <2>2
    <3> QED
      BY <3>1 DEF Tidy, Gapless
  <2> QED
    BY <2>1, <2>2
<1> QED
  BY <1>3, <1>4, <1>5 DEF Tidy

(* What streamTryConsume drops lies below h; block h itself is handed over. *)
LEMMA ConsumeKeepsTidy ==
  ASSUME ledger \in Nat, NEW p \in Procs, NEW q \in Seq(Nat), NEW w \in Seq(Nat), NEW h \in Nat,
         ~end[p], Tidy(q, w, ledger), Covered(h, q, w, ledger), Consume(p, q, h),
         cons \in [Procs -> {"idle", "apply", "metrics"}],
         hand \in [Procs -> 0 .. ledger],
         queue \in [Procs -> Seq(Known)]
  PROVE  /\ Tidy(queue'[p], w, ledger)
         /\ \/ cons'[p] = "idle" /\ Covered(h, queue'[p], w, ledger)
            \/ /\ cons'[p] = "apply" /\ hand'[p] = h
               /\ Covered(h + 1, queue'[p], w, ledger)
<1>0. \A a \in Elements(q) \cup Elements(w) : a \in Nat
  BY DEF Elements
<1>1. CASE \E i \in DOMAIN q :
             /\ q[i] = h
             /\ cons' = Set(cons, p, "apply")
             /\ hand' = Set(hand, p, h)
             /\ queue' = Set(queue, p, SubSeq(q, i + 1, Len(q)))
  <2> PICK i \in DOMAIN q :
             /\ q[i] = h
             /\ cons' = Set(cons, p, "apply")
             /\ hand' = Set(hand, p, h)
             /\ queue' = Set(queue, p, SubSeq(q, i + 1, Len(q)))
    BY <1>1
  <2>1. /\ queue'[p] = SubSeq(q, i + 1, Len(q))
        /\ cons'[p] = "apply" /\ hand'[p] = h
    BY DEF Set
  <2>2. /\ Rising(queue'[p])
        /\ Elements(queue'[p]) = {a \in Elements(q) : h < a}
    BY <2>1, RestElements DEF Tidy
  <2>3. h \in Elements(q)
    BY DEF Elements
  <2>4. Before(queue'[p], w)
    BY <2>2 DEF Tidy, Before
  <2>5. \A a \in Elements(w) : h < a
    BY <2>3 DEF Tidy, Before
  <2>6. Gapless(queue'[p], w, ledger)
    <3> SUFFICES ASSUME NEW b \in Elements(queue'[p]) \cup Elements(w), NEW c \in b .. ledger
                 PROVE  c \in Elements(queue'[p]) \cup Elements(w)
      BY DEF Gapless
    <3>1. b \in Elements(q) \cup Elements(w) /\ h < b /\ b \in Nat
      BY <1>0, <2>2, <2>5
    <3>2. c \in Elements(q) \cup Elements(w)
      BY <3>1 DEF Tidy, Gapless
    <3>3. h < c
      BY <3>1
    <3> QED
      BY <2>2, <3>2, <3>3
  <2>7. Covered(h + 1, queue'[p], w, ledger)
    <3> SUFFICES ASSUME NEW b \in (h + 1) .. ledger
                 PROVE  b \in Elements(queue'[p]) \cup Elements(w)
      BY DEF Covered
    <3>1. b \in h .. ledger /\ h < b
      OBVIOUS
    <3> QED
      BY <2>2, <3>1 DEF Covered
  <2> QED
    BY <2>1, <2>2, <2>4, <2>6, <2>7 DEF Tidy
<1>2. CASE /\ \A i \in DOMAIN q : q[i] # h
           /\ cons' = Set(cons, p, "idle")
           /\ queue' = Set(queue, p, <<>>)
  <2>1. queue'[p] = <<>> /\ cons'[p] = "idle"
    BY <1>2 DEF Set
  <2>2. Elements(queue'[p]) = {} /\ Rising(queue'[p])
    BY <2>1 DEF Elements, Rising
  <2>3. h \notin Elements(q)
    BY <1>2 DEF Elements
  <2>4. ASSUME NEW b \in h .. ledger PROVE b \in Elements(w)
    <3>1. h \in Elements(w)
      <4>1. h \in h .. ledger
        OBVIOUS
      <4> QED
        BY <2>3, <4>1 DEF Covered
    <3>2. b \notin Elements(q)
      BY <1>0, <3>1 DEF Tidy, Before
    <3> QED
      BY <3>2 DEF Covered
  <2>5. Covered(h, queue'[p], w, ledger)
    BY <2>4 DEF Covered
  <2>6. Gapless(queue'[p], w, ledger)
    <3> SUFFICES ASSUME NEW b \in Elements(w), NEW c \in b .. ledger
                 PROVE  c \in Elements(w)
      BY <2>2 DEF Gapless
    <3>1. c \in Elements(q) \cup Elements(w)
      BY DEF Tidy, Gapless
    <3>2. c \notin Elements(q)
      BY <1>0 DEF Tidy, Before
    <3> QED
      BY <3>1, <3>2
  <2> QED
    BY <2>1, <2>2, <2>5, <2>6 DEF Tidy, Before
<1> QED
  BY <1>1, <1>2 DEF Consume

-----------------------------------------------------------------------------
(* The steps. *)

Still(p) ==
  /\ loop'[p] = loop[p] /\ answer'[p] = answer[p] /\ height'[p] = height[p]
  /\ cons'[p] = cons[p] /\ hand'[p] = hand[p] /\ queue'[p] = queue[p]
  /\ stream'[p] = stream[p] /\ cancelled'[p] = cancelled[p] /\ sub'[p] = sub[p]
  /\ wire'[p] = wire[p] /\ end'[p] = end[p]

LEMMA StillHandover ==
  ASSUME NEW p, Handover(p), Still(p), ledger' = ledger
  PROVE  Handover(p)'
<1>1. Following(p)' <=> Following(p)
  BY DEF Following, Still
<1>2. Unstreamed(p)' /\ EndedOrRegistered(p)'
  BY <1>1 DEF Handover, Unstreamed, EndedOrRegistered, Still
<1>3. TidyStream(p)' /\ NullMeansCovered(p)'
  BY <1>1 DEF Handover, TidyStream, NullMeansCovered, Still
<1>4. Waiting(p)' = Waiting(p)
  BY DEF Waiting, ConsBusy, Still
<1>5. HandedOver(p)'
  BY <1>1, <1>4 DEF Handover, HandedOver, Still
<1> QED
  BY <1>2, <1>3, <1>5 DEF Handover

LEMMA OneService ==
  ASSUME HandoverInv, NEW p \in Procs, Handover(p)', ledger' = ledger,
         \A o \in Procs \ {p} : Still(o)
  PROVE  HandoverInv'
BY StillHandover DEF HandoverInv

(* A service that does not follow its stream has nothing to show but this. *)
LEMMA NotFollowing ==
  ASSUME NEW p, ~Following(p)', Unstreamed(p)'
  PROVE  Handover(p)'
BY DEF Handover, EndedOrRegistered, TidyStream, NullMeansCovered, HandedOver

LEMMA WaitingElements ==
  ASSUME NEW p
  PROVE  Waiting(p) = Elements(wire[p]) \cup Elements(queue[p])
                        \cup (IF ConsBusy(p) THEN {hand[p]} ELSE {})
BY DEF Waiting, Elements

LEMMA CommitHandover ==
  ASSUME StreamInv, HandoverInv, Commit
  PROVE  HandoverInv'
<1> SUFFICES ASSUME NEW p \in Procs PROVE Handover(p)'
  BY DEF HandoverInv
<1>1. /\ ledger' = ledger + 1 /\ ledger \in Nat
      /\ wire'[p] = IF sub[p] THEN Append(wire[p], ledger + 1) ELSE wire[p]
      /\ queue[p] \in Seq(1 .. ledger) /\ wire[p] \in Seq(1 .. ledger)
      /\ height[p] \in Nat
  BY DEF Commit, StreamInv, KnownBlocks, Known, Heights
<1>2. Handover(p)
  BY DEF HandoverInv
<1>3. Following(p)' <=> Following(p)
  BY DEF Commit, Following
<1>4. Unstreamed(p)'
  BY <1>1, <1>2, <1>3 DEF Commit, Handover, Unstreamed, loopVars, consVars
<1>5. EndedOrRegistered(p)'
  BY <1>2, <1>3 DEF Commit, Handover, EndedOrRegistered, loopVars, consVars
<1>6. CASE Following(p) /\ sub[p]
  <2>1. /\ Tidy(queue'[p], wire'[p], ledger')
        /\ Elements(wire'[p]) = Elements(wire[p]) \cup {ledger + 1}
    BY <1>1, <1>2, <1>6, SendKeepsTidy DEF Commit, consVars, Handover, TidyStream
  <2>2. TidyStream(p)'
    BY <2>1 DEF TidyStream
  <2>3. \A b \in height[p] .. ledger' : b = ledger + 1 \/ b \in height[p] .. ledger
    BY <1>1
  <2>4. NullMeansCovered(p)'
    BY <1>2, <1>6, <2>1, <2>3
       DEF Commit, loopVars, consVars, Handover, NullMeansCovered, Covered, Following
  <2>5. Waiting(p)' = Waiting(p) \cup {ledger + 1}
    <3>1. Waiting(p)' = Elements(wire'[p]) \cup Elements(queue'[p])
                          \cup (IF ConsBusy(p)' THEN {hand'[p]} ELSE {})
      BY DEF Waiting, Elements
    <3> QED
      BY <2>1, <3>1, WaitingElements DEF Commit, consVars, ConsBusy
  <2>6. HandedOver(p)'
    BY <1>2, <1>6, <2>3, <2>5
       DEF Commit, loopVars, Handover, HandedOver, Following
  <2> QED
    BY <1>4, <1>5, <2>2, <2>4, <2>6 DEF Handover
<1>7. CASE Following(p) /\ ~sub[p]
  <2>1. queue'[p] = <<>> /\ wire'[p] = <<>>
    BY <1>1, <1>2, <1>7 DEF Commit, consVars, Handover, Unstreamed
  <2>2. TidyStream(p)'
    BY <2>1 DEF TidyStream, Tidy, Rising, Before, Gapless, Elements
  <2>3. NullMeansCovered(p)' /\ HandedOver(p)'
    BY <1>2, <1>3, <1>7
       DEF Commit, loopVars, Handover, EndedOrRegistered, NullMeansCovered, HandedOver
  <2> QED
    BY <1>4, <1>5, <2>2, <2>3 DEF Handover
<1>8. CASE ~Following(p)
  BY <1>3, <1>4, <1>8, NotFollowing
<1> QED
  BY <1>6, <1>7, <1>8

(* The steps that start, end or fail a service or its stream. *)
LEMMA ServiceHandover ==
  ASSUME StreamInv, HandoverInv, NEW p \in Procs,
         Subscribe(p) \/ Start(p) \/ Terminate(p) \/ Exit(p) \/ Failure(p) \/ StreamCancelled(p)
  PROVE  HandoverInv'
<1>0. Handover(p)
  BY DEF HandoverInv
<1> USE DEF StreamInv, ControlTypeOK, StreamStates, KnownBlocks
<1>1. CASE Subscribe(p)
  <2>1. /\ sub'[p] /\ stream[p] = "open" /\ ledger' = ledger
        /\ UNCHANGED <<loop, answer, cons, hand, queue, height, end, stream, cancelled, wire>>
        /\ \A o \in Procs \ {p} : sub'[o] = sub[o]
    BY <1>1 DEF Subscribe, Set, loopVars, consVars
  <2>2. Following(p)' <=> Following(p)
    BY <2>1 DEF Following
  <2>3. Unstreamed(p)' /\ EndedOrRegistered(p)'
    BY <1>0, <2>1, <2>2 DEF Handover, Unstreamed, EndedOrRegistered
  <2>4. TidyStream(p)' /\ NullMeansCovered(p)'
    BY <1>0, <2>1, <2>2 DEF Handover, TidyStream, NullMeansCovered
  <2>5. HandedOver(p)'
    <3>1. Waiting(p)' = Waiting(p)
      BY <2>1 DEF Waiting, ConsBusy
    <3> QED
      BY <1>0, <2>1, <2>2, <3>1 DEF Handover, HandedOver
  <2>6. Handover(p)'
    BY <2>3, <2>4, <2>5 DEF Handover
  <2> QED
    BY <2>1, <2>6, OneService DEF Still
<1>2. CASE Start(p)
  <2>1. /\ loop[p] = "off" /\ loop'[p] = "count" /\ ledger' = ledger
        /\ UNCHANGED <<answer, cons, hand, queue, height, end, stream, cancelled, sub, wire>>
        /\ \A o \in Procs \ {p} : loop'[o] = loop[o]
    BY <1>2 DEF Start, Set, consVars, streamVars
  <2>2. ~Following(p)' /\ Unstreamed(p)'
    BY <1>0, <2>1 DEF Handover, Unstreamed, Following
  <2> QED
    BY <2>1, <2>2, NotFollowing, OneService DEF Still
<1>3. CASE Terminate(p)
  <2>1. /\ ledger' = ledger
        /\ UNCHANGED <<loop, answer, cons, hand, queue, height, stream, sub, wire>>
        /\ \A o \in Procs \ {p} : end'[o] = end[o] /\ cancelled'[o] = cancelled[o]
    BY <1>3 DEF Terminate, Set, loopVars, consVars
  <2>2. cancelled'[p] = (stream[p] # "none")
    BY <1>3, Zenon DEF Terminate, Set
  <2>3. ~Following(p)' /\ Unstreamed(p)'
    BY <1>0, <2>1, <2>2 DEF Handover, Unstreamed, Following
  <2> QED
    BY <2>1, <2>3, NotFollowing, OneService DEF Still
<1>4. CASE Exit(p)
  <2>1. /\ ledger' = ledger
        /\ stream'[p] = "none" /\ wire'[p] = <<>> /\ queue'[p] = <<>>
    BY <1>4 DEF Exit, Set
  <2>2. ~sub'[p]
    BY <1>4 DEF Exit, Set
  <2>3. \A o \in Procs \ {p} : Still(o)
    BY <1>4 DEF Exit, Set, Still
  <2>4. ~Following(p)' /\ Unstreamed(p)'
    BY <2>1, <2>2 DEF Unstreamed, Following
  <2> QED
    BY <2>1, <2>3, <2>4, NotFollowing, OneService
<1>5. CASE CountFails(p)
  <2>1. /\ loop[p] = "count" /\ loop'[p] = "done" /\ ledger' = ledger
        /\ UNCHANGED <<answer, cons, hand, queue, height, end, stream, cancelled, sub, wire>>
        /\ \A o \in Procs \ {p} : loop'[o] = loop[o]
    BY <1>5 DEF CountFails, Set, consVars, streamVars
  <2>2. ~Following(p)' /\ Unstreamed(p)'
    BY <1>0, <2>1 DEF Handover, Unstreamed, Following
  <2> QED
    BY <2>1, <2>2, NotFollowing, OneService DEF Still
<1>6. CASE LoopFails(p)
  <2>1. /\ loop[p] \in {"ask", "apply", "metrics"} /\ loop'[p] = "done" /\ ledger' = ledger
        /\ UNCHANGED <<answer, cons, hand, queue, height, end, stream, sub, wire>>
        /\ cancelled'[p]
        /\ \A o \in Procs \ {p} : loop'[o] = loop[o] /\ cancelled'[o] = cancelled[o]
    BY <1>6 DEF LoopFails, OnBlockFails, Set, consVars
  <2>2. ~Following(p)' /\ Unstreamed(p)'
    BY <1>0, <2>1 DEF Handover, Unstreamed, Following
  <2> QED
    BY <2>1, <2>2, NotFollowing, OneService DEF Still
<1>7. CASE ConsumerFails(p)
  <2>1. /\ ConsBusy(p) /\ loop'[p] \in {loop[p], "done"} /\ ledger' = ledger
        /\ UNCHANGED <<answer, hand, queue, height, end, stream, sub, wire>>
        /\ cancelled'[p]
        /\ \A o \in Procs \ {p} : /\ loop'[o] = loop[o] /\ cancelled'[o] = cancelled[o]
                                  /\ cons'[o] = cons[o]
    BY <1>7 DEF ConsumerFails, OnBlockFails, Set, ConsBusy
  <2>2. ~Following(p)' /\ Unstreamed(p)'
    BY <1>0, <2>1 DEF Handover, Unstreamed, Following
  <2> QED
    BY <2>1, <2>2, NotFollowing, OneService DEF Still
<1>8. CASE StreamFails(p)
  <2>1. /\ stream[p] = "open" /\ stream'[p] = "err" /\ ledger' = ledger
        /\ UNCHANGED <<loop, answer, cons, hand, queue, height, end, cancelled>>
        /\ \A o \in Procs \ {p} : /\ stream'[o] = stream[o] /\ sub'[o] = sub[o]
                                  /\ wire'[o] = wire[o]
    BY <1>8 DEF StreamFails, Set, loopVars, consVars
  <2>2. ~Following(p)' /\ Unstreamed(p)'
    BY <1>0, <2>1 DEF Handover, Unstreamed, Following
  <2> QED
    BY <2>1, <2>2, NotFollowing, OneService DEF Still
<1>9. CASE StreamCancelled(p)
  <2>1. /\ stream[p] = "open" /\ stream'[p] = "ok" /\ ledger' = ledger
        /\ UNCHANGED <<loop, answer, cons, hand, queue, height, end, cancelled>>
        /\ \A o \in Procs \ {p} : /\ stream'[o] = stream[o] /\ sub'[o] = sub[o]
                                  /\ wire'[o] = wire[o]
    BY <1>9 DEF StreamCancelled, Set, loopVars, consVars
  <2>2. ~Following(p)' /\ Unstreamed(p)'
    BY <1>0, <2>1 DEF Handover, Unstreamed, Following
  <2> QED
    BY <2>1, <2>2, NotFollowing, OneService DEF Still
<1> QED
  BY <1>1, <1>2, <1>3, <1>4, <1>5, <1>6, <1>7, <1>8, <1>9 DEF Failure

(* streamTryConsume has gone on from height h with queue q: service p is handed over. *)
LEMMA ConsumeHandsOver ==
  ASSUME StreamInv, NEW p \in Procs, NEW q \in Seq(Nat), NEW w \in Seq(Nat), NEW h \in Nat,
         ~end[p], Tidy(q, w, ledger), Covered(h, q, w, ledger), Consume(p, q, h),
         ledger' = ledger, end' = end, wire'[p] = w, height'[p] = h, stream' = stream,
         cancelled' = cancelled, sub' = sub,
         loop'[p] \in {"drain", "done"}, sub[p], Following(p)
  PROVE  Handover(p)'
<1>1. /\ ledger \in Nat
      /\ cons \in [Procs -> {"idle", "apply", "metrics"}]
      /\ hand \in [Procs -> 0 .. ledger]
      /\ queue \in [Procs -> Seq(Known)]
  BY DEF StreamInv, ControlTypeOK, KnownBlocks, Heights
<1>2. /\ Tidy(queue'[p], w, ledger)
      /\ \/ cons'[p] = "idle" /\ Covered(h, queue'[p], w, ledger)
         \/ /\ cons'[p] = "apply" /\ hand'[p] = h
            /\ Covered(h + 1, queue'[p], w, ledger)
  BY <1>1, ConsumeKeepsTidy
<1>3. Following(p)' /\ stream'[p] = "open"
  BY DEF Following
<1>4. Unstreamed(p)' /\ EndedOrRegistered(p)' /\ NullMeansCovered(p)'
  BY <1>3 DEF Unstreamed, EndedOrRegistered, NullMeansCovered
<1>5. TidyStream(p)'
  BY <1>2 DEF TidyStream
<1>6. Waiting(p)' = Elements(w) \cup Elements(queue'[p])
                      \cup (IF ConsBusy(p)' THEN {hand'[p]} ELSE {})
  BY DEF Waiting, Elements
<1>7. ASSUME NEW b \in h .. ledger PROVE b \in Waiting(p)'
  <2>1. CASE cons'[p] = "idle" /\ Covered(h, queue'[p], w, ledger)
    BY <1>6, <2>1 DEF Covered
  <2>2. CASE /\ cons'[p] = "apply" /\ hand'[p] = h
             /\ Covered(h + 1, queue'[p], w, ledger)
    <3>1. ConsBusy(p)'
      BY <2>2 DEF ConsBusy
    <3>2. b = h \/ b \in (h + 1) .. ledger
      BY <1>1
    <3> QED
      BY <1>6, <2>2, <3>1, <3>2 DEF Covered
  <2> QED
    BY <1>2, <2>1, <2>2
<1>8. HandedOver(p)'
  BY <1>7 DEF HandedOver
<1> QED
  BY <1>4, <1>5, <1>8 DEF Handover

LEMMA Sequences ==
  ASSUME StreamInv, NEW p \in Procs
  PROVE  /\ queue[p] \in Seq(Nat) /\ wire[p] \in Seq(Nat)
         /\ height[p] \in Nat /\ ledger \in Nat
         /\ \A e \in Elements(queue[p]) \cup Elements(wire[p]) : e \in Nat
<1>1. queue[p] \in Seq(Known) /\ wire[p] \in Seq(Known)
  BY DEF StreamInv, KnownBlocks
<1>2. Known \subseteq Nat
  BY DEF Known
<1>3. queue[p] \in Seq(Nat) /\ wire[p] \in Seq(Nat)
  BY <1>1, <1>2, LongerSequences
<1>4. height[p] \in Nat /\ ledger \in Nat
  BY DEF StreamInv, KnownBlocks, Heights
<1> QED
  BY <1>3, <1>4 DEF Elements

LEMMA DataHandover ==
  ASSUME StreamInv, HandoverInv, NEW p \in Procs, Data(p)
  PROVE  HandoverInv'
<1>0. Handover(p) /\ ServiceInv(p)
  BY DEF HandoverInv, StreamInv
<1>1. /\ stream[p] # "none" /\ wire[p] # <<>> /\ wire'[p] = Tail(wire[p])
      /\ UNCHANGED <<ledger, rows, loop, answer, height, end, stream, cancelled, sub>>
      /\ \A o \in Procs \ {p} : wire'[o] = wire[o]
  BY DEF Data, Set, loopVars, StreamInv, KnownBlocks
<1>2. \A o \in Procs \ {p} : cons'[o] = cons[o] /\ hand'[o] = hand[o] /\ queue'[o] = queue[o]
  BY DEF Data, Consume, Set, consVars, StreamInv, ControlTypeOK, KnownBlocks
<1>3. \A o \in Procs \ {p} : Still(o)
  BY <1>1, <1>2 DEF Still
<1>4. Following(p)' <=> Following(p)
  BY <1>1 DEF Following
<1>5. CASE ~Following(p)
  <2>1. Unstreamed(p)'
    BY <1>0, <1>1, <1>4, <1>5 DEF Handover, Unstreamed
  <2> QED
    BY <1>1, <1>3, <1>4, <1>5, <2>1, NotFollowing, OneService
<1>6. CASE Following(p)
  <2> DEFINE q == Append(queue[p], Head(wire[p]))
             w == Tail(wire[p])
  <2>1. sub[p] /\ ~end[p] /\ ~cancelled[p]
    BY <1>0, <1>1, <1>6 DEF Handover, Unstreamed, EndedOrRegistered, Following
  <2>2. /\ q \in Seq(Nat) /\ w \in Seq(Nat)
        /\ Tidy(q, w, ledger)
        /\ Elements(q) \cup Elements(w) = Elements(queue[p]) \cup Elements(wire[p])
    BY <1>0, <1>1, <1>6, Sequences, ReceiveKeepsTidy DEF Handover, TidyStream
  <2> HIDE DEF q, w
  <2>3. Unstreamed(p)' /\ EndedOrRegistered(p)'
    BY <1>0, <1>1, <1>4, <1>6, <2>1 DEF Handover, Unstreamed, EndedOrRegistered
  <2>4. CASE lock[p]
    <3>1. queue'[p] = q /\ UNCHANGED <<cons, hand>>
      BY <2>1, <2>4 DEF Data, Set, StreamInv, KnownBlocks, q
    <3>2. wire'[p] = w
      BY <1>1 DEF w
    <3>3. TidyStream(p)'
      BY <1>1, <2>2, <3>1, <3>2 DEF TidyStream
    <3>4. NullMeansCovered(p)'
      BY <1>0, <1>1, <1>4, <2>2, <3>1, <3>2 DEF Handover, NullMeansCovered, Covered
    <3>5. Waiting(p)' = Waiting(p)
      <4>1. Waiting(p)' = Elements(wire'[p]) \cup Elements(queue'[p])
                            \cup (IF ConsBusy(p)' THEN {hand'[p]} ELSE {})
        BY DEF Waiting, Elements
      <4> QED
        BY <2>2, <3>1, <3>2, <4>1, WaitingElements DEF ConsBusy
    <3>6. HandedOver(p)'
      BY <1>0, <1>1, <1>4, <3>5 DEF Handover, HandedOver
    <3>7. Handover(p)'
      BY <2>3, <3>3, <3>4, <3>6 DEF Handover
    <3> QED
      BY <1>1, <1>3, <3>7, OneService
  <2>5. CASE ~lock[p]
    <3>1. Consume(p, q, height[p])
      BY <2>1, <2>5 DEF Data, q
    <3>2. loop[p] \in {"drain", "done"} /\ ~ConsBusy(p)
      BY <1>0, <2>5
         DEF ServiceInv, LoopOwnsLock, ConsumerOwnsLock, StreamInv, ControlTypeOK
    <3>3. \A b \in height[p] .. ledger : b \in Elements(queue[p]) \cup Elements(wire[p])
      BY <1>0, <1>6, <3>2, WaitingElements DEF Handover, HandedOver
    <3>4. Covered(height[p], q, w, ledger)
      BY <2>2, <3>3 DEF Covered
    <3>5. wire'[p] = w
      BY <1>1 DEF w
    <3>6. height[p] \in Nat
      BY Sequences
    <3>7. height'[p] = height[p] /\ loop'[p] \in {"drain", "done"}
      BY <1>1, <3>2
    <3>8. ledger' = ledger /\ end' = end /\ stream' = stream /\ cancelled' = cancelled
          /\ sub' = sub
      BY <1>1
    <3>9. Handover(p)'
      BY <1>6, <2>1, <2>2, <3>1, <3>4, <3>5, <3>6, <3>7, <3>8, ConsumeHandsOver
    <3> QED
      BY <1>1, <1>3, <3>9, OneService
  <2> QED
    BY <2>4, <2>5
<1> QED
  BY <1>5, <1>6

LEMMA ConsumerHandover ==
  ASSUME StreamInv, HandoverInv, NEW p \in Procs, Consumer(p)
  PROVE  HandoverInv'
<1>0. Handover(p) /\ ServiceInv(p)
  BY DEF HandoverInv, StreamInv
<1>1. CASE ConsumerApplies(p)
  <2>1. /\ cons[p] = "apply" /\ cons'[p] = "metrics" /\ ledger' = ledger
        /\ UNCHANGED <<loop, answer, hand, queue, height, end, stream, cancelled, sub, wire>>
        /\ \A o \in Procs \ {p} : cons'[o] = cons[o]
    BY <1>1 DEF ConsumerApplies, Set, loopVars, streamVars, StreamInv, ControlTypeOK
  <2>2. Following(p)' <=> Following(p)
    BY <2>1 DEF Following
  <2>3. Waiting(p)' = Waiting(p)
    BY <2>1 DEF Waiting, ConsBusy
  <2>4. Handover(p)'
    BY <1>0, <2>1, <2>2, <2>3
       DEF Handover, Unstreamed, EndedOrRegistered, TidyStream, NullMeansCovered, HandedOver
  <2> QED
    BY <2>1, <2>4, OneService DEF Still
<1>2. CASE ConsumerGoesOn(p)
  <2>1. /\ cons[p] = "metrics" /\ height'[p] = height[p] + 1
        /\ UNCHANGED <<ledger, answer, end, stream, cancelled, sub, wire>>
        /\ loop'[p] \in {loop[p], "done"}
        /\ \A o \in Procs \ {p} : height'[o] = height[o] /\ loop'[o] = loop[o]
        /\ Consume(p, queue[p], height[p] + 1)
    BY <1>2 DEF ConsumerGoesOn, Set, streamVars, StreamInv, ControlTypeOK
  <2>2. \A o \in Procs \ {p} :
           cons'[o] = cons[o] /\ hand'[o] = hand[o] /\ queue'[o] = queue[o]
    BY <2>1 DEF Consume, Set, StreamInv, ControlTypeOK, KnownBlocks
  <2>3. \A o \in Procs \ {p} : Still(o)
    BY <2>1, <2>2 DEF Still
  <2>4. loop[p] \in {"drain", "done"} /\ hand[p] = height[p] /\ ConsBusy(p)
    BY <1>0, <2>1
       DEF ServiceInv, LoopOwnsLock, ConsumerHolds, ConsBusy, StreamInv, ControlTypeOK
  <2>5. CASE ~Following(p)
    <3>1. ~Following(p)' /\ stream[p] = stream'[p]
      BY <2>1, <2>5 DEF Following
    <3>2. stream[p] = "none" => queue[p] = <<>>
      BY <1>0 DEF Handover, Unstreamed
    <3>3. stream[p] = "none" => queue'[p] = <<>>
      BY <2>1, <3>2 DEF Consume, Set, StreamInv, KnownBlocks
    <3>4. Unstreamed(p)'
      BY <1>0, <2>1, <2>4, <3>1, <3>3 DEF Handover, Unstreamed
    <3> QED
      BY <2>1, <2>3, <3>1, <3>4, NotFollowing, OneService
  <2>6. CASE Following(p)
    <3>1. sub[p] /\ ~end[p]
      BY <1>0, <2>4, <2>6 DEF Handover, EndedOrRegistered
    <3>2. Tidy(queue[p], wire[p], ledger)
      BY <1>0, <2>6 DEF Handover, TidyStream
    <3>3. \A b \in height[p] .. ledger :
             b = height[p] \/ b \in Elements(queue[p]) \cup Elements(wire[p])
      BY <1>0, <2>4, <2>6, WaitingElements DEF Handover, HandedOver
    <3>4. Covered(height[p] + 1, queue[p], wire[p], ledger)
      <4> SUFFICES ASSUME NEW b \in (height[p] + 1) .. ledger
                   PROVE  b \in Elements(queue[p]) \cup Elements(wire[p])
        BY DEF Covered
      <4>1. b \in height[p] .. ledger /\ b # height[p]
        BY Sequences
      <4> QED
        BY <3>3, <4>1
    <3>5. /\ queue[p] \in Seq(Nat) /\ wire[p] \in Seq(Nat) /\ height[p] + 1 \in Nat
      BY Sequences
    <3>6. wire'[p] = wire[p] /\ ledger' = ledger /\ end' = end /\ stream' = stream
          /\ cancelled' = cancelled /\ sub' = sub /\ loop'[p] \in {"drain", "done"}
      BY <2>1, <2>4
    <3>7. Handover(p)'
      BY <2>1, <2>6, <3>1, <3>2, <3>4, <3>5, <3>6, ConsumeHandsOver
    <3> QED
      BY <2>1, <2>3, <3>7, OneService
  <2> QED
    BY <2>5, <2>6
<1> QED
  BY <1>1, <1>2 DEF Consumer

(* The loop is the only place that needs the registration in time: a null answer, or a     *)
(* queue that has the block already, promises that the stream brings the rest.             *)
LEMMA LoopHandover ==
  ASSUME StreamInv, HandoverInv, NEW p \in Procs, Loop(p), ~LateSubscribe
  PROVE  HandoverInv'
<1>0. Handover(p) /\ ServiceInv(p)
  BY DEF HandoverInv, StreamInv
<1>1. CASE Counted(p)
  <2>1. /\ loop[p] = "count" /\ ledger' = ledger
        /\ loop'[p] \in {"ask", "done"}
        /\ loop'[p] = "done" => stream'[p] = stream[p]
        /\ loop'[p] = "ask" => ~end[p] /\ stream'[p] = "open"
        /\ UNCHANGED <<answer, cons, hand, queue, end, cancelled, sub, wire>>
        /\ \A o \in Procs \ {p} : /\ loop'[o] = loop[o] /\ height'[o] = height[o]
                                  /\ stream'[o] = stream[o]
    BY <1>1 DEF Counted, Set, consVars, StreamInv, ControlTypeOK, StreamStates
  <2>2. /\ stream[p] = "none" /\ ~sub[p] /\ wire[p] = <<>> /\ queue[p] = <<>>
    BY <1>0, <2>1 DEF Handover, Unstreamed
  <2>3. Unstreamed(p)'
    BY <2>1, <2>2 DEF Unstreamed
  <2>4. EndedOrRegistered(p)'
    BY <2>1, <2>2 DEF EndedOrRegistered, Following
  <2>5. TidyStream(p)'
    BY <2>1, <2>2 DEF TidyStream, Tidy, Rising, Before, Gapless, Elements
  <2>6. NullMeansCovered(p)' /\ HandedOver(p)'
    BY <2>1, <2>2 DEF NullMeansCovered, HandedOver, Following
  <2>7. Handover(p)'
    BY <2>3, <2>4, <2>5, <2>6 DEF Handover
  <2> QED
    BY <2>1, <2>7, OneService DEF Still
<1>2. CASE Answer(p)
  <2>1. /\ loop[p] = "ask" /\ loop'[p] = "answer" /\ ledger' = ledger
        /\ Following(p) => sub[p]
        /\ answer'[p] = 0 => height[p] > ledger
        /\ UNCHANGED <<cons, hand, queue, height, end, stream, cancelled, sub, wire>>
        /\ \A o \in Procs \ {p} : loop'[o] = loop[o] /\ answer'[o] = answer[o]
    BY <1>2, Sequences
       DEF Answer, Set, consVars, streamVars, Following, StreamInv, ControlTypeOK, KnownBlocks
  <2>2. Following(p)' <=> Following(p)
    BY <2>1 DEF Following
  <2>3. Unstreamed(p)' /\ EndedOrRegistered(p)' /\ TidyStream(p)' /\ HandedOver(p)'
    BY <1>0, <2>1, <2>2
       DEF Handover, Unstreamed, EndedOrRegistered, TidyStream, HandedOver
  <2>4. answer'[p] = 0 => height'[p] .. ledger' = {}
    BY <2>1, Sequences
  <2>5. NullMeansCovered(p)'
    BY <2>4 DEF NullMeansCovered, Covered
  <2>6. Handover(p)'
    BY <2>3, <2>5 DEF Handover
  <2> QED
    BY <2>1, <2>6, OneService DEF Still
<1>3. CASE GotBlock(p)
  <2>1. /\ loop[p] = "answer" /\ loop'[p] \in {"apply", "done", "drain"}
        /\ UNCHANGED <<ledger, answer, height, end, stream, cancelled, sub, wire>>
        /\ \A o \in Procs \ {p} : loop'[o] = loop[o]
    BY <1>3 DEF GotBlock, Set, streamVars, StreamInv, ControlTypeOK
  <2>2. \A o \in Procs \ {p} :
           cons'[o] = cons[o] /\ hand'[o] = hand[o] /\ queue'[o] = queue[o]
    BY <1>3 DEF GotBlock, Consume, Set, consVars, StreamInv, ControlTypeOK, KnownBlocks
  <2>3. \A o \in Procs \ {p} : Still(o)
    BY <2>1, <2>2 DEF Still
  <2>4. Following(p)' <=> Following(p)
    BY <2>1 DEF Following
  <2>5. CASE ~CaughtUp(p)
    <3>1. loop'[p] = "apply" /\ UNCHANGED <<cons, hand, queue>>
      BY <1>3, <2>5 DEF GotBlock, Set, consVars, StreamInv, ControlTypeOK
    <3>2. Handover(p)'
      BY <1>0, <2>1, <2>4, <3>1
         DEF Handover, Unstreamed, EndedOrRegistered, TidyStream, NullMeansCovered, HandedOver
    <3> QED
      BY <2>1, <2>3, <3>2, OneService
  <2>6. CASE CaughtUp(p) /\ ~Following(p)
    <3>1. stream[p] = "none" => queue[p] = <<>>
      BY <1>0 DEF Handover, Unstreamed
    <3>2. stream[p] = "none" => queue'[p] = <<>>
      BY <1>3, <2>6, <3>1 DEF GotBlock, Consume, Set, StreamInv, KnownBlocks
    <3>3. Unstreamed(p)'
      BY <1>0, <2>1, <2>4, <2>6, <3>2 DEF Handover, Unstreamed
    <3> QED
      BY <2>1, <2>3, <2>4, <2>6, <3>3, NotFollowing, OneService
  <2>7. CASE CaughtUp(p) /\ Following(p)
    <3>1. sub[p] /\ ~end[p]
      BY <1>0, <2>1, <2>7 DEF Handover, EndedOrRegistered
    <3>2. Consume(p, queue[p], height[p]) /\ loop'[p] \in {"done", "drain"}
      BY <1>3, <2>7, <3>1 DEF GotBlock, Set, StreamInv, ControlTypeOK
    <3>3. Tidy(queue[p], wire[p], ledger)
      BY <1>0, <2>7 DEF Handover, TidyStream
    <3>4. /\ queue[p] \in Seq(Nat) /\ wire[p] \in Seq(Nat) /\ height[p] \in Nat
      BY Sequences
    <3>5. Covered(height[p], queue[p], wire[p], ledger)
      <4>1. CASE answer[p] = 0
        BY <1>0, <2>1, <2>7, <4>1 DEF Handover, NullMeansCovered
      <4>2. CASE queue[p] # <<>> /\ Head(queue[p]) <= height[p]
        <5>1. Head(queue[p]) \in Elements(queue[p]) /\ Head(queue[p]) \in Nat
          <6>1. 1 \in DOMAIN queue[p] /\ queue[p][1] = Head(queue[p])
            BY <3>4, <4>2
          <6> QED
            BY <3>4, <6>1 DEF Elements
        <5>2. \A b \in height[p] .. ledger : b \in Head(queue[p]) .. ledger
          BY <3>4, <4>2, <5>1, Sequences
        <5> QED
          BY <3>3, <5>1, <5>2 DEF Tidy, Gapless, Covered
      <4> QED
        BY <2>7, <3>1, <4>1, <4>2 DEF CaughtUp
    <3>6. wire'[p] = wire[p] /\ ledger' = ledger /\ end' = end /\ stream' = stream
          /\ cancelled' = cancelled /\ sub' = sub /\ height'[p] = height[p]
      BY <2>1
    <3>7. Handover(p)'
      BY <2>7, <3>1, <3>2, <3>3, <3>4, <3>5, <3>6, ConsumeHandsOver
    <3> QED
      BY <2>1, <2>3, <3>7, OneService
  <2> QED
    BY <2>5, <2>6, <2>7
<1>4. CASE LoopApplies(p) \/ LoopGoesOn(p)
  <2>1. /\ loop[p] \in {"apply", "metrics"} /\ loop'[p] \in {"metrics", "ask"}
        /\ UNCHANGED <<ledger, answer, cons, hand, queue, end, stream, cancelled, sub, wire>>
        /\ \A o \in Procs \ {p} : loop'[o] = loop[o] /\ height'[o] = height[o]
    BY <1>4 DEF LoopApplies, LoopGoesOn, Set, consVars, streamVars, StreamInv, ControlTypeOK
  <2>2. Following(p)' <=> Following(p)
    BY <2>1 DEF Following
  <2>3. Handover(p)'
    BY <1>0, <2>1, <2>2
       DEF Handover, Unstreamed, EndedOrRegistered, TidyStream, NullMeansCovered, HandedOver
  <2> QED
    BY <2>1, <2>3, OneService DEF Still
<1> QED
  BY <1>1, <1>2, <1>3, <1>4 DEF Loop

-----------------------------------------------------------------------------
LEMMA HandoverInitially == Init => HandoverInv
BY DEF Init, HandoverInv, Handover, Unstreamed, EndedOrRegistered, TidyStream, NullMeansCovered,
       HandedOver, Following

(* When the node registers the stream before it answers the first getBlock, no block falls *)
(* between the catch-up loop and the stream, however many services run and whatever fails  *)
(* or starts again: what streamTryConsume has not seen yet is queued or on its way.        *)
THEOREM NothingFallsBetween == ~LateSubscribe => (Spec => []NothingSkipped)
<1> SUFFICES ASSUME ~LateSubscribe PROVE Spec => []NothingSkipped
  OBVIOUS
<1>1. StreamInv /\ HandoverInv /\ [Next]_vars => HandoverInv'
  <2> SUFFICES ASSUME StreamInv, HandoverInv, [Next]_vars PROVE HandoverInv'
    OBVIOUS
  <2>1. CASE UNCHANGED vars
    <3>1. ledger' = ledger /\ \A o \in Procs : Still(o)
      BY <2>1 DEF vars, loopVars, consVars, streamVars, Still
    <3> QED
      BY <3>1, StillHandover DEF HandoverInv
  <2>2. CASE Commit
    BY <2>2, CommitHandover
  <2>3. ASSUME NEW p \in Procs,
               Subscribe(p) \/ Start(p) \/ Terminate(p) \/ Exit(p) \/ Failure(p)
                 \/ StreamCancelled(p)
        PROVE  HandoverInv'
    BY <2>3, ServiceHandover
  <2>4. ASSUME NEW p \in Procs, Data(p) \/ Loop(p) \/ Consumer(p)
        PROVE  HandoverInv'
    BY <2>4, DataHandover, LoopHandover, ConsumerHandover
  <2> QED
    BY <2>1, <2>2, <2>3, <2>4 DEF Next
<1>2. HandoverInv => NothingSkipped
  BY DEF HandoverInv, Handover, HandedOver, NothingSkipped
<1> QED
  BY <1>1, <1>2, HandoverInitially, StreamInvariant, PTL DEF Spec
=============================================================================
