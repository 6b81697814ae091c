---------------------------- MODULE IrohaStream -----------------------------
(***************************************************************************)
(* The sync service of the Iroha backend: sync() and IrohaApi.streamBlocks *)
(* hand every block of the Iroha ledger to IrohaDb.applyBlock.             *)
(*                                                                         *)
(* streamBlocks opens a stream of new commits and, at the same time, asks  *)
(* for the blocks it lacks one by one (the catch-up loop).  What the       *)
(* stream brings meanwhile waits in streamQueue behind onBlockLock; when   *)
(* the loop has caught up, streamTryConsume takes over.  Nothing but the   *)
(* UNIQUE constraint on block.height keeps two services apart.             *)
(***************************************************************************)
EXTENDS Naturals, Sequences, FiniteSets

CONSTANTS
  Procs,          \* sync services that run against the one database
  MaxHeight,      \* bound on the ledger's height
  MaxStarts,      \* bound on starts, over all services
  MaxFaults,      \* bound on failing calls
  LateSubscribe   \* may the first getBlock be answered before the node has
                  \* registered the stream?

Heights == 1 .. MaxHeight

ASSUME BoundsAssumption ==
  /\ MaxHeight \in Nat \ {0}
  /\ MaxStarts \in Nat
  /\ MaxFaults \in Nat
  /\ LateSubscribe \in BOOLEAN

VARIABLES
  ledger,   \* external: the node has committed blocks 1 .. ledger
  rows,     \* heights in table block
  loop,     \* where the catch-up loop of each service is suspended
  cons,     \* where its streamTryConsume is suspended
  height,   \* streamBlocks' height: the next block to hand to onBlock
  answer,   \* what getBlock has answered, 0 for null
  hand,     \* the block streamTryConsume has handed to onBlock
  lock,     \* onBlockLock
  queue,    \* streamQueue
  end,      \* end() was called
  failed,   \* result is an error
  stream,   \* stream.promise: "none", "open", "ok", "err"
  cancelled,\* fetchCommits' own end
  sub,      \* external: the node knows of the stream and sends it every commit
  wire,     \* external: blocks sent on the stream and not yet received
  starts, faults

loopVars == <<loop, answer>>
consVars == <<cons, hand, lock, queue>>
streamVars == <<stream, cancelled, sub, wire>>
budget == <<starts, faults>>
vars == <<ledger, rows, loopVars, consVars, height, end, failed, streamVars, budget>>

Set(f, p, v) == [f EXCEPT ![p] = v]

Fault == faults < MaxFaults /\ faults' = faults + 1 /\ UNCHANGED starts

-----------------------------------------------------------------------------
Init ==
  /\ ledger = 1
  /\ rows = {}
  /\ loop = [p \in Procs |-> "off"]
  /\ cons = [p \in Procs |-> "idle"]
  /\ height = [p \in Procs |-> 1]
  /\ answer = [p \in Procs |-> 0]
  /\ hand = [p \in Procs |-> 0]
  /\ lock = [p \in Procs |-> TRUE]
  /\ queue = [p \in Procs |-> <<>>]
  /\ end = [p \in Procs |-> FALSE]
  /\ failed = [p \in Procs |-> FALSE]
  /\ stream = [p \in Procs |-> "none"]
  /\ cancelled = [p \in Procs |-> FALSE]
  /\ sub = [p \in Procs |-> FALSE]
  /\ wire = [p \in Procs |-> <<>>]
  /\ starts = 0
  /\ faults = 0

\* External: the Iroha node commits a block and sends it to the streams it knows of.
Commit ==
  /\ ledger < MaxHeight
  /\ ledger' = ledger + 1
  /\ wire' = [p \in Procs |-> IF sub[p] THEN Append(wire[p], ledger + 1) ELSE wire[p]]
  /\ UNCHANGED <<rows, loopVars, consVars, height, end, failed, stream, cancelled, sub,
                 budget>>

\* External: the node registers the stream that fetchCommits has asked for.
Subscribe(p) ==
  /\ stream[p] = "open"
  /\ ~cancelled[p]
  /\ ~sub[p]
  /\ sub' = Set(sub, p, TRUE)
  /\ UNCHANGED <<ledger, rows, loopVars, consVars, height, end, failed, stream, cancelled,
                 wire, budget>>

-----------------------------------------------------------------------------
(* sync(): start, the count of stored blocks, SIGTERM, and the end of the process. *)

Start(p) ==
  /\ loop[p] = "off"
  /\ starts < MaxStarts
  /\ starts' = starts + 1
  /\ loop' = Set(loop, p, "count")
  /\ UNCHANGED <<ledger, rows, answer, consVars, height, end, failed, streamVars, faults>>

\* blockCount answers; unless it was ended meanwhile, the stream is asked for and the
\* loop starts with its first getBlock, with onBlockLock held.
CountedUnlocked(p) ==
  /\ loop[p] = "count"
  /\ height' = Set(height, p, Cardinality(rows) + 1)
  /\ loop' = Set(loop, p, "ask")
  /\ stream' = Set(stream, p, "open")
  /\ lock' = Set(lock, p, FALSE)
  /\ UNCHANGED <<ledger, rows, answer, cons, hand, queue, end, failed, cancelled, sub, wire,
                 budget>>

CountedOneTooFar(p) ==
  /\ loop[p] = "count"
  /\ height' = Set(height, p, Cardinality(rows) + 2)
  /\ loop' = Set(loop, p, "ask")
  /\ stream' = Set(stream, p, "open")
  /\ UNCHANGED <<ledger, rows, answer, consVars, end, failed, cancelled, sub, wire, budget>>

Counted(p) ==
  /\ loop[p] = "count"
  /\ \/ /\ end[p]
        /\ loop' = Set(loop, p, "done")
        /\ UNCHANGED <<height, stream>>
     \/ /\ ~end[p]
        /\ loop' = Set(loop, p, "ask")
        /\ height' = Set(height, p, Cardinality(rows) + 1)
        /\ stream' = Set(stream, p, "open")
  /\ UNCHANGED <<ledger, rows, answer, consVars, end, failed, cancelled, sub, wire, budget>>

CountFails(p) ==
  /\ loop[p] = "count"
  /\ Fault
  /\ loop' = Set(loop, p, "done")
  /\ failed' = Set(failed, p, TRUE)
  /\ UNCHANGED <<ledger, rows, answer, consVars, height, end, streamVars>>

\* SIGTERM: end().
TerminateKeepingStream(p) ==
  /\ loop[p] # "off"
  /\ ~end[p]
  /\ end' = Set(end, p, TRUE)
  /\ UNCHANGED <<ledger, rows, loopVars, consVars, height, failed, streamVars, budget>>

Terminate(p) ==
  /\ loop[p] # "off"
  /\ ~end[p]
  /\ end' = Set(end, p, TRUE)
  /\ cancelled' = Set(cancelled, p, stream[p] # "none")
  /\ UNCHANGED <<ledger, rows, loopVars, consVars, height, failed, stream, sub, wire,
                 budget>>

\* The process is gone: by a crash, or because its work is done.
Exit(p) ==
  /\ loop[p] # "off"
  /\ loop' = Set(loop, p, "off")
  /\ cons' = Set(cons, p, "idle")
  /\ height' = Set(height, p, 1)
  /\ answer' = Set(answer, p, 0)
  /\ hand' = Set(hand, p, 0)
  /\ lock' = Set(lock, p, TRUE)
  /\ queue' = Set(queue, p, <<>>)
  /\ end' = Set(end, p, FALSE)
  /\ failed' = Set(failed, p, FALSE)
  /\ stream' = Set(stream, p, "none")
  /\ cancelled' = Set(cancelled, p, FALSE)
  /\ sub' = Set(sub, p, FALSE)
  /\ wire' = Set(wire, p, <<>>)
  /\ UNCHANGED <<ledger, rows, budget>>

-----------------------------------------------------------------------------
(* streamTryConsume. *)

\* Its loop over the queue q with the next height h, up to its next await: blocks other
\* than h are dropped, h is handed to onBlock; after end() the lock is never released.
ConsumeAfterEnd(p, q, h) ==
  \/ \E i \in DOMAIN q :
       /\ q[i] = h
       /\ \A j \in 1 .. i - 1 : q[j] # h
       /\ cons' = Set(cons, p, "apply")
       /\ hand' = Set(hand, p, h)
       /\ queue' = Set(queue, p, SubSeq(q, i + 1, Len(q)))
       /\ lock' = Set(lock, p, TRUE)
  \/ /\ \A i \in DOMAIN q : q[i] # h
     /\ cons' = Set(cons, p, "idle")
     /\ queue' = Set(queue, p, <<>>)
     /\ lock' = Set(lock, p, FALSE)
     /\ UNCHANGED hand

Consume(p, q, h) ==
  \/ /\ end[p]
     /\ q # <<>>
     /\ cons' = Set(cons, p, "idle")
     /\ queue' = Set(queue, p, Tail(q))
     /\ lock' = Set(lock, p, TRUE)
     /\ UNCHANGED hand
  \/ /\ ~end[p]
     /\ \E i \in DOMAIN q :
          /\ q[i] = h
          /\ \A j \in 1 .. i - 1 : q[j] # h
          /\ cons' = Set(cons, p, "apply")
          /\ hand' = Set(hand, p, h)
          /\ queue' = Set(queue, p, SubSeq(q, i + 1, Len(q)))
          /\ lock' = Set(lock, p, TRUE)
  \/ /\ \A i \in DOMAIN q : ~end[p] /\ q[i] # h
     /\ cons' = Set(cons, p, "idle")
     /\ queue' = Set(queue, p, <<>>)
     /\ lock' = Set(lock, p, FALSE)
     /\ UNCHANGED hand

\* A block arrives on the stream.
DataDroppedWhileLocked(p) ==
  /\ stream[p] # "none"
  /\ wire[p] # <<>>
  /\ wire' = Set(wire, p, Tail(wire[p]))
  /\ \/ (cancelled[p] \/ lock[p]) /\ UNCHANGED consVars
     \/ /\ ~cancelled[p]
        /\ ~lock[p]
        /\ Consume(p, Append(queue[p], Head(wire[p])), height[p])
  /\ UNCHANGED <<ledger, rows, loopVars, height, end, failed, stream, cancelled, sub,
                 budget>>

Data(p) ==
  /\ stream[p] # "none"
  /\ wire[p] # <<>>
  /\ wire' = Set(wire, p, Tail(wire[p]))
  /\ \/ cancelled[p] /\ UNCHANGED consVars
     \/ /\ ~cancelled[p]
        /\ lock[p]
        /\ queue' = Set(queue, p, Append(queue[p], Head(wire[p])))
        /\ UNCHANGED <<cons, hand, lock>>
     \/ /\ ~cancelled[p]
        /\ ~lock[p]
        /\ Consume(p, Append(queue[p], Head(wire[p])), height[p])
  /\ UNCHANGED <<ledger, rows, loopVars, height, end, failed, stream, cancelled, sub,
                 budget>>

\* The transaction of applyBlock commits.  Its first statement inserts the block's height.
ConsumerApplies(p) ==
  /\ cons[p] = "apply"
  /\ hand[p] \notin rows
  /\ rows' = rows \cup {hand[p]}
  /\ cons' = Set(cons, p, "metrics")
  /\ UNCHANGED <<ledger, loopVars, hand, lock, queue, height, end, failed, streamVars,
                 budget>>

\* Then prometheus.readFromDb answers, and the loop over the queue goes on.  The
\* catch-up loop waits for a streamTryConsume that it has called itself.
ConsumerGoesOn(p) ==
  /\ cons[p] = "metrics"
  /\ height' = Set(height, p, height[p] + 1)
  /\ Consume(p, queue[p], height[p] + 1)
  /\ loop' = Set(loop, p, IF loop[p] = "drain" /\ cons'[p] = "idle" THEN "done" ELSE loop[p])
  /\ UNCHANGED <<ledger, rows, answer, end, failed, streamVars, budget>>

\* onBlock is rejected: by the UNIQUE constraint, or by any other failure.
OnBlockFails(suspended, inHand) ==
  \/ suspended = "apply" /\ inHand \in rows /\ UNCHANGED budget
  \/ suspended \in {"apply", "metrics"} /\ Fault

ConsumerFails(p) ==
  /\ OnBlockFails(cons[p], hand[p])
  /\ cons' = Set(cons, p, "idle")
  /\ loop' = Set(loop, p, IF loop[p] = "drain" THEN "done" ELSE loop[p])
  /\ failed' = Set(failed, p, TRUE)
  /\ cancelled' = Set(cancelled, p, TRUE)
  /\ UNCHANGED <<ledger, rows, answer, hand, lock, queue, height, end, stream, sub, wire>>

-----------------------------------------------------------------------------
(* The catch-up loop. *)

\* The node answers getBlock(height): the block, or null beyond the ledger.
Answer(p) ==
  /\ loop[p] = "ask"
  /\ sub[p] \/ cancelled[p] \/ stream[p] = "err" \/ LateSubscribe
  /\ loop' = Set(loop, p, "answer")
  /\ answer' = Set(answer, p, IF height[p] <= ledger THEN height[p] ELSE 0)
  /\ UNCHANGED <<ledger, rows, consVars, height, end, failed, streamVars, budget>>

\* The loop leaves off when it was ended, when there is no such block, or when the queue
\* has the block already, releases the lock and calls streamTryConsume.
CaughtUp(p) ==
  end[p] \/ answer[p] = 0 \/ (queue[p] # <<>> /\ Head(queue[p]) <= height[p])

GotBlockKeepingLock(p) ==
  /\ loop[p] = "answer"
  /\ \/ ~CaughtUp(p) /\ loop' = Set(loop, p, "apply")
     \/ CaughtUp(p) /\ loop' = Set(loop, p, "done")
  /\ UNCHANGED <<ledger, rows, answer, consVars, height, end, failed, streamVars, budget>>

GotBlock(p) ==
  /\ loop[p] = "answer"
  /\ \/ /\ ~CaughtUp(p)
        /\ loop' = Set(loop, p, "apply")
        /\ UNCHANGED consVars
     \/ /\ CaughtUp(p)
        /\ end[p]
        /\ loop' = Set(loop, p, "done")
        /\ lock' = Set(lock, p, FALSE)
        /\ UNCHANGED <<cons, hand, queue>>
     \/ /\ CaughtUp(p)
        /\ ~end[p]
        /\ Consume(p, queue[p], height[p])
        /\ loop' = Set(loop, p, IF cons'[p] = "idle" THEN "done" ELSE "drain")
  /\ UNCHANGED <<ledger, rows, answer, height, end, failed, streamVars, budget>>

LoopApplies(p) ==
  /\ loop[p] = "apply"
  /\ answer[p] \notin rows
  /\ rows' = rows \cup {answer[p]}
  /\ loop' = Set(loop, p, "metrics")
  /\ UNCHANGED <<ledger, answer, consVars, height, end, failed, streamVars, budget>>

LoopSkipsOne(p) ==
  /\ loop[p] = "metrics"
  /\ height' = Set(height, p, height[p] + 2)
  /\ loop' = Set(loop, p, "ask")
  /\ UNCHANGED <<ledger, rows, answer, consVars, end, failed, streamVars, budget>>

LoopGoesOn(p) ==
  /\ loop[p] = "metrics"
  /\ height' = Set(height, p, height[p] + 1)
  /\ loop' = Set(loop, p, "ask")
  /\ UNCHANGED <<ledger, rows, answer, consVars, end, failed, streamVars, budget>>

\* getBlock or onBlock is rejected: the lock stays taken.
LoopFails(p) ==
  /\ OnBlockFails(loop[p], answer[p]) \/ (loop[p] = "ask" /\ Fault)
  /\ loop' = Set(loop, p, "done")
  /\ failed' = Set(failed, p, TRUE)
  /\ cancelled' = Set(cancelled, p, TRUE)
  /\ UNCHANGED <<ledger, rows, answer, consVars, height, end, stream, sub, wire>>

-----------------------------------------------------------------------------
(* The end of the stream. *)

\* The answer to cancel() is an error event "Cancelled", which resolves the promise.
StreamCancelled(p) ==
  /\ stream[p] = "open"
  /\ cancelled[p]
  /\ stream' = Set(stream, p, "ok")
  /\ sub' = Set(sub, p, FALSE)
  /\ wire' = Set(wire, p, <<>>)
  /\ UNCHANGED <<ledger, rows, loopVars, consVars, height, end, failed, cancelled, budget>>

\* Any other error rejects it, and with it the promise of streamBlocks; nobody stops the
\* catch-up loop, nor the stream if the error came as a BlockErrorResponse.
StreamFails(p) ==
  /\ stream[p] = "open"
  /\ Fault
  /\ stream' = Set(stream, p, "err")
  /\ \/ sub' = Set(sub, p, FALSE) /\ wire' = Set(wire, p, <<>>)
     \/ UNCHANGED <<sub, wire>>
  /\ UNCHANGED <<ledger, rows, loopVars, consVars, height, end, failed, cancelled>>

-----------------------------------------------------------------------------
Loop(p) == Counted(p) \/ Answer(p) \/ GotBlock(p) \/ LoopApplies(p) \/ LoopGoesOn(p)
Consumer(p) == ConsumerApplies(p) \/ ConsumerGoesOn(p)
Failure(p) == CountFails(p) \/ LoopFails(p) \/ ConsumerFails(p) \/ StreamFails(p)

Next ==
  \/ Commit
  \/ \E p \in Procs :
       \/ Subscribe(p) \/ Start(p) \/ Terminate(p) \/ Exit(p) \/ Data(p)
       \/ Loop(p) \/ Consumer(p) \/ Failure(p) \/ StreamCancelled(p)

Spec == Init /\ [][Next]_vars

\* The event loop runs what is pending, the node and the database answer.  Nothing starts,
\* terminates or kills a service by itself.
Fairness ==
  \A p \in Procs :
    /\ WF_vars(Subscribe(p))
    /\ WF_vars(Loop(p) \/ LoopFails(p))
    /\ WF_vars(Consumer(p) \/ ConsumerFails(p))
    /\ WF_vars(Data(p))
    /\ WF_vars(StreamCancelled(p))

FairSpec == Spec /\ Fairness

-----------------------------------------------------------------------------
(* Properties. *)

HeightTypeOK ==
  /\ ledger \in Heights
  /\ rows \subseteq Heights
  /\ height \in [Procs -> 1 .. MaxHeight + 1]
  /\ answer \in [Procs -> 0 .. MaxHeight]
  /\ hand \in [Procs -> 0 .. MaxHeight]
ControlTypeOK ==
  /\ loop \in [Procs -> {"off", "count", "ask", "answer", "apply", "metrics", "drain", "done"}]
  /\ cons \in [Procs -> {"idle", "apply", "metrics"}]
  /\ lock \in [Procs -> BOOLEAN]
  /\ end \in [Procs -> BOOLEAN]
  /\ failed \in [Procs -> BOOLEAN]
StreamTypeOK ==
  /\ stream \in [Procs -> {"none", "open", "ok", "err"}]
  /\ cancelled \in [Procs -> BOOLEAN]
  /\ sub \in [Procs -> BOOLEAN]
  /\ queue \in [Procs -> Seq(Heights)]
  /\ wire \in [Procs -> Seq(Heights)]
  /\ starts \in Nat
  /\ faults \in Nat

\* Types of the variables.
TypeOK == HeightTypeOK /\ ControlTypeOK /\ StreamTypeOK

\* sync starts at blockCount() + 1, which is the first missing block only if the table has
\* no hole: whatever fails, restarts or runs twice, it is a prefix of the ledger.
StoredIsPrefix == rows = 1 .. Cardinality(rows) /\ Cardinality(rows) <= ledger

LoopBusy(p) == loop[p] \in {"apply", "metrics"}
ConsBusy(p) == cons[p] \in {"apply", "metrics"}

\* onBlockLock: the loop and streamTryConsume never have onBlock in progress at once; they
\* both read height before and increment it after the await.
OneOnBlockAtATime == \A p \in Procs : ~(LoopBusy(p) /\ ConsBusy(p))

Waiting(p) ==
  {wire[p][i] : i \in DOMAIN wire[p]} \cup {queue[p][i] : i \in DOMAIN queue[p]}
    \cup (IF ConsBusy(p) THEN {hand[p]} ELSE {})
Following(p) == stream[p] = "open" /\ ~cancelled[p]

\* Once the loop has handed over to the stream, no block falls between the two: each block
\* from height on is in the hands of onBlock, queued or on its way.
NothingSkipped ==
  \A p \in Procs : Following(p) /\ loop[p] \in {"drain", "done"}
                     => \A b \in height[p] .. ledger : b \in Waiting(p)

\* After end() no further block is handed to onBlock ("streamBlocks end" expects that the
\* callback is not called), whatever answers arrive late and whatever is queued.
EndStopsOnBlock ==
  [][\A p \in Procs : end[p] /\ end'[p]
        => /\ LoopBusy(p)' => LoopBusy(p)
           /\ ConsBusy(p)' => ConsBusy(p) /\ hand'[p] = hand[p]]_vars

Settled(p) == stream[p] = "err" \/ (loop[p] = "done" /\ stream[p] # "open")

\* The promise that main() awaits settles after a SIGTERM, wherever it comes.
EndSettles == \A p \in Procs : end[p] ~> (Settled(p) \/ loop[p] = "off")

\* A service that goes on following stores every block: those committed before it was
\* started, while it catches up, and after ("new block" adds a block once streamBlocks was
\* called and expects it to be handed over).
EveryBlockStored ==
  \A p \in Procs : <>[]Following(p) => \A b \in Heights : (ledger >= b) ~> (b \in rows)
=============================================================================
