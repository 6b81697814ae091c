------------------------------ MODULE Explorer ------------------------------
(***************************************************************************)
(* The processes of an explorer and how they start, talk and end: the      *)
(* parent (main.js, Explorer, Platform), which serves the browsers, and    *)
(* one child per network (sync.js), which it forks and which writes the    *)
(* blocks to the database and tells the parent of each.  What a child does *)
(* within is BlockSync and ChannelConfig; here a child counts and inserts  *)
(* blocks, several at a time, and sends its messages.                      *)
(*                                                                         *)
(* The parent dies of a signal, of an exception that nothing catches (2 s  *)
(* later) or of SIGKILL; something outside starts it again.  A child is    *)
(* known by its network and by the number of the start that forked it.     *)
(***************************************************************************)
EXTENDS Integers, Sequences, FiniteSets

CONSTANTS
    Networks,     \* the networks of config.json
    Conflicts,    \* those whose channel the database holds with another genesis hash
    Sockets,      \* the browsers' web sockets, each used once
    MaxBlock,     \* bound: blocks 1..MaxBlock of each network
    MaxStarts,    \* bound: starts of the parent
    MaxLag,       \* bound: messages of a child under way
    MaxSignals,   \* bound: SIGTERM or SIGINT to the parent
    FaultKinds,   \* of "db", "peer", "kill", "child": what may go wrong
    MaxFaults     \* bound: how often

ASSUME ExplorerAssumption ==
    /\ Conflicts \subseteq Networks
    /\ {MaxBlock, MaxStarts, MaxLag, MaxSignals, MaxFaults} \subseteq Nat
    /\ FaultKinds \subseteq {"db", "peer", "kill", "child"}

Blocks == 1..MaxBlock
Kids == Networks \X (1..MaxStarts)
Messages == {<<"exist", 0>>, <<"update", 0>>} \cup ({"block"} \X Blocks)

VARIABLES
    parent,   \* "down", "init", "up" or "draining" (server.close has been called)
    starts,   \* how often the parent has been started
    todo,     \* the networks whose client is not built yet
    status,   \* FabricClient.status of each client of the parent
    db,       \* the parent's connection: "none", "open", "retry", "failed"
    panic,    \* a timer of 2 s runs that will call shutDown(1)
    socks,    \* "none", "open", "ending" (half closed by shutDown) or "closed"
    base,     \* history: what had been broadcast when the socket opened
    heard,    \* how often each socket was told of each block
    child,    \* "none", "starting", "run", "signalled", "closing" or "dead"
    pend,     \* the blocks a child has counted and not yet inserted
    wrote,    \* history: the blocks a child has inserted and announced
    ipc,      \* the messages from each child to the parent
    rows,     \* how many rows of each block the database holds
    saved,    \* the networks of which the database holds a channel
    height,   \* the ledgers
    killed,   \* history: a parent was killed by SIGKILL
    signals, faults

parentVars == <<parent, starts, todo, status, db, panic>>
socketVars == <<socks, base, heard>>
childVars  == <<child, pend, wrote, rows, saved>>
worldVars  == <<height, killed, signals, faults>>
vars == <<parentVars, socketVars, childVars, ipc, worldVars>>

-----------------------------------------------------------------------------
TypeOK ==
    /\ parent \in {"down", "init", "up", "draining"}
    /\ starts \in 0..MaxStarts
    /\ todo \subseteq Networks
    /\ todo # {} => parent = "init"    \* who listens has built every client
    /\ status \in [Networks -> BOOLEAN]
    /\ db \in {"none", "open", "retry", "failed"}
    /\ panic \in BOOLEAN
    /\ socks \in [Sockets -> {"none", "open", "ending", "closed"}]
    /\ base \in [Sockets -> SUBSET (Networks \X Blocks)]
    /\ heard \in [Sockets -> [Networks \X Blocks -> Nat]]
    /\ child \in [Kids -> {"none", "starting", "run", "signalled", "closing", "dead"}]
    /\ pend \in [Kids -> SUBSET Blocks]
    /\ wrote \in [Kids -> SUBSET Blocks]
    /\ ipc \in [Kids -> Seq(Messages)]
    /\ rows \in [Networks \X Blocks -> Nat]
    /\ saved \subseteq Networks
    /\ height \in [Networks -> 0..MaxBlock]
    /\ killed \in BOOLEAN
    /\ signals \in 0..MaxSignals
    /\ faults \in 0..MaxFaults

Init ==
    /\ parent = "down" /\ starts = 0 /\ todo = {}
    /\ status = [n \in Networks |-> FALSE]
    /\ db = "none" /\ panic = FALSE
    /\ socks = [s \in Sockets |-> "none"]
    /\ base = [s \in Sockets |-> {}]
    /\ heard = [s \in Sockets |-> [p \in Networks \X Blocks |-> 0]]
    /\ child = [x \in Kids |-> "none"]
    /\ pend = [x \in Kids |-> {}]
    /\ wrote = [x \in Kids |-> {}]
    /\ ipc = [x \in Kids |-> <<>>]
    /\ rows = [p \in Networks \X Blocks |-> 0]
    /\ saved = Conflicts
    /\ height = [n \in Networks |-> 0]
    /\ killed = FALSE /\ signals = 0 /\ faults = 0

-----------------------------------------------------------------------------
Fault(kind) ==
    /\ kind \in FaultKinds
    /\ faults < MaxFaults
    /\ faults' = faults + 1

Alive == parent # "down"

(* The pipe between a child and the process that forked it is open. *)
Linked(x) == Alive /\ x[2] = starts

(* The children of the running parent that have not ended. *)
OwnChildren ==
    {x \in Kids : x[2] = starts /\ child[x] \in {"starting", "run"}}

(* The end of the parent process: its sockets and its pipes go with it. *)
ParentGone ==
    /\ parent' = "down" /\ db' = "none" /\ panic' = FALSE /\ todo' = {}
    /\ socks' = [s \in Sockets |-> IF socks[s] = "none" THEN "none" ELSE "closed"]
    /\ ipc' = [x \in Kids |-> <<>>]
    /\ UNCHANGED <<starts, status, base, heard>>

-----------------------------------------------------------------------------
(* The start of the parent. *)

(* A supervisor starts the parent again; a signal to a child of the last   *)
(* one has reached it by then (it takes the new parent seconds to fork).   *)
Start ==
    /\ parent = "down"
    /\ starts < MaxStarts
    /\ \A x \in Kids : child[x] # "signalled"
    /\ parent' = "init"
    /\ starts' = starts + 1
    /\ todo' = Networks
    /\ status' = [n \in Networks |-> FALSE]
    /\ UNCHANGED <<db, panic, socketVars, childVars, ipc, worldVars>>

(* PersistenceFactory.create resolves whether or not the connection could  *)
(* be made: handleDisconnect catches the failure and sets a timer.         *)
ConnectDb ==
    /\ parent = "init" /\ db = "none"
    /\ \/ db' = "open" /\ UNCHANGED faults
       \/ db' = "retry" /\ Fault("db")
    /\ UNCHANGED <<parent, starts, todo, status, panic, socketVars, childVars, ipc,
                   height, killed, signals>>

(* The timer calls handleDisconnect without its object: reading            *)
(* this.client throws, and so does the setTimeout of the handler, which    *)
(* rejects the promise nobody awaits.                                      *)
RetryDb ==
    /\ Alive /\ db = "retry"
    /\ db' = "failed"
    /\ panic' = TRUE
    /\ UNCHANGED <<parent, starts, todo, status, socketVars, childVars, ipc, worldVars>>

(* The 'error' event of an open connection is thrown again in its handler; *)
(* PROTOCOL_CONNECTION_LOST, the exception, is no code of PostgreSQL.      *)
LoseDb ==
    /\ Alive /\ db = "open" /\ Fault("db")
    /\ db' = "failed"
    /\ panic' = TRUE
    /\ UNCHANGED <<parent, starts, todo, status, socketVars, childVars, ipc,
                   height, killed, signals>>

(* initializeDetachClient needs the channels of the database and, to make  *)
(* its channel objects, the hfc_client that a broken gateway leaves null.  *)
DetachFails(n, gateway) == ~gateway \/ n \notin saved \/ db # "open"

(* FabricClient.initialize.  Without an answer to queryChannels the client *)
(* stays detached and its status FALSE; what initializeDetachClient throws *)
(* is not awaited and ends the parent.                                     *)
ClientInitialize(n) ==
    \/ /\ status' = [status EXCEPT ![n] = TRUE]
       /\ UNCHANGED <<panic, faults>>
    \/ /\ Fault("peer")
       /\ \E gateway \in BOOLEAN : panic' = (panic \/ DetachFails(n, gateway))
       /\ UNCHANGED status

BuildClient(n) ==
    /\ parent = "init" /\ db # "none" /\ n \in todo
    /\ todo' = todo \ {n}
    /\ ClientInitialize(n)
    /\ UNCHANGED <<parent, starts, db, socketVars, childVars, ipc,
                   height, killed, signals>>

(* initializeListener makes a listener for each client that has channels,  *)
(* and with the sync type "local" each listener forks a child.             *)
Listeners == {x \in Kids : x[2] = starts /\ status[x[1]]}

Forked(kids) == [x \in Kids |-> IF x \in kids THEN "starting" ELSE child[x]]

(* Mutant: the clients are built by a forEach that nobody awaits. *)
ListenEarly ==
    /\ parent = "init" /\ db # "none"
    /\ parent' = "up"
    /\ child' = Forked(Listeners)
    /\ UNCHANGED <<starts, todo, status, db, panic, socketVars, pend, wrote, rows,
                   saved, ipc, worldVars>>

(* Explorer.initialize ends with the listeners; then the server listens. *)
Listen ==
    /\ parent = "init" /\ db # "none" /\ todo = {}
    /\ parent' = "up"
    /\ child' = Forked(Listeners)
    /\ UNCHANGED <<starts, todo, status, db, panic, socketVars, pend, wrote, rows,
                   saved, ipc, worldVars>>

-----------------------------------------------------------------------------
(* The end of the parent. *)

(* Mutant: the connections are neither ended nor destroyed. *)
ShutDownWaiting ==
    /\ parent' = IF parent = "init" THEN "down" ELSE "draining"
    /\ Alive
    /\ panic' = FALSE
    /\ UNCHANGED <<starts, todo, status, db, socketVars, ipc>>

(* shutDown.  A server that does not listen yet has no connection to wait  *)
(* for, and explorer.close no child to kill.                               *)
ShutDown ==
    \/ /\ parent = "init"
       /\ ParentGone
    \/ /\ parent \in {"up", "draining"}
       /\ parent' = "draining"
       /\ socks' = [s \in Sockets |-> IF socks[s] = "open" THEN "ending" ELSE socks[s]]
       /\ panic' = FALSE
       /\ UNCHANGED <<starts, todo, status, db, base, heard, ipc>>

Signal ==
    /\ signals < MaxSignals
    /\ signals' = signals + 1
    /\ ShutDown
    /\ UNCHANGED <<childVars, height, killed, faults>>

(* unhandledRejection, uncaughtException: 2 s later. *)
PanicTimer ==
    /\ panic
    /\ ShutDown
    /\ UNCHANGED <<childVars, worldVars>>

(* 5 s after shutDown the connections that are left are destroyed. *)
Destroy ==
    /\ parent = "draining"
    /\ \E s \in Sockets : socks[s] = "ending"
    /\ socks' = [s \in Sockets |-> IF socks[s] = "ending" THEN "closed" ELSE socks[s]]
    /\ UNCHANGED <<parentVars, base, heard, childVars, ipc, worldVars>>

(* Mutant: the children are left to themselves. *)
KilledNone(kids) == child

(* Platform.destroy sends SIGINT to every child. *)
Killed(kids) == [x \in Kids |-> IF x \in kids THEN "signalled" ELSE child[x]]

(* The callback of server.close, when no connection is left; the timer of  *)
(* 10 s does the same, 5 s after the last connection was destroyed.        *)
Exit ==
    /\ parent = "draining"
    /\ \A s \in Sockets : socks[s] \notin {"open", "ending"}
    /\ child' = Killed(OwnChildren)
    /\ ParentGone
    /\ UNCHANGED <<pend, wrote, rows, saved, worldVars>>

(* SIGKILL, or the end of memory: nothing is closed. *)
KillParent ==
    /\ Alive /\ Fault("kill")
    /\ killed' = TRUE
    /\ ParentGone
    /\ UNCHANGED <<childVars, height, signals>>

-----------------------------------------------------------------------------
(* The browsers. *)

(* What has been broadcast of the blocks the running children announced. *)
Broadcast ==
    {p \in Networks \X Blocks :
        LET x == <<p[1], starts>> IN
        /\ p[2] \in wrote[x]
        /\ \A j \in DOMAIN ipc[x] : ipc[x][j] # <<"block", p[2]>>}

Connect(s) ==
    /\ parent = "up" /\ socks[s] = "none"
    /\ socks' = [socks EXCEPT ![s] = "open"]
    /\ base' = [base EXCEPT ![s] = Broadcast]
    /\ UNCHANGED <<parentVars, heard, childVars, ipc, worldVars>>

Leave(s) ==
    /\ socks[s] \in {"open", "ending"}
    /\ socks' = [socks EXCEPT ![s] = "closed"]
    /\ UNCHANGED <<parentVars, base, heard, childVars, ipc, worldVars>>

(* Mutant: also to sockets that are not open yet. *)
BroadcastToAll(n, b) ==
    /\ heard' = [s \in Sockets |-> [heard[s] EXCEPT ![<<n, b>>] = @ + 1]]
    /\ UNCHANGED socks

(* Broadcaster.broadcast: only to clients that are OPEN.  A write to a     *)
(* connection that was ended fails and closes it.                          *)
BroadcastBlock(n, b) ==
    /\ heard' = [s \in Sockets |->
                    [heard[s] EXCEPT ![<<n, b>>] =
                        IF socks[s] = "open" THEN @ + 1 ELSE @]]
    /\ socks' = [s \in Sockets |-> IF socks[s] = "ending" THEN "closed" ELSE socks[s]]

(* Mutant: a channel that exists already is only logged. *)
ProcessSyncLogged(x) ==
    /\ Linked(x) /\ ipc[x] # <<>>
    /\ ipc' = [ipc EXCEPT ![x] = Tail(@)]
    /\ UNCHANGED <<parentVars, socketVars, childVars, worldVars>>

(* Proxy.processSyncMessage.  An update makes the parent's client discover *)
(* the channel; when the peer gives no genesis block the promise that      *)
(* nobody awaits is rejected.  EXISTCHANNEL is thrown: ERROR_2009.         *)
ProcessSyncMessage(x) ==
    /\ Linked(x) /\ ipc[x] # <<>>
    /\ ipc' = [ipc EXCEPT ![x] = Tail(@)]
    /\ LET m == Head(ipc[x]) IN
       \/ /\ m[1] = "block"
          /\ BroadcastBlock(x[1], m[2])
          /\ UNCHANGED <<panic, faults>>
       \/ /\ m[1] = "update"
          /\ \/ UNCHANGED <<panic, faults>>
             \/ panic' = TRUE /\ Fault("peer")
          /\ UNCHANGED <<socks, heard>>
       \/ /\ m[1] = "exist"
          /\ panic' = TRUE
          /\ UNCHANGED <<socks, heard, faults>>
    /\ UNCHANGED <<parent, starts, todo, status, db, base, childVars,
                   height, killed, signals>>

-----------------------------------------------------------------------------
(* The children. *)

(* The statements under way when a child closes its connection or dies are *)
(* carried out by the database or lost.                                    *)
StatementsSettle(x) ==
    \E done \in SUBSET pend[x] :
        /\ rows' = [p \in Networks \X Blocks |->
                        IF p[1] = x[1] /\ p[2] \in done THEN rows[p] + 1 ELSE rows[p]]
        /\ pend' = [pend EXCEPT ![x] = {}]

Running(x) == child[x] = "run"

(* ForkSenderHandler.send to a parent that is there. *)
Send(x, m) ==
    /\ Linked(x) /\ Len(ipc[x]) < MaxLag
    /\ ipc' = [ipc EXCEPT ![x] = Append(@, m)]

(* Synchronizer.initialize up to the first synchNetworkConfigToDB: the     *)
(* channel is saved, or its name is found with another genesis hash; then  *)
(* the parent is told (process.send throws when it is gone) and the child  *)
(* ends by the exception.                                                  *)
ChildStart(x) ==
    /\ child[x] = "starting"
    /\ \/ /\ x[1] \notin Conflicts
          /\ child' = [child EXCEPT ![x] = "run"]
          /\ saved' = saved \cup {x[1]}
          /\ UNCHANGED ipc
       \/ /\ x[1] \in Conflicts
          /\ child' = [child EXCEPT ![x] = "closing"]
          /\ Send(x, <<"exist", 0>>) \/ (~Linked(x) /\ UNCHANGED ipc)
          /\ UNCHANGED saved
    /\ UNCHANGED <<parentVars, socketVars, pend, wrote, rows, worldVars>>

(* saveBlock counts the rows of the block. *)
Count(x, b) ==
    /\ Running(x) /\ b <= height[x[1]] /\ b \notin pend[x]
    /\ rows[<<x[1], b>>] = 0
    /\ pend' = [pend EXCEPT ![x] = @ \cup {b}]
    /\ UNCHANGED <<parentVars, socketVars, child, wrote, rows, saved, ipc, worldVars>>

(* saveBlock inserts; then the parent is told.  Without a parent the send  *)
(* throws ERR_IPC_CHANNEL_CLOSED, which ends the child.                    *)
Insert(x, b) ==
    /\ Running(x) /\ b \in pend[x]
    /\ \/ /\ Send(x, <<"block", b>>)
          /\ rows' = [rows EXCEPT ![<<x[1], b>>] = @ + 1]
          /\ pend' = [pend EXCEPT ![x] = @ \ {b}]
          /\ wrote' = [wrote EXCEPT ![x] = @ \cup {b}]
          /\ UNCHANGED child
       \/ /\ ~Linked(x)
          /\ \E done \in SUBSET (pend[x] \ {b}) :
                rows' = [p \in Networks \X Blocks |->
                            IF p[1] = x[1] /\ p[2] \in done \cup {b}
                            THEN rows[p] + 1 ELSE rows[p]]
          /\ pend' = [pend EXCEPT ![x] = {}]
          /\ child' = [child EXCEPT ![x] = "closing"]
          /\ UNCHANGED <<wrote, ipc>>
    /\ UNCHANGED <<parentVars, socketVars, saved, worldVars>>

(* 10 s after a configuration block or a chaincode's deployment. *)
SendUpdate(x) ==
    /\ Running(x) /\ height[x[1]] > 0
    /\ Send(x, <<"update", 0>>)
    /\ UNCHANGED <<parentVars, socketVars, childVars, worldVars>>

(* SIGINT: sync.js's shutDown closes the connection ... *)
TakeSignal(x) ==
    /\ child[x] = "signalled"
    /\ child' = [child EXCEPT ![x] = "closing"]
    /\ StatementsSettle(x)
    /\ UNCHANGED <<parentVars, socketVars, wrote, saved, ipc, worldVars>>

(* ... and exits 2 s later. *)
Finish(x) ==
    /\ child[x] = "closing"
    /\ child' = [child EXCEPT ![x] = "dead"]
    /\ UNCHANGED <<parentVars, socketVars, pend, wrote, rows, saved, ipc, worldVars>>

(* A failed query or statement ends the child, as does a crash.  Nobody    *)
(* starts it again: the parent does not listen for its exit.               *)
ChildFails(x) ==
    /\ child[x] \in {"starting", "run"} /\ Fault("child")
    /\ child' = [child EXCEPT ![x] = "closing"]
    /\ StatementsSettle(x)
    /\ UNCHANGED <<parentVars, socketVars, wrote, saved, ipc, height, killed, signals>>

NewBlock(n) ==
    /\ height[n] < MaxBlock
    /\ height' = [height EXCEPT ![n] = @ + 1]
    /\ UNCHANGED <<parentVars, socketVars, childVars, ipc, killed, signals, faults>>

ParentStep ==
    \/ Start \/ ConnectDb \/ RetryDb \/ LoseDb \/ Listen \/ Signal \/ PanicTimer
    \/ Destroy \/ Exit \/ KillParent
    \/ \E n \in Networks : BuildClient(n)
    \/ \E x \in Kids : ProcessSyncMessage(x)
ChildStep(x) ==
    \/ ChildStart(x) \/ SendUpdate(x) \/ TakeSignal(x) \/ Finish(x) \/ ChildFails(x)
    \/ \E b \in Blocks : Count(x, b) \/ Insert(x, b)
World ==
    \/ \E s \in Sockets : Connect(s) \/ Leave(s)
    \/ \E n \in Networks : NewBlock(n)
Next == ParentStep \/ World \/ \E x \in Kids : ChildStep(x)

(***************************************************************************)
(* Timers fire, promises settle, pipes deliver.  Signals, faults, browsers *)
(* and new blocks come or do not; nor must anybody restart the parent.     *)
(***************************************************************************)
Fairness ==
    /\ WF_vars(ConnectDb) /\ WF_vars(RetryDb) /\ WF_vars(Listen)
    /\ WF_vars(PanicTimer) /\ WF_vars(Destroy) /\ WF_vars(Exit)
    /\ \A n \in Networks : WF_vars(BuildClient(n))
    /\ \A x \in Kids :
        /\ WF_vars(ProcessSyncMessage(x)) /\ WF_vars(ChildStart(x))
        /\ WF_vars(TakeSignal(x)) /\ WF_vars(Finish(x))

Spec == Init /\ [][Next]_vars
FairSpec == Spec /\ Fairness

-----------------------------------------------------------------------------
(* A block has two rows only when a parent was killed without its          *)
(* children: an orderly end, of whatever cause, leaves no child that could *)
(* write beside the child of the next start.                               *)
RowsSingle == ~killed => \A p \in Networks \X Blocks : rows[p] <= 1

(* While a child lives and nothing of it is under way, an open socket has  *)
(* been told exactly once of every block that the child announced since    *)
(* the socket was opened, and of no other.                                 *)
NotificationsExact ==
    \A s \in Sockets, n \in Networks, b \in Blocks :
        (socks[s] = "open" /\ status[n] /\ Running(<<n, starts>>) /\ ipc[<<n, starts>>] = <<>>)
            => heard[s][<<n, b>>] =
                 IF b \in wrote[<<n, starts>>] /\ <<n, b>> \notin base[s] THEN 1 ELSE 0

(* Once the parent shuts down it and the children it forked come to their  *)
(* end, however many browsers keep their connection.                       *)
ShutdownEndsAll ==
    \A i \in 1..MaxStarts :
        (parent = "draining" /\ starts = i)
            ~> ((parent = "down" \/ starts > i) /\
                  (killed \/ \A n \in Networks : child[<<n, i>>] \in {"none", "dead"}))

(* ERROR_2009, "Explorer is closing due to channel name [%s] is already    *)
(* exist in DB": a child that finds a channel's name with another genesis  *)
(* hash brings the explorer down, unless a fault ends the child first.     *)
ConflictStopsExplorer ==
    \A n \in Conflicts, i \in 1..MaxStarts :
        (starts = i /\ child[<<n, i>>] = "starting")
            ~> (parent = "down" \/ starts > i \/ faults > 0)

(* The comment in handleDisconnect: a delay is introduced before           *)
(* attempting to reconnect.  So a connection that could not be made is     *)
(* made by a later attempt.                                                *)
RetryReconnects == (db = "retry") ~> (db = "open")
=============================================================================
