--------------------------- MODULE ExplorerProofs ---------------------------
(***************************************************************************)
(* Type correctness of Explorer, and two of its safety properties for      *)
(* every number of networks, browsers and starts: that blocks have one row *)
(* unless a parent was killed, and that browsers are told of each block    *)
(* exactly once.                                                           *)
(***************************************************************************)
EXTENDS Explorer, TLAPS

-----------------------------------------------------------------------------
(* The invariant behind RowsSingle. *)

Active == {"starting", "run", "signalled"}

(* A child that does not run has no statement under way. *)
IdleHasNothingPending ==
    \A x \in Kids : child[x] \notin {"run", "signalled"} => pend[x] = {}

(* The children of starts to come, and of one not listening yet, are not there. *)
UnforkedYet ==
    \A x \in Kids :
        x[2] > starts \/ (x[2] = starts /\ parent = "init") => child[x] = "none"

(* Unless a parent was killed, only children of the last start are active, and of these   *)
(* only such as have their signal when the parent is gone.                                *)
OnlyOwnChildren ==
    ~killed => \A x \in Kids :
        /\ child[x] \in Active => x[2] = starts
        /\ ~Alive => child[x] \notin {"starting", "run"}

(* A block that a child has counted has no row. *)
PendingUnwritten ==
    ~killed => \A x \in Kids : \A b \in pend[x] : rows[<<x[1], b>>] = 0

RowsInv ==
    /\ IdleHasNothingPending
    /\ UnforkedYet
    /\ OnlyOwnChildren
    /\ PendingUnwritten
    /\ RowsSingle

-----------------------------------------------------------------------------
(* The invariant behind NotificationsExact. *)

Wrote(p) == p[2] \in wrote[<<p[1], starts>>]
OnItsWay(p) == \E j \in DOMAIN ipc[<<p[1], starts>>] : ipc[<<p[1], starts>>][j] = <<"block", p[2]>>

(* A child announces a block once: it has a row then, and is no longer counted. *)
AnnouncedHasRow ==
    \A x \in Kids : \A b \in wrote[x] : rows[<<x[1], b>>] # 0 /\ b \notin pend[x]

(* A pipe without a parent is empty, as it is to one that has not forked; a message tells *)
(* of an announced block, and no two of the same.                                         *)
PipesSound ==
    \A x \in Kids :
        /\ ~Linked(x) => ipc[x] = <<>>
        /\ x[2] > starts => wrote[x] = {}
        /\ \A j \in DOMAIN ipc[x] :
              ipc[x][j][1] = "block" =>
                /\ ipc[x][j][2] \in wrote[x]
                /\ \A k \in DOMAIN ipc[x] : ipc[x][k] = ipc[x][j] => k = j

(* Only a parent that listens has sockets; an unused one has heard of nothing. *)
SocketsSound ==
    /\ parent \in {"down", "init"} => \A s \in Sockets : socks[s] # "open"
    /\ \A s \in Sockets : socks[s] = "none" =>
          \A p \in Networks \X Blocks : heard[s][p] = 0

Told ==
    \A s \in Sockets, p \in Networks \X Blocks :
        socks[s] = "open" =>
          /\ p \in base[s] => Wrote(p) /\ ~OnItsWay(p)
          /\ heard[s][p] = IF Wrote(p) /\ ~OnItsWay(p) /\ p \notin base[s] THEN 1 ELSE 0

NoticesInv ==
    /\ AnnouncedHasRow
    /\ PipesSound
    /\ SocketsSound
    /\ Told

-----------------------------------------------------------------------------
(* Types. *)

LEMMA Updated ==
  ASSUME NEW D, NEW S, NEW f \in [D -> S], NEW d, NEW v \in S
  PROVE  [f EXCEPT ![d] = v] \in [D -> S]
  OBVIOUS

LEMMA MessageTypes ==
  /\ <<"exist", 0>> \in Messages
  /\ <<"update", 0>> \in Messages
  /\ \A b \in Blocks : <<"block", b>> \in Messages
  BY DEF Messages

LEMMA InitTypes == Init => TypeOK
  <1> SUFFICES ASSUME Init PROVE TypeOK
    OBVIOUS
  <1>1. /\ starts \in 0..MaxStarts /\ signals \in 0..MaxSignals /\ faults \in 0..MaxFaults
        /\ 0 \in 0..MaxBlock
    BY ExplorerAssumption, SMT DEF Init
  <1>2. saved \subseteq Networks
    BY ExplorerAssumption DEF Init
  <1>3. <<>> \in Seq(Messages)
    OBVIOUS
  <1>4. height \in [Networks -> 0..MaxBlock]
    BY <1>1 DEF Init
  <1>5. ipc \in [Kids -> Seq(Messages)]
    BY <1>3 DEF Init
  <1>6. /\ base \in [Sockets -> SUBSET (Networks \X Blocks)]
        /\ heard \in [Sockets -> [Networks \X Blocks -> Nat]]
        /\ rows \in [Networks \X Blocks -> Nat]
    BY DEF Init
  <1>7. /\ status \in [Networks -> BOOLEAN]
        /\ pend \in [Kids -> SUBSET Blocks] /\ wrote \in [Kids -> SUBSET Blocks]
    BY DEF Init
  <1> QED
    BY <1>1, <1>2, <1>4, <1>5, <1>6, <1>7 DEF Init, TypeOK

LEMMA FaultType ==
  ASSUME faults \in 0..MaxFaults, NEW kind, Fault(kind)
  PROVE  faults' \in 0..MaxFaults
  BY ExplorerAssumption, SMT DEF Fault

LEMMA ParentGoneTypes ==
  ASSUME TypeOK, ParentGone
  PROVE  /\ parent' \in {"down", "init", "up", "draining"}
         /\ db' \in {"none", "open", "retry", "failed"}
         /\ panic' \in BOOLEAN /\ todo' \subseteq Networks /\ todo' = {}
         /\ socks' \in [Sockets -> {"none", "open", "ending", "closed"}]
         /\ ipc' \in [Kids -> Seq(Messages)]
         /\ UNCHANGED <<starts, status, base, heard>>
  <1>1. socks' \in [Sockets -> {"none", "open", "ending", "closed"}]
    BY DEF ParentGone, TypeOK
  <1>2. <<>> \in Seq(Messages)
    OBVIOUS
  <1> QED
    BY <1>1, <1>2 DEF ParentGone

LEMMA ShutDownTypes ==
  ASSUME TypeOK, ShutDown
  PROVE  /\ parent' \in {"down", "init", "up", "draining"}
         /\ db' \in {"none", "open", "retry", "failed"}
         /\ panic' \in BOOLEAN /\ todo' \subseteq Networks /\ todo' = {}
         /\ socks' \in [Sockets -> {"none", "open", "ending", "closed"}]
         /\ ipc' \in [Kids -> Seq(Messages)]
         /\ UNCHANGED <<starts, status, base, heard>>
  <1>1. CASE ParentGone
    BY <1>1, ParentGoneTypes
  <1>2. CASE /\ parent \in {"up", "draining"}
             /\ parent' = "draining"
             /\ socks' = [s \in Sockets |-> IF socks[s] = "open" THEN "ending" ELSE socks[s]]
             /\ panic' = FALSE
             /\ UNCHANGED <<starts, todo, status, db, base, heard, ipc>>
    <2>1. socks' \in [Sockets -> {"none", "open", "ending", "closed"}]
      BY <1>2 DEF TypeOK
    <2> QED
      BY <1>2, <2>1 DEF TypeOK
  <1> QED
    BY <1>1, <1>2 DEF ShutDown

LEMMA SettleTypes ==
  ASSUME TypeOK, NEW x \in Kids, StatementsSettle(x)
  PROVE  rows' \in [Networks \X Blocks -> Nat] /\ pend' \in [Kids -> SUBSET Blocks]
  <1>1. PICK done \in SUBSET pend[x] :
           /\ rows' = [p \in Networks \X Blocks |->
                        IF p[1] = x[1] /\ p[2] \in done THEN rows[p] + 1 ELSE rows[p]]
           /\ pend' = [pend EXCEPT ![x] = {}]
    BY DEF StatementsSettle
  <1>2. \A p \in Networks \X Blocks : rows[p] \in Nat
    BY DEF TypeOK
  <1> QED
    BY <1>1, <1>2 DEF TypeOK

LEMMA SendType ==
  ASSUME TypeOK, NEW x \in Kids, NEW m \in Messages, Send(x, m)
  PROVE  ipc' \in [Kids -> Seq(Messages)]
  <1>1. Append(ipc[x], m) \in Seq(Messages)
    BY DEF TypeOK
  <1> QED
    BY <1>1 DEF Send, TypeOK

LEMMA ParentTypes ==
  ASSUME TypeOK,
         \/ Start \/ ConnectDb \/ RetryDb \/ LoseDb \/ Listen \/ Signal \/ PanicTimer
         \/ Destroy \/ Exit \/ KillParent
  PROVE  TypeOK'
  <1> USE DEF parentVars, socketVars, childVars, worldVars
  <1>1. CASE Start
    <2>1. starts' \in 0..MaxStarts
      BY <1>1, ExplorerAssumption, SMT DEF Start, TypeOK
    <2> QED
      BY <1>1, <2>1 DEF Start, TypeOK
  <1>2. CASE ConnectDb
    <2>1. faults' \in 0..MaxFaults
      BY <1>2, FaultType DEF ConnectDb, TypeOK
    <2> QED
      BY <1>2, <2>1 DEF ConnectDb, TypeOK
  <1>3. CASE RetryDb
    BY <1>3 DEF RetryDb, TypeOK
  <1>4. CASE LoseDb
    <2>1. faults' \in 0..MaxFaults
      BY <1>4, FaultType DEF LoseDb, TypeOK
    <2> QED
      BY <1>4, <2>1 DEF LoseDb, TypeOK
  <1>5. CASE Listen
    <2>1. child' \in [Kids -> {"none", "starting", "run", "signalled", "closing", "dead"}]
      BY <1>5 DEF Listen, Forked, TypeOK
    <2> QED
      BY <1>5, <2>1 DEF Listen, TypeOK
  <1>6. CASE Signal
    <2>1. signals' \in 0..MaxSignals
      BY <1>6, ExplorerAssumption, SMT DEF Signal, TypeOK
    <2> QED
      BY <1>6, <2>1, ShutDownTypes DEF Signal, TypeOK
  <1>7. CASE PanicTimer
    BY <1>7, ShutDownTypes DEF PanicTimer, TypeOK
  <1>8. CASE Destroy
    <2>1. socks' \in [Sockets -> {"none", "open", "ending", "closed"}]
      BY <1>8 DEF Destroy, TypeOK
    <2> QED
      BY <1>8, <2>1 DEF Destroy, TypeOK
  <1>9. CASE Exit
    <2>1. child' \in [Kids -> {"none", "starting", "run", "signalled", "closing", "dead"}]
      BY <1>9 DEF Exit, Killed, TypeOK
    <2> QED
      BY <1>9, <2>1, ParentGoneTypes DEF Exit, TypeOK
  <1>10. CASE KillParent
    <2>1. faults' \in 0..MaxFaults
      BY <1>10, FaultType DEF KillParent, TypeOK
    <2> QED
      BY <1>10, <2>1, ParentGoneTypes DEF KillParent, TypeOK
  <1> QED
    BY <1>1, <1>2, <1>3, <1>4, <1>5, <1>6, <1>7, <1>8, <1>9, <1>10

LEMMA MessageStepTypes ==
  ASSUME TypeOK, NEW x \in Kids, ProcessSyncMessage(x)
  PROVE  TypeOK'
  <1>1. ipc' \in [Kids -> Seq(Messages)]
    <2>1. Tail(ipc[x]) \in Seq(Messages)
      BY DEF ProcessSyncMessage, TypeOK
    <2> QED
      BY <2>1 DEF ProcessSyncMessage, TypeOK
  <1>2. /\ socks' \in [Sockets -> {"none", "open", "ending", "closed"}]
        /\ heard' \in [Sockets -> [Networks \X Blocks -> Nat]]
    <2>1. ASSUME NEW n, NEW b, BroadcastBlock(n, b)
          PROVE  /\ socks' \in [Sockets -> {"none", "open", "ending", "closed"}]
                 /\ heard' \in [Sockets -> [Networks \X Blocks -> Nat]]
      <3>1. socks' \in [Sockets -> {"none", "open", "ending", "closed"}]
        BY <2>1 DEF BroadcastBlock, TypeOK
      <3>2. ASSUME NEW s \in Sockets
            PROVE  [heard[s] EXCEPT ![<<n, b>>] = IF socks[s] = "open" THEN @ + 1 ELSE @]
                      \in [Networks \X Blocks -> Nat]
        <4> DEFINE f == heard[s]
        <4>1. f \in [Networks \X Blocks -> Nat]
          BY DEF TypeOK
        <4> HIDE DEF f
        <4>2. CASE <<n, b>> \in Networks \X Blocks
          <5>1. f[<<n, b>>] \in Nat /\ f[<<n, b>>] + 1 \in Nat
            BY <4>1, <4>2
          <5> QED
            BY <4>1, <5>1, Updated DEF f
        <4>3. CASE <<n, b>> \notin Networks \X Blocks
          <5>1. [f EXCEPT ![<<n, b>>] = IF socks[s] = "open" THEN @ + 1 ELSE @] = f
            BY <4>1, <4>3
          <5> QED
            BY <4>1, <5>1 DEF f
        <4> QED
          BY <4>2, <4>3
      <3> QED
        BY <2>1, <3>1, <3>2 DEF BroadcastBlock
    <2> QED
      BY <2>1 DEF ProcessSyncMessage, TypeOK
  <1>3. faults' \in 0..MaxFaults
    BY FaultType DEF ProcessSyncMessage, TypeOK
  <1>4. panic' \in BOOLEAN
    BY DEF ProcessSyncMessage, TypeOK
  <1> QED
    BY <1>1, <1>2, <1>3, <1>4 DEF ProcessSyncMessage, childVars, TypeOK

LEMMA WorldTypes ==
  ASSUME TypeOK, World \/ \E n \in Networks : BuildClient(n)
  PROVE  TypeOK'
  <1> USE DEF parentVars, socketVars, childVars, worldVars
  <1>1. ASSUME NEW n \in Networks, BuildClient(n) PROVE TypeOK'
    <2>1. faults' \in 0..MaxFaults
      BY <1>1, FaultType DEF BuildClient, ClientInitialize, TypeOK
    <2>2. status' \in [Networks -> BOOLEAN]
      BY <1>1 DEF BuildClient, ClientInitialize, TypeOK
    <2>3. panic' \in BOOLEAN
      BY <1>1 DEF BuildClient, ClientInitialize, TypeOK
    <2>4. todo' \subseteq Networks
      BY <1>1 DEF BuildClient, TypeOK
    <2> QED
      BY <1>1, <2>1, <2>2, <2>3, <2>4 DEF BuildClient, TypeOK
  <1>2. ASSUME NEW s \in Sockets, Connect(s) PROVE TypeOK'
    <2>1. Broadcast \subseteq Networks \X Blocks
      BY DEF Broadcast
    <2>2. /\ socks' \in [Sockets -> {"none", "open", "ending", "closed"}]
          /\ base' \in [Sockets -> SUBSET (Networks \X Blocks)]
      BY <1>2, <2>1 DEF Connect, TypeOK
    <2> QED
      BY <1>2, <2>2 DEF Connect, TypeOK
  <1>3. ASSUME NEW s \in Sockets, Leave(s) PROVE TypeOK'
    <2>1. socks' \in [Sockets -> {"none", "open", "ending", "closed"}]
      BY <1>3 DEF Leave, TypeOK
    <2> QED
      BY <1>3, <2>1 DEF Leave, TypeOK
  <1>4. ASSUME NEW n \in Networks, NewBlock(n) PROVE TypeOK'
    <2>1. height[n] + 1 \in 0..MaxBlock
      BY <1>4, ExplorerAssumption DEF NewBlock, TypeOK
    <2>2. height' \in [Networks -> 0..MaxBlock]
      BY <1>4, <2>1 DEF NewBlock, TypeOK
    <2> QED
      BY <1>4, <2>2 DEF NewBlock, TypeOK
  <1> QED
    BY <1>1, <1>2, <1>3, <1>4 DEF World

LEMMA ChildTypes ==
  ASSUME TypeOK, NEW x \in Kids, ChildStep(x)
  PROVE  TypeOK'
  <1> USE DEF parentVars, socketVars, childVars, worldVars
  <1>0. x[1] \in Networks
    BY DEF Kids
  <1>1. CASE ChildStart(x)
    <2>1. child' \in [Kids -> {"none", "starting", "run", "signalled", "closing", "dead"}]
      BY <1>1 DEF ChildStart, TypeOK
    <2>2. saved' \subseteq Networks
      BY <1>0, <1>1 DEF ChildStart, TypeOK
    <2>3. ipc' \in [Kids -> Seq(Messages)]
      BY <1>1, SendType, MessageTypes DEF ChildStart, TypeOK
    <2> QED
      BY <1>1, <2>1, <2>2, <2>3 DEF ChildStart, TypeOK
  <1>2. CASE SendUpdate(x)
    <2>1. ipc' \in [Kids -> Seq(Messages)]
      BY <1>2, SendType, MessageTypes DEF SendUpdate
    <2> QED
      BY <1>2, <2>1 DEF SendUpdate, TypeOK
  <1>3. CASE TakeSignal(x)
    <2>1. child' \in [Kids -> {"none", "starting", "run", "signalled", "closing", "dead"}]
      BY <1>3 DEF TakeSignal, TypeOK
    <2> QED
      BY <1>3, <2>1, SettleTypes DEF TakeSignal, TypeOK
  <1>4. CASE Finish(x)
    <2>1. child' \in [Kids -> {"none", "starting", "run", "signalled", "closing", "dead"}]
      BY <1>4 DEF Finish, TypeOK
    <2> QED
      BY <1>4, <2>1 DEF Finish, TypeOK
  <1>5. CASE ChildFails(x)
    <2>1. child' \in [Kids -> {"none", "starting", "run", "signalled", "closing", "dead"}]
      BY <1>5 DEF ChildFails, TypeOK
    <2>2. faults' \in 0..MaxFaults
      BY <1>5, FaultType DEF ChildFails, TypeOK
    <2> QED
      BY <1>5, <2>1, <2>2, SettleTypes DEF ChildFails, TypeOK
  <1>6. ASSUME NEW b \in Blocks, Count(x, b) PROVE TypeOK'
    <2>1. pend' \in [Kids -> SUBSET Blocks]
      BY <1>6 DEF Count, TypeOK
    <2> QED
      BY <1>6, <2>1 DEF Count, TypeOK
  <1>7. ASSUME NEW b \in Blocks, Insert(x, b) PROVE TypeOK'
    <2>0. \A p \in Networks \X Blocks : rows[p] \in Nat
      BY DEF TypeOK
    <2>1. CASE /\ Send(x, <<"block", b>>)
               /\ rows' = [rows EXCEPT ![<<x[1], b>>] = @ + 1]
               /\ pend' = [pend EXCEPT ![x] = @ \ {b}]
               /\ wrote' = [wrote EXCEPT ![x] = @ \cup {b}]
               /\ UNCHANGED child
      <3>1. rows' \in [Networks \X Blocks -> Nat]
        BY <1>0, <2>0, <2>1 DEF TypeOK
      <3>2. pend' \in [Kids -> SUBSET Blocks] /\ wrote' \in [Kids -> SUBSET Blocks]
        BY <2>1 DEF TypeOK
      <3>3. ipc' \in [Kids -> Seq(Messages)]
        BY <2>1, SendType, MessageTypes
      <3> QED
        BY <1>7, <2>1, <3>1, <3>2, <3>3 DEF Insert, TypeOK
    <2>2. CASE /\ \E done \in SUBSET (pend[x] \ {b}) :
                    rows' = [p \in Networks \X Blocks |->
                                IF p[1] = x[1] /\ p[2] \in done \cup {b}
                                THEN rows[p] + 1 ELSE rows[p]]
               /\ pend' = [pend EXCEPT ![x] = {}]
               /\ child' = [child EXCEPT ![x] = "closing"]
               /\ UNCHANGED <<wrote, ipc>>
      <3>1. rows' \in [Networks \X Blocks -> Nat]
        BY <2>0, <2>2
      <3>2. /\ pend' \in [Kids -> SUBSET Blocks]
            /\ child' \in [Kids -> {"none", "starting", "run", "signalled", "closing", "dead"}]
        BY <2>2 DEF TypeOK
      <3> QED
        BY <1>7, <2>2, <3>1, <3>2 DEF Insert, TypeOK
    <2> QED
      BY <1>7, <2>1, <2>2 DEF Insert
  <1> QED
    BY <1>1, <1>2, <1>3, <1>4, <1>5, <1>6, <1>7 DEF ChildStep

LEMMA StepTypes ==
  ASSUME TypeOK, [Next]_vars
  PROVE  TypeOK'
  <1>1. CASE UNCHANGED vars
    BY <1>1 DEF vars, parentVars, socketVars, childVars, worldVars, TypeOK
  <1>2. CASE Next
    BY <1>2, ParentTypes, MessageStepTypes, WorldTypes, ChildTypes DEF Next, ParentStep
  <1> QED
    BY <1>1, <1>2

-----------------------------------------------------------------------------
(* Rows. *)

LEMMA KidPairs ==
  ASSUME NEW x \in Kids
  PROVE  /\ x[1] \in Networks /\ x[2] \in 1..MaxStarts /\ x = <<x[1], x[2]>>
         /\ \A b \in Blocks : <<x[1], b>> \in Networks \X Blocks
  BY DEF Kids

LEMMA InitRows == Init => RowsInv
  <1> SUFFICES ASSUME Init PROVE RowsInv
    OBVIOUS
  <1>1. \A x \in Kids : child[x] = "none" /\ pend[x] = {}
    BY DEF Init
  <1>2. \A p \in Networks \X Blocks : rows[p] = 0
    BY DEF Init
  <1>3. IdleHasNothingPending /\ UnforkedYet /\ PendingUnwritten
    BY <1>1 DEF IdleHasNothingPending, UnforkedYet, PendingUnwritten
  <1>4. OnlyOwnChildren
    BY <1>1 DEF OnlyOwnChildren, Active
  <1>5. RowsSingle
    BY <1>2 DEF RowsSingle
  <1> QED
    BY <1>3, <1>4, <1>5 DEF RowsInv

(* A step that leaves children and rows alone. *)
LEMMA RowsFrame ==
  ASSUME RowsInv, UNCHANGED <<child, pend, rows, starts, killed>>,
         parent' = parent \/ parent' = "draining"
  PROVE  RowsInv'
  BY DEF RowsInv, IdleHasNothingPending, UnforkedYet, OnlyOwnChildren, PendingUnwritten,
         RowsSingle, Alive

LEMMA ParentRows ==
  ASSUME TypeOK, RowsInv,
         \/ Start \/ ConnectDb \/ RetryDb \/ LoseDb \/ Listen \/ Signal \/ PanicTimer
         \/ Destroy \/ Exit \/ KillParent
  PROVE  RowsInv'
  <1> USE DEF parentVars, socketVars, childVars, worldVars
  <1>1. CASE ConnectDb \/ RetryDb \/ LoseDb \/ Destroy
    BY <1>1, RowsFrame DEF ConnectDb, RetryDb, LoseDb, Destroy, Fault
  <1>2. CASE Start
    <2>1. /\ ~Alive /\ starts' = starts + 1 /\ parent' = "init"
          /\ UNCHANGED <<child, pend, rows, killed>>
          /\ \A x \in Kids : child[x] # "signalled"
      BY <1>2 DEF Start, Alive
    <2>2. starts \in Nat
      BY ExplorerAssumption DEF TypeOK
    <2>3. UnforkedYet'
      <3>1. ASSUME NEW x \in Kids, x[2] > starts + 1 \/ x[2] = starts + 1
            PROVE  child[x] = "none"
        <4>1. x[2] > starts
          BY <2>2, <3>1, KidPairs
        <4> QED
          BY <4>1 DEF RowsInv, UnforkedYet
      <3> QED
        BY <2>1, <3>1 DEF UnforkedYet
    <2>4. OnlyOwnChildren'
      BY <2>1 DEF RowsInv, OnlyOwnChildren, Active, Alive
    <2>5. IdleHasNothingPending' /\ PendingUnwritten' /\ RowsSingle'
      BY <2>1 DEF RowsInv, IdleHasNothingPending, PendingUnwritten, RowsSingle
    <2> QED
      BY <2>3, <2>4, <2>5 DEF RowsInv
  <1>3. CASE Listen
    <2>1. /\ parent = "init" /\ parent' = "up" /\ UNCHANGED <<pend, rows, starts, killed>>
          /\ \A x \in Kids : child'[x] = IF x \in Listeners THEN "starting" ELSE child[x]
          /\ \A x \in Listeners : x[2] = starts
      BY <1>3 DEF Listen, Forked, Listeners
    <2>2. \A x \in Kids : x \in Listeners => child[x] = "none" /\ pend[x] = {}
      BY <2>1 DEF RowsInv, UnforkedYet, IdleHasNothingPending
    <2>3. IdleHasNothingPending' /\ PendingUnwritten' /\ RowsSingle'
      BY <2>1, <2>2 DEF RowsInv, IdleHasNothingPending, PendingUnwritten, RowsSingle
    <2>4. UnforkedYet'
      <3>1. \A x \in Kids : x[2] > starts => x \notin Listeners
        BY <2>1, KidPairs, ExplorerAssumption DEF TypeOK
      <3> QED
        BY <2>1, <3>1 DEF RowsInv, UnforkedYet
    <2>5. OnlyOwnChildren'
      BY <2>1 DEF RowsInv, OnlyOwnChildren, Active, Alive
    <2> QED
      BY <2>3, <2>4, <2>5 DEF RowsInv
  <1>4. CASE Signal \/ PanicTimer
    <2>1. ShutDown /\ UNCHANGED <<child, pend, rows, killed>>
      BY <1>4 DEF Signal, PanicTimer
    <2>2. CASE parent = "init" /\ ParentGone
      <3>1. parent' = "down" /\ starts' = starts
        BY <2>2 DEF ParentGone
      <3>2. OnlyOwnChildren'
        BY <2>1, <2>2, <3>1 DEF RowsInv, UnforkedYet, OnlyOwnChildren, Active
      <3> QED
        BY <2>1, <3>1, <3>2
           DEF RowsInv, IdleHasNothingPending, UnforkedYet, PendingUnwritten, RowsSingle
    <2>3. CASE parent' = "draining" /\ starts' = starts
      BY <2>1, <2>3, RowsFrame
    <2> QED
      BY <2>1, <2>2, <2>3 DEF ShutDown
  <1>5. CASE Exit
    <2>1. /\ parent = "draining" /\ parent' = "down"
          /\ UNCHANGED <<pend, rows, starts, killed>>
          /\ \A x \in Kids : child'[x] = IF x \in OwnChildren THEN "signalled" ELSE child[x]
      BY <1>5 DEF Exit, Killed, ParentGone
    <2>2. \A x \in Kids : x \in OwnChildren <=> x[2] = starts /\ child[x] \in {"starting", "run"}
      BY DEF OwnChildren
    <2>3. IdleHasNothingPending' /\ PendingUnwritten' /\ RowsSingle'
      BY <2>1, <2>2 DEF RowsInv, IdleHasNothingPending, PendingUnwritten, RowsSingle
    <2>4. UnforkedYet'
      BY <2>1, <2>2 DEF RowsInv, UnforkedYet
    <2>5. OnlyOwnChildren'
      BY <2>1, <2>2 DEF RowsInv, OnlyOwnChildren, Active
    <2> QED
      BY <2>3, <2>4, <2>5 DEF RowsInv
  <1>6. CASE KillParent
    <2>1. /\ killed' /\ parent' = "down" /\ UNCHANGED <<child, pend, rows, starts>>
      BY <1>6 DEF KillParent, ParentGone
    <2> QED
      BY <2>1 DEF RowsInv, IdleHasNothingPending, UnforkedYet, OnlyOwnChildren,
         PendingUnwritten, RowsSingle
  <1> QED
    BY <1>1, <1>2, <1>3, <1>4, <1>5, <1>6

(* A child that is not the last start's, or whose parent has gone, is not active: two of   *)
(* one network never are.                                                                  *)
LEMMA ActiveAlone ==
  ASSUME RowsInv, ~killed, NEW x \in Kids, child[x] \in Active, NEW y \in Kids,
         pend[y] # {}, y[1] = x[1]
  PROVE  y = x
  <1>1. child[y] \in Active
    BY DEF RowsInv, IdleHasNothingPending, Active
  <1>2. x[2] = starts /\ y[2] = starts
    BY <1>1 DEF RowsInv, OnlyOwnChildren
  <1> QED
    BY <1>2, KidPairs

(* A child ends with some of its statements carried out. *)
LEMMA EndRows ==
  ASSUME TypeOK, RowsInv, NEW x \in Kids, child[x] \in Active,
         NEW done \in SUBSET pend[x],
         rows' = [p \in Networks \X Blocks |->
                     IF p[1] = x[1] /\ p[2] \in done THEN rows[p] + 1 ELSE rows[p]],
         pend' = [pend EXCEPT ![x] = {}],
         child' = [child EXCEPT ![x] = "closing"],
         UNCHANGED <<starts, killed, parent>>
  PROVE  RowsInv'
  <1>1. /\ \A y \in Kids : child'[y] = IF y = x THEN "closing" ELSE child[y]
        /\ \A y \in Kids : pend'[y] = IF y = x THEN {} ELSE pend[y]
        /\ pend[x] \subseteq Blocks
    BY DEF TypeOK
  <1>2. IdleHasNothingPending'
    BY <1>1 DEF RowsInv, IdleHasNothingPending
  <1>3. UnforkedYet'
    BY <1>1 DEF RowsInv, UnforkedYet, Active
  <1>4. OnlyOwnChildren'
    BY <1>1 DEF RowsInv, OnlyOwnChildren, Active, Alive
  <1>5. PendingUnwritten'
    <2> SUFFICES ASSUME ~killed, NEW y \in Kids, NEW b \in pend'[y]
                 PROVE  rows'[<<y[1], b>>] = 0
      BY DEF PendingUnwritten
    <2>1. y # x /\ b \in pend[y]
      BY <1>1
    <2>2. y[1] # x[1]
      BY <2>1, ActiveAlone
    <2>3. <<y[1], b>> \in Networks \X Blocks
      BY <2>1, KidPairs DEF TypeOK
    <2>4. rows'[<<y[1], b>>] = rows[<<y[1], b>>]
      BY <2>2, <2>3
    <2> QED
      BY <2>1, <2>4 DEF RowsInv, PendingUnwritten
  <1>6. RowsSingle'
    <2> SUFFICES ASSUME ~killed, NEW p \in Networks \X Blocks
                 PROVE  rows'[p] <= 1
      BY DEF RowsSingle
    <2>1. CASE p[1] = x[1] /\ p[2] \in done
      <3>1. p = <<x[1], p[2]>> /\ p[2] \in pend[x]
        BY <2>1
      <3>2. rows[p] = 0
        BY <3>1 DEF RowsInv, PendingUnwritten
      <3> QED
        BY <2>1, <3>2
    <2>2. CASE ~(p[1] = x[1] /\ p[2] \in done)
      BY <2>2 DEF RowsInv, RowsSingle
    <2> QED
      BY <2>1, <2>2
  <1> QED
    BY <1>2, <1>3, <1>4, <1>5, <1>6 DEF RowsInv

LEMMA ChildRows ==
  ASSUME TypeOK, RowsInv, NEW x \in Kids, ChildStep(x)
  PROVE  RowsInv'
  <1> USE DEF parentVars, socketVars, childVars, worldVars
  <1>1. CASE ChildStart(x)
    <2>1. /\ child[x] = "starting" /\ child'[x] \in {"run", "closing"}
          /\ \A y \in Kids \ {x} : child'[y] = child[y]
          /\ UNCHANGED <<pend, rows, starts, killed, parent>>
      BY <1>1 DEF ChildStart, TypeOK
    <2>2. IdleHasNothingPending'
      BY <2>1 DEF RowsInv, IdleHasNothingPending
    <2>3. UnforkedYet' /\ OnlyOwnChildren'
      BY <2>1 DEF RowsInv, UnforkedYet, OnlyOwnChildren, Active, Alive
    <2> QED
      BY <2>1, <2>2, <2>3 DEF RowsInv, PendingUnwritten, RowsSingle
  <1>2. CASE SendUpdate(x)
    BY <1>2, RowsFrame DEF SendUpdate
  <1>3. CASE TakeSignal(x)
    BY <1>3, EndRows DEF TakeSignal, StatementsSettle, Active
  <1>4. CASE Finish(x)
    <2>1. /\ child[x] = "closing" /\ child'[x] = "dead"
          /\ \A y \in Kids \ {x} : child'[y] = child[y]
          /\ UNCHANGED <<pend, rows, starts, killed, parent>>
      BY <1>4 DEF Finish, TypeOK
    <2>2. IdleHasNothingPending'
      BY <2>1 DEF RowsInv, IdleHasNothingPending
    <2>3. UnforkedYet' /\ OnlyOwnChildren'
      BY <2>1 DEF RowsInv, UnforkedYet, OnlyOwnChildren, Active, Alive
    <2> QED
      BY <2>1, <2>2, <2>3 DEF RowsInv, PendingUnwritten, RowsSingle
  <1>5. CASE ChildFails(x)
    BY <1>5, EndRows DEF ChildFails, StatementsSettle, Active
  <1>6. ASSUME NEW b \in Blocks, Count(x, b) PROVE RowsInv'
    <2>1. /\ child[x] = "run" /\ rows[<<x[1], b>>] = 0
          /\ UNCHANGED <<child, rows, starts, killed, parent>>
          /\ \A y \in Kids : pend'[y] = IF y = x THEN pend[x] \cup {b} ELSE pend[y]
      BY <1>6 DEF Count, Running, TypeOK
    <2> QED
      BY <2>1 DEF RowsInv, IdleHasNothingPending, UnforkedYet, OnlyOwnChildren,
         PendingUnwritten, RowsSingle, Alive
  <1>7. ASSUME NEW b \in Blocks, Insert(x, b) PROVE RowsInv'
    <2>0. child[x] = "run" /\ b \in pend[x] /\ UNCHANGED <<starts, killed, parent>>
      BY <1>7 DEF Insert, Running
    <2>1. CASE /\ Send(x, <<"block", b>>)
               /\ rows' = [rows EXCEPT ![<<x[1], b>>] = @ + 1]
               /\ pend' = [pend EXCEPT ![x] = @ \ {b}]
               /\ wrote' = [wrote EXCEPT ![x] = @ \cup {b}]
               /\ UNCHANGED child
      <3>1. /\ \A y \in Kids : pend'[y] = IF y = x THEN pend[x] \ {b} ELSE pend[y]
            /\ \A p \in Networks \X Blocks :
                  rows'[p] = IF p = <<x[1], b>> THEN rows[p] + 1 ELSE rows[p]
        BY <2>1 DEF TypeOK
      <3>2. IdleHasNothingPending' /\ UnforkedYet' /\ OnlyOwnChildren'
        BY <2>0, <2>1, <3>1
           DEF RowsInv, IdleHasNothingPending, UnforkedYet, OnlyOwnChildren, Alive
      <3>3. PendingUnwritten'
        <4> SUFFICES ASSUME ~killed, NEW y \in Kids, NEW c \in pend'[y]
                     PROVE  rows'[<<y[1], c>>] = 0
          BY <2>0 DEF PendingUnwritten
        <4>1. c \in pend[y] /\ (y = x => c # b)
          BY <3>1
        <4>2. <<y[1], c>> # <<x[1], b>>
          BY <2>0, <4>1, ActiveAlone DEF Active
        <4>3. <<y[1], c>> \in Networks \X Blocks
          BY <4>1, KidPairs DEF TypeOK
        <4> QED
          BY <3>1, <4>1, <4>2, <4>3 DEF RowsInv, PendingUnwritten
      <3>4. RowsSingle'
        <4>1. ~killed => rows[<<x[1], b>>] = 0
          BY <2>0 DEF RowsInv, PendingUnwritten
        <4> QED
          BY <2>0, <3>1, <4>1 DEF RowsInv, RowsSingle
      <3> QED
        BY <3>2, <3>3, <3>4 DEF RowsInv
    <2>2. CASE /\ \E done \in SUBSET (pend[x] \ {b}) :
                    rows' = [p \in Networks \X Blocks |->
                                IF p[1] = x[1] /\ p[2] \in done \cup {b}
                                THEN rows[p] + 1 ELSE rows[p]]
               /\ pend' = [pend EXCEPT ![x] = {}]
               /\ child' = [child EXCEPT ![x] = "closing"]
      <3>1. PICK done \in SUBSET (pend[x] \ {b}) :
                    rows' = [p \in Networks \X Blocks |->
                                IF p[1] = x[1] /\ p[2] \in done \cup {b}
                                THEN rows[p] + 1 ELSE rows[p]]
        BY <2>2
      <3>2. done \cup {b} \in SUBSET pend[x] /\ child[x] \in Active
        BY <2>0 DEF Active
      <3> QED
        BY <2>0, <2>2, <3>1, <3>2, EndRows
    <2> QED
      BY <1>7, <2>1, <2>2 DEF Insert
  <1> QED
    BY <1>1, <1>2, <1>3, <1>4, <1>5, <1>6, <1>7 DEF ChildStep

LEMMA StepRows ==
  ASSUME TypeOK, RowsInv, [Next]_vars
  PROVE  RowsInv'
  <1> USE DEF parentVars, socketVars, childVars, worldVars
  <1>1. CASE UNCHANGED vars
    BY <1>1, RowsFrame DEF vars
  <1>2. ASSUME NEW n \in Networks, BuildClient(n) PROVE RowsInv'
    BY <1>2, RowsFrame DEF BuildClient
  <1>3. ASSUME NEW x \in Kids, ProcessSyncMessage(x) PROVE RowsInv'
    BY <1>3, RowsFrame DEF ProcessSyncMessage
  <1>4. CASE World
    BY <1>4, RowsFrame DEF World, Connect, Leave, NewBlock
  <1> QED
    BY <1>1, <1>2, <1>3, <1>4, ParentRows, ChildRows DEF Next, ParentStep

THEOREM InvariantIsInductive == Spec => [](TypeOK /\ RowsInv)
  <1> QED
    BY InitTypes, InitRows, StepTypes, StepRows, PTL DEF Spec

(* Every variable keeps its range. *)
THEOREM TypeCorrect == Spec => []TypeOK
  BY InvariantIsInductive, PTL

(* However often the explorer is started, fails and is shut down, and      *)
(* whatever its children have under way at that moment: a block has two    *)
(* rows only when a parent was killed without its children.                *)
THEOREM RowsStaySingle == Spec => []RowsSingle
  <1>1. RowsInv => RowsSingle
    BY DEF RowsInv
  <1> QED
    BY <1>1, InvariantIsInductive, PTL

-----------------------------------------------------------------------------
(* Notices. *)

LEMMA InitNotices == Init => NoticesInv
  <1> SUFFICES ASSUME Init PROVE NoticesInv
    OBVIOUS
  <1>1. AnnouncedHasRow /\ PipesSound
    BY DEF Init, AnnouncedHasRow, PipesSound
  <1>2. SocketsSound /\ Told
    BY DEF Init, SocketsSound, Told
  <1> QED
    BY <1>1, <1>2 DEF NoticesInv

(* A step that moves no message and opens no socket. *)
LEMMA NoticesFrame ==
  ASSUME NoticesInv, AnnouncedHasRow',
         UNCHANGED <<wrote, ipc, starts, base, heard>>,
         parent' # parent => parent # "down" /\ parent' \in {"up", "draining"},
         \A s \in Sockets : /\ socks'[s] = "open" => socks[s] = "open"
                            /\ socks'[s] = "none" => socks[s] = "none"
  PROVE  NoticesInv'
  <1>1. PipesSound'
    BY DEF NoticesInv, PipesSound, Linked, Alive
  <1>2. SocketsSound'
    BY DEF NoticesInv, SocketsSound
  <1>3. \A p : (Wrote(p)' <=> Wrote(p)) /\ (OnItsWay(p)' <=> OnItsWay(p))
    BY DEF Wrote, OnItsWay
  <1>4. Told'
    BY <1>3 DEF NoticesInv, Told
  <1> QED
    BY <1>1, <1>2, <1>4 DEF NoticesInv

(* The end of the parent takes sockets and pipes with it. *)
LEMMA GoneNotices ==
  ASSUME TypeOK, NoticesInv, ParentGone, UNCHANGED <<wrote, rows, pend>>
  PROVE  NoticesInv'
  <1>1. /\ \A x \in Kids : ipc'[x] = <<>>
        /\ \A s \in Sockets : socks'[s] # "open" /\ (socks'[s] = "none" => socks[s] = "none")
        /\ UNCHANGED <<starts, heard>>
    BY DEF ParentGone
  <1>2. AnnouncedHasRow' /\ PipesSound'
    BY <1>1 DEF NoticesInv, AnnouncedHasRow, PipesSound
  <1>3. SocketsSound' /\ Told'
    BY <1>1 DEF NoticesInv, SocketsSound, Told
  <1> QED
    BY <1>2, <1>3 DEF NoticesInv

LEMMA ParentNotices ==
  ASSUME TypeOK, NoticesInv,
         \/ Start \/ ConnectDb \/ RetryDb \/ LoseDb \/ Listen \/ Signal \/ PanicTimer
         \/ Destroy \/ Exit \/ KillParent
  PROVE  NoticesInv'
  <1> USE DEF parentVars, socketVars, childVars, worldVars
  <1>0. UNCHANGED <<wrote, rows, pend>> => AnnouncedHasRow'
    BY DEF NoticesInv, AnnouncedHasRow
  <1>1. CASE ConnectDb \/ RetryDb \/ LoseDb \/ Listen
    BY <1>0, <1>1, NoticesFrame DEF ConnectDb, RetryDb, LoseDb, Listen
  <1>2. CASE Destroy
    <2>1. /\ UNCHANGED <<wrote, rows, pend, ipc, starts, base, heard, parent>>
          /\ \A s \in Sockets : socks'[s] = IF socks[s] = "ending" THEN "closed" ELSE socks[s]
      BY <1>2 DEF Destroy
    <2> QED
      BY <1>0, <2>1, NoticesFrame
  <1>3. CASE Signal \/ PanicTimer
    <2>1. ShutDown /\ UNCHANGED <<wrote, rows, pend>>
      BY <1>3 DEF Signal, PanicTimer
    <2>2. CASE ParentGone
      BY <2>1, <2>2, GoneNotices
    <2>3. CASE /\ parent \in {"up", "draining"} /\ parent' = "draining"
               /\ socks' = [s \in Sockets |-> IF socks[s] = "open" THEN "ending" ELSE socks[s]]
               /\ UNCHANGED <<starts, base, heard, ipc>>
      <3>1. \A s \in Sockets : socks'[s] # "open" /\ (socks'[s] = "none" => socks[s] = "none")
        BY <2>3
      <3> QED
        BY <1>0, <2>1, <2>3, <3>1, NoticesFrame
    <2> QED
      BY <2>1, <2>2, <2>3 DEF ShutDown
  <1>4. CASE Exit \/ KillParent
    BY <1>4, GoneNotices DEF Exit, KillParent
  <1>5. CASE Start
    <2>1. /\ parent = "down" /\ parent' = "init" /\ starts' = starts + 1
          /\ UNCHANGED <<wrote, rows, pend, ipc, base, heard, socks>>
      BY <1>5 DEF Start
    <2>2. \A x \in Kids : ipc[x] = <<>>
      BY <2>1 DEF NoticesInv, PipesSound, Linked, Alive
    <2>3. \A x \in Kids : x[2] > starts' => x[2] > starts
      BY <2>1, KidPairs, ExplorerAssumption DEF TypeOK
    <2>4. PipesSound'
      BY <2>1, <2>2, <2>3 DEF NoticesInv, PipesSound
    <2>5. SocketsSound' /\ Told'
      BY <2>1 DEF NoticesInv, SocketsSound, Told
    <2> QED
      BY <1>0, <2>1, <2>4, <2>5 DEF NoticesInv
  <1> QED
    BY <1>1, <1>2, <1>3, <1>4, <1>5

LEMMA WorldNotices ==
  ASSUME TypeOK, NoticesInv, World \/ \E n \in Networks : BuildClient(n)
  PROVE  NoticesInv'
  <1> USE DEF parentVars, socketVars, childVars, worldVars
  <1>0. UNCHANGED <<wrote, rows, pend>> => AnnouncedHasRow'
    BY DEF NoticesInv, AnnouncedHasRow
  <1>1. CASE \E n \in Networks : BuildClient(n) \/ NewBlock(n)
    BY <1>0, <1>1, NoticesFrame DEF BuildClient, NewBlock
  <1>2. ASSUME NEW s \in Sockets, Leave(s) PROVE NoticesInv'
    <2>1. /\ UNCHANGED <<wrote, rows, pend, ipc, starts, base, heard, parent>>
          /\ \A t \in Sockets : socks'[t] = IF t = s THEN "closed" ELSE socks[t]
      BY <1>2 DEF Leave, TypeOK
    <2> QED
      BY <1>0, <2>1, NoticesFrame
  <1>3. ASSUME NEW s \in Sockets, Connect(s) PROVE NoticesInv'
    <2>1. /\ UNCHANGED <<wrote, rows, pend, ipc, starts, heard, parent>>
          /\ parent = "up" /\ socks[s] = "none"
          /\ \A t \in Sockets : /\ socks'[t] = IF t = s THEN "open" ELSE socks[t]
                                /\ base'[t] = IF t = s THEN Broadcast ELSE base[t]
      BY <1>3 DEF Connect, TypeOK
    <2>2. AnnouncedHasRow' /\ PipesSound'
      BY <1>0, <2>1 DEF NoticesInv, PipesSound, Linked, Alive
    <2>3. SocketsSound'
      BY <2>1 DEF NoticesInv, SocketsSound
    <2>4. \A p : (Wrote(p)' <=> Wrote(p)) /\ (OnItsWay(p)' <=> OnItsWay(p))
      BY <2>1 DEF Wrote, OnItsWay
    <2>5. \A p \in Networks \X Blocks : p \in Broadcast <=> Wrote(p) /\ ~OnItsWay(p)
      BY DEF Broadcast, Wrote, OnItsWay
    <2>6. \A p \in Networks \X Blocks : heard[s][p] = 0
      BY <2>1 DEF NoticesInv, SocketsSound
    <2>7. Told'
      BY <2>1, <2>4, <2>5, <2>6 DEF NoticesInv, Told
    <2> QED
      BY <2>2, <2>3, <2>7 DEF NoticesInv
  <1> QED
    BY <1>1, <1>2, <1>3 DEF World

LEMMA Appended ==
  ASSUME TypeOK, NEW x \in Kids, NEW m \in Messages, Send(x, m)
  PROVE  /\ Linked(x)
         /\ \A y \in Kids \ {x} : ipc'[y] = ipc[y]
         /\ DOMAIN ipc[x] \subseteq DOMAIN ipc'[x]
         /\ \A j \in DOMAIN ipc[x] : ipc'[x][j] = ipc[x][j]
         /\ \E k \in DOMAIN ipc'[x] :
               ipc'[x][k] = m /\ \A j \in DOMAIN ipc'[x] : j # k => j \in DOMAIN ipc[x]
  <1> DEFINE s == ipc[x]
             t == Append(s, m)
  <1>1. s \in Seq(Messages) /\ ipc'[x] = t
    BY DEF Send, TypeOK
  <1>2. /\ DOMAIN s = 1..Len(s) /\ Len(s) \in Nat /\ DOMAIN t = 1..(Len(s) + 1)
        /\ \A j \in 1..Len(s) : t[j] = s[j]
        /\ t[Len(s) + 1] = m
    BY <1>1
  <1> HIDE DEF s, t
  <1>3. DOMAIN s \subseteq DOMAIN t /\ \A j \in DOMAIN s : t[j] = s[j]
    BY <1>2
  <1>4. /\ Len(s) + 1 \in DOMAIN t
        /\ \A j \in DOMAIN t : j # Len(s) + 1 => j \in DOMAIN s
    BY <1>2
  <1>5. Linked(x) /\ \A y \in Kids \ {x} : ipc'[y] = ipc[y]
    BY DEF Send, TypeOK
  <1> QED
    BY <1>1, <1>2, <1>3, <1>4, <1>5 DEF s

(* A message that tells of no block. *)
LEMMA PlainMessage ==
  ASSUME TypeOK, NoticesInv, NEW x \in Kids, NEW m \in Messages, m[1] # "block", Send(x, m),
         UNCHANGED <<wrote, rows, pend, starts, base, heard, socks, parent>>
  PROVE  NoticesInv'
  <1>1. /\ Linked(x)
        /\ \A y \in Kids \ {x} : ipc'[y] = ipc[y]
        /\ DOMAIN ipc[x] \subseteq DOMAIN ipc'[x]
        /\ \A j \in DOMAIN ipc[x] : ipc'[x][j] = ipc[x][j]
        /\ \E k \in DOMAIN ipc'[x] :
              ipc'[x][k] = m /\ \A j \in DOMAIN ipc'[x] : j # k => j \in DOMAIN ipc[x]
    BY Appended
  <1>2. PICK k \in DOMAIN ipc'[x] :
              ipc'[x][k] = m /\ \A j \in DOMAIN ipc'[x] : j # k => j \in DOMAIN ipc[x]
    BY <1>1
  <1>3. \A j \in DOMAIN ipc'[x] : ipc'[x][j][1] = "block" => j \in DOMAIN ipc[x]
    BY <1>2
  <1>4. AnnouncedHasRow' /\ SocketsSound'
    BY DEF NoticesInv, AnnouncedHasRow, SocketsSound
  <1>5. PipesSound'
    <2>1. \A y \in Kids : Linked(y)' <=> Linked(y)
      BY DEF Linked, Alive
    <2>2. ASSUME NEW y \in Kids, y # x
          PROVE  /\ ~Linked(y) => ipc'[y] = <<>>
                 /\ \A j \in DOMAIN ipc'[y] :
                       ipc'[y][j][1] = "block" =>
                         /\ ipc'[y][j][2] \in wrote'[y]
                         /\ \A i \in DOMAIN ipc'[y] : ipc'[y][i] = ipc'[y][j] => i = j
      BY <1>1, <2>2 DEF NoticesInv, PipesSound
    <2>3. ASSUME NEW j \in DOMAIN ipc'[x], ipc'[x][j][1] = "block"
          PROVE  /\ ipc'[x][j][2] \in wrote'[x]
                 /\ \A i \in DOMAIN ipc'[x] : ipc'[x][i] = ipc'[x][j] => i = j
      <3>1. j \in DOMAIN ipc[x] /\ ipc[x][j] = ipc'[x][j]
        BY <1>1, <1>3, <2>3
      <3>2. \A i \in DOMAIN ipc'[x] :
               ipc'[x][i] = ipc'[x][j] => i \in DOMAIN ipc[x] /\ ipc[x][i] = ipc[x][j]
        BY <1>1, <1>3, <2>3, <3>1
      <3> QED
        BY <2>3, <3>1, <3>2 DEF NoticesInv, PipesSound
    <2> QED
      BY <1>1, <2>1, <2>2, <2>3 DEF NoticesInv, PipesSound
  <1>6. \A p \in Networks \X Blocks : (Wrote(p)' <=> Wrote(p))
    BY DEF Wrote
  <1>7. ASSUME NEW p \in Networks \X Blocks PROVE OnItsWay(p)' <=> OnItsWay(p)
    <2>1. CASE <<p[1], starts>> = x
      <3>1. \A j \in DOMAIN ipc'[x] :
               ipc'[x][j] = <<"block", p[2]>> => j \in DOMAIN ipc[x]
        BY <1>3
      <3> QED
        BY <1>1, <2>1, <3>1 DEF OnItsWay
    <2>2. CASE <<p[1], starts>> # x
      <3>1. <<p[1], starts>> \in Kids
        BY <1>1, KidPairs DEF Linked, Kids
      <3> QED
        BY <1>1, <2>2, <3>1 DEF OnItsWay
    <2> QED
      BY <2>1, <2>2
  <1>8. Told'
    BY <1>6, <1>7 DEF NoticesInv, Told
  <1> QED
    BY <1>4, <1>5, <1>8 DEF NoticesInv

(* A block is inserted and announced: it is new to everybody, and on its way. *)
LEMMA BlockMessage ==
  ASSUME TypeOK, NoticesInv, NEW x \in Kids, NEW b \in pend[x],
         Send(x, <<"block", b>>),
         rows' = [rows EXCEPT ![<<x[1], b>>] = @ + 1],
         pend' = [pend EXCEPT ![x] = @ \ {b}],
         wrote' = [wrote EXCEPT ![x] = @ \cup {b}],
         UNCHANGED <<starts, base, heard, socks, parent>>
  PROVE  NoticesInv'
  <1> DEFINE m == <<"block", b>>
  <1>0. b \in Blocks /\ m \in Messages /\ b \notin wrote[x]
    BY MessageTypes DEF TypeOK, NoticesInv, AnnouncedHasRow
  <1>1. /\ Linked(x)
        /\ \A y \in Kids \ {x} : ipc'[y] = ipc[y]
        /\ DOMAIN ipc[x] \subseteq DOMAIN ipc'[x]
        /\ \A j \in DOMAIN ipc[x] : ipc'[x][j] = ipc[x][j]
        /\ \E k \in DOMAIN ipc'[x] :
              ipc'[x][k] = m /\ \A j \in DOMAIN ipc'[x] : j # k => j \in DOMAIN ipc[x]
    BY <1>0, Appended
  <1>2. PICK k \in DOMAIN ipc'[x] :
              ipc'[x][k] = m /\ \A j \in DOMAIN ipc'[x] : j # k => j \in DOMAIN ipc[x]
    BY <1>1
  <1>3. /\ \A y \in Kids : wrote'[y] = IF y = x THEN wrote[x] \cup {b} ELSE wrote[y]
        /\ \A y \in Kids : pend'[y] = IF y = x THEN pend[x] \ {b} ELSE pend[y]
        /\ \A p \in Networks \X Blocks :
              /\ rows[p] \in Nat
              /\ rows'[p] = IF p = <<x[1], b>> THEN rows[p] + 1 ELSE rows[p]
        /\ \A y \in Kids : wrote[y] \subseteq Blocks
    BY DEF TypeOK
  <1>4. \A j \in DOMAIN ipc[x] : ipc[x][j] # m
    BY <1>0 DEF NoticesInv, PipesSound
  <1>5. SocketsSound'
    BY DEF NoticesInv, SocketsSound
  <1>6. AnnouncedHasRow'
    <2> SUFFICES ASSUME NEW y \in Kids, NEW c \in wrote'[y]
                 PROVE  rows'[<<y[1], c>>] # 0 /\ c \notin pend'[y]
      BY DEF AnnouncedHasRow
    <2>1. <<y[1], c>> \in Networks \X Blocks
      BY <1>0, <1>3, KidPairs
    <2>2. CASE y = x /\ c = b
      BY <1>3, <2>1, <2>2
    <2>3. CASE c \in wrote[y]
      <3>1. rows[<<y[1], c>>] # 0 /\ c \notin pend[y]
        BY <2>3 DEF NoticesInv, AnnouncedHasRow
      <3> QED
        BY <1>3, <2>1, <3>1
    <2> QED
      BY <1>3, <2>2, <2>3
  <1>7. PipesSound'
    <2>1. \A y \in Kids : Linked(y)' <=> Linked(y)
      BY DEF Linked, Alive
    <2>2. ASSUME NEW y \in Kids, y # x
          PROVE  /\ ~Linked(y) => ipc'[y] = <<>>
                 /\ y[2] > starts' => wrote'[y] = {}
                 /\ \A j \in DOMAIN ipc'[y] :
                       ipc'[y][j][1] = "block" =>
                         /\ ipc'[y][j][2] \in wrote'[y]
                         /\ \A i \in DOMAIN ipc'[y] : ipc'[y][i] = ipc'[y][j] => i = j
      BY <1>1, <1>3, <2>2 DEF NoticesInv, PipesSound
    <2>3. ASSUME NEW j \in DOMAIN ipc'[x], ipc'[x][j][1] = "block"
          PROVE  /\ ipc'[x][j][2] \in wrote'[x]
                 /\ \A i \in DOMAIN ipc'[x] : ipc'[x][i] = ipc'[x][j] => i = j
      <3>1. CASE j = k
        <4>1. \A i \in DOMAIN ipc'[x] : ipc'[x][i] = m => i = k
          BY <1>1, <1>2, <1>4
        <4> QED
          BY <1>2, <1>3, <3>1, <4>1
      <3>2. CASE j # k
        <4>1. j \in DOMAIN ipc[x] /\ ipc[x][j] = ipc'[x][j] /\ ipc[x][j] # m
          BY <1>1, <1>2, <1>4, <3>2
        <4>2. \A i \in DOMAIN ipc'[x] :
                 ipc'[x][i] = ipc'[x][j] => i \in DOMAIN ipc[x] /\ ipc[x][i] = ipc[x][j]
          BY <1>1, <1>2, <4>1
        <4> QED
          BY <1>3, <2>3, <4>1, <4>2 DEF NoticesInv, PipesSound
      <3> QED
        BY <3>1, <3>2
    <2>4. ~(x[2] > starts)
      BY <1>1, KidPairs, ExplorerAssumption DEF TypeOK, Linked
    <2> QED
      BY <1>1, <2>1, <2>2, <2>3, <2>4 DEF PipesSound
  <1>8. Told'
    <2>1. x[2] = starts /\ x = <<x[1], starts>>
      BY <1>1, KidPairs DEF Linked
    <2> SUFFICES ASSUME NEW s \in Sockets, NEW p \in Networks \X Blocks, socks[s] = "open"
                 PROVE  /\ p \in base[s] => Wrote(p)' /\ ~OnItsWay(p)'
                        /\ heard[s][p] =
                             IF Wrote(p)' /\ ~OnItsWay(p)' /\ p \notin base[s] THEN 1 ELSE 0
      BY DEF Told
    <2>2. /\ p \in base[s] => Wrote(p) /\ ~OnItsWay(p)
          /\ heard[s][p] = IF Wrote(p) /\ ~OnItsWay(p) /\ p \notin base[s] THEN 1 ELSE 0
      BY DEF NoticesInv, Told
    <2>3. CASE p = <<x[1], b>>
      <3>1. ~Wrote(p)
        BY <1>0, <2>1, <2>3 DEF Wrote
      <3>2. OnItsWay(p)'
        BY <1>2, <2>1, <2>3 DEF OnItsWay
      <3> QED
        BY <2>2, <3>1, <3>2
    <2>4. CASE p # <<x[1], b>>
      <3>1. CASE p[1] = x[1]
        <4>1. p[2] # b
          BY <2>4, <3>1
        <4>2. <<p[1], starts>> = x
          BY <2>1, <3>1
        <4>3. Wrote(p)' <=> Wrote(p)
          BY <1>3, <4>1, <4>2 DEF Wrote
        <4>4. OnItsWay(p)' <=> OnItsWay(p)
          <5>1. \A j \in DOMAIN ipc'[x] :
                   ipc'[x][j] = <<"block", p[2]>> => j \in DOMAIN ipc[x]
            BY <1>2, <4>1
          <5> QED
            BY <1>1, <4>2, <5>1 DEF OnItsWay
        <4> QED
          BY <2>2, <4>3, <4>4
      <3>2. CASE p[1] # x[1]
        <4>1. <<p[1], starts>> \in Kids /\ <<p[1], starts>> # x
          BY <2>1, <3>2, KidPairs DEF Kids
        <4>2. (Wrote(p)' <=> Wrote(p)) /\ (OnItsWay(p)' <=> OnItsWay(p))
          BY <1>1, <1>3, <4>1 DEF Wrote, OnItsWay
        <4> QED
          BY <2>2, <4>2
      <3> QED
        BY <3>1, <3>2
    <2> QED
      BY <2>3, <2>4
  <1> QED
    BY <1>5, <1>6, <1>7, <1>8 DEF NoticesInv

(* The parent takes the first message of a pipe, and passes a block on. *)
LEMMA MessageNotices ==
  ASSUME TypeOK, NoticesInv, NEW x \in Kids, ProcessSyncMessage(x)
  PROVE  NoticesInv'
  <1> DEFINE q == ipc[x]
             t == Tail(q)
  <1>1. /\ Linked(x) /\ q # <<>> /\ ipc'[x] = t
        /\ \A y \in Kids \ {x} : ipc'[y] = ipc[y]
        /\ UNCHANGED <<starts, base, parent, wrote, rows, pend>>
    BY DEF ProcessSyncMessage, childVars, TypeOK
  <1>2. q \in Seq(Messages)
    BY DEF TypeOK
  <1>3. /\ DOMAIN q = 1..Len(q) /\ DOMAIN t = 1..(Len(q) - 1) /\ Len(q) \in Nat \ {0}
        /\ \A j \in DOMAIN t : t[j] = q[j + 1]
        /\ Head(q) = q[1]
    BY <1>1, <1>2
  <1>a. Head(q) = Head(ipc[x]) /\ DOMAIN q = DOMAIN ipc[x] /\ \A j : q[j] = ipc[x][j]
    OBVIOUS
  <1> HIDE DEF q, t
  <1>4. /\ 1 \in DOMAIN q
        /\ \A j \in DOMAIN t : j + 1 \in DOMAIN q /\ j + 1 # 1
        /\ \A j \in DOMAIN q : j # 1 => j - 1 \in DOMAIN t /\ t[j - 1] = q[j]
        /\ \A i, j \in DOMAIN t : i + 1 = j + 1 => i = j
    BY <1>3
  <1>5. AnnouncedHasRow'
    BY <1>1 DEF NoticesInv, AnnouncedHasRow
  <1>6. PipesSound'
    <2>1. \A y \in Kids : Linked(y)' <=> Linked(y)
      BY <1>1 DEF Linked, Alive
    <2>2. \A y \in Kids \ {x} :
             /\ ~Linked(y) => ipc'[y] = <<>>
             /\ \A j \in DOMAIN ipc'[y] :
                   ipc'[y][j][1] = "block" =>
                     /\ ipc'[y][j][2] \in wrote'[y]
                     /\ \A i \in DOMAIN ipc'[y] : ipc'[y][i] = ipc'[y][j] => i = j
      BY <1>1 DEF NoticesInv, PipesSound
    <2>3. ASSUME NEW j \in DOMAIN t, t[j][1] = "block"
          PROVE  /\ t[j][2] \in wrote[x]
                 /\ \A i \in DOMAIN t : t[i] = t[j] => i = j
      <3>1. \A i \in DOMAIN q :
               q[i][1] = "block" =>
                 q[i][2] \in wrote[x] /\ \A k \in DOMAIN q : q[k] = q[i] => k = i
        BY <1>a DEF NoticesInv, PipesSound
      <3>2. j + 1 \in DOMAIN q /\ q[j + 1] = t[j]
        BY <1>3, <1>4
      <3>3. \A i \in DOMAIN t : t[i] = t[j] => i + 1 \in DOMAIN q /\ q[i + 1] = q[j + 1]
        BY <1>3, <1>4
      <3> QED
        BY <1>4, <2>3, <3>1, <3>2, <3>3
    <2> QED
      BY <1>1, <2>1, <2>2, <2>3 DEF NoticesInv, PipesSound
  <1>7. \A p : Wrote(p)' <=> Wrote(p)
    BY <1>1 DEF Wrote
  <1>8. x[2] = starts /\ x = <<x[1], starts>>
    BY <1>1, KidPairs DEF Linked
  <1>9. \A p \in Networks \X Blocks :
           p[1] # x[1] => /\ OnItsWay(p)' <=> OnItsWay(p)
                          /\ Head(q) = <<"block", p[2]>> => p # <<x[1], Head(q)[2]>>
    <2> TAKE p \in Networks \X Blocks
    <2> HAVE p[1] # x[1]
    <2>1. <<p[1], starts>> \in Kids /\ <<p[1], starts>> # x
      BY <1>8, KidPairs DEF Kids
    <2> QED
      BY <1>1, <2>1 DEF OnItsWay
  <1>10. \A p \in Networks \X Blocks :
            p[1] = x[1] /\ Head(q) # <<"block", p[2]>> => (OnItsWay(p)' <=> OnItsWay(p))
    <2> TAKE p \in Networks \X Blocks
    <2> HAVE p[1] = x[1] /\ Head(q) # <<"block", p[2]>>
    <2>1. <<p[1], starts>> = x
      BY <1>8
    <2>2. OnItsWay(p) <=> \E j \in DOMAIN q : q[j] = <<"block", p[2]>>
      BY <1>a, <2>1 DEF OnItsWay
    <2>3. OnItsWay(p)' <=> \E j \in DOMAIN t : t[j] = <<"block", p[2]>>
      BY <1>1, <2>1 DEF OnItsWay
    <2>4. ASSUME NEW j \in DOMAIN q, q[j] = <<"block", p[2]>>
          PROVE  \E i \in DOMAIN t : t[i] = <<"block", p[2]>>
      <3>1. j # 1
        BY <1>3, <2>4
      <3> QED
        BY <1>4, <2>4, <3>1
    <2>5. ASSUME NEW j \in DOMAIN t, t[j] = <<"block", p[2]>>
          PROVE  \E i \in DOMAIN q : q[i] = <<"block", p[2]>>
      BY <1>3, <1>4, <2>5
    <2> QED
      BY <2>2, <2>3, <2>4, <2>5
  <1>11. CASE UNCHANGED <<socks, heard>> /\ Head(q)[1] # "block"
    <2>1. \A p \in Networks \X Blocks : OnItsWay(p)' <=> OnItsWay(p)
      BY <1>9, <1>10, <1>11
    <2>2. SocketsSound' /\ Told'
      BY <1>1, <1>7, <1>11, <2>1 DEF NoticesInv, SocketsSound, Told
    <2> QED
      BY <1>5, <1>6, <2>2 DEF NoticesInv
  <1>12. CASE Head(q)[1] = "block" /\ BroadcastBlock(x[1], Head(q)[2])
    <2>1. \E b \in Blocks : b \in wrote[x] /\ Head(q) = <<"block", b>>
      <3>1. q[1] \in Messages /\ q[1][1] = "block"
        BY <1>2, <1>3, <1>4, <1>12
      <3>2. q[1][2] \in wrote[x]
        BY <1>4, <1>a, <3>1 DEF NoticesInv, PipesSound
      <3>3. q[1] = <<"block", q[1][2]>> /\ q[1][2] \in Blocks
        BY <3>1 DEF Messages
      <3> QED
        BY <1>3, <3>2, <3>3
    <2> PICK b \in Blocks : b \in wrote[x] /\ Head(q) = <<"block", b>>
      BY <2>1
    <2> DEFINE f == <<x[1], b>>
    <2>2. f \in Networks \X Blocks
      BY KidPairs
    <2>3. Wrote(f) /\ OnItsWay(f) /\ ~OnItsWay(f)'
      <3>1. <<f[1], starts>> = x
        BY <1>8
      <3>2. Wrote(f)
        BY <3>1 DEF Wrote
      <3>3. OnItsWay(f)
        BY <1>3, <1>4, <1>a, <3>1 DEF OnItsWay
      <3>4. \A j \in DOMAIN t : t[j] # <<"block", b>>
        <4>1. 1 \in DOMAIN ipc[x] /\ ipc[x][1] = <<"block", b>>
          BY <1>3, <1>4, <1>a
        <4>2. \A k \in DOMAIN ipc[x] : ipc[x][k] = ipc[x][1] => k = 1
          BY <4>1 DEF NoticesInv, PipesSound
        <4>3. \A k \in DOMAIN q : q[k] = <<"block", b>> => k = 1
          BY <1>a, <4>1, <4>2
        <4> QED
          BY <1>3, <1>4, <4>3
      <3>5. ~OnItsWay(f)'
        BY <1>1, <3>1, <3>4 DEF OnItsWay
      <3> QED
        BY <3>2, <3>3, <3>5
    <2>4. \A p \in Networks \X Blocks : p # f => (OnItsWay(p)' <=> OnItsWay(p))
      <3> TAKE p \in Networks \X Blocks
      <3> HAVE p # f
      <3>1. p[1] = x[1] => p[2] # b
        OBVIOUS
      <3> QED
        BY <1>9, <1>10, <3>1
    <2>5. /\ \A s \in Sockets : /\ socks'[s] = "open" <=> socks[s] = "open"
                                /\ socks'[s] = "none" <=> socks[s] = "none"
          /\ \A s \in Sockets : \A p \in Networks \X Blocks :
                heard'[s][p] = IF p = f /\ socks[s] = "open" THEN heard[s][p] + 1
                                                            ELSE heard[s][p]
      <3>1. BroadcastBlock(x[1], b)
        BY <1>12
      <3>2. \A s \in Sockets : /\ heard[s] \in [Networks \X Blocks -> Nat]
                              /\ heard'[s] = [heard[s] EXCEPT ![f] =
                                                IF socks[s] = "open" THEN @ + 1 ELSE @]
        BY <3>1 DEF BroadcastBlock, TypeOK
      <3>3. \A s \in Sockets : \A p \in Networks \X Blocks :
               heard'[s][p] = IF p = f /\ socks[s] = "open" THEN heard[s][p] + 1
                                                           ELSE heard[s][p]
        <4> SUFFICES ASSUME NEW s \in Sockets, NEW p \in Networks \X Blocks
                     PROVE  heard'[s][p] = IF p = f /\ socks[s] = "open" THEN heard[s][p] + 1
                                                                         ELSE heard[s][p]
          OBVIOUS
        <4> DEFINE g == heard[s]
                   e == <<x[1], b>>
        <4>1. g \in [Networks \X Blocks -> Nat] /\ e \in Networks \X Blocks
          BY <2>2, <3>2
        <4>2. heard'[s] = [g EXCEPT ![e] = IF socks[s] = "open" THEN @ + 1 ELSE @]
          BY <3>2
        <4> HIDE DEF g, e
        <4>3. heard'[s][p] = IF p = e /\ socks[s] = "open" THEN g[p] + 1 ELSE g[p]
          BY <4>1, <4>2
        <4> QED
          BY <4>3 DEF g, e
      <3>4. \A s \in Sockets : socks'[s] = IF socks[s] = "ending" THEN "closed" ELSE socks[s]
        BY <3>1 DEF BroadcastBlock
      <3> QED
        BY <3>3, <3>4
    <2>6. SocketsSound'
      BY <1>1, <2>5 DEF NoticesInv, SocketsSound
    <2>7. Told'
      <3> SUFFICES ASSUME NEW s \in Sockets, NEW p \in Networks \X Blocks, socks[s] = "open"
                   PROVE  /\ p \in base[s] => Wrote(p)' /\ ~OnItsWay(p)'
                          /\ heard'[s][p] =
                               IF Wrote(p)' /\ ~OnItsWay(p)' /\ p \notin base[s] THEN 1 ELSE 0
        BY <1>1, <2>5 DEF Told
      <3>1. /\ p \in base[s] => Wrote(p) /\ ~OnItsWay(p)
            /\ heard[s][p] = IF Wrote(p) /\ ~OnItsWay(p) /\ p \notin base[s] THEN 1 ELSE 0
        BY DEF NoticesInv, Told
      <3>2. CASE p = f
        BY <1>7, <2>3, <2>5, <3>1, <3>2
      <3>3. CASE p # f
        BY <1>7, <2>4, <2>5, <3>1, <3>3
      <3> QED
        BY <3>2, <3>3
    <2> QED
      BY <1>5, <1>6, <2>6, <2>7 DEF NoticesInv
  <1> QED
    BY <1>11, <1>12, <1>a DEF ProcessSyncMessage

LEMMA ChildNotices ==
  ASSUME TypeOK, RowsInv, NoticesInv, NEW x \in Kids, ChildStep(x)
  PROVE  NoticesInv'
  <1> USE DEF parentVars, socketVars, childVars, worldVars
  <1>0. UNCHANGED <<wrote, rows, pend>> => AnnouncedHasRow'
    BY DEF NoticesInv, AnnouncedHasRow
  <1>1. CASE ChildStart(x)
    <2>1. UNCHANGED <<wrote, rows, pend, starts, base, heard, socks, parent>>
      BY <1>1 DEF ChildStart
    <2>2. CASE Send(x, <<"exist", 0>>)
      BY <2>1, <2>2, PlainMessage, MessageTypes
    <2>3. CASE UNCHANGED ipc
      BY <1>0, <2>1, <2>3, NoticesFrame
    <2> QED
      BY <1>1, <2>2, <2>3 DEF ChildStart
  <1>2. CASE SendUpdate(x)
    BY <1>2, PlainMessage, MessageTypes DEF SendUpdate
  <1>3. CASE Finish(x)
    BY <1>0, <1>3, NoticesFrame DEF Finish
  <1>4. ASSUME NEW done \in SUBSET pend[x],
               rows' = [p \in Networks \X Blocks |->
                           IF p[1] = x[1] /\ p[2] \in done THEN rows[p] + 1 ELSE rows[p]],
               pend' = [pend EXCEPT ![x] = {}],
               UNCHANGED <<wrote, ipc, starts, base, heard, socks, parent>>
        PROVE  NoticesInv'
    <2>1. \A y \in Kids : pend'[y] \subseteq pend[y]
      BY <1>4 DEF TypeOK
    <2>2. \A p \in Networks \X Blocks : rows[p] # 0 => rows'[p] # 0
      BY <1>4 DEF TypeOK
    <2>3. \A y \in Kids : \A c \in wrote[y] : <<y[1], c>> \in Networks \X Blocks
      BY KidPairs DEF TypeOK
    <2>4. AnnouncedHasRow'
      BY <1>4, <2>1, <2>2, <2>3 DEF NoticesInv, AnnouncedHasRow
    <2> QED
      BY <1>4, <2>4, NoticesFrame
  <1>5. CASE TakeSignal(x) \/ ChildFails(x)
    <2>1. UNCHANGED <<wrote, ipc, starts, base, heard, socks, parent>>
      BY <1>5 DEF TakeSignal, ChildFails
    <2>2. PICK done \in SUBSET pend[x] :
             /\ rows' = [p \in Networks \X Blocks |->
                           IF p[1] = x[1] /\ p[2] \in done THEN rows[p] + 1 ELSE rows[p]]
             /\ pend' = [pend EXCEPT ![x] = {}]
      BY <1>5 DEF TakeSignal, ChildFails, StatementsSettle
    <2> QED
      BY <1>4, <2>1, <2>2
  <1>6. ASSUME NEW b \in Blocks, Count(x, b) PROVE NoticesInv'
    <2>1. /\ rows[<<x[1], b>>] = 0
          /\ UNCHANGED <<wrote, rows, ipc, starts, base, heard, socks, parent>>
          /\ \A y \in Kids : pend'[y] = IF y = x THEN pend[x] \cup {b} ELSE pend[y]
      BY <1>6 DEF Count, TypeOK
    <2>2. AnnouncedHasRow'
      BY <2>1 DEF NoticesInv, AnnouncedHasRow
    <2> QED
      BY <2>1, <2>2, NoticesFrame
  <1>7. ASSUME NEW b \in Blocks, Insert(x, b) PROVE NoticesInv'
    <2>1. b \in pend[x] /\ UNCHANGED <<starts, base, heard, socks, parent>>
      BY <1>7 DEF Insert
    <2>2. CASE /\ Send(x, <<"block", b>>)
               /\ rows' = [rows EXCEPT ![<<x[1], b>>] = @ + 1]
               /\ pend' = [pend EXCEPT ![x] = @ \ {b}]
               /\ wrote' = [wrote EXCEPT ![x] = @ \cup {b}]
      BY <2>1, <2>2, BlockMessage
    <2>3. CASE /\ \E done \in SUBSET (pend[x] \ {b}) :
                    rows' = [p \in Networks \X Blocks |->
                                IF p[1] = x[1] /\ p[2] \in done \cup {b}
                                THEN rows[p] + 1 ELSE rows[p]]
               /\ pend' = [pend EXCEPT ![x] = {}]
               /\ UNCHANGED <<wrote, ipc>>
      <3>1. PICK done \in SUBSET (pend[x] \ {b}) :
                    rows' = [p \in Networks \X Blocks |->
                                IF p[1] = x[1] /\ p[2] \in done \cup {b}
                                THEN rows[p] + 1 ELSE rows[p]]
        BY <2>3
      <3>2. done \cup {b} \in SUBSET pend[x]
        BY <2>1
      <3> QED
        BY <1>4, <2>1, <2>3, <3>1, <3>2
    <2> QED
      BY <1>7, <2>2, <2>3 DEF Insert
  <1> QED
    BY <1>1, <1>2, <1>3, <1>5, <1>6, <1>7 DEF ChildStep

LEMMA StepNotices ==
  ASSUME TypeOK, RowsInv, NoticesInv, [Next]_vars
  PROVE  NoticesInv'
  <1>1. CASE UNCHANGED vars
    <2>1. AnnouncedHasRow'
      BY <1>1 DEF NoticesInv, AnnouncedHasRow, vars, childVars
    <2> QED
      BY <1>1, <2>1, NoticesFrame DEF vars, parentVars, socketVars, childVars
  <1> QED
    BY <1>1, ParentNotices, MessageNotices, WorldNotices, ChildNotices DEF Next, ParentStep

(* While a child lives and its pipe is empty, an open socket has been told *)
(* exactly once of every block announced since it was opened, however many *)
(* browsers come and go, messages are under way and starts came before.    *)
THEOREM ToldExactlyOnce == Spec => []NotificationsExact
  <1>1. TypeOK /\ NoticesInv => NotificationsExact
    <2> SUFFICES ASSUME TypeOK, NoticesInv,
                        NEW s \in Sockets, NEW n \in Networks, NEW b \in Blocks,
                        socks[s] = "open", ipc[<<n, starts>>] = <<>>
                 PROVE  heard[s][<<n, b>>] =
                          IF b \in wrote[<<n, starts>>] /\ <<n, b>> \notin base[s] THEN 1 ELSE 0
      BY DEF NotificationsExact
    <2>1. ~OnItsWay(<<n, b>>)
      BY DEF OnItsWay
    <2>2. Wrote(<<n, b>>) <=> b \in wrote[<<n, starts>>]
      BY DEF Wrote
    <2> QED
      BY <2>1, <2>2 DEF NoticesInv, Told
  <1> QED
    BY <1>1, InvariantIsInductive, InitNotices, StepNotices, PTL DEF Spec
=============================================================================
