------------------------ MODULE ChannelConfigProofs -------------------------
(***************************************************************************)
(* Type correctness of ChannelConfig and its safety properties, for all    *)
(* channels, hosts, chaincodes, all numbers of runs that overlap, and all  *)
(* bounds on failures and crashes.                                         *)
(***************************************************************************)
EXTENDS ChannelConfig, FiniteSetTheorems, TLAPS

-----------------------------------------------------------------------------
(* Types. *)

(* The labels at which a run is at a channel, and those before an INSERT of a row that is *)
(* not a channel's.                                                                       *)
AtChannel == Labels \ {"idle", "client", "clientNew", "channels"}
Inserting == {"nodeInsert", "codeInsert"}

(* The rows that discovery brings. *)
Discovered == {k \in Keys : \A c \in Channels : k # ChannelRow(c)}

RunTypes ==
  /\ pc \in [Runs -> Labels]
  /\ queried \in [Runs -> SUBSET Channels]
  /\ at \in [Runs -> Nat]
  /\ chan \in [Runs -> Channels \cup {None}]
  /\ found \in [Runs -> SUBSET Hosts]
  /\ todo \in [Runs -> SUBSET Discovered]
  /\ key \in [Runs -> Discovered \cup {ChannelRow(None)}]
  /\ \A r \in Runs : pc[r] \in AtChannel => chan[r] \in Channels
  /\ \A r \in Runs : pc[r] \in Inserting => key[r] \in Discovered

TableTypes ==
  /\ rows \in [Keys -> Nat]
  /\ blocks \in [Channels -> Nat]
  /\ existSent \subseteq Channels

HubTypes ==
  /\ connecting \in [Channels -> Nat]
  /\ listeners \in [Channels -> Nat]
  /\ hubs \subseteq Channels
  /\ leaving \subseteq hubs
  /\ \A c \in hubs : listeners[c] > 0

ProcTypes ==
  /\ joined \subseteq Channels
  /\ alive \in BOOLEAN /\ ready \in BOOLEAN /\ closing \in BOOLEAN
  /\ channels \in Seq(Channels)
  /\ overlapped \in BOOLEAN
  /\ faults \in Nat /\ crashes \in Nat

Types == RunTypes /\ TableTypes /\ HubTypes /\ ProcTypes

LEMMA TypesSuffice == Types => TypeOK
  BY DEF Types, RunTypes, TableTypes, HubTypes, ProcTypes, TypeOK, Discovered

(* The rows are told apart by their table and their columns. *)
LEMMA RowKinds ==
  ASSUME NEW c \in Channels
  PROVE  /\ ChannelRow(c) \in Keys
         /\ \A h \in Hosts : PeerRow(c, h) \in Discovered /\ PeerRefRow(c, h) \in Discovered
         /\ \A k \in Chaincodes : ChaincodeRow(c, k) \in Discovered
         /\ \A k \in Chaincodes, h \in Hosts : ChaincodeRefRow(c, k, h) \in Discovered
         /\ ChannelRow(c) \notin Discovered
         /\ ChannelRow(None) \notin Keys
  <1>1. /\ ChannelRow(c) \in Keys
        /\ \A h \in Hosts : PeerRow(c, h) \in Keys /\ PeerRefRow(c, h) \in Keys
        /\ \A k \in Chaincodes : ChaincodeRow(c, k) \in Keys
        /\ \A k \in Chaincodes, h \in Hosts : ChaincodeRefRow(c, k, h) \in Keys
    BY DEF Keys
  <1>2. ASSUME NEW d \in Channels
        PROVE  /\ \A h \in Hosts : PeerRow(c, h) # ChannelRow(d) /\ PeerRefRow(c, h) # ChannelRow(d)
               /\ \A k \in Chaincodes : ChaincodeRow(c, k) # ChannelRow(d)
               /\ \A k \in Chaincodes, h \in Hosts : ChaincodeRefRow(c, k, h) # ChannelRow(d)
    BY DEF ChannelRow, PeerRow, PeerRefRow, ChaincodeRow, ChaincodeRefRow
  <1>3. ChannelRow(None) \notin Keys
    BY ChannelAssumption
       DEF Keys, ChannelRow, PeerRow, PeerRefRow, ChaincodeRow, ChaincodeRefRow
  <1> QED
    BY <1>1, <1>2, <1>3 DEF Discovered

LEMMA InitTypes == Init => Types
  <1> SUFFICES ASSUME Init PROVE Types
    OBVIOUS
  <1>1. RunTypes
    BY DEF Init, RunTypes, Labels, AtChannel, Inserting
  <1>2. TableTypes /\ HubTypes
    BY DEF Init, TableTypes, HubTypes
  <1>3. joined \subseteq Channels /\ channels \in Seq(Channels) /\ faults \in Nat /\ crashes \in Nat
    BY ChannelAssumption DEF Init
  <1>4. alive \in BOOLEAN /\ ready \in BOOLEAN /\ closing \in BOOLEAN /\ overlapped \in BOOLEAN
    BY Zenon DEF Init
  <1> QED
    BY <1>1, <1>2, <1>3, <1>4 DEF Types, ProcTypes

(* No run is under way. *)
LEMMA ForgottenTypes ==
  ASSUME ForgetRuns PROVE RunTypes' /\ \A r \in Runs : pc'[r] = "idle"
  BY DEF ForgetRuns, RunTypes, Labels, AtChannel, Inserting

(* A run goes to another await, with its channel and rows in hand. *)
LEMMA BecameTypes ==
  ASSUME RunTypes, NEW r \in Runs, NEW label \in Labels, Became(r, label),
         label \in AtChannel => chan[r] \in Channels, label \notin Inserting
  PROVE  RunTypes'
  BY DEF RunTypes, Became, Goto

LEMMA ReturnTypes ==
  ASSUME RunTypes, NEW r \in Runs, Return(r),
         ready \in BOOLEAN, connecting \in [Channels -> Nat]
  PROVE  RunTypes' /\ ready' \in BOOLEAN /\ connecting' \in [Channels -> Nat]
  <1>1. RunTypes'
    BY DEF RunTypes, Return, Labels, AtChannel, Inserting
  <1>2. CASE ConnectAll /\ ready' = TRUE
    <2> DEFINE more(c) == IF c \in Listed \ hubs THEN 1 ELSE 0
    <2>1. \A c \in Channels : connecting[c] + more(c) \in Nat
      OBVIOUS
    <2>2. connecting' = [c \in Channels |-> connecting[c] + more(c)]
      BY <1>2 DEF ConnectAll
    <2> HIDE DEF more
    <2> QED
      BY <1>1, <1>2, <2>1, <2>2
  <1>3. CASE UNCHANGED <<ready, connecting>>
    BY <1>1, <1>3
  <1> QED
    BY <1>1, <1>2, <1>3 DEF Return

LEMMA NextChannelTypes ==
  ASSUME RunTypes, NEW r \in Runs, NEW list \in Seq(Channels), NextChannel(r, list),
         ready \in BOOLEAN, connecting \in [Channels -> Nat]
  PROVE  RunTypes' /\ ready' \in BOOLEAN /\ connecting' \in [Channels -> Nat]
  <1>1. CASE r \notin Timers /\ at[r] < Len(list)
    <2>1. /\ list[at[r] + 1] \in Channels
          /\ "genesis" \in Labels \ Inserting
      BY <1>1 DEF RunTypes, Labels, Inserting
    <2>2. /\ pc' = [pc EXCEPT ![r] = "genesis"]
          /\ at' = [at EXCEPT ![r] = @ + 1]
          /\ chan' = [chan EXCEPT ![r] = list[at[r] + 1]]
          /\ UNCHANGED <<queried, found, todo, key, ready, connecting>>
      BY <1>1 DEF NextChannel, Goto
    <2> QED
      BY <2>1, <2>2 DEF RunTypes
  <1>2. CASE ~(r \notin Timers /\ at[r] < Len(list))
    BY <1>2, ReturnTypes DEF NextChannel
  <1> QED
    BY <1>1, <1>2

LEMMA NextQueriedTypes ==
  ASSUME RunTypes, NEW r \in Runs, NEW list \in Seq(Channels), NEW left \in SUBSET Channels,
         NextQueried(r, left, list), ready \in BOOLEAN, connecting \in [Channels -> Nat]
  PROVE  RunTypes' /\ ready' \in BOOLEAN /\ connecting' \in [Channels -> Nat]
  <1> DEFINE unlisted == left \ {list[i] : i \in 1 .. Len(list)}
  <1>1. CASE unlisted # {}
    <2>1. PICK c \in unlisted :
            /\ pc' = [pc EXCEPT ![r] = "new"]
            /\ chan' = [chan EXCEPT ![r] = c]
            /\ queried' = [queried EXCEPT ![r] = left \ {c}]
            /\ UNCHANGED <<at, found, todo, key, ready, connecting>>
      BY <1>1 DEF NextQueried, Goto
    <2>2. "new" \in Labels \ Inserting /\ c \in Channels
      BY DEF Labels, Inserting
    <2> QED
      BY <2>1, <2>2 DEF RunTypes
  <1>2. CASE unlisted = {}
    BY <1>2, NextChannelTypes DEF NextQueried
  <1> QED
    BY <1>1, <1>2

LEMMA FaultTypes ==
  ASSUME ProcTypes, NEW kind, Fault(kind)
  PROVE  faults' \in Nat /\ crashes' \in Nat
  BY DEF Fault, ProcTypes

(* The process starts and ends, and the peer joins a channel. *)
LEMMA ProcessTypes ==
  ASSUME Types, Boot \/ ShutDown \/ Exit \/ (\E c \in Channels : Join(c))
  PROVE  Types'
  <1> USE DEF Types, tableVars, hubVars, procVars, budget, runVars
  <1>1. CASE Boot
    <2>1. "client" \in Labels \ Inserting /\ "client" \notin AtChannel /\ Start \in Runs
      BY DEF Labels, Inserting, AtChannel, Runs
    <2>2. RunTypes'
      BY <1>1, <2>1, BecameTypes DEF Boot
    <2> QED
      BY <1>1, <2>2 DEF Boot, TableTypes, HubTypes, ProcTypes
  <1>2. CASE ShutDown
    <2>1. RunTypes'
      BY <1>2, ForgottenTypes DEF ShutDown, BeginShutDown
    <2>2. leaving' = hubs /\ closing' = TRUE
      BY <1>2 DEF ShutDown, BeginShutDown
    <2> QED
      BY <1>2, <2>1, <2>2 DEF ShutDown, TableTypes, HubTypes, ProcTypes
  <1>3. CASE Exit
    <2>1. RunTypes'
      BY <1>3, ForgottenTypes DEF Exit
    <2>2. HubTypes' /\ TableTypes'
      BY <1>3 DEF Exit, HubTypes, TableTypes
    <2>3. /\ alive' = FALSE /\ ready' = FALSE /\ closing' = FALSE /\ channels' = <<>>
          /\ UNCHANGED <<joined, overlapped>> /\ faults' \in Nat /\ crashes' \in Nat
      BY <1>3 DEF Exit, ProcTypes
    <2>4. /\ joined' \subseteq Channels /\ channels' \in Seq(Channels)
          /\ overlapped' \in BOOLEAN
      BY <2>3 DEF ProcTypes
    <2>5. alive' \in BOOLEAN /\ ready' \in BOOLEAN /\ closing' \in BOOLEAN
      BY Zenon, <2>3
    <2> QED
      BY <2>1, <2>2, <2>3, <2>4, <2>5 DEF ProcTypes
  <1>4. CASE \E c \in Channels : Join(c)
    <2>1. RunTypes'
      BY <1>4 DEF Join, RunTypes
    <2> QED
      BY <1>4, <2>1 DEF Join, TableTypes, HubTypes, ProcTypes
  <1> QED
    BY <1>1, <1>2, <1>3, <1>4

(* The channels listed, when one is appended. *)
LEMMA AppendTypes ==
  ASSUME ProcTypes, NEW c \in Channels, InitializeNewChannel(c)
  PROVE  /\ channels' \in Seq(Channels)
         /\ channels' = Append(channels, c)
         /\ Listed' = Listed \cup {c}
  <1>1. /\ channels' = Append(channels, c)
        /\ channels' \in Seq(Channels)
        /\ Len(channels') = Len(channels) + 1 /\ Len(channels) \in Nat
        /\ channels'[Len(channels) + 1] = c
        /\ \A i \in 1 .. Len(channels) : channels'[i] = channels[i]
    BY DEF InitializeNewChannel, ProcTypes
  <1>2. 1 .. Len(channels') = (1 .. Len(channels)) \cup {Len(channels) + 1}
    BY <1>1
  <1> QED
    BY <1>1, <1>2 DEF Listed

LEMMA StartUpTypes ==
  ASSUME Types, StartUp
  PROVE  Types'
  <1> USE DEF Types, tableVars, AtRun
  <1>0. Start \in Runs
    BY DEF Runs
  <1>1. /\ {"clientNew", "channels"} \subseteq Labels \ Inserting
        /\ "channels" \notin AtChannel /\ "clientNew" \notin AtChannel
    BY DEF Labels, Inserting, AtChannel
  <1>2. CASE ClientChannels
    <2>1. RunTypes' /\ faults' \in Nat /\ crashes' \in Nat
      <3>1. CASE /\ queried' = [queried EXCEPT ![Start] = joined]
                 /\ Goto(Start, "clientNew")
                 /\ UNCHANGED <<at, chan, found, todo, key, budget>>
        BY <1>0, <1>1, <3>1 DEF RunTypes, ProcTypes, Goto, budget
      <3>2. CASE Fault("query") /\ Became(Start, "channels")
        BY <1>0, <1>1, <3>2, BecameTypes, FaultTypes
      <3> QED
        BY <1>2, <3>1, <3>2 DEF ClientChannels
    <2> QED
      BY <1>2, <2>1 DEF ClientChannels, TableTypes, HubTypes, ProcTypes
  <1>3. CASE ClientNewChannel
    <2>1. PICK c \in queried[Start] :
            /\ queried' = [queried EXCEPT ![Start] = @ \ {c}]
            /\ \/ InitializeNewChannel(c) /\ UNCHANGED budget
               \/ Fault("block") /\ UNCHANGED channels
            /\ UNCHANGED <<AtRun, ready, connecting, pc, at, chan, found, todo, key, tableVars,
                 overlapped>>
      BY <1>3 DEF ClientNewChannel
    <2>2. RunTypes' /\ c \in Channels
      BY <1>0, <2>1 DEF RunTypes
    <2>3. channels' \in Seq(Channels) /\ faults' \in Nat /\ crashes' \in Nat
      BY <2>1, <2>2, AppendTypes, FaultTypes DEF budget, ProcTypes
    <2> QED
      BY <2>1, <2>2, <2>3 DEF TableTypes, HubTypes, ProcTypes
  <1>4. CASE ClientDone
    <2>1. RunTypes'
      BY <1>0, <1>1, <1>4, BecameTypes DEF ClientDone
    <2> QED
      BY <1>4, <2>1 DEF ClientDone, TableTypes, HubTypes, ProcTypes, budget
  <1> QED
    BY <1>2, <1>3, <1>4 DEF StartUp

(* A run starts. *)
LEMMA StartTypes ==
  ASSUME Types, NEW r \in Runs, StartRefresh(r) \/ StartTimer(r)
  PROVE  Types'
  <1> USE DEF Types, tableVars, procVars, hubVars, budget
  <1>0. overlapped' \in BOOLEAN
    BY Zenon DEF ProcTypes, StartRefresh, StartTimer
  <1>1. CASE StartRefresh(r)
    <2>1. "channels" \in Labels \ Inserting /\ "channels" \notin AtChannel
      BY DEF Labels, Inserting, AtChannel
    <2>2. RunTypes'
      BY <1>1, <2>1, BecameTypes DEF StartRefresh
    <2> QED
      BY <1>0, <1>1, <2>2 DEF StartRefresh, TableTypes, HubTypes, ProcTypes
  <1>2. CASE StartTimer(r)
    <2>1. PICK c \in Channels : chan' = [chan EXCEPT ![r] = c]
      BY <1>2 DEF StartTimer, HubTypes
    <2>2. "discover" \in Labels \ Inserting
      BY DEF Labels, Inserting
    <2>3. RunTypes'
      BY <1>2, <2>1, <2>2 DEF StartTimer, RunTypes, Goto
    <2> QED
      BY <1>0, <1>2, <2>3 DEF StartTimer, TableTypes, HubTypes, ProcTypes
  <1> QED
    BY <1>1, <1>2

(* A run throws. *)
LEMMA ThrowTypes ==
  ASSUME Types, Throw, existSent' \subseteq Channels, faults' \in Nat, crashes' \in Nat
  PROVE  Types'
  <1>1. RunTypes'
    BY ForgottenTypes DEF Throw, BeginShutDown
  <1>2. leaving' = hubs /\ closing' = TRUE
    BY DEF Throw, BeginShutDown
  <1> QED
    BY <1>1, <1>2 DEF Types, Throw, TableTypes, HubTypes, ProcTypes, tableVars

(* A run looks for channels, and is at the first of them. *)
LEMMA SearchTypes ==
  ASSUME Types, NEW r \in Runs, QueryChannels(r) \/ NewChannel(r) \/ ChannelDone(r)
  PROVE  Types'
  <1> USE DEF Types, tableVars, AtRun, budget
  <1>1. CASE QueryChannels(r)
    <2>1. RunTypes' /\ ready' \in BOOLEAN /\ connecting' \in [Channels -> Nat]
      BY <1>1, NextQueriedTypes DEF QueryChannels, ProcTypes, HubTypes
    <2> QED
      BY <1>1, <2>1 DEF QueryChannels, TableTypes, HubTypes, ProcTypes
  <1>2. CASE NewChannel(r)
    <2>1. chan[r] \in Channels /\ queried[r] \in SUBSET Channels
      BY <1>2 DEF NewChannel, Running, RunTypes, Labels, AtChannel
    <2>2. channels' \in Seq(Channels)
      BY <1>2, <2>1, AppendTypes DEF NewChannel
    <2>3. RunTypes' /\ ready' \in BOOLEAN /\ connecting' \in [Channels -> Nat]
      BY <1>2, <2>1, <2>2, NextQueriedTypes DEF NewChannel, ProcTypes, HubTypes
    <2> QED
      BY <1>2, <2>2, <2>3 DEF NewChannel, TableTypes, HubTypes, ProcTypes
  <1>3. CASE ChannelDone(r)
    <2>1. RunTypes' /\ ready' \in BOOLEAN /\ connecting' \in [Channels -> Nat]
      BY <1>3, NextChannelTypes DEF ChannelDone, ProcTypes, HubTypes
    <2> QED
      BY <1>3, <2>1 DEF ChannelDone, TableTypes, HubTypes, ProcTypes
  <1> QED
    BY <1>1, <1>2, <1>3

(* A run saves the channel it is at. *)
LEMMA ChannelTypes ==
  ASSUME Types, NEW r \in Runs,
         \/ GenesisBlock(r) \/ GetChannel(r) \/ ExistChannel(r)
         \/ SaveChannelCount(r) \/ SaveChannelInsert(r) \/ SaveChannelUpdate(r)
  PROVE  Types'
  <1> USE DEF tableVars, AtRun, budget
  <1>1. /\ {"getChannel", "existChannel", "discover", "saveCount", "saveInsert", "saveUpdate"}
             \subseteq Labels \ Inserting
        /\ {"genesis", "getChannel", "existChannel", "saveCount", "saveInsert", "saveUpdate"}
             \subseteq AtChannel
    BY DEF Labels, Inserting, AtChannel
  <1>2. chan[r] \in Channels
    BY <1>1 DEF Types, RunTypes, GenesisBlock, GetChannel, ExistChannel, SaveChannelCount,
                SaveChannelInsert, SaveChannelUpdate, Running
  <1>3. CASE GenesisBlock(r) \/ GetChannel(r) \/ SaveChannelCount(r)
    <2>1. PICK label \in Labels \ Inserting : Became(r, label)
      BY <1>1, <1>3 DEF GenesisBlock, GetChannel, SaveChannelCount
    <2>2. RunTypes'
      BY <1>2, <2>1, BecameTypes DEF Types
    <2> QED
      BY <1>3, <2>2 DEF GenesisBlock, GetChannel, SaveChannelCount, Types, TableTypes, HubTypes,
                        ProcTypes
  <1>4. CASE ExistChannel(r)
    <2>1. CASE rows[ChannelRow(chan[r])] = 0 /\ chan[r] \notin StaleChannels
      <3>1. RunTypes'
        BY <1>1, <1>2, <1>4, <2>1, BecameTypes DEF ExistChannel, Types
      <3> QED
        BY <1>4, <2>1, <3>1 DEF ExistChannel, Types, TableTypes, HubTypes, ProcTypes
    <2>2. CASE ~(rows[ChannelRow(chan[r])] = 0 /\ chan[r] \notin StaleChannels)
      <3>1. Throw /\ existSent' = existSent \cup {chan[r]} /\ UNCHANGED <<faults, crashes>>
        BY <1>4, <2>2 DEF ExistChannel
      <3> QED
        BY <1>2, <3>1, ThrowTypes DEF Types, TableTypes, ProcTypes
    <2> QED
      BY <2>1, <2>2
  <1>5. CASE SaveChannelInsert(r) \/ SaveChannelUpdate(r)
    <2>1. RunTypes'
      BY <1>1, <1>2, <1>5, BecameTypes DEF SaveChannelInsert, SaveChannelUpdate, Types
    <2>2. TableTypes'
      BY <1>2, <1>5, RowKinds DEF SaveChannelInsert, SaveChannelUpdate, Types, TableTypes
    <2> QED
      BY <1>5, <2>1, <2>2 DEF SaveChannelInsert, SaveChannelUpdate, Types, HubTypes, ProcTypes
  <1> QED
    BY <1>3, <1>4, <1>5

(* A run saves what discovery has brought. *)
LEMMA DiscoveryTypes ==
  ASSUME Types, NEW r \in Runs,
         Discover(r) \/ InstantiatedChaincodes(r) \/ SaveCount(r) \/ SaveInsert(r)
  PROVE  Types'
  <1> USE DEF tableVars, AtRun, budget
  <1>1. /\ {"nodes", "codes", "nodeInsert", "codeInsert"} \subseteq Labels
        /\ {"discover", "nodes", "codes", "nodeInsert", "codeInsert"} \subseteq AtChannel
        /\ "nodes" \notin Inserting /\ "codes" \notin Inserting
        /\ Inserting = {"nodeInsert", "codeInsert"}
    BY DEF Labels, Inserting, AtChannel
  <1>2. chan[r] \in Channels
    BY <1>1 DEF Types, RunTypes, Discover, InstantiatedChaincodes, SaveCount, SaveInsert, Running
  <1>3. CASE Discover(r)
    <2>1. /\ \A h \in Hosts : {PeerRow(chan[r], h), PeerRefRow(chan[r], h)} \subseteq Discovered
          /\ PeersOf[chan[r]] \cup OrderersOf[chan[r]] \subseteq Hosts
      BY <1>2, RowKinds, ChannelAssumption
    <2>2. DiscoveredRows(chan[r], PeersOf[chan[r]] \cup OrderersOf[chan[r]]) \subseteq Discovered
      BY <2>1 DEF DiscoveredRows
    <2>3. /\ todo' \in [Runs -> SUBSET Discovered] /\ found' \in [Runs -> SUBSET Hosts]
          /\ faults' \in Nat /\ crashes' \in Nat
      <3>1. CASE /\ found' = [found EXCEPT ![r] = PeersOf[chan[r]]]
                 /\ todo' = [todo EXCEPT ![r] =
                      DiscoveredRows(chan[r], PeersOf[chan[r]] \cup OrderersOf[chan[r]])]
                 /\ UNCHANGED budget
        BY <2>1, <2>2, <3>1 DEF Types, RunTypes, ProcTypes
      <3>2. CASE Fault("discover") /\ found' = [found EXCEPT ![r] = {}] /\ UNCHANGED todo
        BY <3>2, FaultTypes DEF Types, RunTypes
      <3> QED
        BY <1>3, <3>1, <3>2 DEF Discover, GetDiscoveryResult
    <2>4. RunTypes'
      BY <1>1, <1>2, <1>3, <2>3 DEF Discover, Goto, Types, RunTypes
    <2> QED
      BY <1>3, <2>3, <2>4 DEF Discover, Types, TableTypes, HubTypes, ProcTypes
  <1>4. CASE InstantiatedChaincodes(r)
    <2>1. ChaincodeRows(chan[r], found[r]) \subseteq Discovered
      <3>1. found[r] \subseteq Hosts
        BY DEF Types, RunTypes
      <3> QED
        BY <1>2, <3>1, RowKinds DEF ChaincodeRows
    <2>2. RunTypes'
      BY <1>1, <1>2, <1>4, <2>1 DEF InstantiatedChaincodes, Goto, Types, RunTypes
    <2> QED
      BY <1>4, <2>2 DEF InstantiatedChaincodes, Types, TableTypes, HubTypes, ProcTypes
  <1>5. CASE SaveCount(r)
    <2>1. PICK k \in todo[r] :
            /\ todo' = [todo EXCEPT ![r] = @ \ {k}]
            /\ \/ UNCHANGED <<pc, key>>
               \/ /\ key' = [key EXCEPT ![r] = k]
                  /\ pc' = [pc EXCEPT ![r] = IF pc[r] = "nodes" THEN "nodeInsert" ELSE "codeInsert"]
      BY <1>5 DEF SaveCount, Savable, Goto
    <2>2. k \in Discovered
      BY <2>1 DEF Types, RunTypes
    <2>3. RunTypes'
      BY <1>1, <1>2, <1>5, <2>1, <2>2 DEF SaveCount, Types, RunTypes
    <2> QED
      BY <1>5, <2>3 DEF SaveCount, Types, TableTypes, HubTypes, ProcTypes
  <1>6. CASE SaveInsert(r)
    <2>1. key[r] \in Keys
      BY <1>1, <1>6 DEF SaveInsert, Running, Types, RunTypes, Discovered
    <2>2. pc' = [pc EXCEPT ![r] = IF pc[r] = "nodeInsert" THEN "nodes" ELSE "codes"]
      BY <1>6 DEF SaveInsert, Goto
    <2>3. RunTypes'
      BY <1>1, <1>2, <1>6, <2>2 DEF SaveInsert, Types, RunTypes
    <2> QED
      BY <1>6, <2>1, <2>3 DEF SaveInsert, Types, TableTypes, HubTypes, ProcTypes
  <1> QED
    BY <1>3, <1>4, <1>5, <1>6

LEMMA FailTypes ==
  ASSUME Types, NEW r \in Runs, RunFails(r)
  PROVE  Types'
  <1>1. faults' \in Nat /\ crashes' \in Nat
    BY FaultTypes DEF RunFails, Types
  <1> QED
    BY <1>1, ThrowTypes DEF RunFails, Types, TableTypes

(* The listeners, and the blocks they store. *)
LEMMA ListenerTypes ==
  ASSUME Types, NEW c \in Channels, Hub(c) \/ StoreBlock(c)
  PROVE  Types'
  <1> USE DEF tableVars, AtRun, budget, runVars, procVars, hubVars
  <1>1. RunTypes'
    BY DEF Types, RunTypes, Hub, HubTick, Connected, Disconnect, StoreBlock
  <1>2. CASE HubTick(c)
    BY <1>1, <1>2 DEF HubTick, Types, TableTypes, HubTypes, ProcTypes
  <1>3. CASE Connected(c)
    <2>1. faults' \in Nat /\ crashes' \in Nat
      BY <1>3, FaultTypes DEF Connected, Types, ProcTypes
    <2>2. HubTypes'
      BY <1>3 DEF Connected, Types, HubTypes
    <2> QED
      BY <1>1, <1>3, <2>1, <2>2 DEF Connected, Types, TableTypes, ProcTypes
  <1>4. CASE Disconnect(c)
    BY <1>1, <1>4 DEF Disconnect, Types, TableTypes, HubTypes, ProcTypes
  <1>5. CASE StoreBlock(c)
    BY <1>1, <1>5 DEF StoreBlock, Types, TableTypes, HubTypes, ProcTypes
  <1> QED
    BY <1>2, <1>3, <1>4, <1>5 DEF Hub

LEMMA StepTypes == Types /\ [Next]_vars => Types'
  <1> SUFFICES ASSUME Types, [Next]_vars PROVE Types'
    OBVIOUS
  <1>1. CASE UNCHANGED vars
    BY <1>1 DEF vars, procVars, runVars, tableVars, hubVars, budget, Types, RunTypes, TableTypes,
                HubTypes, ProcTypes
  <1>2. CASE Boot \/ ShutDown \/ Exit \/ (\E c \in Channels : Join(c))
    BY <1>2, ProcessTypes
  <1>3. CASE StartUp
    BY <1>3, StartUpTypes
  <1>4. CASE (\E r \in Refreshes : StartRefresh(r)) \/ (\E r \in Timers : StartTimer(r))
    BY <1>4, StartTypes DEF Runs
  <1>5. ASSUME NEW r \in Runs, Advance(r) \/ RunFails(r) PROVE Types'
    BY <1>5, SearchTypes, ChannelTypes, DiscoveryTypes, FailTypes DEF Advance
  <1>6. CASE \E c \in Channels : Hub(c) \/ StoreBlock(c)
    BY <1>6, ListenerTypes
  <1> QED
    BY <1>1, <1>2, <1>3, <1>4, <1>5, <1>6 DEF Next

(* Every variable keeps its range, whatever fails, crashes or overlaps. *)
THEOREM TypeCorrect == Spec => []TypeOK
  BY InitTypes, StepTypes, TypesSuffice, PTL DEF Spec

-----------------------------------------------------------------------------
(* The invariants. *)

(* Runs are under way while the process lives and is not closing; until the start-up's    *)
(* has returned there is no other, and while it asks for channels none is listed that it  *)
(* has still to list.                                                                     *)
LifeInv ==
  /\ ~alive \/ closing => \A r \in Runs : pc[r] = "idle"
  /\ ~alive => channels = <<>> /\ ~ready /\ ~closing
  /\ ready => pc[Start] = "idle"
  /\ \A r \in Runs : Busy(r) /\ r # Start => ready
  /\ \A r \in Runs : pc[r] \in {"client", "clientNew"} => r = Start
  /\ pc[Start] = "client" => channels = <<>>
  /\ pc[Start] = "clientNew" => queried[Start] \cap Listed = {}

(* Only a channel that existChannel has not found is saved. *)
HashInv ==
  /\ \A r \in Runs : pc[r] \in {"saveCount", "saveInsert"} => chan[r] \notin StaleChannels
  /\ OneHashPerName

(* Runs that do not overlap: what a run has read is still so. *)
AloneInv ==
  ~overlapped =>
    /\ \A r, s \in Runs : Busy(r) /\ Busy(s) => r = s
    /\ \A r \in Runs :
         /\ pc[r] \in {"existChannel", "saveCount", "saveInsert"} => rows[ChannelRow(chan[r])] = 0
         /\ pc[r] # "saveUpdate"
         /\ pc[r] \in Inserting => rows[key[r]] = 0
         /\ pc[r] = "new" => chan[r] \notin Listed
    /\ existSent \subseteq StaleChannels
    /\ \A k \in Keys : rows[k] <= 1
    /\ \A i, j \in DOMAIN channels : channels[i] = channels[j] => i = j

PendingRow(k) ==
  {r \in Runs : \/ pc[r] \in Inserting /\ key[r] = k
                \/ pc[r] = "saveInsert" /\ ChannelRow(chan[r]) = k}
PendingName(c) == {r \in Runs : pc[r] = "new" /\ chan[r] = c}

CountInv ==
  /\ \A k \in Keys : rows[k] + Cardinality(PendingRow(k)) <= Cardinality(Runs)
  /\ \A c \in Channels : Occurrences(c) + Cardinality(PendingName(c)) <= Cardinality(Runs)

(* Row k refers to row j, which the same run saves before, or has saved when it was at    *)
(* the peers.                                                                             *)
RefersTo(k, j) == SavedBefore(j, k) /\ j[2] = k[2]
RefersToPeer(k, j) ==
  k[1] = "peer_ref_chaincode" /\ j[1] = "peer_ref_channel" /\ j[2] = k[2] /\ j[3] = k[3]
Needs(k, j) == RefersTo(k, j) \/ RefersToPeer(k, j)

Settled(r, j) ==
  j \in todo[r] \/ rows[j] > 0 \/ (pc[r] \in Inserting /\ key[r] = j)

RefRows == \A k, j \in Keys : Needs(k, j) /\ rows[k] > 0 => rows[j] > 0

RefRun(r) ==
  /\ \A k \in todo[r], j \in Keys :
       /\ RefersTo(k, j) => Settled(r, j)
       /\ RefersToPeer(k, j) => rows[j] > 0
  /\ pc[r] \in Inserting => \A j \in Keys : Needs(key[r], j) => rows[j] > 0
  /\ pc[r] \in {"nodes", "nodeInsert"} =>
       \A h \in found[r] : Settled(r, PeerRefRow(chan[r], h))

RefInv == RefRows /\ \A r \in Runs : RefRun(r)

-----------------------------------------------------------------------------
(* What a step leaves alone. *)

(* The other runs stay where they are. *)
OthersStay(r) ==
  \A s \in Runs : s # r =>
    /\ pc'[s] = pc[s] /\ queried'[s] = queried[s] /\ chan'[s] = chan[s]
    /\ found'[s] = found[s] /\ todo'[s] = todo[s] /\ key'[s] = key[s]

RunsStay == UNCHANGED <<pc, queried, chan, found, todo, key>>

LEMMA BecameStays ==
  ASSUME Types, NEW r \in Runs, NEW label, Became(r, label)
  PROVE  /\ OthersStay(r)
         /\ pc'[r] = label /\ UNCHANGED <<queried, chan, found, todo, key>>
  BY DEF Types, RunTypes, Became, Goto, OthersStay

LEMMA ReturnStays ==
  ASSUME Types, NEW r \in Runs, Return(r)
  PROVE  OthersStay(r) /\ pc'[r] = "idle" /\ todo'[r] = {} /\ found'[r] = {}
         /\ (r # Start => UNCHANGED ready)
  BY DEF Types, RunTypes, Return, OthersStay

LEMMA NextChannelStays ==
  ASSUME Types, NEW r \in Runs, NEW list, NextChannel(r, list)
  PROVE  /\ OthersStay(r)
         /\ \/ pc'[r] = "idle" /\ todo'[r] = {} /\ found'[r] = {} /\ (r # Start => UNCHANGED ready)
            \/ pc'[r] = "genesis" /\ UNCHANGED <<todo, found, ready>>
  <1>1. CASE r \notin Timers /\ at[r] < Len(list)
    <2>1. /\ pc' = [pc EXCEPT ![r] = "genesis"]
          /\ chan' = [chan EXCEPT ![r] = list[at[r] + 1]]
          /\ UNCHANGED <<queried, found, todo, key, ready>>
      BY <1>1 DEF NextChannel, Goto
    <2> QED
      BY <2>1 DEF Types, RunTypes, OthersStay
  <1>2. CASE ~(r \notin Timers /\ at[r] < Len(list))
    BY <1>2, ReturnStays DEF NextChannel
  <1> QED
    BY <1>1, <1>2

LEMMA NextQueriedStays ==
  ASSUME Types, NEW r \in Runs, NEW list, NEW left, NextQueried(r, left, list)
  PROVE  /\ OthersStay(r)
         /\ \/ pc'[r] = "idle" /\ todo'[r] = {} /\ found'[r] = {} /\ (r # Start => UNCHANGED ready)
            \/ pc'[r] = "genesis" /\ UNCHANGED <<todo, found, ready>>
            \/ /\ pc'[r] = "new" /\ UNCHANGED <<todo, found, ready>>
               /\ chan'[r] \notin {list[i] : i \in 1 .. Len(list)}
  <1> DEFINE unlisted == left \ {list[i] : i \in 1 .. Len(list)}
  <1>1. CASE unlisted # {}
    <2>1. PICK c \in unlisted :
            /\ pc' = [pc EXCEPT ![r] = "new"]
            /\ chan' = [chan EXCEPT ![r] = c]
            /\ queried' = [queried EXCEPT ![r] = left \ {c}]
            /\ UNCHANGED <<found, todo, key, ready>>
      BY <1>1 DEF NextQueried, Goto
    <2>2. OthersStay(r) /\ pc'[r] = "new" /\ chan'[r] = c
      BY <2>1 DEF Types, RunTypes, OthersStay
    <2> QED
      BY <2>1, <2>2
  <1>2. CASE unlisted = {}
    BY <1>2, NextChannelStays DEF NextQueried
  <1> QED
    BY <1>1, <1>2

(* Every run stops. *)
LEMMA Stopped ==
  ASSUME ForgetRuns
  PROVE  \A r \in Runs : pc'[r] = "idle" /\ todo'[r] = {} /\ found'[r] = {}
  BY DEF ForgetRuns

-----------------------------------------------------------------------------
(* The life of the process. *)

LEMMA InitLife == Init => LifeInv
  BY DEF Init, LifeInv, Busy, Runs

LEMMA StepLife ==
  ASSUME Types, LifeInv, [Next]_vars
  PROVE  LifeInv'
  <1> USE DEF procVars, hubVars, budget, tableVars, AtRun
  <1>0. Start \in Runs /\ \A r \in Refreshes \cup Timers : r \in Runs /\ r # Start
    BY RunsAssumption DEF Runs
  <1>1. CASE UNCHANGED vars
    BY <1>1 DEF vars, runVars, LifeInv, Busy, Listed
  <1>2. CASE \E c \in Channels : Join(c) \/ Hub(c) \/ StoreBlock(c)
    BY <1>2 DEF Join, Hub, HubTick, Connected, Disconnect, StoreBlock, runVars, LifeInv, Busy, Listed
  <1>3. CASE Boot
    <2>1. OthersStay(Start) /\ pc'[Start] = "client"
      BY <1>0, <1>3, BecameStays DEF Boot
    <2> QED
      BY <1>0, <1>3, <2>1 DEF Boot, OthersStay, LifeInv, Busy
  <1>4. CASE ShutDown
    <2>1. \A r \in Runs : pc'[r] = "idle"
      BY <1>4, Stopped DEF ShutDown, BeginShutDown
    <2> QED
      BY <1>0, <1>4, <2>1 DEF ShutDown, LifeInv, Busy
  <1>5. CASE Exit
    <2>1. \A r \in Runs : pc'[r] = "idle"
      BY <1>5, Stopped DEF Exit
    <2> QED
      BY <1>0, <1>5, <2>1 DEF Exit, LifeInv, Busy
  <1>6. CASE Throw /\ alive
    <2>1. \A r \in Runs : pc'[r] = "idle"
      BY <1>6, Stopped DEF Throw, BeginShutDown
    <2> QED
      BY <1>0, <1>6, <2>1 DEF Throw, LifeInv, Busy
  <1>7. CASE StartUp
    <2>1. CASE ClientChannels
      <3>1. CASE queried' = [queried EXCEPT ![Start] = joined] /\ Goto(Start, "clientNew")
        <4>1. pc'[Start] = "clientNew" /\ \A s \in Runs : s # Start => pc'[s] = pc[s]
          BY <1>0, <3>1 DEF Types, RunTypes, Goto
        <4>2. channels' = <<>> /\ UNCHANGED <<alive, closing, ready>>
          BY <2>1 DEF ClientChannels, Running, LifeInv
        <4>3. Listed' = {}
          BY <4>2 DEF Listed
        <4> QED
          BY <1>0, <2>1, <4>1, <4>2, <4>3 DEF ClientChannels, Running, LifeInv, Busy
      <3>2. CASE Became(Start, "channels")
        <4>1. OthersStay(Start) /\ pc'[Start] = "channels"
          BY <1>0, <3>2, BecameStays
        <4> QED
          BY <1>0, <2>1, <4>1 DEF ClientChannels, Running, OthersStay, LifeInv, Busy
      <3> QED
        BY <2>1, <3>1, <3>2 DEF ClientChannels
    <2>2. CASE ClientNewChannel
      <3>1. PICK c \in queried[Start] :
              /\ queried' = [queried EXCEPT ![Start] = @ \ {c}]
              /\ InitializeNewChannel(c) \/ UNCHANGED channels
              /\ UNCHANGED <<alive, closing, ready, pc>>
        BY <2>2 DEF ClientNewChannel
      <3>2. queried'[Start] = queried[Start] \ {c} /\ c \in Channels
        BY <1>0, <3>1 DEF Types, RunTypes
      <3>3. Listed' \subseteq Listed \cup {c}
        BY <3>1, <3>2, AppendTypes DEF Types, Listed
      <3>4. alive /\ ~closing /\ pc[Start] = "clientNew"
        BY <2>2 DEF ClientNewChannel, Running
      <3> QED
        BY <3>1, <3>2, <3>3, <3>4 DEF LifeInv, Busy
    <2>3. CASE ClientDone
      <3>1. OthersStay(Start) /\ pc'[Start] = "channels"
        BY <1>0, <2>3, BecameStays DEF ClientDone
      <3> QED
        BY <1>0, <2>3, <3>1 DEF ClientDone, Running, OthersStay, LifeInv, Busy
    <2> QED
      BY <1>7, <2>1, <2>2, <2>3 DEF StartUp
  <1>8. ASSUME NEW r \in Refreshes, StartRefresh(r) PROVE LifeInv'
    <2>1. OthersStay(r) /\ pc'[r] = "channels"
      BY <1>0, <1>8, BecameStays DEF StartRefresh
    <2> QED
      BY <1>0, <1>8, <2>1 DEF StartRefresh, OthersStay, LifeInv, Busy
  <1>9. ASSUME NEW r \in Timers, StartTimer(r) PROVE LifeInv'
    <2>1. pc'[r] = "discover" /\ \A s \in Runs : s # r => pc'[s] = pc[s]
      BY <1>0, <1>9 DEF StartTimer, Goto, Types, RunTypes
    <2> QED
      BY <1>0, <1>9, <2>1 DEF StartTimer, LifeInv, Busy
  <1>10. ASSUME NEW r \in Runs, Advance(r) PROVE LifeInv'
    <2>1. /\ alive /\ ~closing /\ Busy(r)
          /\ ~Throw => UNCHANGED <<alive, closing>>
          /\ pc[r] \notin {"client", "clientNew"}
      BY <1>10 DEF Advance, QueryChannels, NewChannel, GenesisBlock, GetChannel, ExistChannel,
                   SaveChannelCount, SaveChannelInsert, SaveChannelUpdate, Discover,
                   InstantiatedChaincodes, SaveCount, SaveInsert, ChannelDone, Running, Busy
    <2>2. ASSUME ~Throw
          PROVE  /\ OthersStay(r)
                 /\ pc'[r] \notin {"client", "clientNew"}
                 /\ UNCHANGED ready \/ (r = Start /\ pc'[r] = "idle")
      <3>1. CASE QueryChannels(r) \/ NewChannel(r)
        BY <3>1, NextQueriedStays DEF QueryChannels, NewChannel
      <3>2. CASE ChannelDone(r)
        BY <3>2, NextChannelStays DEF ChannelDone
      <3>3. CASE \/ GenesisBlock(r) \/ GetChannel(r) \/ ExistChannel(r) \/ SaveChannelCount(r)
                 \/ SaveChannelInsert(r) \/ SaveChannelUpdate(r)
        <4>1. PICK label \in {"getChannel", "existChannel", "discover", "saveCount", "saveInsert",
                              "saveUpdate"} : Became(r, label) /\ UNCHANGED ready
          BY <2>2, <3>3 DEF GenesisBlock, GetChannel, ExistChannel, SaveChannelCount, SaveChannelInsert,
                      SaveChannelUpdate
        <4> QED
          BY <4>1, BecameStays
      <3>4. CASE Discover(r) \/ InstantiatedChaincodes(r) \/ SaveCount(r) \/ SaveInsert(r)
        BY <2>1, <3>4 DEF Discover, GetDiscoveryResult, InstantiatedChaincodes, SaveCount, SaveInsert, Goto,
                    Types, RunTypes, OthersStay
      <3> QED
        BY <1>10, <3>1, <3>2, <3>3, <3>4 DEF Advance
    <2>3. CASE Throw
      BY <1>6, <2>1, <2>3
    <2>4. CASE ~Throw
      <3>1. OthersStay(r) /\ alive' /\ ~closing' /\ pc'[r] \notin {"client", "clientNew"}
        BY <2>1, <2>2, <2>4
      <3>2. CASE r = Start
        <4>1. ~ready
          BY <2>1, <3>2 DEF LifeInv, Busy
        <4> QED
          BY <1>0, <2>1, <2>2, <2>4, <3>1, <3>2, <4>1 DEF OthersStay, LifeInv, Busy
      <3>3. CASE r # Start
        <4>1. ready /\ pc[Start] = "idle" /\ pc'[Start] = "idle" /\ UNCHANGED ready
          BY <1>0, <2>1, <2>2, <2>4, <3>1, <3>3 DEF OthersStay, LifeInv, Busy
        <4> QED
          BY <1>0, <3>1, <3>3, <4>1 DEF OthersStay, LifeInv, Busy
      <3> QED
        BY <3>2, <3>3
    <2> QED
      BY <2>3, <2>4
  <1>11. ASSUME NEW r \in Runs, RunFails(r) PROVE LifeInv'
    BY <1>6, <1>11 DEF RunFails
  <1> QED
    BY <1>1, <1>2, <1>3, <1>4, <1>5, <1>7, <1>8, <1>9, <1>10, <1>11 DEF Next

-----------------------------------------------------------------------------
(* The kinds of steps, by what they do to runs and rows. *)

(* Nothing that the invariants speak of. *)
Quiet == RunsStay /\ UNCHANGED <<rows, channels, overlapped, existSent>>

(* All runs stop, because one has thrown, perhaps after it told the parent of a channel. *)
Halt ==
  /\ \A r \in Runs : pc'[r] = "idle" /\ todo'[r] = {} /\ found'[r] = {}
  /\ UNCHANGED <<rows, overlapped>>
  /\ channels' \in {channels, <<>>}
  /\ \/ UNCHANGED existSent
     \/ \E r \in Runs :
          /\ pc[r] = "existChannel"
          /\ rows[ChannelRow(chan[r])] # 0 \/ chan[r] \in StaleChannels
          /\ existSent' = existSent \cup {chan[r]}

(* A run starts. *)
Begin(r) ==
  /\ OthersStay(r)
  /\ pc[r] = "idle" /\ pc'[r] \in {"client", "channels", "discover"}
  /\ UNCHANGED <<rows, channels, existSent, todo>>
  /\ overlapped' \/ ((\A s \in Runs : pc[s] = "idle") /\ UNCHANGED overlapped)

(* The start-up lists the channels it has been told of. *)
Look ==
  /\ OthersStay(Start)
  /\ pc[Start] \in {"client", "clientNew"} /\ pc'[Start] \in {"clientNew", "channels"}
  /\ UNCHANGED <<rows, overlapped, existSent, todo>>
  /\ \/ UNCHANGED channels
     \/ \E c \in queried[Start] : pc[Start] = "clientNew" /\ InitializeNewChannel(c)

(* A run goes to the next channel, or returns. *)
Search(r) ==
  /\ OthersStay(r)
  /\ pc[r] \in {"channels", "new", "codes"} /\ pc'[r] \in {"idle", "genesis", "new"}
  /\ todo'[r] \in {{}, todo[r]}
  /\ UNCHANGED <<rows, overlapped, existSent>>
  /\ \/ pc[r] # "new" /\ UNCHANGED channels
     \/ pc[r] = "new" /\ InitializeNewChannel(chan[r])
  /\ pc'[r] = "new" => chan'[r] \notin Listed'

(* A run is at the statements of its channel. *)
Statement(r) ==
  /\ UNCHANGED <<queried, chan, found, todo, key, channels, overlapped, existSent>>
  /\ OthersStay(r)
  /\ pc'[r] \in {"getChannel", "existChannel", "saveCount", "saveInsert", "saveUpdate", "discover"}
  /\ \/ /\ pc[r] \in {"genesis", "getChannel", "existChannel", "saveCount", "saveUpdate"}
        /\ pc'[r] \in {"existChannel", "saveInsert"} => rows[ChannelRow(chan[r])] = 0
        /\ pc'[r] = "saveInsert" => pc[r] = "saveCount"
        /\ pc'[r] = "saveUpdate" => pc[r] = "saveCount" /\ rows[ChannelRow(chan[r])] # 0
        /\ pc'[r] = "saveCount" =>
             /\ pc[r] = "existChannel"
             /\ rows[ChannelRow(chan[r])] = 0 /\ chan[r] \notin StaleChannels
        /\ UNCHANGED rows
     \/ /\ pc[r] = "saveInsert" /\ pc'[r] = "discover"
        /\ rows' = [rows EXCEPT ![ChannelRow(chan[r])] = @ + 1]

(* A run is at what discovery has brought. *)
Discovery(r) == Discover(r) \/ InstantiatedChaincodes(r) \/ SaveCount(r) \/ SaveInsert(r)

LEMMA AdvanceShape ==
  ASSUME Types, NEW r \in Runs, Advance(r)
  PROVE  Halt \/ Search(r) \/ Statement(r) \/ Discovery(r)
  <1> USE DEF tableVars, AtRun
  <1>1. CASE QueryChannels(r)
    <2>1. /\ OthersStay(r) /\ pc[r] = "channels" /\ pc'[r] \in {"idle", "genesis", "new"}
          /\ todo'[r] \in {{}, todo[r]} /\ UNCHANGED <<rows, overlapped, existSent, channels>>
          /\ pc'[r] = "new" => chan'[r] \notin Listed
      BY <1>1, NextQueriedStays DEF QueryChannels, Running, Listed
    <2> QED
      BY <2>1 DEF Search, Listed
  <1>2. CASE NewChannel(r)
    <2>1. /\ OthersStay(r) /\ pc[r] = "new" /\ pc'[r] \in {"idle", "genesis", "new"}
          /\ todo'[r] \in {{}, todo[r]} /\ UNCHANGED <<rows, overlapped, existSent>>
          /\ InitializeNewChannel(chan[r])
          /\ pc'[r] = "new" => chan'[r] \notin Listed'
      BY <1>2, NextQueriedStays DEF NewChannel, Running, Listed
    <2> QED
      BY <2>1 DEF Search
  <1>3. CASE ChannelDone(r)
    <2>1. /\ OthersStay(r) /\ pc[r] = "codes" /\ pc'[r] \in {"idle", "genesis"}
          /\ todo'[r] \in {{}, todo[r]} /\ UNCHANGED <<rows, overlapped, existSent, channels>>
      BY <1>3, NextChannelStays DEF ChannelDone, Running
    <2> QED
      BY <2>1 DEF Search
  <1>4. CASE ExistChannel(r) /\ ~(rows[ChannelRow(chan[r])] = 0 /\ chan[r] \notin StaleChannels)
    <2>1. /\ pc[r] = "existChannel" /\ existSent' = existSent \cup {chan[r]} /\ ForgetRuns
          /\ UNCHANGED <<rows, overlapped, channels>>
      BY <1>4 DEF ExistChannel, Running, Throw, BeginShutDown
    <2> QED
      BY <1>4, <2>1, Stopped DEF Halt
  <1>5. CASE ExistChannel(r) /\ rows[ChannelRow(chan[r])] = 0 /\ chan[r] \notin StaleChannels
    <2>1. Became(r, "saveCount") /\ pc[r] = "existChannel"
          /\ UNCHANGED <<rows, channels, overlapped, existSent>>
      BY <1>5 DEF ExistChannel, Running
    <2> QED
      BY <1>5, <2>1, BecameStays DEF Statement
  <1>6. CASE GenesisBlock(r) \/ GetChannel(r) \/ SaveChannelCount(r) \/ SaveChannelUpdate(r)
    <2>1. PICK label :
            /\ Became(r, label)
            /\ UNCHANGED <<rows, channels, overlapped, existSent>>
            /\ \/ pc[r] = "genesis" /\ label = "getChannel"
               \/ /\ pc[r] = "getChannel"
                  /\ label = IF rows[ChannelRow(chan[r])] = 0 THEN "existChannel" ELSE "discover"
               \/ /\ pc[r] = "saveCount"
                  /\ label = IF rows[ChannelRow(chan[r])] = 0 THEN "saveInsert" ELSE "saveUpdate"
               \/ pc[r] = "saveUpdate" /\ label = "discover"
      BY <1>6 DEF GenesisBlock, GetChannel, SaveChannelCount, SaveChannelUpdate, Running
    <2> QED
      BY <2>1, BecameStays DEF Statement
  <1>7. CASE SaveChannelInsert(r)
    <2>1. /\ Became(r, "discover") /\ pc[r] = "saveInsert"
          /\ rows' = [rows EXCEPT ![ChannelRow(chan[r])] = @ + 1]
          /\ UNCHANGED <<channels, overlapped, existSent>>
      BY <1>7 DEF SaveChannelInsert, Running
    <2> QED
      BY <2>1, BecameStays DEF Statement
  <1> QED
    BY <1>1, <1>2, <1>3, <1>4, <1>5, <1>6, <1>7 DEF Advance, Discovery

LEMMA StepShape ==
  ASSUME Types, LifeInv, [Next]_vars
  PROVE  \/ Quiet \/ Halt \/ Look
         \/ \E r \in Runs : Begin(r) \/ Search(r) \/ Statement(r) \/ Discovery(r)
  <1> USE DEF procVars, hubVars, budget, tableVars, AtRun
  <1>0. Start \in Runs /\ \A r \in Refreshes \cup Timers : r \in Runs
    BY DEF Runs
  <1>1. CASE UNCHANGED vars \/ (\E c \in Channels : Join(c) \/ Hub(c) \/ StoreBlock(c))
    BY <1>1 DEF vars, Join, Hub, HubTick, Connected, Disconnect, StoreBlock, runVars, Quiet, RunsStay
  <1>2. CASE Boot
    BY <1>0, <1>2, BecameStays DEF Boot, Begin, LifeInv
  <1>3. CASE ShutDown
    BY <1>3, Stopped DEF ShutDown, BeginShutDown, Halt
  <1>4. CASE Exit
    BY <1>4, Stopped DEF Exit, Halt
  <1>5. CASE StartUp
    <2>1. CASE ClientChannels
      <3>1. CASE /\ queried' = [queried EXCEPT ![Start] = joined] /\ Goto(Start, "clientNew")
                 /\ UNCHANGED <<at, chan, found, todo, key>>
        <4>1. OthersStay(Start) /\ pc'[Start] = "clientNew"
          BY <1>0, <3>1 DEF Goto, Types, RunTypes, OthersStay
        <4> QED
          BY <2>1, <3>1, <4>1 DEF ClientChannels, Running, Look
      <3>2. CASE Became(Start, "channels")
        BY <1>0, <2>1, <3>2, BecameStays DEF ClientChannels, Running, Look
      <3> QED
        BY <2>1, <3>1, <3>2 DEF ClientChannels
    <2>2. CASE ClientNewChannel
      <3>1. PICK c \in queried[Start] :
              /\ queried' = [queried EXCEPT ![Start] = @ \ {c}]
              /\ InitializeNewChannel(c) \/ UNCHANGED channels
        BY <2>2 DEF ClientNewChannel
      <3>2. pc[Start] = "clientNew"
            /\ UNCHANGED <<pc, chan, found, todo, key, rows, overlapped, existSent>>
        BY <2>2 DEF ClientNewChannel, Running
      <3>3. OthersStay(Start)
        BY <1>0, <3>1, <3>2 DEF Types, RunTypes, OthersStay
      <3> QED
        BY <3>1, <3>2, <3>3 DEF Look
    <2>3. CASE ClientDone
      BY <1>0, <2>3, BecameStays DEF ClientDone, Running, Look
    <2> QED
      BY <1>5, <2>1, <2>2, <2>3 DEF StartUp
  <1>6. ASSUME NEW r \in Refreshes, StartRefresh(r) PROVE Begin(r)
    <2>1. OthersStay(r) /\ pc'[r] = "channels" /\ UNCHANGED todo
      BY <1>0, <1>6, BecameStays DEF StartRefresh
    <2>2. overlapped' \/ ((\A s \in Runs : pc[s] = "idle") /\ UNCHANGED overlapped)
      BY <1>6 DEF StartRefresh, Busy, Types, ProcTypes
    <2> QED
      BY <1>6, <2>1, <2>2 DEF StartRefresh, Begin
  <1>7. ASSUME NEW r \in Timers, StartTimer(r) PROVE Begin(r)
    <2>1. PICK c \in hubs : chan' = [chan EXCEPT ![r] = c]
      BY <1>7 DEF StartTimer
    <2>2. OthersStay(r) /\ pc'[r] = "discover" /\ UNCHANGED todo
      BY <1>0, <1>7, <2>1 DEF StartTimer, Goto, Types, RunTypes, OthersStay
    <2>3. overlapped' \/ ((\A s \in Runs : pc[s] = "idle") /\ UNCHANGED overlapped)
      BY <1>7 DEF StartTimer, Busy, Types, ProcTypes
    <2> QED
      BY <1>7, <2>2, <2>3 DEF StartTimer, Begin
  <1>8. ASSUME NEW r \in Runs, RunFails(r) PROVE Halt
    BY <1>8, Stopped DEF RunFails, Throw, BeginShutDown, Halt
  <1>9. ASSUME NEW r \in Runs, Advance(r) PROVE Halt \/ Search(r) \/ Statement(r) \/ Discovery(r)
    BY <1>9, AdvanceShape
  <1> QED
    BY <1>0, <1>1, <1>2, <1>3, <1>4, <1>5, <1>6, <1>7, <1>8, <1>9 DEF Next

LEMMA DiscoveryShape ==
  ASSUME Types, NEW r \in Runs, Discovery(r)
  PROVE  /\ OthersStay(r)
         /\ pc[r] \in {"discover", "nodes", "codes", "nodeInsert", "codeInsert"}
         /\ pc'[r] \in {"nodes", "codes", "nodeInsert", "codeInsert"}
         /\ UNCHANGED <<chan, channels, overlapped, existSent>>
         /\ \/ UNCHANGED rows /\ (pc'[r] \in Inserting => rows[key'[r]] = 0)
            \/ /\ pc[r] \in Inserting /\ pc'[r] \notin Inserting /\ key[r] \in Discovered
               /\ rows' = [rows EXCEPT ![key[r]] = @ + 1]
  <1> USE DEF tableVars, AtRun, Inserting
  <1>1. CASE Discover(r)
    BY <1>1 DEF Discover, GetDiscoveryResult, Goto, Running, Types, RunTypes, OthersStay
  <1>2. CASE InstantiatedChaincodes(r)
    BY <1>2 DEF InstantiatedChaincodes, Goto, Running, Types, RunTypes, OthersStay
  <1>3. CASE SaveCount(r)
    <2>1. PICK k \in todo[r] :
            /\ todo' = [todo EXCEPT ![r] = @ \ {k}]
            /\ \/ rows[k] > 0 /\ UNCHANGED <<pc, key>>
               \/ /\ rows[k] = 0
                  /\ key' = [key EXCEPT ![r] = k]
                  /\ pc' = [pc EXCEPT ![r] = IF pc[r] = "nodes" THEN "nodeInsert" ELSE "codeInsert"]
      BY <1>3 DEF SaveCount, Savable, Goto
    <2>2. pc[r] \in {"nodes", "codes"}
          /\ UNCHANGED <<queried, chan, found, rows, channels, overlapped, existSent>>
      BY <1>3 DEF SaveCount, Running
    <2>3. OthersStay(r) /\ pc'[r] \in {"nodes", "codes", "nodeInsert", "codeInsert"}
      BY <2>1, <2>2 DEF Types, RunTypes, OthersStay
    <2>4. pc'[r] \in Inserting => rows[key'[r]] = 0
      BY <2>1, <2>2 DEF Types, RunTypes
    <2> QED
      BY <2>2, <2>3, <2>4
  <1>4. CASE SaveInsert(r)
    BY <1>4 DEF SaveInsert, Goto, Running, Types, RunTypes, OthersStay
  <1> QED
    BY <1>1, <1>2, <1>3, <1>4 DEF Discovery

(* The channel of a run that is at one, and its row. *)
LEMMA ChannelRowFacts ==
  /\ \A c, d \in Channels : ChannelRow(c) = ChannelRow(d) => c = d
  /\ \A c \in Channels : ChannelRow(c) \in Keys /\ ChannelRow(c) \notin Discovered
  /\ Discovered \subseteq Keys
  /\ Types => \A r \in Runs : pc[r] \in AtChannel => chan[r] \in Channels
  /\ {"new", "existChannel", "saveCount", "saveInsert", "saveUpdate"} \subseteq AtChannel
  <1>1. \A c, d \in Channels : ChannelRow(c) = ChannelRow(d) => c = d
    BY DEF ChannelRow
  <1>2. {"new", "existChannel", "saveCount", "saveInsert", "saveUpdate"} \subseteq AtChannel
    BY DEF AtChannel, Labels
  <1> QED
    BY <1>1, <1>2, RowKinds DEF Discovered, Types, RunTypes

-----------------------------------------------------------------------------
(* One genesis hash per name. *)

LEMMA InitHash == Init => HashInv
  BY RowKinds, ChannelAssumption DEF Init, HashInv, OneHashPerName

LEMMA StepHash ==
  ASSUME Types, LifeInv, HashInv, [Next]_vars
  PROVE  HashInv'
  <1>0. StaleChannels \subseteq Channels
    BY ChannelAssumption
  <1>1. CASE Quiet
    BY <1>1 DEF Quiet, RunsStay, HashInv, OneHashPerName
  <1>2. CASE Halt
    BY <1>2 DEF Halt, HashInv, OneHashPerName
  <1>3. CASE Look \/ \E r \in Runs : Begin(r) \/ Search(r)
    <2>1. PICK r \in Runs : /\ OthersStay(r) /\ pc'[r] \notin {"saveCount", "saveInsert"}
                            /\ UNCHANGED rows
      BY <1>3 DEF Look, Begin, Search, Runs
    <2> QED
      BY <2>1 DEF OthersStay, HashInv, OneHashPerName
  <1>4. ASSUME NEW r \in Runs, Statement(r) PROVE HashInv'
    <2>1. \A s \in Runs : pc'[s] \in {"saveCount", "saveInsert"} => chan'[s] \notin StaleChannels
      BY <1>4 DEF Statement, OthersStay, HashInv
    <2>2. OneHashPerName'
      <3>1. CASE UNCHANGED rows
        BY <3>1 DEF HashInv, OneHashPerName
      <3>2. CASE pc[r] = "saveInsert" /\ rows' = [rows EXCEPT ![ChannelRow(chan[r])] = @ + 1]
        BY <1>0, <3>2, ChannelRowFacts DEF HashInv, OneHashPerName, Types, TableTypes
      <3> QED
        BY <1>4, <3>1, <3>2 DEF Statement
    <2> QED
      BY <2>1, <2>2 DEF HashInv
  <1>5. ASSUME NEW r \in Runs, Discovery(r) PROVE HashInv'
    <2>1. \A s \in Runs : pc'[s] \in {"saveCount", "saveInsert"} => chan'[s] \notin StaleChannels
      BY <1>5, DiscoveryShape DEF OthersStay, HashInv
    <2>2. OneHashPerName'
      <3>1. CASE UNCHANGED rows
        BY <3>1 DEF HashInv, OneHashPerName
      <3>2. CASE key[r] \in Discovered /\ rows' = [rows EXCEPT ![key[r]] = @ + 1]
        BY <1>0, <3>2, ChannelRowFacts DEF HashInv, OneHashPerName, Types, TableTypes
      <3> QED
        BY <1>5, <3>1, <3>2, DiscoveryShape
    <2> QED
      BY <2>1, <2>2 DEF HashInv
  <1> QED
    BY <1>1, <1>2, <1>3, <1>4, <1>5, StepShape

-----------------------------------------------------------------------------
(* Runs that do not overlap. *)

Single == \A i, j \in DOMAIN channels : channels[i] = channels[j] => i = j

LEMMA AppendSingle ==
  ASSUME Types, Single, NEW c \in Channels, c \notin Listed, InitializeNewChannel(c)
  PROVE  Single'
  <1>1. /\ channels' = Append(channels, c) /\ channels \in Seq(Channels)
        /\ \A i \in DOMAIN channels : channels[i] # c
    BY DEF InitializeNewChannel, Types, ProcTypes, Listed
  <1>2. /\ DOMAIN channels' = DOMAIN channels \cup {Len(channels) + 1}
        /\ channels'[Len(channels) + 1] = c
        /\ \A i \in DOMAIN channels : channels'[i] = channels[i]
    BY <1>1
  <1> QED
    BY <1>1, <1>2 DEF Single

LEMMA InitAlone == Init => AloneInv
  BY DEF Init, AloneInv, Busy, Inserting

LEMMA StepAlone ==
  ASSUME Types, LifeInv, AloneInv, [Next]_vars
  PROVE  AloneInv'
  <1> SUFFICES ASSUME ~overlapped' PROVE AloneInv'
    BY DEF AloneInv
  <1> USE DEF Single
  <1>1. CASE Quiet
    BY <1>1 DEF Quiet, RunsStay, AloneInv, Busy, Listed
  <1>2. CASE Halt
    <2>1. existSent' \subseteq StaleChannels
      BY <1>2 DEF Halt, AloneInv
    <2>2. Single'
      BY <1>2 DEF Halt, AloneInv
    <2> QED
      BY <1>2, <2>1, <2>2 DEF Halt, AloneInv, Busy, Inserting
  <1>3. ASSUME NEW r \in Runs, Begin(r) PROVE AloneInv'
    <2>1. /\ \A s \in Runs : s # r => pc'[s] = "idle"
          /\ pc'[r] \in {"client", "channels", "discover"} /\ ~overlapped
          /\ UNCHANGED <<rows, channels, existSent>>
      BY <1>3 DEF Begin, OthersStay
    <2> QED
      BY <2>1 DEF AloneInv, Busy, Inserting
  <1>4. CASE Look
    <2>0. Start \in Runs
      BY DEF Runs
    <2>1. ~overlapped /\ UNCHANGED <<rows, existSent>>
      BY <1>4 DEF Look
    <2>2. \A s \in Runs : s # Start => pc'[s] = "idle"
      BY <1>4, <2>0, <2>1 DEF Look, OthersStay, AloneInv, Busy
    <2>3. pc'[Start] \in {"clientNew", "channels"}
      BY <1>4 DEF Look
    <2>4. Single'
      <3>1. CASE UNCHANGED channels
        BY <2>1, <3>1 DEF AloneInv
      <3>2. ASSUME NEW c \in queried[Start], pc[Start] = "clientNew", InitializeNewChannel(c)
            PROVE Single'
        <4>1. c \in Channels /\ c \notin Listed
          BY <2>0, <3>2 DEF LifeInv, Types, RunTypes
        <4> QED
          BY <2>1, <3>2, <4>1, AppendSingle DEF AloneInv
      <3> QED
        BY <1>4, <3>1, <3>2 DEF Look
    <2> QED
      BY <2>0, <2>1, <2>2, <2>3, <2>4 DEF AloneInv, Busy, Inserting
  <1>5. ASSUME NEW r \in Runs, Search(r) PROVE AloneInv'
    <2>1. ~overlapped /\ UNCHANGED <<rows, existSent>>
      BY <1>5 DEF Search
    <2>2. \A s \in Runs : s # r => pc'[s] = "idle"
      BY <1>5, <2>1 DEF Search, OthersStay, AloneInv, Busy
    <2>3. pc'[r] \in {"idle", "genesis", "new"} /\ (pc'[r] = "new" => chan'[r] \notin Listed')
      BY <1>5 DEF Search
    <2>4. Single'
      <3>1. CASE UNCHANGED channels
        BY <2>1, <3>1 DEF AloneInv
      <3>2. CASE pc[r] = "new" /\ InitializeNewChannel(chan[r])
        BY <2>1, <3>2, AppendSingle, ChannelRowFacts DEF AloneInv
      <3> QED
        BY <1>5, <3>1, <3>2 DEF Search
    <2> QED
      BY <2>1, <2>2, <2>3, <2>4 DEF AloneInv, Busy, Inserting
  <1>6. ASSUME NEW r \in Runs, Statement(r) PROVE AloneInv'
    <2>1. ~overlapped /\ UNCHANGED <<channels, existSent, chan, key>>
      BY <1>6 DEF Statement
    <2>2. \A s \in Runs : s # r => pc'[s] = "idle"
      BY <1>6, <2>1 DEF Statement, OthersStay, AloneInv, Busy
    <2>3. CASE UNCHANGED rows /\ ~(pc[r] = "saveInsert")
      <3>1. /\ pc'[r] \in {"existChannel", "saveCount", "saveInsert"} => rows[ChannelRow(chan[r])] = 0
            /\ pc'[r] \in {"getChannel", "existChannel", "saveCount", "saveInsert", "discover"}
        BY <1>6, <2>1, <2>3 DEF Statement, AloneInv
      <3> QED
        BY <2>1, <2>2, <2>3, <3>1 DEF AloneInv, Busy, Inserting
    <2>4. CASE /\ pc[r] = "saveInsert" /\ pc'[r] = "discover"
               /\ rows' = [rows EXCEPT ![ChannelRow(chan[r])] = @ + 1]
      <3>1. rows[ChannelRow(chan[r])] = 0
        BY <2>1, <2>4 DEF AloneInv
      <3>2. \A k \in Keys : rows'[k] <= 1
        BY <2>1, <2>4, <3>1, ChannelRowFacts DEF AloneInv, Types, TableTypes
      <3> QED
        BY <2>1, <2>2, <2>4, <3>2 DEF AloneInv, Busy, Inserting
    <2> QED
      BY <1>6, <2>3, <2>4 DEF Statement
  <1>7. ASSUME NEW r \in Runs, Discovery(r) PROVE AloneInv'
    <2>1. ~overlapped /\ UNCHANGED <<channels, existSent, chan>>
      BY <1>7, DiscoveryShape
    <2>2. \A s \in Runs : s # r => pc'[s] = "idle"
      BY <1>7, <2>1, DiscoveryShape DEF OthersStay, AloneInv, Busy
    <2>3. pc'[r] \in {"nodes", "codes", "nodeInsert", "codeInsert"}
      BY <1>7, DiscoveryShape
    <2>4. CASE UNCHANGED rows /\ (pc'[r] \in Inserting => rows[key'[r]] = 0)
      BY <2>1, <2>2, <2>3, <2>4 DEF AloneInv, Busy, Inserting
    <2>5. CASE /\ pc[r] \in Inserting /\ pc'[r] \notin Inserting /\ key[r] \in Discovered
               /\ rows' = [rows EXCEPT ![key[r]] = @ + 1]
      <3>1. rows[key[r]] = 0
        BY <2>1, <2>5 DEF AloneInv
      <3>2. \A k \in Keys : rows'[k] <= 1
        BY <2>1, <2>5, <3>1, ChannelRowFacts DEF AloneInv, Types, TableTypes
      <3> QED
        BY <2>1, <2>2, <2>3, <2>5, <3>2 DEF AloneInv, Busy, Inserting
    <2> QED
      BY <1>7, <2>4, <2>5, DiscoveryShape
  <1> QED
    BY <1>1, <1>2, <1>3, <1>4, <1>5, <1>6, <1>7, StepShape

-----------------------------------------------------------------------------
(* As many rows, and entries of the list, as there are runs. *)

(* Runs on the way to adding something, and how often it is there. *)
LEMMA CountNat ==
  /\ Cardinality(Runs) \in Nat /\ Cardinality(Runs) > 0
  /\ \A S : S \subseteq Runs => /\ IsFiniteSet(S) /\ Cardinality(S) \in Nat
                                /\ Cardinality(S) <= Cardinality(Runs)
  <1>1. IsFiniteSet(Runs) /\ Start \in Runs
    BY RunsAssumption DEF Runs
  <1>2. Cardinality(Runs) \in Nat /\ Cardinality(Runs) > 0
    BY <1>1, FS_CardinalityType, FS_EmptySet
  <1>3. ASSUME NEW S, S \subseteq Runs
        PROVE  IsFiniteSet(S) /\ Cardinality(S) \in Nat /\ Cardinality(S) <= Cardinality(Runs)
    BY <1>1, <1>3, FS_Subset, FS_CardinalityType
  <1> QED
    BY <1>2, <1>3

LEMMA CountKept ==
  ASSUME NEW n \in Nat, NEW m \in Nat, NEW S \in SUBSET Runs, NEW T \in SUBSET Runs,
         n + Cardinality(S) <= Cardinality(Runs),
         \/ m = n /\ T \subseteq S
         \/ m = 0
         \/ m = n + 1 /\ \E r \in S : T \subseteq S \ {r}
  PROVE  m + Cardinality(T) <= Cardinality(Runs)
  <1>1. /\ Cardinality(S) \in Nat /\ Cardinality(T) \in Nat /\ Cardinality(Runs) \in Nat
        /\ Cardinality(T) <= Cardinality(Runs) /\ IsFiniteSet(S)
    BY CountNat
  <1>2. CASE m = n /\ T \subseteq S
    <2>1. Cardinality(T) <= Cardinality(S)
      BY <1>1, <1>2, FS_Subset
    <2> QED
      BY <1>1, <1>2, <2>1
  <1>3. CASE m = 0
    BY <1>1, <1>3
  <1>4. CASE m = n + 1 /\ \E r \in S : T \subseteq S \ {r}
    <2>1. PICK r \in S : T \subseteq S \ {r}
      BY <1>4
    <2>2. Cardinality(S \ {r}) = Cardinality(S) - 1 /\ IsFiniteSet(S \ {r})
      BY <1>1, FS_RemoveElement
    <2>3. Cardinality(T) <= Cardinality(S \ {r})
      BY <2>1, <2>2, FS_Subset
    <2> QED
      BY <1>1, <1>4, <2>2, <2>3
  <1> QED
    BY <1>2, <1>3, <1>4

RowsCounted == \A k \in Keys : rows[k] + Cardinality(PendingRow(k)) <= Cardinality(Runs)
NamesCounted ==
  \A c \in Channels : Occurrences(c) + Cardinality(PendingName(c)) <= Cardinality(Runs)

LEMMA InitCount == Init => CountInv
  <1> SUFFICES ASSUME Init PROVE CountInv
    OBVIOUS
  <1>1. \A k \in Keys : rows[k] = 0 /\ PendingRow(k) = {}
    BY DEF Init, PendingRow, Inserting
  <1>2. \A c \in Channels : Occurrences(c) = 0 /\ PendingName(c) = {}
    <2>1. \A c \in Channels : {i \in 1 .. Len(channels) : channels[i] = c} = {}
      BY DEF Init
    <2> QED
      BY <2>1, FS_EmptySet DEF Init, Occurrences, PendingName
  <1> QED
    BY <1>1, <1>2, CountNat, FS_EmptySet DEF CountInv

(* The rows. *)
LEMMA StepRowsCounted ==
  ASSUME Types, LifeInv, RowsCounted, [Next]_vars
  PROVE  RowsCounted'
  <1> SUFFICES ASSUME NEW k \in Keys
               PROVE  rows'[k] + Cardinality(PendingRow(k)') <= Cardinality(Runs)
    BY DEF RowsCounted
  <1>0. /\ rows[k] \in Nat /\ rows'[k] \in Nat
        /\ PendingRow(k) \in SUBSET Runs /\ PendingRow(k)' \in SUBSET Runs
        /\ rows[k] + Cardinality(PendingRow(k)) <= Cardinality(Runs)
    BY StepTypes DEF Types, TableTypes, PendingRow, RowsCounted
  <1>1. CASE UNCHANGED rows /\ PendingRow(k)' \subseteq PendingRow(k)
    BY <1>0, <1>1, CountKept
  <1>2. CASE rows'[k] = 0
    BY <1>0, <1>2, CountKept
  <1>3. CASE Quiet \/ Halt
    <2>1. UNCHANGED rows /\ PendingRow(k)' \subseteq PendingRow(k)
      BY <1>3 DEF Quiet, RunsStay, Halt, PendingRow, Inserting
    <2> QED
      BY <1>1, <2>1
  <1>4. CASE Look \/ \E r \in Runs : Begin(r) \/ Search(r)
    <2>1. PICK r \in Runs : /\ OthersStay(r) /\ pc'[r] \notin Inserting \cup {"saveInsert"}
                            /\ UNCHANGED rows
      BY <1>4 DEF Look, Begin, Search, Runs, Inserting
    <2>2. PendingRow(k)' \subseteq PendingRow(k)
      BY <2>1 DEF OthersStay, PendingRow
    <2> QED
      BY <1>1, <2>1, <2>2
  <1>5. ASSUME NEW r \in Runs, Statement(r)
        PROVE  rows'[k] + Cardinality(PendingRow(k)') <= Cardinality(Runs)
    <2>1. CASE UNCHANGED rows
      <3>1. CASE pc'[r] = "saveInsert" /\ ChannelRow(chan[r]) = k
        BY <1>2, <1>5, <2>1, <3>1 DEF Statement
      <3>2. CASE ~(pc'[r] = "saveInsert" /\ ChannelRow(chan[r]) = k)
        <4>1. PendingRow(k)' \subseteq PendingRow(k)
          BY <1>5, <3>2 DEF Statement, OthersStay, PendingRow, Inserting
        <4> QED
          BY <1>1, <2>1, <4>1
      <3> QED
        BY <3>1, <3>2
    <2>2. CASE /\ pc[r] = "saveInsert" /\ pc'[r] = "discover"
               /\ rows' = [rows EXCEPT ![ChannelRow(chan[r])] = @ + 1]
      <3>1. PendingRow(k)' \subseteq PendingRow(k) \ {r}
        BY <1>5, <2>2 DEF Statement, OthersStay, PendingRow, Inserting
      <3>2. CASE ChannelRow(chan[r]) = k
        <4>1. r \in PendingRow(k)
          BY <2>2, <3>2 DEF PendingRow
        <4>2. rows'[k] = rows[k] + 1
          BY <2>2, <3>2 DEF Types, TableTypes
        <4> QED
          BY <1>0, <3>1, <4>1, <4>2, CountKept
      <3>3. CASE ChannelRow(chan[r]) # k
        <4>1. rows'[k] = rows[k]
          BY <2>2, <3>3 DEF Types, TableTypes
        <4> QED
          BY <1>0, <3>1, <4>1, CountKept
      <3> QED
        BY <3>2, <3>3
    <2> QED
      BY <1>5, <2>1, <2>2 DEF Statement
  <1>6. ASSUME NEW r \in Runs, Discovery(r)
        PROVE  rows'[k] + Cardinality(PendingRow(k)') <= Cardinality(Runs)
    <2>0. OthersStay(r) /\ UNCHANGED chan /\ pc'[r] # "saveInsert"
      BY <1>6, DiscoveryShape
    <2>1. CASE UNCHANGED rows /\ (pc'[r] \in Inserting => rows[key'[r]] = 0)
      <3>1. CASE pc'[r] \in Inserting /\ key'[r] = k
        BY <1>2, <2>1, <3>1
      <3>2. CASE ~(pc'[r] \in Inserting /\ key'[r] = k)
        <4>1. PendingRow(k)' \subseteq PendingRow(k)
          BY <2>0, <3>2 DEF OthersStay, PendingRow
        <4> QED
          BY <1>1, <2>1, <4>1
      <3> QED
        BY <3>1, <3>2
    <2>2. CASE /\ pc[r] \in Inserting /\ pc'[r] \notin Inserting
               /\ rows' = [rows EXCEPT ![key[r]] = @ + 1]
      <3>1. PendingRow(k)' \subseteq PendingRow(k) \ {r}
        BY <2>0, <2>2 DEF OthersStay, PendingRow
      <3>2. CASE key[r] = k
        <4>1. r \in PendingRow(k)
          BY <2>2, <3>2 DEF PendingRow
        <4>2. rows'[k] = rows[k] + 1
          BY <2>2, <3>2 DEF Types, TableTypes
        <4> QED
          BY <1>0, <3>1, <4>1, <4>2, CountKept
      <3>3. CASE key[r] # k
        <4>1. rows'[k] = rows[k]
          BY <2>2, <3>3 DEF Types, TableTypes
        <4> QED
          BY <1>0, <3>1, <4>1, CountKept
      <3> QED
        BY <3>2, <3>3
    <2> QED
      BY <1>6, <2>1, <2>2, DiscoveryShape
  <1> QED
    BY <1>3, <1>4, <1>5, <1>6, StepShape

(* The list. *)
LEMMA OccurrencesKept ==
  ASSUME Types, NEW c \in Channels
  PROVE  /\ Occurrences(c) \in Nat
         /\ c \notin Listed => Occurrences(c) = 0
         /\ channels' = <<>> => Occurrences(c)' = 0
         /\ \A d \in Channels : InitializeNewChannel(d) =>
              Occurrences(c)' = Occurrences(c) + (IF d = c THEN 1 ELSE 0)
  <1> DEFINE where(s) == {i \in 1 .. Len(s) : s[i] = c}
  <1>0. channels \in Seq(Channels) /\ Len(channels) \in Nat
    BY DEF Types, ProcTypes
  <1>1. IsFiniteSet(where(channels)) /\ Cardinality(where(channels)) \in Nat
    <2>1. IsFiniteSet(1 .. Len(channels))
      BY <1>0, FS_Interval
    <2> QED
      BY <2>1, FS_Subset, FS_CardinalityType
  <1>2. c \notin Listed => where(channels) = {}
    BY DEF Listed
  <1>3. channels' = <<>> => where(channels') = {}
    OBVIOUS
  <1>4. ASSUME NEW d \in Channels, InitializeNewChannel(d)
        PROVE  Cardinality(where(channels')) = Cardinality(where(channels)) + (IF d = c THEN 1 ELSE 0)
    <2>1. /\ channels' = Append(channels, d)
          /\ Len(channels') = Len(channels) + 1
          /\ channels'[Len(channels) + 1] = d
          /\ \A i \in 1 .. Len(channels) : channels'[i] = channels[i]
      BY <1>0, <1>4 DEF InitializeNewChannel
    <2>2. where(channels') = where(channels) \cup (IF d = c THEN {Len(channels) + 1} ELSE {})
      BY <1>0, <2>1
    <2>3. Len(channels) + 1 \notin where(channels)
      BY <1>0
    <2>4. CASE d = c
      <3>1. Cardinality(where(channels) \cup {Len(channels) + 1}) = Cardinality(where(channels)) + 1
        <4> HIDE DEF where
        <4> QED
          BY <1>1, <2>3, FS_AddElement
      <3>2. where(channels') = where(channels) \cup {Len(channels) + 1}
        BY <2>2, <2>4
      <3> HIDE DEF where
      <3> QED
        BY <2>4, <3>1, <3>2
    <2>5. CASE d # c
      <3>1. where(channels') = where(channels)
        BY <2>2, <2>5
      <3> HIDE DEF where
      <3> QED
        BY <1>1, <2>5, <3>1
    <2> QED
      BY <2>4, <2>5
  <1> QED
    BY <1>1, <1>2, <1>3, <1>4, FS_EmptySet DEF Occurrences

LEMMA StepNamesCounted ==
  ASSUME Types, LifeInv, NamesCounted, [Next]_vars
  PROVE  NamesCounted'
  <1> SUFFICES ASSUME NEW c \in Channels
               PROVE  Occurrences(c)' + Cardinality(PendingName(c)') <= Cardinality(Runs)
    BY DEF NamesCounted
  <1>0. /\ Occurrences(c) \in Nat /\ Occurrences(c)' \in Nat
        /\ PendingName(c) \in SUBSET Runs /\ PendingName(c)' \in SUBSET Runs
        /\ Occurrences(c) + Cardinality(PendingName(c)) <= Cardinality(Runs)
    <2>1. Types'
      BY StepTypes
    <2>2. Types' => Occurrences(c)' \in Nat
      <3>1. ASSUME Types' PROVE IsFiniteSet(1 .. Len(channels'))
        BY <3>1, FS_Interval DEF Types, ProcTypes
      <3>2. Types' => Cardinality({i \in 1 .. Len(channels') : channels'[i] = c}) \in Nat
        BY <3>1, FS_Subset, FS_CardinalityType
      <3> QED
        BY <3>2 DEF Occurrences
    <2> QED
      BY <2>1, <2>2, OccurrencesKept DEF PendingName, NamesCounted
  <1>1. CASE UNCHANGED channels /\ PendingName(c)' \subseteq PendingName(c)
    <2>1. Occurrences(c)' = Occurrences(c)
      BY <1>1 DEF Occurrences
    <2> QED
      BY <1>0, <1>1, <2>1, CountKept
  <1>2. CASE Occurrences(c)' = 0
    BY <1>0, <1>2, CountKept
  <1>3. CASE Quiet
    <2>1. UNCHANGED channels /\ PendingName(c)' \subseteq PendingName(c)
      BY <1>3 DEF Quiet, RunsStay, PendingName
    <2> QED
      BY <1>1, <2>1
  <1>4. CASE Halt
    <2>1. PendingName(c)' \subseteq PendingName(c)
      BY <1>4 DEF Halt, PendingName
    <2> QED
      BY <1>1, <1>2, <1>4, <2>1, OccurrencesKept DEF Halt
  <1>5. ASSUME NEW r \in Runs, Begin(r) \/ Statement(r) \/ Discovery(r)
        PROVE  Occurrences(c)' + Cardinality(PendingName(c)') <= Cardinality(Runs)
    <2>1. OthersStay(r) /\ pc'[r] # "new" /\ UNCHANGED channels
      BY <1>5, DiscoveryShape DEF Begin, Statement
    <2>2. PendingName(c)' \subseteq PendingName(c)
      BY <2>1 DEF OthersStay, PendingName
    <2> QED
      BY <1>1, <2>1, <2>2
  <1>6. CASE Look
    <2>0. Start \in Runs
      BY DEF Runs
    <2>1. OthersStay(Start) /\ pc'[Start] # "new"
      BY <1>6 DEF Look
    <2>2. PendingName(c)' \subseteq PendingName(c)
      BY <2>1 DEF OthersStay, PendingName
    <2>3. ASSUME NEW d \in queried[Start], pc[Start] = "clientNew", InitializeNewChannel(d)
          PROVE  Occurrences(c)' + Cardinality(PendingName(c)') <= Cardinality(Runs)
      <3>1. d \in Channels /\ d \notin Listed
        BY <2>0, <2>3 DEF LifeInv, Types, RunTypes
      <3>2. CASE d = c
        <4>1. Occurrences(c)' = 1
          BY <2>3, <3>1, <3>2, OccurrencesKept
        <4>2. PendingName(c)' = {}
          <5>1. ~ready
            BY <2>0, <2>3 DEF LifeInv
          <5> QED
            BY <2>0, <2>1, <5>1 DEF OthersStay, PendingName, LifeInv, Busy
        <4> QED
          BY <4>1, <4>2, CountNat, FS_EmptySet
      <3>3. CASE d # c
        BY <1>0, <2>2, <2>3, <3>1, <3>3, OccurrencesKept, CountKept
      <3> QED
        BY <3>2, <3>3
    <2> QED
      BY <1>1, <1>6, <2>2, <2>3 DEF Look
  <1>7. ASSUME NEW r \in Runs, Search(r)
        PROVE  Occurrences(c)' + Cardinality(PendingName(c)') <= Cardinality(Runs)
    <2>1. OthersStay(r) /\ (pc'[r] = "new" => chan'[r] \notin Listed')
      BY <1>7 DEF Search
    <2>2. CASE pc'[r] = "new" /\ chan'[r] = c
      <3>1. c \notin Listed'
        BY <2>1, <2>2
      <3>2. {i \in 1 .. Len(channels') : channels'[i] = c} = {}
        BY <3>1 DEF Listed
      <3>3. Occurrences(c)' = 0
        BY <3>2, FS_EmptySet DEF Occurrences
      <3> QED
        BY <1>2, <3>3
    <2>3. CASE ~(pc'[r] = "new" /\ chan'[r] = c)
      <3>1. PendingName(c)' \subseteq PendingName(c) \ {r}
        BY <2>1, <2>3 DEF OthersStay, PendingName
      <3>2. CASE UNCHANGED channels
        BY <1>1, <3>1, <3>2
      <3>3. CASE pc[r] = "new" /\ InitializeNewChannel(chan[r])
        <4>1. chan[r] \in Channels
          BY <3>3, ChannelRowFacts
        <4>2. CASE chan[r] = c
          <5>1. r \in PendingName(c) /\ Occurrences(c)' = Occurrences(c) + 1
            BY <3>3, <4>1, <4>2, OccurrencesKept DEF PendingName
          <5> QED
            BY <1>0, <3>1, <5>1, CountKept
        <4>3. CASE chan[r] # c
          <5>1. Occurrences(c)' = Occurrences(c)
            BY <1>0, <3>3, <4>1, <4>3, OccurrencesKept
          <5> QED
            BY <1>0, <3>1, <5>1, CountKept
        <4> QED
          BY <4>2, <4>3
      <3> QED
        BY <1>7, <3>2, <3>3 DEF Search
    <2> QED
      BY <2>2, <2>3
  <1> QED
    BY <1>3, <1>4, <1>5, <1>6, <1>7, StepShape

LEMMA StepCount ==
  ASSUME Types, LifeInv, CountInv, [Next]_vars
  PROVE  CountInv'
  <1>1. RowsCounted /\ NamesCounted
    BY DEF CountInv, RowsCounted, NamesCounted
  <1>2. RowsCounted' /\ NamesCounted'
    BY <1>1, StepRowsCounted, StepNamesCounted
  <1> QED
    BY <1>2 DEF CountInv, RowsCounted, NamesCounted

-----------------------------------------------------------------------------
(* References and the rows they refer to. *)

RowsGrow == \A k \in Keys : rows[k] \in Nat /\ rows'[k] \in Nat /\ rows'[k] >= rows[k]

(* A run that stays where it is. *)
LEMMA RefRunStays ==
  ASSUME RowsGrow, Types, NEW r \in Runs, RefRun(r), pc'[r] = pc[r], chan'[r] = chan[r],
         found'[r] = found[r], todo'[r] = todo[r], key'[r] = key[r]
  PROVE  RefRun(r)'
  <1>1. \A j \in Keys : (Settled(r, j) => Settled(r, j)') /\ (rows[j] > 0 => rows'[j] > 0)
    BY DEF RowsGrow, Settled
  <1>2. pc[r] \in {"nodes", "nodeInsert"} => \A h \in found[r] : PeerRefRow(chan[r], h) \in Keys
    BY RowKinds DEF Types, RunTypes, AtChannel, Labels, Discovered
  <1> QED
    BY <1>1, <1>2 DEF RefRun

(* A run that goes on where nothing is saved. *)
LEMMA RefRunCleared ==
  ASSUME RowsGrow, NEW r \in Runs, RefRun(r),
         pc'[r] \notin Inserting \cup {"nodes"},
         todo'[r] = {} \/ (todo'[r] = todo[r] /\ pc[r] \notin Inserting)
  PROVE  RefRun(r)'
  <1>1. \A j \in Keys : rows[j] > 0 => rows'[j] > 0
    BY DEF RowsGrow
  <1>2. pc'[r] \notin {"nodes", "nodeInsert"}
    BY DEF Inserting
  <1> QED
    BY <1>1, <1>2 DEF RefRun, Settled

(* What discovery brings refers to rows that it brings along. *)
LEMMA DiscoveredNeeds ==
  ASSUME NEW c \in Channels, NEW nodes \in SUBSET Hosts,
         NEW k \in DiscoveredRows(c, nodes), NEW j \in Keys, Needs(k, j)
  PROVE  RefersTo(k, j) /\ j \in DiscoveredRows(c, nodes)
  BY DEF DiscoveredRows, Needs, RefersTo, RefersToPeer, SavedBefore, Keys, ChannelRow,
         PeerRow, PeerRefRow, ChaincodeRow, ChaincodeRefRow

LEMMA ChaincodeNeeds ==
  ASSUME NEW c \in Channels, NEW peers \in SUBSET Hosts,
         NEW k \in ChaincodeRows(c, peers), NEW j \in Keys
  PROVE  /\ RefersTo(k, j) => j \in ChaincodeRows(c, peers)
         /\ RefersToPeer(k, j) => \E h \in peers : j = PeerRefRow(c, h)
  <1>1. CASE \E d \in Chaincodes : k = ChaincodeRow(c, d)
    BY <1>1 DEF ChaincodeRow, RefersTo, RefersToPeer, SavedBefore
  <1>2. CASE \E d \in Chaincodes, h \in peers : k = ChaincodeRefRow(c, d, h)
    <2>1. PICK d \in Chaincodes, h \in peers : k = ChaincodeRefRow(c, d, h)
      BY <1>2
    <2>2. RefersTo(k, j) => j = ChaincodeRow(c, d)
      BY <2>1 DEF RefersTo, SavedBefore, Keys, ChannelRow, PeerRow, PeerRefRow, ChaincodeRow,
                  ChaincodeRefRow
    <2>3. RefersToPeer(k, j) => j = PeerRefRow(c, h)
      BY <2>1 DEF RefersToPeer, Keys, ChannelRow, PeerRow, PeerRefRow, ChaincodeRow,
                  ChaincodeRefRow
    <2> QED
      BY <2>1, <2>2, <2>3 DEF ChaincodeRows
  <1> QED
    BY <1>1, <1>2 DEF ChaincodeRows

LEMMA ChannelNeeds ==
  ASSUME NEW c \in Channels, NEW j \in Keys
  PROVE  ~Needs(ChannelRow(c), j)
  BY DEF ChannelRow, Needs, RefersTo, RefersToPeer, SavedBefore

LEMMA InitRefs == Init => RefInv
  BY DEF Init, RefInv, RefRows, RefRun, Inserting

(* Steps of a run that saves. *)
LEMMA DiscoverRefs ==
  ASSUME Types, NEW r \in Runs, Discover(r), RefRun(r)
  PROVE  RefRun(r)'
  <1> USE DEF tableVars, AtRun
  <1>1. /\ pc[r] = "discover" /\ pc'[r] = "nodes" /\ UNCHANGED <<rows, key, chan>>
        /\ chan[r] \in Channels
    BY DEF Discover, Running, Goto, Types, RunTypes, AtChannel, Labels
  <1> DEFINE c == chan[r]
             nodes == PeersOf[c] \cup OrderersOf[c]
  <1>2. nodes \in SUBSET Hosts
    BY <1>1, ChannelAssumption
  <1>3. CASE found'[r] = PeersOf[c] /\ todo'[r] = DiscoveredRows(c, nodes)
    <2>1. \A k \in todo'[r], j \in Keys : Needs(k, j) => RefersTo(k, j) /\ j \in todo'[r]
      BY <1>1, <1>2, <1>3, DiscoveredNeeds
    <2>2. \A k \in todo'[r], j \in Keys : ~RefersToPeer(k, j)
      BY <1>3 DEF DiscoveredRows, RefersToPeer, PeerRow, PeerRefRow
    <2>3. \A h \in found'[r] : PeerRefRow(chan'[r], h) \in todo'[r]
      BY <1>1, <1>3 DEF DiscoveredRows
    <2> QED
      BY <1>1, <2>1, <2>2, <2>3 DEF RefRun, Settled, Needs, Inserting
  <1>4. CASE found'[r] = {} /\ UNCHANGED todo
    BY <1>1, <1>4 DEF RefRun, Settled, Inserting
  <1> QED
    BY <1>3, <1>4 DEF Discover, GetDiscoveryResult, Types, RunTypes

LEMMA ChaincodesRefs ==
  ASSUME Types, NEW r \in Runs, InstantiatedChaincodes(r), RefRun(r)
  PROVE  RefRun(r)'
  <1> USE DEF tableVars, AtRun
  <1>1. /\ pc[r] = "nodes" /\ pc'[r] = "codes" /\ todo[r] = {}
        /\ UNCHANGED <<rows, key, chan, found>>
        /\ chan[r] \in Channels /\ found[r] \in SUBSET Hosts
        /\ todo'[r] = ChaincodeRows(chan[r], found[r])
    BY DEF InstantiatedChaincodes, Running, Goto, Types, RunTypes, AtChannel, Labels
  <1>2. \A h \in found[r] : rows[PeerRefRow(chan[r], h)] > 0
    BY <1>1 DEF RefRun, Settled, Inserting
  <1>3. \A k \in todo'[r], j \in Keys :
          /\ RefersTo(k, j) => j \in todo'[r]
          /\ RefersToPeer(k, j) => rows[j] > 0
    BY <1>1, <1>2, ChaincodeNeeds
  <1> QED
    BY <1>1, <1>3 DEF RefRun, Settled, Inserting

LEMMA SaveCountRefs ==
  ASSUME Types, NEW r \in Runs, SaveCount(r), RefRun(r)
  PROVE  RefRun(r)'
  <1> USE DEF tableVars, AtRun
  <1>1. pc[r] \in {"nodes", "codes"} /\ UNCHANGED <<rows, chan, found>>
    BY DEF SaveCount, Running
  <1>2. PICK k \in Savable(r) :
          /\ todo'[r] = todo[r] \ {k}
          /\ \/ rows[k] > 0 /\ UNCHANGED <<pc, key>>
             \/ /\ rows[k] = 0 /\ key'[r] = k
                /\ pc'[r] = IF pc[r] = "nodes" THEN "nodeInsert" ELSE "codeInsert"
    BY DEF SaveCount, Goto, Types, RunTypes
  <1>3. k \in todo[r] /\ \A j \in todo[r] : ~SavedBefore(j, k)
    BY <1>2 DEF Savable
  <1>4. \A j \in Keys : Needs(k, j) => rows[j] > 0
    BY <1>1, <1>3 DEF RefRun, Settled, Needs, RefersTo, Inserting
  <1>5. \A j : Settled(r, j) => Settled(r, j)'
    BY <1>1, <1>2 DEF Settled, Inserting
  <1>6. \A i \in todo'[r], j \in Keys :
          /\ RefersTo(i, j) => Settled(r, j)'
          /\ RefersToPeer(i, j) => rows'[j] > 0
    BY <1>1, <1>2, <1>5 DEF RefRun
  <1>7. pc'[r] \in Inserting => \A j \in Keys : Needs(key'[r], j) => rows'[j] > 0
    BY <1>1, <1>2, <1>4 DEF Inserting
  <1>8. pc'[r] \in {"nodes", "nodeInsert"} =>
          \A h \in found'[r] : Settled(r, PeerRefRow(chan[r], h))'
    BY <1>1, <1>2, <1>5 DEF RefRun
  <1> QED
    BY <1>1, <1>6, <1>7, <1>8 DEF RefRun

LEMMA SaveInsertRefs ==
  ASSUME Types, NEW r \in Runs, SaveInsert(r), RefRun(r)
  PROVE  RefRun(r)'
  <1> USE DEF tableVars, AtRun
  <1>1. /\ pc[r] \in Inserting /\ key[r] \in Keys
        /\ pc'[r] = IF pc[r] = "nodeInsert" THEN "nodes" ELSE "codes"
        /\ UNCHANGED <<todo, chan, found>>
        /\ rows' = [rows EXCEPT ![key[r]] = @ + 1]
    BY DEF SaveInsert, Running, Goto, Types, RunTypes, Inserting, Discovered
  <1>2. \A j \in Keys : (Settled(r, j) => Settled(r, j)') /\ (rows[j] > 0 => rows'[j] > 0)
    BY <1>1 DEF Settled, Types, TableTypes
  <1>3. todo[r] \subseteq Keys
    BY DEF Types, RunTypes, Discovered
  <1>4. pc'[r] \notin Inserting
    BY <1>1 DEF Inserting
  <1>5. pc'[r] \in {"nodes", "nodeInsert"} =>
          \A h \in found'[r] : Settled(r, PeerRefRow(chan[r], h))'
    <2> SUFFICES ASSUME pc[r] = "nodeInsert", NEW h \in found[r]
                 PROVE  Settled(r, PeerRefRow(chan[r], h))'
      BY <1>1 DEF Inserting
    <2>1. PeerRefRow(chan[r], h) \in Keys
      BY RowKinds DEF Types, RunTypes, AtChannel, Labels, Discovered
    <2> QED
      <3>1. Settled(r, PeerRefRow(chan[r], h))
        BY DEF RefRun
      <3>2. UNCHANGED chan
        BY <1>1
      <3> QED
        BY <1>2, <2>1, <3>1, <3>2
  <1> QED
    BY <1>1, <1>2, <1>3, <1>4, <1>5 DEF RefRun

LEMMA DiscoveryRefs ==
  ASSUME Types, NEW r \in Runs, Discovery(r), RefRun(r)
  PROVE  RefRun(r)'
  BY DiscoverRefs, ChaincodesRefs, SaveCountRefs, SaveInsertRefs DEF Discovery

(* No step takes a row away, and an INSERT of a reference finds what it refers to. *)
LEMMA StepRefRows ==
  ASSUME Types, RefInv, [Next]_vars, LifeInv
  PROVE  RowsGrow /\ RefRows'
  <1>1. CASE UNCHANGED rows
    BY <1>1 DEF RowsGrow, RefInv, RefRows, Types, TableTypes
  <1>2. ASSUME NEW k \in Keys, rows' = [rows EXCEPT ![k] = @ + 1],
               \A j \in Keys : Needs(k, j) => rows[j] > 0
        PROVE  RowsGrow /\ RefRows'
    <2>1. RowsGrow
      BY <1>2 DEF RowsGrow, Types, TableTypes
    <2>2. \A i \in Keys : i # k => rows'[i] = rows[i]
      BY <1>2 DEF Types, TableTypes
    <2> QED
      BY <1>2, <2>1, <2>2 DEF RowsGrow, RefInv, RefRows
  <1>3. CASE Quiet \/ Halt \/ Look \/ \E r \in Runs : Begin(r) \/ Search(r)
    BY <1>1, <1>3 DEF Quiet, Halt, Look, Begin, Search
  <1>4. ASSUME NEW r \in Runs, Statement(r) PROVE RowsGrow /\ RefRows'
    <2>1. CASE pc[r] = "saveInsert" /\ rows' = [rows EXCEPT ![ChannelRow(chan[r])] = @ + 1]
      BY <1>2, <2>1, ChannelNeeds, ChannelRowFacts
    <2> QED
      BY <1>1, <1>4, <2>1 DEF Statement
  <1>5. ASSUME NEW r \in Runs, Discovery(r) PROVE RowsGrow /\ RefRows'
    <2>1. CASE pc[r] \in Inserting /\ key[r] \in Discovered
               /\ rows' = [rows EXCEPT ![key[r]] = @ + 1]
      <3>1. key[r] \in Keys /\ \A j \in Keys : Needs(key[r], j) => rows[j] > 0
        BY <2>1 DEF RefInv, RefRun, Discovered
      <3> QED
        BY <1>2, <2>1, <3>1
    <2> QED
      BY <1>1, <1>5, <2>1, DiscoveryShape
  <1> QED
    BY <1>3, <1>4, <1>5, StepShape

LEMMA StepRefs ==
  ASSUME Types, LifeInv, RefInv, [Next]_vars
  PROVE  RefInv'
  <1>0. RowsGrow /\ RefRows' /\ \A r \in Runs : RefRun(r)
    BY StepRefRows DEF RefInv
  <1>1. ASSUME NEW r \in Runs, OthersStay(r), RefRun(r)'
        PROVE  RefInv'
    <2>1. ASSUME NEW s \in Runs, s # r PROVE RefRun(s)'
      BY <1>0, <1>1, <2>1, RefRunStays DEF OthersStay
    <2> QED
      BY <1>0, <1>1, <2>1 DEF RefInv
  <1>2. CASE Quiet
    <2>1. \A r \in Runs : RefRun(r)'
      BY <1>0, <1>2, RefRunStays DEF Quiet, RunsStay
    <2> QED
      BY <1>0, <2>1 DEF RefInv
  <1>3. CASE Halt
    <2>1. \A r \in Runs : RefRun(r)'
      BY <1>0, <1>3, RefRunCleared DEF Halt, Inserting
    <2> QED
      BY <1>0, <2>1 DEF RefInv
  <1>4. ASSUME NEW r \in Runs, Begin(r) \/ Search(r) \/ Statement(r) \/ (r = Start /\ Look)
        PROVE  RefInv'
    <2>1. /\ OthersStay(r) /\ pc'[r] \notin Inserting \cup {"nodes"} /\ pc[r] \notin Inserting
          /\ todo'[r] = {} \/ todo'[r] = todo[r]
      BY <1>4 DEF Begin, Search, Statement, Look, Inserting
    <2>2. RefRun(r)'
      BY <1>0, <2>1, RefRunCleared
    <2> QED
      BY <1>1, <2>1, <2>2
  <1>5. ASSUME NEW r \in Runs, Discovery(r) PROVE RefInv'
    BY <1>0, <1>1, <1>5, DiscoveryRefs, DiscoveryShape
  <1>6. Start \in Runs
    BY DEF Runs
  <1> QED
    BY <1>2, <1>3, <1>4, <1>5, <1>6, StepShape

-----------------------------------------------------------------------------
(* The properties. *)

IInv == Types /\ LifeInv /\ HashInv /\ AloneInv /\ CountInv /\ RefInv

(* What holds of runs, tables and list together is kept by every step. *)
THEOREM InvariantIsInductive == Spec => []IInv
  <1>1. Init => IInv
    BY InitTypes, InitLife, InitHash, InitAlone, InitCount, InitRefs DEF IInv
  <1>2. IInv /\ [Next]_vars => IInv'
    BY StepTypes, StepLife, StepHash, StepAlone, StepCount, StepRefs DEF IInv
  <1> QED
    BY <1>1, <1>2, PTL DEF Spec

(* insertNewChannel never saves a name that the table holds under another genesis hash. *)
THEOREM OneHash == Spec => []OneHashPerName
  <1>1. IInv => OneHashPerName
    BY DEF IInv, HashInv
  <1> QED
    BY <1>1, InvariantIsInductive, PTL

(* The counts before the INSERTs bound the rows of one key by the number of runs, and by  *)
(* one as long as no run has started while another was under way.                         *)
THEOREM RowsBounded == Spec => []RowsDuplicatedOnlyByOverlap
  <1>1. IInv => RowsDuplicatedOnlyByOverlap
    <2> SUFFICES ASSUME IInv, NEW k \in Keys
                 PROVE  rows[k] <= IF overlapped THEN Cardinality(Runs) ELSE 1
      BY DEF RowsDuplicatedOnlyByOverlap
    <2>1. ~overlapped => rows[k] <= 1
      BY DEF IInv, AloneInv
    <2>2. rows[k] <= Cardinality(Runs)
      <3>1. rows[k] \in Nat /\ rows[k] + Cardinality(PendingRow(k)) <= Cardinality(Runs)
        BY DEF IInv, CountInv, Types, TableTypes
      <3>2. PendingRow(k) \subseteq Runs
        BY DEF PendingRow
      <3>3. Cardinality(PendingRow(k)) \in Nat /\ Cardinality(Runs) \in Nat
        BY <3>2, CountNat
      <3> QED
        BY <3>1, <3>3
    <2> QED
      BY <2>1, <2>2
  <1> QED
    BY <1>1, InvariantIsInductive, PTL

(* initializeNewChannel appends a name at most once for each run, and once at most as     *)
(* long as no run has started while another was under way.                                *)
THEOREM Listing == Spec => []ListedOnce
  <1>1. IInv => ListedOnce
    <2> SUFFICES ASSUME IInv, NEW c \in Channels
                 PROVE  Occurrences(c) <= IF overlapped THEN Cardinality(Runs) ELSE 1
      BY DEF ListedOnce
    <2>1. Occurrences(c) <= Cardinality(Runs)
      <3>1. Occurrences(c) + Cardinality(PendingName(c)) <= Cardinality(Runs)
        BY DEF IInv, CountInv
      <3>2. PendingName(c) \subseteq Runs
        BY DEF PendingName
      <3>3. Cardinality(PendingName(c)) \in Nat /\ Cardinality(Runs) \in Nat
        BY <3>2, CountNat
      <3>4. Occurrences(c) \in Nat
        BY OccurrencesKept DEF IInv
      <3> QED
        BY <3>1, <3>3, <3>4
    <2>2. ASSUME ~overlapped PROVE Occurrences(c) <= 1
      <3> DEFINE where == {i \in 1 .. Len(channels) : channels[i] = c}
      <3>1. \A i, j \in where : i = j
        BY <2>2 DEF IInv, AloneInv, Types, ProcTypes
      <3>2. where = {} \/ \E i : where = {i}
        BY <3>1
      <3>3. Cardinality(where) <= 1
        <4>1. Cardinality(where) \in {0, 1}
          <5> HIDE DEF where
          <5> QED
            BY <3>2, FS_EmptySet, FS_Singleton, Zenon
        <4> QED
          BY <4>1
      <3> QED
        BY <3>3 DEF Occurrences
    <2> QED
      BY <2>1, <2>2
  <1> QED
    BY <1>1, InvariantIsInductive, PTL

(* Without overlapping runs, existChannel finds only names with another genesis hash.     *)
THEOREM ExistTrue == Spec => []ExistReportedOnlyForOtherHash
  <1>1. IInv => ExistReportedOnlyForOtherHash
    BY DEF IInv, AloneInv, ExistReportedOnlyForOtherHash
  <1> QED
    BY <1>1, InvariantIsInductive, PTL

(* A reference to a peer or a chaincode is saved after the row it refers to, and no       *)
(* failure or crash in between leaves it alone.                                           *)
THEOREM References == Spec => []ReferencesHaveTheirRows
  <1>1. IInv => ReferencesHaveTheirRows
    <2> SUFFICES ASSUME IInv, NEW c \in Channels, NEW h \in Hosts
                 PROVE  /\ rows[PeerRefRow(c, h)] > 0 => rows[PeerRow(c, h)] > 0
                        /\ \A k \in Chaincodes :
                             rows[ChaincodeRefRow(c, k, h)] > 0 =>
                               rows[ChaincodeRow(c, k)] > 0 /\ rows[PeerRefRow(c, h)] > 0
      BY DEF ReferencesHaveTheirRows
    <2>1. /\ PeerRefRow(c, h) \in Keys /\ PeerRow(c, h) \in Keys
          /\ \A k \in Chaincodes : ChaincodeRefRow(c, k, h) \in Keys /\ ChaincodeRow(c, k) \in Keys
      BY RowKinds DEF Discovered
    <2>2. /\ Needs(PeerRefRow(c, h), PeerRow(c, h))
          /\ \A k \in Chaincodes : /\ Needs(ChaincodeRefRow(c, k, h), ChaincodeRow(c, k))
                                   /\ Needs(ChaincodeRefRow(c, k, h), PeerRefRow(c, h))
      BY DEF Needs, RefersTo, RefersToPeer, SavedBefore, PeerRow, PeerRefRow, ChaincodeRow,
             ChaincodeRefRow
    <2> QED
      BY <2>1, <2>2 DEF IInv, RefInv, RefRows
  <1> QED
    BY <1>1, InvariantIsInductive, PTL

(* Only the update of saveChannel sets a counter back, and no run is there as long as     *)
(* none has started while another was under way.                                          *)
THEOREM CountersStay == Spec => CountersKept
  <1>1. ASSUME IInv, [Next]_vars, ~overlapped', NEW c \in Channels
        PROVE  blocks'[c] >= blocks[c]
    <2> USE DEF tableVars, AtRun
    <2>1. blocks \in [Channels -> Nat]
      BY <1>1 DEF IInv, Types, TableTypes
    <2>2. CASE UNCHANGED blocks
      BY <2>1, <2>2
    <2>3. ASSUME NEW d \in Channels, StoreBlock(d) PROVE blocks'[c] >= blocks[c]
      BY <2>1, <2>3 DEF StoreBlock
    <2>4. CASE UNCHANGED vars \/ \E d \in Channels : Join(d) \/ Hub(d)
      BY <2>2, <2>4 DEF vars, Join, Hub, HubTick, Connected, Disconnect
    <2>5. CASE Boot \/ StartUp \/ ShutDown \/ Exit
      BY <2>2, <2>5 DEF Boot, StartUp, ClientChannels, ClientNewChannel, ClientDone, ShutDown, Exit
    <2>6. CASE (\E r \in Refreshes : StartRefresh(r)) \/ (\E r \in Timers : StartTimer(r))
      BY <2>2, <2>6 DEF StartRefresh, StartTimer
    <2>7. ASSUME NEW r \in Runs, RunFails(r) PROVE UNCHANGED blocks
      BY <2>7 DEF RunFails, Throw
    <2>8. ASSUME NEW r \in Runs, Advance(r) PROVE UNCHANGED blocks
      <3>1. ASSUME SaveChannelUpdate(r) PROVE FALSE
        <4>1. pc[r] = "saveUpdate" /\ ~overlapped
          BY <1>1, <3>1 DEF SaveChannelUpdate, Running
        <4> QED
          BY <1>1, <4>1 DEF IInv, AloneInv
      <3>2. CASE QueryChannels(r) \/ NewChannel(r) \/ GenesisBlock(r) \/ GetChannel(r)
                 \/ ExistChannel(r) \/ SaveChannelCount(r) \/ SaveChannelInsert(r)
        BY <3>2 DEF QueryChannels, NewChannel, GenesisBlock, GetChannel, ExistChannel, Throw,
                    SaveChannelCount, SaveChannelInsert
      <3>3. CASE Discover(r) \/ InstantiatedChaincodes(r) \/ SaveCount(r) \/ SaveInsert(r)
                 \/ ChannelDone(r)
        BY <3>3 DEF Discover, InstantiatedChaincodes, SaveCount, SaveInsert, ChannelDone
      <3> QED
        BY <2>8, <3>1, <3>2, <3>3 DEF Advance
    <2> QED
      BY <1>1, <2>2, <2>3, <2>4, <2>5, <2>6, <2>7, <2>8 DEF Next
  <1>2. IInv /\ [Next]_vars => [~overlapped' => \A c \in Channels : blocks'[c] >= blocks[c]]_vars
    BY <1>1
  <1> QED
    BY <1>2, InvariantIsInductive, PTL DEF Spec, CountersKept
=============================================================================
