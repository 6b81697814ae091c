--------------------------- MODULE ChannelConfig ---------------------------
(***************************************************************************)
(* How the sync child process of one network finds its channels, writes    *)
(* their configuration (channel, peers, orderers, chaincodes) to the       *)
(* database and registers a block listener for each.                       *)
(*                                                                         *)
(* SyncService.synchNetworkConfigToDB runs once while the process starts   *)
(* and then from a 30 s interval that does not wait for the run before it; *)
(* insertFromDiscoveryResults also runs from the timers that               *)
(* processBlockEvent leaves.  Every await of such a run is a step here,    *)
(* and each save of CRUDService is a count and, when it is 0, an INSERT.   *)
(***************************************************************************)
EXTENDS Naturals, Sequences, FiniteSets

CONSTANTS
  Channels,       \* channels the own peer may join
  FirstChannels,  \* those it has joined before the process starts
  StaleChannels,  \* channels whose name is in the database with another genesis hash
  Hosts,          \* peers and orderers
  PeersOf,        \* PeersOf[c]: the peers that discovery finds in c
  OrderersOf,     \* OrderersOf[c]: its orderers
  Chaincodes,     \* the chaincodes instantiated on the default channel
  RunsOn,         \* RunsOn[h]: the chaincodes discovery lists for peer h
  Refreshes,      \* runs of the 30 s interval that may be under way together
  Timers,         \* discovery timers that may be under way together
  MaxConnecting,  \* bound on the pending listener registrations of a channel
  MaxBlocks,      \* bound on the counter of stored blocks
  FaultKinds,     \* which calls may fail: "db", "query", "block", "discover", "hub"
  MaxFaults,      \* bound on failing calls
  MaxCrashes      \* bound on crashes from outside

CONSTANT Start    \* the run of synchNetworkConfigToDB that the start-up awaits
CONSTANT None     \* "not applicable" in a row or a local variable

Runs == {Start} \cup Refreshes \cup Timers

ASSUME RunsAssumption ==
  /\ IsFiniteSet(Runs)
  /\ Start \notin Refreshes \cup Timers
  /\ Refreshes \cap Timers = {}
ASSUME ChannelAssumption ==
  /\ FirstChannels \subseteq Channels
  /\ StaleChannels \subseteq Channels
  /\ None \notin Channels
  /\ PeersOf \in [Channels -> SUBSET Hosts]
  /\ OrderersOf \in [Channels -> SUBSET Hosts]
  /\ RunsOn \in [Hosts -> SUBSET Chaincodes]
ASSUME BoundAssumption ==
  /\ MaxConnecting \in Nat
  /\ MaxBlocks \in Nat
  /\ MaxFaults \in Nat
  /\ MaxCrashes \in Nat

\* The rows of the five tables, by the columns the counts before an INSERT select on.
ChannelRow(c) == <<"channel", c, None, None>>
PeerRow(c, h) == <<"peer", c, h, None>>
PeerRefRow(c, h) == <<"peer_ref_channel", c, h, None>>
ChaincodeRow(c, k) == <<"chaincodes", c, None, k>>
ChaincodeRefRow(c, k, h) == <<"peer_ref_chaincode", c, h, k>>
Keys ==
  {ChannelRow(c) : c \in Channels}
    \cup {PeerRow(c, h) : c \in Channels, h \in Hosts}
    \cup {PeerRefRow(c, h) : c \in Channels, h \in Hosts}
    \cup {ChaincodeRow(c, k) : c \in Channels, k \in Chaincodes}
    \cup {ChaincodeRefRow(c, k, h) : c \in Channels, k \in Chaincodes, h \in Hosts}

\* insertNewPeer and insertNewOrderers save a row and then its reference to the channel,
\* insertNewChannelChaincode a row and then its references to the peers.
SavedBefore(j, k) ==
  \/ j[1] = "peer" /\ k[1] = "peer_ref_channel" /\ j[3] = k[3]
  \/ j[1] = "chaincodes" /\ k[1] = "peer_ref_chaincode" /\ j[4] = k[4]

VARIABLES
  joined,      \* external: the channels GetChannels answers with
  alive,       \* the child process runs
  ready,       \* it is initialized: its intervals and listeners are started
  closing,     \* shutDown has begun
  channels,    \* FabricClient.channels, one array that everybody iterates over
  pc,          \* pc[r]: the await at which run r is suspended
  queried,     \* queried[r]: channels of GetChannels' answer it has not looked at
  at,          \* at[r]: its index in the live array channels
  chan,        \* chan[r]: the channel it is at
  found,       \* found[r]: the peers its last discovery returned
  todo,        \* todo[r]: the rows it has still to save
  key,         \* key[r]: the row it is saving
  rows,        \* rows[k]: the number of rows in the tables for key k
  blocks,      \* column blocks of table channel
  existSent,   \* channels for which EXISTCHANNEL was sent to the parent
  connecting,  \* connecting[c]: pending calls of createChannelEventHub
  listeners,   \* listeners[c]: block listeners registered with the gateway
  hubs,        \* keys of FabricEvent.channelEventHubs
  leaving,     \* pending calls of disconnectChannelEventHub
  overlapped,  \* history: a run has started while another one was under way
  faults, crashes

runVars == <<pc, queried, at, chan, found, todo, key>>
tableVars == <<rows, blocks>>
hubVars == <<connecting, listeners, hubs, leaving>>
procVars == <<alive, ready, closing>>
budget == <<faults, crashes>>
vars == <<joined, procVars, channels, runVars, tableVars, existSent, hubVars,
          overlapped, budget>>

Listed == {channels[i] : i \in 1 .. Len(channels)}
Busy(r) == pc[r] # "idle"

Fault(kind) ==
  /\ kind \in FaultKinds
  /\ faults < MaxFaults
  /\ faults' = faults + 1
  /\ UNCHANGED crashes

Init ==
  /\ joined = FirstChannels
  /\ alive = FALSE
  /\ ready = FALSE
  /\ closing = FALSE
  /\ channels = <<>>
  /\ pc = [r \in Runs |-> "idle"]
  /\ queried = [r \in Runs |-> {}]
  /\ at = [r \in Runs |-> 0]
  /\ chan = [r \in Runs |-> None]
  /\ found = [r \in Runs |-> {}]
  /\ todo = [r \in Runs |-> {}]
  /\ key = [r \in Runs |-> ChannelRow(None)]
  /\ connecting = [c \in Channels |-> 0]
  /\ listeners = [c \in Channels |-> 0]
  /\ hubs = {}
  /\ leaving = {}
  /\ rows = [k \in Keys |-> 0]
  /\ blocks = [c \in Channels |-> 0]
  /\ existSent = {}
  /\ overlapped = FALSE
  /\ faults = 0
  /\ crashes = 0

-----------------------------------------------------------------------------
(* The world outside and the life of the process. *)

\* External: the own peer joins one more channel.
Join(c) ==
  /\ c \notin joined
  /\ joined' = joined \cup {c}
  /\ UNCHANGED <<procVars, channels, runVars, tableVars, existSent, hubVars,
                 overlapped, budget>>

\* Every run is forgotten.
ForgetRuns ==
  /\ pc' = [r \in Runs |-> "idle"]
  /\ queried' = [r \in Runs |-> {}]
  /\ at' = [r \in Runs |-> 0]
  /\ chan' = [r \in Runs |-> None]
  /\ found' = [r \in Runs |-> {}]
  /\ todo' = [r \in Runs |-> {}]
  /\ key' = [r \in Runs |-> ChannelRow(None)]

\* The process ends, by a crash or at the end of shutDown.
Exit ==
  /\ alive
  /\ \/ closing /\ UNCHANGED budget
     \/ crashes < MaxCrashes /\ crashes' = crashes + 1 /\ UNCHANGED faults
  /\ alive' = FALSE
  /\ ready' = FALSE
  /\ closing' = FALSE
  /\ channels' = <<>>
  /\ ForgetRuns
  /\ connecting' = [c \in Channels |-> 0]
  /\ listeners' = [c \in Channels |-> 0]
  /\ hubs' = {}
  /\ leaving' = {}
  /\ UNCHANGED <<joined, tableVars, existSent, overlapped>>

\* shutDown: Synchronizer.close ends the database connection, so that no run gets an
\* answer any more, and disconnectEventHubs begins to disconnect every entry of the map.
BeginShutDown ==
  /\ closing' = TRUE
  /\ leaving' = hubs
  /\ ForgetRuns

ShutDown ==
  /\ alive
  /\ ~closing
  /\ BeginShutDown
  /\ UNCHANGED <<joined, alive, ready, channels, tableVars, existSent, connecting,
                 listeners, hubs, overlapped, budget>>

\* A run throws.  Nobody awaits it but the start-up, which nobody awaits either: the
\* rejection reaches the process, which shuts down.
Throw ==
  /\ BeginShutDown
  /\ UNCHANGED <<joined, alive, ready, channels, tableVars, connecting, listeners, hubs,
                 overlapped>>

-----------------------------------------------------------------------------
(* What a run does between two awaits. *)

Running(r, label) == alive /\ ~closing /\ pc[r] = label
Goto(r, label) == pc' = [pc EXCEPT ![r] = label]

Became(r, label) ==
  /\ Goto(r, label)
  /\ UNCHANGED <<queried, at, chan, found, todo, key>>

\* FabricEvent.initialize: a registration for each listed channel that has no listener.
ConnectAll ==
  connecting' =
    [c \in Channels |-> connecting[c] + (IF c \in Listed \ hubs THEN 1 ELSE 0)]

\* A run returns; when it was the start-up's, the intervals and the listeners start.
Return(r) ==
  /\ pc' = [pc EXCEPT ![r] = "idle"]
  /\ queried' = [queried EXCEPT ![r] = {}]
  /\ at' = [at EXCEPT ![r] = 0]
  /\ chan' = [chan EXCEPT ![r] = None]
  /\ found' = [found EXCEPT ![r] = {}]
  /\ todo' = [todo EXCEPT ![r] = {}]
  /\ key' = [key EXCEPT ![r] = ChannelRow(None)]
  /\ \/ r = Start /\ ready' = TRUE /\ ConnectAll
     \/ r # Start /\ UNCHANGED <<ready, connecting>>

\* The head of "for (const channel_name of channels)" over the array as it is now, which
\* may have grown since the loop began.  A timer's run has no such loop.
NextChannelButLast(r, list) ==
  IF r \notin Timers /\ at[r] + 1 < Len(list)
  THEN /\ Goto(r, "genesis")
       /\ at' = [at EXCEPT ![r] = @ + 1]
       /\ chan' = [chan EXCEPT ![r] = list[at[r] + 1]]
       /\ UNCHANGED <<queried, found, todo, key, ready, connecting>>
  ELSE Return(r)

NextChannel(r, list) ==
  IF r \notin Timers /\ at[r] < Len(list)
  THEN /\ Goto(r, "genesis")
       /\ at' = [at EXCEPT ![r] = @ + 1]
       /\ chan' = [chan EXCEPT ![r] = list[at[r] + 1]]
       /\ UNCHANGED <<queried, found, todo, key, ready, connecting>>
  ELSE Return(r)

\* The head of the loop over GetChannels' answer: a listed channel is passed over.
NextQueriedUnchecked(r, left, list) ==
  IF left # {}
  THEN /\ Goto(r, "new")
       /\ \E c \in left :
            /\ chan' = [chan EXCEPT ![r] = c]
            /\ queried' = [queried EXCEPT ![r] = left \ {c}]
       /\ UNCHANGED <<at, found, todo, key, ready, connecting>>
  ELSE NextChannel(r, list)

NextQueried(r, left, list) ==
  LET unlisted == left \ {list[i] : i \in 1 .. Len(list)}
  IN IF unlisted # {}
     THEN /\ Goto(r, "new")
          /\ \E c \in unlisted :
               /\ chan' = [chan EXCEPT ![r] = c]
               /\ queried' = [queried EXCEPT ![r] = left \ {c}]
          /\ UNCHANGED <<at, found, todo, key, ready, connecting>>
     ELSE NextChannel(r, list)

\* initializeNewChannel, once the genesis block is there: the genesis hash enters the map
\* and the name the array, whether or not somebody has appended it during the await.
InitializeNewChannel(c) == channels' = Append(channels, c)

AtRun == <<joined, alive, closing, existSent, listeners, hubs, leaving>>

-----------------------------------------------------------------------------
(* The start-up: FabricClient.initialize. *)

Boot ==
  /\ ~alive
  /\ alive' = TRUE
  /\ Became(Start, "client")
  /\ UNCHANGED <<joined, ready, closing, channels, tableVars, existSent, hubVars,
                 overlapped, budget>>

\* FabricClient.initialize: queryChannels answers, or fails and is caught: then the
\* client has no channels, and synchNetworkConfigToDB asks again.
ClientChannels ==
  /\ Running(Start, "client")
  /\ \/ /\ queried' = [queried EXCEPT ![Start] = joined]
        /\ Goto(Start, "clientNew")
        /\ UNCHANGED <<at, chan, found, todo, key, budget>>
     \/ Fault("query") /\ Became(Start, "channels")
  /\ UNCHANGED <<AtRun, ready, connecting, channels, tableVars, overlapped>>

\* Its loop: initializeNewChannel for one more channel; a failure is caught there.
ClientNewChannel ==
  /\ Running(Start, "clientNew")
  /\ \E c \in queried[Start] :
       /\ queried' = [queried EXCEPT ![Start] = @ \ {c}]
       /\ \/ InitializeNewChannel(c) /\ UNCHANGED budget
          \/ Fault("block") /\ UNCHANGED channels
  /\ UNCHANGED <<AtRun, ready, connecting, pc, at, chan, found, todo, key, tableVars,
                 overlapped>>

ClientDone ==
  /\ Running(Start, "clientNew")
  /\ queried[Start] = {}
  /\ Became(Start, "channels")
  /\ UNCHANGED <<AtRun, ready, connecting, channels, tableVars, overlapped, budget>>

-----------------------------------------------------------------------------
(* synchNetworkConfigToDB. *)

\* The interval fires, whether or not an earlier run is still under way.
StartRefresh(r) ==
  /\ alive /\ ready /\ ~closing
  /\ pc[r] = "idle"
  /\ Became(r, "channels")
  /\ overlapped' = (overlapped \/ \E s \in Runs : Busy(s))
  /\ UNCHANGED <<joined, procVars, channels, tableVars, existSent, hubVars, budget>>

QueryChannels(r) ==
  /\ Running(r, "channels")
  /\ NextQueried(r, joined, channels)
  /\ UNCHANGED <<AtRun, channels, tableVars, overlapped, budget>>

NewChannel(r) ==
  /\ Running(r, "new")
  /\ InitializeNewChannel(chan[r])
  /\ NextQueried(r, queried[r], channels')
  /\ UNCHANGED <<AtRun, tableVars, overlapped, budget>>

\* getGenesisBlock for the hash that insertNewChannel compares.
GenesisBlock(r) ==
  /\ Running(r, "genesis")
  /\ Became(r, "getChannel")
  /\ UNCHANGED <<AtRun, ready, connecting, channels, tableVars, overlapped, budget>>

\* insertNewChannel: select * from channel where name and channel_genesis_hash.
GetChannelForgotten(r) ==
  /\ Running(r, "getChannel")
  /\ Became(r, "existChannel")
  /\ UNCHANGED <<AtRun, ready, connecting, channels, tableVars, overlapped, budget>>

GetChannelAlwaysSaves(r) ==
  /\ Running(r, "getChannel")
  /\ Became(r, "saveCount")
  /\ UNCHANGED <<AtRun, ready, connecting, channels, tableVars, overlapped, budget>>

GetChannel(r) ==
  /\ Running(r, "getChannel")
  /\ Became(r, IF rows[ChannelRow(chan[r])] = 0 THEN "existChannel" ELSE "discover")
  /\ UNCHANGED <<AtRun, ready, connecting, channels, tableVars, overlapped, budget>>

\* insertNewChannel: select count(1) from channel where name.  A channel that is there
\* is reported to the parent, and the run throws.
ExistChannelIgnored(r) ==
  /\ Running(r, "existChannel")
  /\ Became(r, "saveCount")
  /\ UNCHANGED <<AtRun, ready, connecting, channels, tableVars, overlapped, budget>>

ExistChannel(r) ==
  /\ Running(r, "existChannel")
  /\ IF rows[ChannelRow(chan[r])] = 0 /\ chan[r] \notin StaleChannels
     THEN /\ Became(r, "saveCount")
          /\ UNCHANGED <<AtRun, ready, connecting, channels, tableVars, overlapped>>
     ELSE /\ existSent' = existSent \cup {chan[r]}
          /\ Throw
  /\ UNCHANGED budget

\* saveChannel: count by name and hash; a row found now is updated, not inserted.
SaveChannelCount(r) ==
  /\ Running(r, "saveCount")
  /\ Became(r, IF rows[ChannelRow(chan[r])] = 0 THEN "saveInsert" ELSE "saveUpdate")
  /\ UNCHANGED <<AtRun, ready, connecting, channels, tableVars, overlapped, budget>>

SaveChannelInsert(r) ==
  /\ Running(r, "saveInsert")
  /\ rows' = [rows EXCEPT ![ChannelRow(chan[r])] = @ + 1]
  /\ Became(r, "discover")
  /\ UNCHANGED <<AtRun, ready, connecting, channels, blocks, overlapped, budget>>

\* saveChannel: update channel set blocks = 0, trans = 0.
SaveChannelUpdate(r) ==
  /\ Running(r, "saveUpdate")
  /\ blocks' = [blocks EXCEPT ![chan[r]] = 0]
  /\ Became(r, "discover")
  /\ UNCHANGED <<AtRun, ready, connecting, channels, rows, overlapped, budget>>

-----------------------------------------------------------------------------
(* insertFromDiscoveryResults. *)

\* A discovery timer of processBlockEvent runs insertFromDiscoveryResults alone.
StartTimer(r) ==
  /\ alive /\ ready /\ ~closing
  /\ pc[r] = "idle"
  /\ \E c \in hubs : chan' = [chan EXCEPT ![r] = c]
  /\ Goto(r, "discover")
  /\ overlapped' = (overlapped \/ \E s \in Runs : Busy(s))
  /\ UNCHANGED <<joined, procVars, channels, queried, at, found, todo, key, tableVars,
                 existSent, hubVars, budget>>

\* getDiscoveryResult answers, or has caught an error and answers null: then no peer and
\* no orderer is saved, and no reference of a chaincode to its peers.
DiscoveredRows(c, nodes) ==
  {PeerRow(c, h) : h \in nodes} \cup {PeerRefRow(c, h) : h \in nodes}

GetDiscoveryResult(r) ==
  \/ /\ found' = [found EXCEPT ![r] = PeersOf[chan[r]]]
     /\ todo' = [todo EXCEPT ![r] =
                   DiscoveredRows(chan[r], PeersOf[chan[r]] \cup OrderersOf[chan[r]])]
     /\ UNCHANGED budget
  \/ /\ Fault("discover")
     /\ found' = [found EXCEPT ![r] = {}]
     /\ UNCHANGED todo

\* initializeChannelFromDiscover; its channel is listed by now.
Discover(r) ==
  /\ Running(r, "discover")
  /\ GetDiscoveryResult(r)
  /\ Goto(r, "nodes")
  /\ UNCHANGED <<AtRun, ready, connecting, channels, queried, at, chan, key, tableVars,
                 overlapped>>

\* queryInstantiatedChaincodes answers with the chaincodes of the default channel,
\* whatever channel this run is at.
ChaincodeRows(c, peers) ==
  {ChaincodeRow(c, k) : k \in Chaincodes}
    \cup {ChaincodeRefRow(c, p[1], p[2]) :
            p \in {q \in Chaincodes \X peers : q[1] \in RunsOn[q[2]]}}

InstantiatedChaincodes(r) ==
  /\ Running(r, "nodes")
  /\ todo[r] = {}
  /\ todo' = [todo EXCEPT ![r] = ChaincodeRows(chan[r], found[r])]
  /\ Goto(r, "codes")
  /\ UNCHANGED <<AtRun, ready, connecting, channels, queried, at, chan, found, key,
                 tableVars, overlapped, budget>>

\* savePeer, savePeerChannelRef, saveChaincode, saveChaincodPeerRef: select count(1);
\* a row that is there is left alone.
SavableAtOnce(r) == todo[r]
Savable(r) == {k \in todo[r] : \A j \in todo[r] : ~SavedBefore(j, k)}

SaveCountIgnored(r) ==
  /\ Running(r, "nodes") \/ Running(r, "codes")
  /\ \E k \in Savable(r) :
       /\ todo' = [todo EXCEPT ![r] = @ \ {k}]
       /\ key' = [key EXCEPT ![r] = k]
       /\ Goto(r, IF pc[r] = "nodes" THEN "nodeInsert" ELSE "codeInsert")
  /\ UNCHANGED <<AtRun, ready, connecting, channels, queried, at, chan, found, tableVars,
                 overlapped, budget>>

SaveCount(r) ==
  /\ Running(r, "nodes") \/ Running(r, "codes")
  /\ \E k \in Savable(r) :
       /\ todo' = [todo EXCEPT ![r] = @ \ {k}]
       /\ \/ rows[k] > 0 /\ UNCHANGED <<pc, key>>
          \/ /\ rows[k] = 0
             /\ key' = [key EXCEPT ![r] = k]
             /\ Goto(r, IF pc[r] = "nodes" THEN "nodeInsert" ELSE "codeInsert")
  /\ UNCHANGED <<AtRun, ready, connecting, channels, queried, at, chan, found, tableVars,
                 overlapped, budget>>

\* The INSERT of the row that the count has not found.
SaveInsert(r) ==
  /\ Running(r, "nodeInsert") \/ Running(r, "codeInsert")
  /\ rows' = [rows EXCEPT ![key[r]] = @ + 1]
  /\ key' = [key EXCEPT ![r] = ChannelRow(None)]
  /\ Goto(r, IF pc[r] = "nodeInsert" THEN "nodes" ELSE "codes")
  /\ UNCHANGED <<AtRun, ready, connecting, channels, queried, at, chan, found, todo,
                 blocks, overlapped, budget>>

\* All rows are saved: the loop goes on with the next channel of the live array.
ChannelDone(r) ==
  /\ Running(r, "codes")
  /\ todo[r] = {}
  /\ NextChannel(r, channels)
  /\ UNCHANGED <<AtRun, channels, tableVars, overlapped, budget>>

\* A call fails that nobody catches: a statement, GetChannels, GetChaincodes, or reading
\* the header of the null that getGenesisBlock answers with after an error.
RunFails(r) ==
  /\ alive /\ ~closing
  /\ \/ pc[r] \in {"getChannel", "existChannel", "saveCount", "saveInsert", "saveUpdate",
                   "nodeInsert", "codeInsert"} /\ Fault("db")
     \/ pc[r] \in {"nodes", "codes"} /\ todo[r] # {} /\ Fault("db")
     \/ pc[r] \in {"new", "genesis"} /\ Fault("block")
     \/ (pc[r] = "channels" \/ (pc[r] = "nodes" /\ todo[r] = {})) /\ Fault("query")
  /\ Throw
  /\ UNCHANGED existSent

-----------------------------------------------------------------------------
(* FabricEvent: the block listeners. *)

\* isChannelEventHubConnected: a channel without an entry in the map is connected again,
\* also while an earlier registration is still pending.
HubTick(c) ==
  /\ alive /\ ready /\ ~closing
  /\ c \in Listed \ hubs
  /\ connecting[c] < MaxConnecting
  /\ connecting' = [connecting EXCEPT ![c] = @ + 1]
  /\ UNCHANGED <<AtRun, ready, channels, runVars, tableVars, overlapped, budget>>

\* createChannelEventHub: getNetwork and addBlockListener have answered; the map has room
\* for one listener per channel.  A failure is caught and logged.
Connected(c) ==
  /\ alive
  /\ connecting[c] > 0
  /\ connecting' = [connecting EXCEPT ![c] = @ - 1]
  /\ \/ /\ listeners' = [listeners EXCEPT ![c] = @ + 1]
        /\ hubs' = hubs \cup {c}
        /\ UNCHANGED budget
     \/ Fault("hub") /\ UNCHANGED <<listeners, hubs>>
  /\ UNCHANGED <<joined, procVars, channels, runVars, tableVars, existSent, leaving,
                 overlapped>>

\* disconnectChannelEventHub: the listener of the map is removed, and its entry.
DisconnectAgain(c) ==
  /\ alive
  /\ c \in leaving
  /\ listeners' = [listeners EXCEPT ![c] = @ - 1]
  /\ hubs' = hubs \ {c}
  /\ UNCHANGED <<joined, procVars, channels, runVars, tableVars, existSent, connecting,
                 leaving, overlapped, budget>>

Disconnect(c) ==
  /\ alive
  /\ c \in leaving
  /\ leaving' = leaving \ {c}
  /\ listeners' = [listeners EXCEPT ![c] = @ - 1]
  /\ hubs' = hubs \ {c}
  /\ UNCHANGED <<joined, procVars, channels, runVars, tableVars, existSent, connecting,
                 overlapped, budget>>

\* External (module BlockSync): a listener has a block stored, and the counter of the
\* channel's row, when there is one, goes up.
StoreBlock(c) ==
  /\ alive /\ ~closing
  /\ c \in hubs
  /\ rows[ChannelRow(c)] > 0
  /\ blocks[c] < MaxBlocks
  /\ blocks' = [blocks EXCEPT ![c] = @ + 1]
  /\ UNCHANGED <<joined, procVars, channels, runVars, rows, existSent, hubVars,
                 overlapped, budget>>

-----------------------------------------------------------------------------
StartUp == ClientChannels \/ ClientNewChannel \/ ClientDone

Advance(r) ==
  \/ QueryChannels(r) \/ NewChannel(r) \/ GenesisBlock(r)
  \/ GetChannel(r) \/ ExistChannel(r)
  \/ SaveChannelCount(r) \/ SaveChannelInsert(r) \/ SaveChannelUpdate(r)
  \/ Discover(r) \/ InstantiatedChaincodes(r)
  \/ SaveCount(r) \/ SaveInsert(r) \/ ChannelDone(r)

Hub(c) == HubTick(c) \/ Connected(c) \/ Disconnect(c)

Next ==
  \/ Boot \/ StartUp \/ ShutDown \/ Exit
  \/ \E r \in Refreshes : StartRefresh(r)
  \/ \E r \in Timers : StartTimer(r)
  \/ \E r \in Runs : Advance(r) \/ RunFails(r)
  \/ \E c \in Channels : Join(c) \/ Hub(c) \/ StoreBlock(c)

Spec == Init /\ [][Next]_vars

\* The intervals keep firing and peers and database answer.  Nothing restarts the process.
Fairness ==
  /\ WF_vars(StartUp)
  /\ \A r \in Refreshes : WF_vars(StartRefresh(r))
  /\ \A r \in Runs : WF_vars(Advance(r))
  /\ \A c \in Channels : WF_vars(HubTick(c)) /\ WF_vars(Connected(c))

FairSpec == Spec /\ Fairness

-----------------------------------------------------------------------------
(* Properties. *)

Labels ==
  {"idle", "client", "clientNew", "channels", "new", "genesis", "getChannel",
   "existChannel", "saveCount", "saveInsert", "saveUpdate", "discover", "nodes",
   "nodeInsert", "codes", "codeInsert"}

\* Types of the variables.
TypeOK ==
  /\ joined \subseteq Channels
  /\ alive \in BOOLEAN /\ ready \in BOOLEAN /\ closing \in BOOLEAN
  /\ channels \in Seq(Channels)
  /\ pc \in [Runs -> Labels]
  /\ queried \in [Runs -> SUBSET Channels]
  /\ at \in [Runs -> Nat]
  /\ chan \in [Runs -> Channels \cup {None}]
  /\ found \in [Runs -> SUBSET Hosts]
  /\ todo \in [Runs -> SUBSET Keys]
  /\ key \in [Runs -> Keys \cup {ChannelRow(None)}]
  /\ rows \in [Keys -> Nat]
  /\ blocks \in [Channels -> Nat]
  /\ existSent \subseteq Channels
  /\ connecting \in [Channels -> Nat]
  /\ listeners \in [Channels -> Nat]
  /\ hubs \subseteq Channels
  /\ leaving \subseteq Channels
  /\ overlapped \in BOOLEAN
  /\ faults \in Nat /\ crashes \in Nat

\* The tables have no UNIQUE constraint.  A second row of anything takes runs that
\* overlap; however often they do, there is never more than one row for each run that can
\* be under way at once, because a row that is there is found by every later count.
RowsDuplicatedOnlyByOverlap ==
  \A k \in Keys :
    rows[k] <= IF overlapped THEN Cardinality(Runs) ELSE 1

\* The database never holds one channel name under two genesis hashes.
OneHashPerName == \A c \in StaleChannels : rows[ChannelRow(c)] = 0

\* The parent is told that a channel exists, and closes (ERROR_2009), only when its name
\* is in the database with another genesis hash - unless two runs overlap: then the row
\* that one has just inserted looks to the other like such a channel.
ExistReportedOnlyForOtherHash == ~overlapped => existSent \subseteq StaleChannels

\* The reference tables have no FOREIGN KEY, and the joins over them drop a reference
\* whose row is missing: whatever fails or crashes in between, a reference to a peer or a
\* chaincode is there only after the row it refers to.
ReferencesHaveTheirRows ==
  \A c \in Channels, h \in Hosts :
    /\ rows[PeerRefRow(c, h)] > 0 => rows[PeerRow(c, h)] > 0
    /\ \A k \in Chaincodes :
         rows[ChaincodeRefRow(c, k, h)] > 0
           => rows[ChaincodeRow(c, k)] > 0 /\ rows[PeerRefRow(c, h)] > 0

\* The array channels, which drives both intervals and the listeners, names a channel once
\* unless runs overlap, and never more often than there are runs.
Occurrences(c) == Cardinality({i \in 1 .. Len(channels) : channels[i] = c})
ListedOnce ==
  \A c \in Channels : Occurrences(c) <= IF overlapped THEN Cardinality(Runs) ELSE 1

\* saveChannel sets the counters of a row it finds back to 0.  They are never set back
\* unless runs overlap: insertNewChannel calls it for a channel that is not there only.
CountersKept ==
  [][~overlapped' => \A c \in Channels : blocks'[c] >= blocks[c]]_vars

\* A channel the peer has joined, at the start or later, is served as long as the process
\* stays up: its row, its peers and its chaincodes are saved and a listener is registered,
\* although discovery or a registration fails once.
Saved(c) ==
  /\ rows[ChannelRow(c)] > 0
  /\ \A h \in PeersOf[c] \cup OrderersOf[c] : rows[PeerRefRow(c, h)] > 0
  /\ \A h \in PeersOf[c] : \A k \in RunsOn[h] : rows[ChaincodeRefRow(c, k, h)] > 0
JoinedChannelServed ==
  <>[](alive /\ ~closing) =>
    \A c \in Channels : (c \in joined) ~> (Saved(c) /\ c \in hubs)
=============================================================================
