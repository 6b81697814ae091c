------------------------------ MODULE Gateway -------------------------------
(***************************************************************************)
(* The identities of the explorer's parent process: the wallet on the      *)
(* disk, the certificate authority, and the one gateway of the default     *)
(* network that every request shares.  FabricGateway.initialize opens the  *)
(* gateway as the administrator; UserService registers and enrols users,   *)
(* and reconnects the gateway as each of them, while other requests query  *)
(* the ledger through it.  A process dies and is started again; wallet and *)
(* authority stay.                                                         *)
(***************************************************************************)
EXTENDS Integers, FiniteSets

CONSTANTS
    Users,          \* the names that requests register
    Admin,          \* client.adminUser of the connection profile
    Requests,       \* bound: the requests, each made once
    CaModes,        \* whether the connection profile names certificate authorities
    AuthEnabled,    \* client.enableAuthentication
    MaxFaults,      \* bound: calls of the authority or of connect that fail
    MaxCrashes      \* bound: deaths of the process other than by a failed start

ASSUME GatewayAssumption ==
    /\ Admin \notin Users
    /\ "none" \notin Users \cup {Admin}
    /\ CaModes \subseteq BOOLEAN /\ AuthEnabled \in BOOLEAN
    /\ {MaxFaults, MaxCrashes} \subseteq Nat

None == "none"
Names == Users \cup {Admin}

VARIABLES
    caEnabled, \* FabricConfig.isFabricCaEnabled: the profile never changes
    proc,      \* "down", "lookup", "enroll", "connect", "up" or "failed"
    putting,   \* wallet.put of enrollUserIdentity is under way
    wallet,    \* the names with an identity in the wallet
    ca,        \* the names the authority knows
    gw,        \* the gateway: whose identity it is connected with, or None
    pc,        \* where each request is
    kind,      \* what each request asks for
    user,      \* the name each request is about
    answer,    \* "none", "200", "400", "lost", or "block" and "null" of a query
    tokens,    \* the names that hold a token: it outlives the process
    faults, crashes

bootVars == <<caEnabled, proc, putting>>
reqVars  == <<pc, kind, user, answer>>
vars == <<bootVars, wallet, ca, gw, reqVars, tokens, faults, crashes>>

-----------------------------------------------------------------------------
TypeOK ==
    /\ caEnabled \in CaModes
    /\ proc \in {"down", "lookup", "enroll", "connect", "up", "failed"}
    /\ putting \in BOOLEAN
    /\ wallet \subseteq Names
    /\ ca \subseteq Names
    /\ gw \in Names \cup {None}
    /\ pc \in [Requests -> {"idle", "get", "context", "register", "enroll", "put",
                            "connect", "done"}]
    /\ kind \in [Requests -> {None, "register", "enroll", "query"}]
    /\ user \in [Requests -> Names \cup {None}]
    /\ answer \in [Requests -> {None, "200", "400", "lost", "block", "null"}]
    /\ \A r \in Requests : answer[r] # None <=> pc[r] = "done"    \* no answer before the end
    /\ tokens \subseteq Names
    /\ faults \in 0..MaxFaults
    /\ crashes \in 0..MaxCrashes

Init ==
    /\ caEnabled \in CaModes
    /\ proc = "down" /\ putting = FALSE
    /\ wallet = {}
    /\ ca = IF caEnabled THEN {Admin} ELSE {}
    /\ gw = None
    /\ pc = [r \in Requests |-> "idle"]
    /\ kind = [r \in Requests |-> None]
    /\ user = [r \in Requests |-> None]
    /\ answer = [r \in Requests |-> None]
    /\ tokens = {}
    /\ faults = 0 /\ crashes = 0

Fault == faults < MaxFaults /\ faults' = faults + 1

-----------------------------------------------------------------------------
(* FabricGateway.initialize. *)

BootStart ==
    /\ proc = "down"
    /\ proc' = "lookup"
    /\ UNCHANGED <<caEnabled, putting, wallet, ca, gw, reqVars, tokens, faults, crashes>>

(* Without an authority the identity is made of the files of the           *)
(* connection profile; the put of enrollUserIdentity is not awaited.       *)
BootLookup ==
    /\ proc = "lookup"
    /\ \/ Admin \in wallet /\ proc' = "connect" /\ UNCHANGED putting
       \/ Admin \notin wallet /\ caEnabled /\ proc' = "enroll" /\ UNCHANGED putting
       \/ Admin \notin wallet /\ ~caEnabled /\ proc' = "connect" /\ putting' = TRUE
    /\ UNCHANGED <<caEnabled, wallet, ca, gw, reqVars, tokens, faults, crashes>>

(* Mutant: the identity is used and never put. *)
BootPutForgotten ==
    /\ putting
    /\ putting' = FALSE
    /\ UNCHANGED <<caEnabled, proc, wallet, ca, gw, reqVars, tokens, faults, crashes>>

BootPut ==
    /\ putting
    /\ putting' = FALSE
    /\ wallet' = wallet \cup {Admin}
    /\ UNCHANGED <<caEnabled, proc, ca, gw, reqVars, tokens, faults, crashes>>

(* enrollCaIdentity answers null after an error, which nobody looks at. *)
BootEnroll ==
    /\ proc = "enroll"
    /\ proc' = "connect"
    /\ \/ wallet' = wallet \cup {Admin} /\ UNCHANGED faults
       \/ Fault /\ UNCHANGED wallet
    /\ UNCHANGED <<caEnabled, putting, ca, gw, reqVars, tokens, crashes>>

(* connect reads the identity from the wallet. *)
BootConnect ==
    /\ proc = "connect"
    /\ \/ /\ Admin \in wallet
          /\ gw' = Admin /\ proc' = "up"
          /\ UNCHANGED faults
       \/ /\ Admin \notin wallet \/ faults < MaxFaults
          /\ faults' = IF Admin \in wallet THEN faults + 1 ELSE faults
          /\ proc' = "failed"
          /\ UNCHANGED gw
    /\ UNCHANGED <<caEnabled, putting, wallet, ca, reqVars, tokens, crashes>>

(* Requests under way die with the process. *)
RequestsLost ==
    LET open == {r \in Requests : pc[r] \notin {"idle", "done"}} IN
    /\ pc' = [r \in Requests |-> IF r \in open THEN "done" ELSE pc[r]]
    /\ answer' = [r \in Requests |-> IF r \in open THEN "lost" ELSE answer[r]]

(* ERROR_1010 leaves the client without its channels: the explorer ends    *)
(* some seconds later (Explorer), when a write to the disk is long done.   *)
BootFails ==
    /\ proc = "failed" /\ ~putting
    /\ proc' = "down"
    /\ UNCHANGED <<caEnabled, putting, wallet, ca, gw, reqVars, tokens, faults, crashes>>

Crash ==
    /\ proc # "down" /\ crashes < MaxCrashes
    /\ crashes' = crashes + 1
    /\ proc' = "down" /\ putting' = FALSE /\ gw' = None
    /\ RequestsLost
    /\ UNCHANGED <<caEnabled, wallet, ca, kind, user, tokens, faults>>

-----------------------------------------------------------------------------
(* UserService.authenticate and the token of local-login: with             *)
(* authentication only the administrator is let in.                        *)
Authenticated(name) == ~AuthEnabled \/ name = Admin

Login(name) ==
    /\ proc = "up" /\ name \notin tokens
    /\ Authenticated(name)
    /\ tokens' = tokens \cup {name}
    /\ UNCHANGED <<bootVars, wallet, ca, gw, reqVars, faults, crashes>>

(* auth-check lets a request with a valid token pass. *)
AuthCheck == tokens # {}

Goto(r, label) ==
    /\ pc' = [pc EXCEPT ![r] = label]
    /\ UNCHANGED answer

Answer(r, a) ==
    /\ pc' = [pc EXCEPT ![r] = "done"]
    /\ answer' = [answer EXCEPT ![r] = a]

(* POST /api/register; enroll is the operation that Proxy offers beside it. *)
Arrive(r) ==
    /\ proc = "up" /\ AuthCheck /\ pc[r] = "idle"
    /\ \E u \in Users, k \in {"register", "enroll"} :
          /\ kind' = [kind EXCEPT ![r] = k]
          /\ user' = [user EXCEPT ![r] = u]
    /\ Goto(r, "get")
    /\ UNCHANGED <<bootVars, wallet, ca, gw, tokens, faults, crashes>>

(* wallet.get of register, and of enrollCaIdentity when enroll called it. *)
WalletGet(r) ==
    /\ pc[r] = "get"
    /\ \/ /\ kind[r] = "register"
          /\ IF user[r] \in wallet \/ ~caEnabled
             THEN Answer(r, "400")             \* already exists; no authority
             ELSE Goto(r, "context")
       \/ /\ kind[r] = "enroll"
          /\ Goto(r, IF user[r] \in wallet THEN "connect" ELSE "enroll")
    /\ gw' = IF pc'[r] = "connect" THEN None ELSE gw
    /\ UNCHANGED <<bootVars, wallet, ca, kind, user, tokens, faults, crashes>>

(* getUserContext of the administrator, whose context signs the call. *)
GetUserContext(r) ==
    /\ pc[r] = "context"
    /\ IF Admin \in wallet THEN Goto(r, "register") ELSE Answer(r, "400")
    /\ UNCHANGED <<bootVars, wallet, ca, gw, kind, user, tokens, faults, crashes>>

(* Mutant: the answer of the authority is not looked at. *)
CaRegisterUnchecked(r) ==
    /\ pc[r] = "register"
    /\ ca' = ca \cup {user[r]}
    /\ Goto(r, "enroll")
    /\ UNCHANGED <<bootVars, wallet, gw, kind, user, tokens, faults, crashes>>

(* ca.register: the authority refuses a name it knows; the call or its     *)
(* answer may be lost.                                                     *)
CaRegister(r) ==
    /\ pc[r] = "register"
    /\ \/ /\ user[r] \in ca
          /\ Answer(r, "400")
          /\ UNCHANGED <<ca, faults>>
       \/ /\ user[r] \notin ca
          /\ ca' = ca \cup {user[r]}
          /\ Goto(r, "enroll")
          /\ UNCHANGED faults
       \/ /\ Fault
          /\ ca' \in {ca, ca \cup {user[r]}}
          /\ Answer(r, "400")
    /\ UNCHANGED <<bootVars, wallet, gw, kind, user, tokens, crashes>>

(* FabricGateway.enrollCaIdentity: the authority gives a certificate to    *)
(* who is registered; every failure becomes null, whose mspId is then read *)
(* in reconnectGw before it disconnects the gateway.                       *)
EnrollCaIdentity(r) ==
    /\ pc[r] = "enroll"
    /\ \/ /\ caEnabled /\ user[r] \in ca
          /\ Goto(r, "put")
          /\ UNCHANGED faults
       \/ /\ ~caEnabled \/ user[r] \notin ca
          /\ Answer(r, "400")
          /\ UNCHANGED faults
       \/ Fault /\ Answer(r, "400")
    /\ UNCHANGED <<bootVars, wallet, ca, gw, kind, user, tokens, crashes>>

(* Mutant: nobody awaits reconnectGw, and the request is answered before. *)
WalletPutAnswering(r) ==
    /\ pc[r] = "put"
    /\ wallet' = wallet \cup {user[r]}
    /\ gw' = None
    /\ pc' = [pc EXCEPT ![r] = "connect"]
    /\ answer' = [answer EXCEPT ![r] = "200"]
    /\ UNCHANGED <<bootVars, ca, kind, user, tokens, faults, crashes>>

(* wallet.put; then reconnectGw disconnects and calls connect. *)
WalletPut(r) ==
    /\ pc[r] = "put"
    /\ wallet' = wallet \cup {user[r]}
    /\ gw' = None
    /\ Goto(r, "connect")
    /\ UNCHANGED <<bootVars, ca, kind, user, tokens, faults, crashes>>

(* Mutant: the old connection is closed after the new one was made. *)
ReconnectSwapped(r) ==
    /\ pc[r] = "connect"
    /\ gw' = None
    /\ Answer(r, "200")
    /\ UNCHANGED <<bootVars, wallet, ca, kind, user, tokens, faults, crashes>>

(* gateway.connect of reconnectGw. *)
Reconnect(r) ==
    /\ pc[r] = "connect"
    /\ \/ gw' = user[r] /\ Answer(r, "200") /\ UNCHANGED faults
       \/ Fault /\ Answer(r, "400") /\ UNCHANGED gw
    /\ UNCHANGED <<bootVars, wallet, ca, kind, user, tokens, crashes>>

(* queryBlock and queryChainInfo: null after any error.  Whether a gateway *)
(* that is disconnected still answers is the library's affair.             *)
Query(r) ==
    /\ proc = "up" /\ AuthCheck /\ pc[r] = "idle"
    /\ kind' = [kind EXCEPT ![r] = "query"]
    /\ \/ Answer(r, "block") /\ UNCHANGED faults
       \/ gw = None /\ Answer(r, "null") /\ UNCHANGED faults
       \/ Fault /\ Answer(r, "null")
    /\ UNCHANGED <<bootVars, wallet, ca, gw, user, tokens, crashes>>

RequestStep(r) ==
    \/ WalletGet(r) \/ GetUserContext(r) \/ CaRegister(r) \/ EnrollCaIdentity(r)
    \/ WalletPut(r) \/ Reconnect(r)

Boot == BootLookup \/ BootPut \/ BootEnroll \/ BootConnect \/ BootFails

Next ==
    \/ BootStart \/ Boot \/ Crash
    \/ \E name \in Names : Login(name)
    \/ \E r \in Requests : Arrive(r) \/ Query(r) \/ RequestStep(r)

(* Promises settle, and the explorer's container is started again. *)
Spec == Init /\ [][Next]_vars
FairSpec ==
    /\ Spec
    /\ WF_vars(BootStart) /\ WF_vars(BootLookup) /\ WF_vars(BootPut)
    /\ WF_vars(BootEnroll) /\ WF_vars(BootConnect) /\ WF_vars(BootFails)
    /\ \A r \in Requests : WF_vars(RequestStep(r))

-----------------------------------------------------------------------------
(* Of all requests to register a name one at most is told that it was      *)
(* done, however they overlap and whatever process answers them.           *)
RegisteredOnce ==
    \A r, s \in Requests :
        (/\ kind[r] = "register" /\ answer[r] = "200"
         /\ kind[s] = "register" /\ answer[s] = "200"
         /\ user[r] = user[s]) => r = s

(* While no request is between disconnect and connect the gateway is open, *)
(* unless a connect failed: the reconnections of several requests that     *)
(* overlap do not leave it closed.                                         *)
GatewayOpenWhenQuiet ==
    (proc = "up" /\ faults = 0 /\ \A r \in Requests : pc[r] # "connect") => gw # None

(* A failed start leaves enough behind for a later one: the explorer comes *)
(* to be connected.                                                        *)
ConnectsEventually == <>(proc = "up")
=============================================================================
