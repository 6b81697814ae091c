--------------------------- MODULE GatewayProofs ----------------------------
(***************************************************************************)
(* Type correctness of Gateway, and its two safety properties for all      *)
(* users, requests and bounds on failures and crashes.                     *)
(***************************************************************************)
EXTENDS Gateway, TLAPS

-----------------------------------------------------------------------------
(* The inductive invariant, in named parts. *)

(* A request gets its answer where it ends. *)
AnsweredWhenDone ==
    \A r \in Requests : answer[r] # None => pc[r] = "done"

(* A request under way knows its user. *)
UserKnown ==
    \A r \in Requests : pc[r] \notin {"idle", "done"} => user[r] \in Users

(* The authority has taken the name of this request to register. *)
Taken(r) ==
    /\ kind[r] = "register"
    /\ pc[r] \in {"enroll", "put", "connect"} \/ answer[r] = "200"

(* The authority remembers the name of each request it has let pass ... *)
TakenKnown ==
    \A r \in Requests : Taken(r) => user[r] \in ca

(* ... and so lets no second one pass. *)
TakenOnce ==
    \A r, s \in Requests : Taken(r) /\ Taken(s) /\ user[r] = user[s] => r = s

(* A gateway that is closed, without a failure, is about to be opened. *)
OpenOrConnecting ==
    proc = "up" /\ faults = 0 => gw # None \/ \E r \in Requests : pc[r] = "connect"

IInv ==
    /\ TypeOK
    /\ AnsweredWhenDone
    /\ UserKnown
    /\ TakenKnown
    /\ TakenOnce
    /\ OpenOrConnecting

-----------------------------------------------------------------------------
LEMMA InitEstablishesIInv == Init => IInv
  <1> SUFFICES ASSUME Init PROVE IInv
    OBVIOUS
  <1>1. 0 \in 0..MaxFaults /\ 0 \in 0..MaxCrashes
    BY GatewayAssumption, SMT
  <1>2. ca \subseteq Names
    BY DEF Init, Names
  <1>3. TypeOK
    BY <1>1, <1>2 DEF Init, TypeOK
  <1>4. \A r \in Requests : pc[r] = "idle" /\ kind[r] = None /\ answer[r] = None
    BY DEF Init
  <1>5. \A r \in Requests : ~Taken(r)
    BY <1>4 DEF Taken, None
  <1>6. AnsweredWhenDone /\ UserKnown
    BY <1>4 DEF AnsweredWhenDone, UserKnown
  <1>7. TakenKnown /\ TakenOnce
    BY <1>5 DEF TakenKnown, TakenOnce
  <1>8. OpenOrConnecting
    BY DEF Init, OpenOrConnecting
  <1> QED
    BY <1>3, <1>6, <1>7, <1>8 DEF IInv

(* A step that leaves requests, authority and gateway alone has only the    *)
(* types to keep.                                                          *)
LEMMA Undisturbed ==
  ASSUME IInv, TypeOK', UNCHANGED <<pc, kind, user, answer, ca, gw>>,
         proc' = "up" /\ faults' = 0 => proc = "up" /\ faults = 0
  PROVE  IInv'
  <1>1. \A r \in Requests : Taken(r)' <=> Taken(r)
    BY DEF Taken
  <1>2. AnsweredWhenDone' /\ UserKnown'
    BY DEF IInv, AnsweredWhenDone, UserKnown
  <1>3. TakenKnown' /\ TakenOnce'
    BY <1>1 DEF IInv, TakenKnown, TakenOnce
  <1>4. OpenOrConnecting'
    BY DEF IInv, OpenOrConnecting
  <1> QED
    BY <1>2, <1>3, <1>4 DEF IInv

(* The start of the process, its death and a login. *)
LEMMA BootPreservesIInv ==
  ASSUME IInv, BootStart \/ Boot \/ Crash \/ \E name \in Names : Login(name)
  PROVE  IInv'
  <1> USE GatewayAssumption
  <1>0. TypeOK
    BY DEF IInv
  <1>1. CASE BootStart
    <2>1. TypeOK'
      BY <1>0, <1>1 DEF BootStart, reqVars, TypeOK
    <2> QED
      BY <1>1, <2>1, Undisturbed DEF BootStart, reqVars
  <1>2. CASE BootLookup
    <2>1. proc' \in {"connect", "enroll"} /\ putting' \in BOOLEAN
      BY <1>0, <1>2 DEF BootLookup, TypeOK
    <2>2. TypeOK'
      BY <1>0, <1>2, <2>1 DEF BootLookup, reqVars, TypeOK
    <2> QED
      BY <1>2, <2>1, <2>2, Undisturbed DEF BootLookup, reqVars
  <1>3. CASE BootPut
    <2>1. wallet' \subseteq Names
      BY <1>0, <1>3 DEF BootPut, TypeOK, Names
    <2>2. TypeOK'
      BY <1>0, <1>3, <2>1 DEF BootPut, reqVars, TypeOK
    <2> QED
      BY <1>3, <2>2, Undisturbed DEF BootPut, reqVars
  <1>4. CASE BootEnroll
    <2>1. wallet' \subseteq Names
      BY <1>0, <1>4 DEF BootEnroll, TypeOK, Names
    <2>2. faults' \in 0..MaxFaults
      BY <1>0, <1>4, SMT DEF BootEnroll, Fault, TypeOK
    <2>3. TypeOK'
      BY <1>0, <1>4, <2>1, <2>2 DEF BootEnroll, reqVars, TypeOK
    <2> QED
      BY <1>4, <2>3, Undisturbed DEF BootEnroll, reqVars
  <1>5. CASE BootConnect
    <2>1. faults' \in 0..MaxFaults
      BY <1>0, <1>5, SMT DEF BootConnect, TypeOK
    <2>2. gw' \in Names \cup {None} /\ proc' \in {"up", "failed"}
      BY <1>0, <1>5 DEF BootConnect, TypeOK, Names
    <2>3. TypeOK'
      BY <1>0, <1>5, <2>1, <2>2 DEF BootConnect, reqVars, TypeOK
    <2>4. \A r \in Requests : Taken(r)' <=> Taken(r)
      BY <1>5 DEF BootConnect, reqVars, Taken
    <2>5. AnsweredWhenDone' /\ UserKnown'
      BY <1>5 DEF BootConnect, reqVars, IInv, AnsweredWhenDone, UserKnown
    <2>6. TakenKnown' /\ TakenOnce'
      BY <1>5, <2>4 DEF BootConnect, reqVars, IInv, TakenKnown, TakenOnce
    <2>7. OpenOrConnecting'
      BY <1>5 DEF BootConnect, OpenOrConnecting, None
    <2> QED
      BY <2>3, <2>5, <2>6, <2>7 DEF IInv
  <1>6. CASE BootFails
    <2>1. TypeOK'
      BY <1>0, <1>6 DEF BootFails, reqVars, TypeOK
    <2> QED
      BY <1>6, <2>1, Undisturbed DEF BootFails, reqVars
  <1>7. CASE Crash
    <2>1. /\ pc' \in [Requests -> {"idle", "get", "context", "register", "enroll", "put",
                                   "connect", "done"}]
          /\ answer' \in [Requests -> {None, "200", "400", "lost", "block", "null"}]
      BY <1>0, <1>7 DEF Crash, RequestsLost, TypeOK
    <2>2. crashes' \in 0..MaxCrashes
      BY <1>0, <1>7, SMT DEF Crash, TypeOK
    <2>8. (\A r \in Requests : answer[r] # None <=> pc[r] = "done")'
      BY <1>0, <1>7 DEF Crash, RequestsLost, TypeOK, None
    <2>3. TypeOK'
      BY <1>0, <1>7, <2>1, <2>2, <2>8 DEF Crash, TypeOK
    <2>4. \A r \in Requests : Taken(r)' => Taken(r)
      BY <1>0, <1>7 DEF Crash, RequestsLost, TypeOK, Taken
    <2>5. AnsweredWhenDone' /\ UserKnown'
      BY <1>0, <1>7 DEF Crash, RequestsLost, IInv, TypeOK, AnsweredWhenDone, UserKnown
    <2>6. TakenKnown' /\ TakenOnce'
      BY <1>7, <2>4 DEF Crash, IInv, TakenKnown, TakenOnce
    <2>7. OpenOrConnecting'
      BY <1>7 DEF Crash, OpenOrConnecting
    <2> QED
      BY <2>3, <2>5, <2>6, <2>7 DEF IInv
  <1>8. CASE \E name \in Names : Login(name)
    <2> PICK name \in Names : Login(name)
      BY <1>8
    <2>1. tokens' \subseteq Names
      BY <1>0 DEF Login, TypeOK
    <2>2. TypeOK'
      BY <1>0, <2>1 DEF Login, bootVars, reqVars, TypeOK
    <2> QED
      BY <2>2, Undisturbed DEF Login, bootVars, reqVars
  <1> QED
    BY <1>1, <1>2, <1>3, <1>4, <1>5, <1>6, <1>7, <1>8 DEF Boot

(* What a step of request r that neither takes its name nor touches the    *)
(* gateway has to keep.                                                    *)
LEMMA QuietRequest ==
  ASSUME IInv, TypeOK',
         NEW r \in Requests,
         \A s \in Requests \ {r} : /\ pc'[s] = pc[s] /\ kind'[s] = kind[s]
                                   /\ user'[s] = user[s] /\ answer'[s] = answer[s],
         answer'[r] # None => pc'[r] = "done",
         pc'[r] \notin {"idle", "done"} => user'[r] \in Users,
         Taken(r)' => Taken(r) /\ user'[r] = user[r],
         pc[r] # "connect", UNCHANGED <<proc, gw, ca>>,
         faults' = 0 => faults = 0
  PROVE  IInv'
  <1>1. AnsweredWhenDone' /\ UserKnown'
    BY DEF IInv, AnsweredWhenDone, UserKnown
  <1>2. \A s \in Requests : Taken(s)' => Taken(s) /\ user'[s] = user[s]
    BY DEF Taken
  <1>3. TakenKnown' /\ TakenOnce'
    BY <1>2 DEF IInv, TakenKnown, TakenOnce
  <1>4. OpenOrConnecting'
    BY DEF IInv, OpenOrConnecting
  <1> QED
    BY <1>1, <1>3, <1>4 DEF IInv

(* Each step of a request moves that request only. *)
LEMMA RequestFrame ==
  ASSUME TypeOK, NEW r \in Requests, Arrive(r) \/ Query(r) \/ RequestStep(r)
  PROVE  /\ \A s \in Requests \ {r} : /\ pc'[s] = pc[s] /\ kind'[s] = kind[s]
                                      /\ user'[s] = user[s] /\ answer'[s] = answer[s]
         /\ UNCHANGED <<proc, putting, caEnabled, tokens, crashes>>
  <1>1. CASE Arrive(r)
    BY <1>1 DEF Arrive, Goto, bootVars, TypeOK
  <1>2. CASE Query(r)
    BY <1>2 DEF Query, Answer, bootVars, TypeOK
  <1>3. CASE WalletGet(r)
    BY <1>3 DEF WalletGet, Answer, Goto, bootVars, TypeOK
  <1>4. CASE GetUserContext(r)
    BY <1>4 DEF GetUserContext, Answer, Goto, bootVars, TypeOK
  <1>5. CASE CaRegister(r)
    BY <1>5 DEF CaRegister, Answer, Goto, bootVars, TypeOK
  <1>6. CASE EnrollCaIdentity(r)
    BY <1>6 DEF EnrollCaIdentity, Answer, Goto, bootVars, TypeOK
  <1>7. CASE WalletPut(r)
    BY <1>7 DEF WalletPut, Answer, Goto, bootVars, TypeOK
  <1>8. CASE Reconnect(r)
    BY <1>8 DEF Reconnect, Answer, Goto, bootVars, TypeOK
  <1> QED
    BY <1>1, <1>2, <1>3, <1>4, <1>5, <1>6, <1>7, <1>8 DEF RequestStep

(* What such a step keeps of the types. *)
LEMMA RequestTypes ==
  ASSUME IInv, NEW r \in Requests, Arrive(r) \/ Query(r) \/ RequestStep(r)
  PROVE  TypeOK'
  <1> USE GatewayAssumption
  <1>0. TypeOK
    BY DEF IInv
  <1>1. /\ pc' \in [Requests -> {"idle", "get", "context", "register", "enroll", "put",
                                 "connect", "done"}]
        /\ answer' \in [Requests -> {None, "200", "400", "lost", "block", "null"}]
    BY <1>0 DEF Arrive, Query, RequestStep, WalletGet, GetUserContext, CaRegister,
        EnrollCaIdentity, WalletPut, Reconnect, Goto, Answer, TypeOK
  <1>2. /\ kind' \in [Requests -> {None, "register", "enroll", "query"}]
        /\ user' \in [Requests -> Names \cup {None}]
    BY <1>0 DEF Arrive, Query, RequestStep, WalletGet, GetUserContext, CaRegister,
        EnrollCaIdentity, WalletPut, Reconnect, TypeOK, Names
  <1>3. faults' \in 0..MaxFaults
    BY <1>0, SMT DEF Arrive, Query, RequestStep, WalletGet, GetUserContext, CaRegister,
        EnrollCaIdentity, WalletPut, Reconnect, Fault, TypeOK
  <1>6. (\A s \in Requests : answer[s] # None <=> pc[s] = "done")'
    BY <1>0 DEF Arrive, Query, RequestStep, WalletGet, GetUserContext, CaRegister,
        EnrollCaIdentity, WalletPut, Reconnect, Goto, Answer, TypeOK, None
  <1>4. CASE pc[r] \in {"idle", "done"}
    <2>1. UNCHANGED <<wallet, ca, gw>>
      BY <1>4 DEF Arrive, Query, RequestStep, WalletGet, GetUserContext, CaRegister,
          EnrollCaIdentity, WalletPut, Reconnect
    <2> QED
      BY <1>0, <1>1, <1>2, <1>3, <1>6, <2>1, RequestFrame DEF TypeOK
  <1>5. CASE pc[r] \notin {"idle", "done"}
    <2>1. user[r] \in Names
      BY <1>5 DEF IInv, UserKnown, Names
    <2>2. wallet' \subseteq Names /\ ca' \subseteq Names /\ gw' \in Names \cup {None}
      BY <1>0, <1>5, <2>1 DEF Arrive, Query, RequestStep, WalletGet, GetUserContext,
          CaRegister, EnrollCaIdentity, WalletPut, Reconnect, TypeOK
    <2> QED
      BY <1>0, <1>1, <1>2, <1>3, <1>6, <2>2, RequestFrame DEF TypeOK
  <1> QED
    BY <1>4, <1>5

(* The steps of a request.  A name is taken in CaRegister only, where the  *)
(* authority did not know it; the gateway is closed only on the way to     *)
(* Reconnect, which opens it or counts a failure.                          *)
LEMMA RequestPreservesIInv ==
  ASSUME IInv, NEW r \in Requests, Arrive(r) \/ Query(r) \/ RequestStep(r)
  PROVE  IInv'
  <1> USE GatewayAssumption
  <1>0. TypeOK /\ TypeOK'
    BY RequestTypes DEF IInv
  <1>a. answer[r] # None => pc[r] = "done"
    BY DEF IInv, AnsweredWhenDone
  <1>b. \A s \in Requests \ {r} : /\ pc'[s] = pc[s] /\ kind'[s] = kind[s]
                                  /\ user'[s] = user[s] /\ answer'[s] = answer[s]
    BY <1>0, RequestFrame
  <1>c. proc' = proc
    BY <1>0, RequestFrame
  <1>d. faults' = 0 => faults = 0
    BY <1>0, SMT DEF Arrive, Query, RequestStep, WalletGet, GetUserContext, CaRegister,
        EnrollCaIdentity, WalletPut, Reconnect, Fault, TypeOK
  <1>1. CASE Arrive(r)
    <2>1. /\ pc'[r] = "get" /\ answer'[r] = None /\ user'[r] \in Users
          /\ UNCHANGED <<gw, ca>> /\ pc[r] = "idle"
      BY <1>0, <1>1, <1>a DEF Arrive, Goto, TypeOK
    <2>2. ~Taken(r)'
      BY <2>1 DEF Taken, None
    <2> QED
      BY <1>0, <1>b, <1>c, <1>d, <2>1, <2>2, QuietRequest
  <1>2. CASE Query(r)
    <2>1. /\ pc'[r] = "done" /\ kind'[r] = "query"
          /\ UNCHANGED <<gw, ca>> /\ pc[r] = "idle"
      BY <1>0, <1>2 DEF Query, Answer, TypeOK
    <2>2. ~Taken(r)'
      BY <2>1 DEF Taken
    <2> QED
      BY <1>0, <1>b, <1>c, <1>d, <2>1, <2>2, QuietRequest
  <1>3. CASE WalletGet(r)
    <2>1. /\ pc[r] = "get" /\ kind' = kind /\ user' = user /\ ca' = ca
          /\ user[r] \in Users
      BY <1>3 DEF WalletGet, IInv, UserKnown
    <2>2. \/ pc'[r] = "done" /\ answer'[r] = "400" /\ gw' = gw
          \/ pc'[r] = "context" /\ answer'[r] = None /\ gw' = gw
          \/ pc'[r] = "enroll" /\ answer'[r] = None /\ gw' = gw /\ kind[r] = "enroll"
          \/ pc'[r] = "connect" /\ answer'[r] = None /\ kind[r] = "enroll"
      BY <1>0, <1>3, <1>a DEF WalletGet, Goto, Answer, TypeOK
    <2>3. ~Taken(r)'
      BY <2>1, <2>2 DEF Taken, None
    <2>4. CASE pc'[r] = "connect"
      <3>1. AnsweredWhenDone' /\ UserKnown'
        BY <1>b, <2>1, <2>2, <2>4 DEF IInv, AnsweredWhenDone, UserKnown
      <3>2. \A s \in Requests : Taken(s)' => Taken(s)
        BY <1>b, <2>3 DEF Taken
      <3>3. TakenKnown' /\ TakenOnce'
        BY <2>1, <3>2 DEF IInv, TakenKnown, TakenOnce
      <3>4. OpenOrConnecting'
        BY <2>4 DEF OpenOrConnecting
      <3> QED
        BY <1>0, <3>1, <3>3, <3>4 DEF IInv
    <2> QED
      BY <1>0, <1>b, <1>c, <1>d, <2>1, <2>2, <2>3, <2>4, QuietRequest
  <1>4. CASE GetUserContext(r)
    <2>1. /\ pc[r] = "context" /\ UNCHANGED <<kind, user, ca, gw>>
          /\ user[r] \in Users
      BY <1>4 DEF GetUserContext, IInv, UserKnown
    <2>2. \/ pc'[r] = "done" /\ answer'[r] = "400"
          \/ pc'[r] = "register" /\ answer'[r] = None
      BY <1>0, <1>4, <1>a DEF GetUserContext, Goto, Answer, TypeOK
    <2>3. ~Taken(r)'
      BY <2>2 DEF Taken, None
    <2> QED
      BY <1>0, <1>b, <1>c, <1>d, <2>1, <2>2, <2>3, QuietRequest
  <1>5. CASE CaRegister(r)
    <2>1. /\ pc[r] = "register" /\ UNCHANGED <<kind, user, gw>>
          /\ user[r] \in Users /\ ca \subseteq ca'
      BY <1>5 DEF CaRegister, IInv, UserKnown
    <2>2. \/ pc'[r] = "done" /\ answer'[r] = "400"
          \/ pc'[r] = "enroll" /\ answer'[r] = None /\ user[r] \notin ca /\ user[r] \in ca'
      BY <1>0, <1>5, <1>a DEF CaRegister, Goto, Answer, TypeOK
    <2>3. AnsweredWhenDone' /\ UserKnown'
      BY <1>b, <2>1, <2>2 DEF IInv, AnsweredWhenDone, UserKnown
    <2>4. Taken(r)' => user[r] \notin ca /\ user[r] \in ca'
      BY <2>1, <2>2 DEF Taken
    <2>5. \A s \in Requests \ {r} : Taken(s)' => Taken(s) /\ user[s] \in ca
      BY <1>b DEF Taken, IInv, TakenKnown
    <2>6. TakenKnown'
      BY <2>1, <2>4, <2>5 DEF TakenKnown
    <2>7. TakenOnce'
      BY <2>1, <2>4, <2>5 DEF IInv, TakenOnce
    <2>8. OpenOrConnecting'
      BY <1>b, <1>c, <1>d, <2>1 DEF IInv, OpenOrConnecting
    <2> QED
      BY <1>0, <2>3, <2>6, <2>7, <2>8 DEF IInv
  <1>6. CASE EnrollCaIdentity(r)
    <2>1. /\ pc[r] = "enroll" /\ UNCHANGED <<kind, user, ca, gw>>
          /\ user[r] \in Users
      BY <1>6 DEF EnrollCaIdentity, IInv, UserKnown
    <2>2. \/ pc'[r] = "done" /\ answer'[r] = "400"
          \/ pc'[r] = "put" /\ answer'[r] = None
      BY <1>0, <1>6, <1>a DEF EnrollCaIdentity, Goto, Answer, TypeOK
    <2>3. Taken(r)' => Taken(r)
      BY <2>1, <2>2 DEF Taken
    <2> QED
      BY <1>0, <1>b, <1>c, <1>d, <2>1, <2>2, <2>3, QuietRequest
  <1>7. CASE WalletPut(r)
    <2>1. /\ pc[r] = "put" /\ UNCHANGED <<kind, user, ca>>
          /\ user[r] \in Users
      BY <1>7 DEF WalletPut, IInv, UserKnown
    <2>2. pc'[r] = "connect" /\ answer'[r] = None
      BY <1>0, <1>7, <1>a DEF WalletPut, Goto, TypeOK
    <2>3. AnsweredWhenDone' /\ UserKnown'
      BY <1>b, <2>1, <2>2 DEF IInv, AnsweredWhenDone, UserKnown
    <2>4. \A s \in Requests : Taken(s)' => Taken(s)
      BY <1>b, <2>1, <2>2 DEF Taken
    <2>5. TakenKnown' /\ TakenOnce'
      BY <2>1, <2>4 DEF IInv, TakenKnown, TakenOnce
    <2>6. OpenOrConnecting'
      BY <2>2 DEF OpenOrConnecting
    <2> QED
      BY <1>0, <2>3, <2>5, <2>6 DEF IInv
  <1>8. CASE Reconnect(r)
    <2>1. /\ pc[r] = "connect" /\ UNCHANGED <<kind, user, ca>>
          /\ user[r] \in Users
      BY <1>8 DEF Reconnect, IInv, UserKnown
    <2>2. pc'[r] = "done" /\ (gw' = user[r] \/ faults' # 0)
      BY <1>0, <1>8, SMT DEF Reconnect, Answer, Fault, TypeOK
    <2>3. AnsweredWhenDone' /\ UserKnown'
      BY <1>b, <2>1, <2>2 DEF IInv, AnsweredWhenDone, UserKnown
    <2>4. \A s \in Requests : Taken(s)' => Taken(s)
      BY <1>b, <2>1 DEF Taken
    <2>5. TakenKnown' /\ TakenOnce'
      BY <2>1, <2>4 DEF IInv, TakenKnown, TakenOnce
    <2>6. OpenOrConnecting'
      BY <2>1, <2>2 DEF OpenOrConnecting, None
    <2> QED
      BY <1>0, <2>3, <2>5, <2>6 DEF IInv
  <1> QED
    BY <1>1, <1>2, <1>3, <1>4, <1>5, <1>6, <1>7, <1>8 DEF RequestStep

-----------------------------------------------------------------------------
THEOREM InvariantIsInductive == Spec => []IInv
  <1>1. IInv /\ [Next]_vars => IInv'
    <2> SUFFICES ASSUME IInv, [Next]_vars PROVE IInv'
      OBVIOUS
    <2>1. CASE UNCHANGED vars
      <3>1. TypeOK'
        BY <2>1 DEF vars, bootVars, reqVars, IInv, TypeOK
      <3> QED
        BY <2>1, <3>1, Undisturbed DEF vars, bootVars, reqVars
    <2>2. CASE BootStart \/ Boot \/ Crash \/ \E name \in Names : Login(name)
      BY <2>2, BootPreservesIInv
    <2>3. CASE \E r \in Requests : Arrive(r) \/ Query(r) \/ RequestStep(r)
      BY <2>3, RequestPreservesIInv
    <2> QED
      BY <2>1, <2>2, <2>3 DEF Next
  <1> QED
    BY <1>1, InitEstablishesIInv, PTL DEF Spec

(* Every variable keeps its range, and no wallet or gateway ever holds a   *)
(* name that is not a user's or the administrator's.                       *)
THEOREM TypeCorrect == Spec => []TypeOK
  <1>1. IInv => TypeOK
    BY DEF IInv
  <1> QED
    BY <1>1, InvariantIsInductive, PTL

(* However many requests to register one name overlap, whatever fails and  *)
(* however often the process dies, one at most is told that it was done.   *)
THEOREM OneRegistration == Spec => []RegisteredOnce
  <1>1. IInv => RegisteredOnce
    BY DEF IInv, TakenOnce, Taken, RegisteredOnce
  <1> QED
    BY <1>1, InvariantIsInductive, PTL

(* However the reconnections of requests overlap, the shared gateway is    *)
(* open when none is between disconnect and connect, as long as no call    *)
(* has failed.                                                             *)
THEOREM GatewayStaysOpen == Spec => []GatewayOpenWhenQuiet
  <1>1. IInv => GatewayOpenWhenQuiet
    BY DEF IInv, OpenOrConnecting, GatewayOpenWhenQuiet
  <1> QED
    BY <1>1, InvariantIsInductive, PTL
=============================================================================
