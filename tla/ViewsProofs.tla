----------------------------- MODULE ViewsProofs -----------------------------
(***************************************************************************)
(* Proofs about Views: the types of both sides, that paging loses nothing  *)
(* on the Iroha side, and that what the two dashboards show agrees with    *)
(* the tables behind them, for every network, ledger and bound.            *)
(*                                                                         *)
(* FabricData is what is in the tables of the Fabric side, AnswersInv what *)
(* the client has read of them, TablesInv (IrohaListsProofs) what is in    *)
(* the tables of the Iroha side.                                           *)
(***************************************************************************)
EXTENDS Views, IrohaListsProofs

(* The Fabric side: request holds a record for each load, with the sequence of what its    *)
(* statements have read, no more than there are statements.                                *)
RequestOK(r, l) ==
  /\ r = [at |-> r.at, got |-> r.got]
  /\ r.at \in {"idle", "sent", "hanging", "done"}
  /\ r.got \in Seq(Range(r.got))
  /\ Len(r.got) <= Len(Fabric!Statements(l))

Shown == phase \in {"loading", "loaded"}

Requests ==
  /\ DOMAIN request = Loads
  /\ \A l \in Loads : RequestOK(request[l], l) /\ (request[l].at # "idle" <=> Shown)

ClientOK ==
  /\ server \in {"up", "stopping", "down"}
  /\ phase \in {"closed", "form", "loggingIn", "channel", "loading", "loaded"}
  /\ token \in BOOLEAN
  /\ timer \in BOOLEAN
  /\ timer => phase = "loading"
  /\ failures \in 0 .. MaxFailures

FabricInv == Requests /\ ClientOK

LEMMA StatementsLength ==
  ASSUME NEW l
  PROVE  Len(Fabric!Statements(l)) \in Nat \ {0}
BY DEF Fabric!Statements

(* A load that has ended, or has not been sent, has read nothing.                          *)
LEMMA NothingRead ==
  ASSUME NEW l, NEW at \in {"idle", "sent", "done"}, NEW r, r = [at |-> at, got |-> <<>>]
  PROVE  RequestOK(r, l) /\ r.at = at
<1>1. r.at = at /\ r.got = <<>>
  OBVIOUS
<1>2. <<>> \in Seq(Range(<<>>)) /\ Len(<<>>) = 0
  OBVIOUS
<1>3. 0 <= Len(Fabric!Statements(l))
  BY StatementsLength
<1> QED
  BY <1>1, <1>2, <1>3 DEF RequestOK

(* One request changes, while the client stays where it is.                                *)
LEMMA OneRequest ==
  ASSUME Requests, NEW l \in Loads, NEW r, RequestOK(r, l), r.at # "idle",
         request[l].at # "idle", request' = [request EXCEPT ![l] = r], UNCHANGED phase
  PROVE  Requests'
<1>1. DOMAIN request' = Loads
  BY DEF Requests
<1>2. ASSUME NEW k \in Loads
      PROVE  RequestOK(request'[k], k) /\ (request'[k].at # "idle" <=> Shown')
  <2>1. CASE k = l
    <3>1. request'[k] = r
      BY <2>1 DEF Requests
    <3>2. Shown /\ (Shown' <=> Shown)
      BY DEF Requests, Shown
    <3> QED
      BY <2>1, <3>1, <3>2
  <2>2. CASE k # l
    <3>1. request'[k] = request[k]
      BY <2>2 DEF Requests
    <3> QED
      BY <3>1 DEF Requests, Shown
  <2> QED
    BY <2>1, <2>2
<1>3. (\A k \in Loads : RequestOK(request[k], k) /\ (request[k].at # "idle" <=> Shown))'
  BY <1>2 DEF RequestOK
<1> QED
  BY <1>1, <1>3 DEF Requests

LEMMA EndOne ==
  ASSUME Requests, NEW l \in Loads, request[l].at # "idle",
         request' = [request EXCEPT ![l] = [at |-> "done", got |-> <<>>]], UNCHANGED phase
  PROVE  Requests'
<1> DEFINE r == [at |-> "done", got |-> <<>>]
<1>1. RequestOK(r, l) /\ r.at = "done"
  BY NothingRead
<1>2. request' = [request EXCEPT ![l] = r]
  OBVIOUS
<1> HIDE DEF r
<1> QED
  BY <1>1, <1>2, OneRequest

LEMMA SameRequests ==
  ASSUME Requests, UNCHANGED <<request, phase>>
  PROVE  Requests'
BY DEF Requests, Shown, RequestOK

(* One more statement has been read.                                                       *)
LEMMA ReadOne ==
  ASSUME Requests, NEW l \in Loads, NEW x, request[l].at # "idle",
         Len(request[l].got) < Len(Fabric!Statements(l)),
         request' = [request EXCEPT ![l].got = Append(@, x)], UNCHANGED phase
  PROVE  Requests'
<1> DEFINE r == [at |-> request[l].at, got |-> Append(request[l].got, x)]
           got == request[l].got
           S == Range(got) \cup {x}
<1>1. /\ request[l] = [at |-> request[l].at, got |-> got]
      /\ request[l].at \in {"idle", "sent", "hanging", "done"}
      /\ got \in Seq(Range(got))
  BY DEF Requests, RequestOK
<1>2. request' = [request EXCEPT ![l] = r]
  <2>1. \A v : [request[l] EXCEPT !.got = v] = [at |-> request[l].at, got |-> v]
    BY <1>1
  <2>2. request' = [request EXCEPT ![l] = [request[l] EXCEPT !.got = Append(got, x)]]
    OBVIOUS
  <2> QED
    BY <2>1, <2>2
<1>3. r.got \in Seq(Range(r.got)) /\ Len(r.got) = Len(got) + 1 /\ Len(got) \in Nat
  <2>1. got \in Seq(S) /\ x \in S
    BY <1>1
  <2>2. r.got = Append(got, x)
    OBVIOUS
  <2> HIDE DEF got, S, r
  <2>3. Append(got, x) \in Seq(S) /\ Len(Append(got, x)) = Len(got) + 1 /\ Len(got) \in Nat
    BY <2>1
  <2>4. r.got \in Seq(Range(r.got))
    BY <2>2, <2>3, SeqOfRange
  <2> QED
    BY <2>2, <2>3, <2>4
<1>4. Len(r.got) <= Len(Fabric!Statements(l))
  BY <1>3, StatementsLength
<1>5. RequestOK(r, l) /\ r.at # "idle"
  BY <1>1, <1>3, <1>4 DEF RequestOK
<1> HIDE DEF r
<1> QED
  BY <1>2, <1>5, OneRequest

LEMMA HangOne ==
  ASSUME Requests, NEW l \in Loads, request[l].at # "idle",
         request' = [request EXCEPT ![l].at = "hanging"], UNCHANGED phase
  PROVE  Requests'
<1> DEFINE r == [at |-> "hanging", got |-> request[l].got]
<1>1. RequestOK(request[l], l)
  BY DEF Requests
<1>2. request' = [request EXCEPT ![l] = r]
  <2>1. [request[l] EXCEPT !.at = "hanging"] = r
    BY <1>1 DEF RequestOK
  <2>2. request' = [request EXCEPT ![l] = [request[l] EXCEPT !.at = "hanging"]]
    OBVIOUS
  <2> QED
    BY <2>1, <2>2
<1>3. RequestOK(r, l) /\ r.at # "idle"
  BY <1>1 DEF RequestOK
<1> HIDE DEF r
<1> QED
  BY <1>2, <1>3, OneRequest

(* StartLoads sends what has an address.                                                   *)
LEMMA StartAll ==
  ASSUME FabricInv, NEW channel, Fabric!StartLoads(channel)
  PROVE  Requests'
<1>1. DOMAIN request' = Loads /\ \A l \in Loads : request'[l] = Fabric!Sent(l, channel)
  BY DEF Fabric!StartLoads
<1>2. ASSUME NEW l \in Loads
      PROVE  RequestOK(Fabric!Sent(l, channel), l) /\ Fabric!Sent(l, channel).at # "idle"
  <2>1. PICK at \in {"sent", "done"} : Fabric!Sent(l, channel) = [at |-> at, got |-> <<>>]
    BY DEF Fabric!Sent
  <2> QED
    BY <2>1, NothingRead
<1>3. Shown'
  BY DEF Fabric!StartLoads, Shown
<1>4. (\A l \in Loads : RequestOK(request[l], l) /\ (request[l].at # "idle" <=> Shown))'
  BY <1>1, <1>2, <1>3 DEF RequestOK
<1> QED
  BY <1>1, <1>4 DEF Requests

(* ShutDown ends what is open.                                                             *)
LEMMA EndOpen ==
  ASSUME FabricInv, Fabric!ShutDown
  PROVE  Requests'
<1>1. /\ UNCHANGED phase
      /\ request' = [l \in Loads |-> IF request[l].at \in {"sent", "hanging"}
                                     THEN [at |-> "done", got |-> <<>>] ELSE request[l]]
  BY DEF Fabric!ShutDown
<1>2. ASSUME NEW l \in Loads
      PROVE  RequestOK(request'[l], l) /\ (request'[l].at # "idle" <=> Shown')
  <2>1. RequestOK(request[l], l) /\ (request[l].at # "idle" <=> Shown')
    BY <1>1 DEF FabricInv, Requests, Shown
  <2>2. CASE request[l].at \in {"sent", "hanging"}
    <3>1. request'[l] = [at |-> "done", got |-> <<>>]
      BY <1>1, <2>2
    <3>2. RequestOK(request'[l], l) /\ request'[l].at = "done"
      BY <3>1, NothingRead
    <3> QED
      BY <2>1, <2>2, <3>2
  <2>3. CASE request[l].at \notin {"sent", "hanging"}
    BY <1>1, <2>1, <2>3
  <2> QED
    BY <2>2, <2>3
<1>3. (\A l \in Loads : RequestOK(request[l], l) /\ (request[l].at # "idle" <=> Shown))'
  BY <1>2 DEF RequestOK
<1> QED
  BY <1>1, <1>3 DEF Requests

LEMMA FabricInit ==
  ASSUME ViewsAssumption, Fabric!Init
  PROVE  FabricInv
<1>1. Requests
  <2>1. \A l \in Loads : RequestOK(request[l], l) /\ request[l].at = "idle"
    BY NothingRead DEF Fabric!Init, Fabric!Idle
  <2> QED
    BY <2>1 DEF Requests, Shown, Fabric!Init
<1>2. ClientOK
  <2>1. MaxFailures \in Nat
    BY DEF ViewsAssumption, Fabric!DashboardAssumption
  <2>2. server = "up" /\ phase \in {"closed", "form"} /\ token = FALSE /\ timer = FALSE
        /\ failures = 0
    BY DEF Fabric!Init
  <2>3. token \in BOOLEAN /\ timer \in BOOLEAN /\ ~timer
    BY <2>2
  <2>4. failures \in 0 .. MaxFailures
    BY <2>1, <2>2
  <2> QED
    BY <2>2, <2>3, <2>4 DEF ClientOK
<1> QED
  BY <1>1, <1>2 DEF FabricInv

(* A load is served.                                                                       *)
LEMMA ServeStep ==
  ASSUME ViewsAssumption, FabricInv, NEW l \in Loads,
         \/ Fabric!Statement(l) \/ Fabric!StatementFails(l) \/ Fabric!Respond(l)
         \/ Fabric!Unauthorized(l) \/ Fabric!Refused(l)
  PROVE  FabricInv'
<1> USE DEF FabricInv
<1>1. request[l].at = "sent" /\ UNCHANGED <<phase, token, timer>>
  BY DEF Fabric!Statement, Fabric!StatementFails, Fabric!Respond, Fabric!Unauthorized,
         Fabric!Refused, Fabric!Open
<1>2. ClientOK'
  <2>1. server' \in {"up", "stopping", "down"}
    BY DEF ClientOK, Fabric!Statement, Fabric!StatementFails, Fabric!Respond,
           Fabric!Unauthorized, Fabric!Refused, Fabric!Reject
  <2>2. failures' \in 0 .. MaxFailures
    BY DEF ClientOK, Fabric!Statement, Fabric!StatementFails, Fabric!Respond,
           Fabric!Unauthorized, Fabric!Refused, ViewsAssumption, Fabric!DashboardAssumption
  <2> QED
    BY <1>1, <2>1, <2>2 DEF ClientOK
<1>3. Requests'
  <2>1. ASSUME NEW resp, Fabric!Keep(l, resp) PROVE Requests'
    BY <1>1, <2>1, EndOne DEF Fabric!Keep
  <2>2. CASE Fabric!Reject
    BY <1>1, <2>2, SameRequests DEF Fabric!Reject
  <2>3. CASE Fabric!Statement(l)
    <3>1. /\ Len(request[l].got) < Len(Fabric!Statements(l))
          /\ request' = [request EXCEPT ![l].got =
                           Append(@, Fabric!Read(l, Len(request[l].got) + 1))]
      BY <2>3 DEF Fabric!Statement
    <3> QED
      BY <1>1, <3>1, ReadOne
  <2>4. CASE Fabric!StatementFails(l)
    <3>1. CASE request' = [request EXCEPT ![l].at = "hanging"]
      BY <1>1, <3>1, HangOne
    <3> QED
      BY <2>1, <2>2, <2>4, <3>1 DEF Fabric!StatementFails
  <2>5. CASE Fabric!Respond(l)
    <3>1. Fabric!Reject \/ Fabric!Keep(l, Fabric!Answered(l, request[l].got))
      BY <2>5 DEF Fabric!Respond
    <3> QED
      BY <2>1, <2>2, <3>1
  <2>6. CASE Fabric!Unauthorized(l) \/ Fabric!Refused(l)
    <3>1. request' = [request EXCEPT ![l] = [at |-> "done", got |-> <<>>]]
      BY <2>6 DEF Fabric!Unauthorized, Fabric!Refused
    <3> QED
      BY <1>1, <3>1, EndOne
  <2> QED
    BY <2>3, <2>4, <2>5, <2>6
<1> QED
  BY <1>2, <1>3

(* The user and the explorer's exit.                                                       *)
LEMMA UserStep ==
  ASSUME ViewsAssumption, FabricInv,
         \/ Fabric!ShutDown \/ Fabric!ChangeChannelFails \/ Fabric!TokenExpires
         \/ Fabric!SubmitForm \/ Fabric!LoginAnswered \/ Fabric!ChannelAnswered
         \/ Fabric!Loaded \/ Fabric!Timeout
  PROVE  FabricInv'
<1> USE DEF FabricInv
<1>1. ClientOK'
  <2>1. CASE Fabric!ShutDown
    BY <2>1 DEF ClientOK, Fabric!ShutDown
  <2>2. CASE Fabric!ChangeChannelFails
    <3>1. failures' \in 0 .. MaxFailures /\ server' = "stopping"
          /\ UNCHANGED <<phase, token, timer>>
      BY <2>2 DEF ClientOK, Fabric!ChangeChannelFails, Fabric!Reject, ViewsAssumption,
                  Fabric!DashboardAssumption
    <3> QED
      BY <3>1 DEF ClientOK
  <2>3. CASE Fabric!TokenExpires
    BY <2>3 DEF ClientOK, Fabric!TokenExpires
  <2>4. CASE Fabric!SubmitForm
    BY <2>4 DEF ClientOK, Fabric!SubmitForm
  <2>5. CASE Fabric!LoginAnswered
    BY <2>5 DEF ClientOK, Fabric!LoginAnswered
  <2>6. CASE Fabric!ChannelAnswered
    <3>1. phase' = "loading" /\ timer' = TRUE /\ UNCHANGED <<server, token, failures>>
      BY <2>6 DEF Fabric!ChannelAnswered, Fabric!StartLoads
    <3> QED
      BY <3>1 DEF ClientOK
  <2>7. CASE Fabric!Loaded
    BY <2>7 DEF ClientOK, Fabric!Loaded
  <2>8. CASE Fabric!Timeout
    BY <2>8 DEF ClientOK, Fabric!Timeout
  <2> QED
    BY <2>1, <2>2, <2>3, <2>4, <2>5, <2>6, <2>7, <2>8
<1>2. Requests'
  <2>1. CASE Fabric!ShutDown
    BY <2>1, EndOpen
  <2>2. CASE Fabric!ChannelAnswered
    <3>1. PICK known \in BOOLEAN : Fabric!StartLoads(Fabric!CurrentChannel(known))
      BY <2>2 DEF Fabric!ChannelAnswered
    <3> QED
      BY <3>1, StartAll
  <2>3. CASE Fabric!ChangeChannelFails \/ Fabric!TokenExpires \/ Fabric!Timeout
    BY <2>3, SameRequests
    DEF Fabric!ChangeChannelFails, Fabric!TokenExpires, Fabric!Timeout, Fabric!Reject
  <2>4. CASE Fabric!SubmitForm \/ Fabric!LoginAnswered \/ Fabric!Loaded
    <3>1. UNCHANGED request /\ (Shown' <=> Shown)
      BY <2>4 DEF Fabric!SubmitForm, Fabric!LoginAnswered, Fabric!Loaded, Shown
    <3> QED
      BY <3>1 DEF Requests, RequestOK
  <2> QED
    BY <2>1, <2>2, <2>3, <2>4
<1> QED
  BY <1>1, <1>2

LEMMA FabricStep ==
  ASSUME ViewsAssumption, FabricInv, Fabric!Next
  PROVE  FabricInv'
<1>1. CASE Fabric!StoreChannel \/ Fabric!StoreTransaction \/ Fabric!StoreBlock
  <2>1. UNCHANGED <<server, phase, token, request, timer, failures>>
    BY <1>1 DEF Fabric!StoreChannel, Fabric!StoreTransaction, Fabric!StoreBlock, Fabric!client
  <2> QED
    BY <2>1, SameRequests DEF FabricInv, ClientOK
<1> QED
  BY <1>1, ServeStep, UserStep DEF Fabric!Next

LEMMA FabricTypeOK ==
  ASSUME FabricInv
  PROVE  Fabric!TypeOK
BY DEF FabricInv, Requests, RequestOK, ClientOK, Shown, Fabric!TypeOK

-----------------------------------------------------------------------------
(* The Fabric side is an instance, with operators of its own for what Rows defines: they   *)
(* are the same.                                                                           *)
LEMMA FabricRows ==
  /\ \A rows, which : Fabric!Select(rows, which) = Select(rows, which)
  /\ \A s : Fabric!SumOf(s) = SumOf(s)
  /\ \A s : Fabric!Range(s) = Range(s)
  /\ \A s, n : Fabric!Limit(s, n) = Limit(s, n)
  /\ \A T : Fabric!SetToSeq(T) = SetToSeq(T)
  /\ \A t, unit : Fabric!Trunc(t, unit) = Trunc(t, unit)
<1>1. \A rows, which : Fabric!Select(rows, which) = Select(rows, which)
  BY DEF Fabric!Select, Select, Fabric!Selected, Selected
<1>2. \A s : Fabric!SumOf(s) = SumOf(s)
  BY DEF Fabric!SumOf, SumOf, Fabric!SumTo, SumTo
<1>3. \A s : Fabric!Range(s) = Range(s)
  BY DEF Fabric!Range, Range
<1>4. \A s, n : Fabric!Limit(s, n) = Limit(s, n)
  BY DEF Fabric!Limit, Limit
<1>5. \A T : Fabric!SetToSeq(T) = SetToSeq(T)
  BY DEF Fabric!SetToSeq, SetToSeq, Fabric!IsInjective, IsInjective, Fabric!Cardinality, Cardinality
<1>6. \A t, unit : Fabric!Trunc(t, unit) = Trunc(t, unit)
  BY DEF Fabric!Trunc, Trunc
<1> QED
  BY <1>1, <1>2, <1>3, <1>4, <1>5, <1>6

(* The rows of a network.                                                                  *)
OfNet(S, n) == {r \in S : r.net = n}

LEMMA InNetIs ==
  ASSUME NEW S, NEW rows \in Seq(S), NEW n
  PROVE  Fabric!InNet(rows, n) = Select(rows, OfNet(S, n))
<1> DEFINE which == {r \in Range(rows) : r.net = n}
<1>1. Fabric!InNet(rows, n) = Select(rows, which)
  BY FabricRows DEF Fabric!InNet, Fabric!Where
<1>2. \A i \in 1 .. Len(rows) : rows[i] \in which <=> rows[i] \in OfNet(S, n)
  BY DEF Range, OfNet
<1> HIDE DEF which
<1>3. Select(rows, which) = Select(rows, OfNet(S, n))
  BY <1>2, SelectSame
<1> QED
  BY <1>1, <1>3

LEMMA InNetRows ==
  ASSUME NEW S, NEW rows \in Seq(S), NEW n
  PROVE  /\ Fabric!InNet(rows, n) \in Seq(S)
         /\ Len(Fabric!InNet(rows, n)) \in Nat
         /\ \A k \in 1 .. Len(Fabric!InNet(rows, n)) :
              \E a \in 1 .. Len(rows) : rows[a].net = n /\ Fabric!InNet(rows, n)[k] = rows[a]
<1>1. Fabric!InNet(rows, n) = Select(rows, OfNet(S, n))
  BY InNetIs
<1>2. /\ Select(rows, OfNet(S, n)) \in Seq(S)
      /\ Len(Select(rows, OfNet(S, n))) \in Nat
  BY SelectType
<1>3. \A k \in 1 .. Len(Select(rows, OfNet(S, n))) :
        \E a \in 1 .. Len(rows) : rows[a] \in OfNet(S, n) /\ Select(rows, OfNet(S, n))[k] = rows[a]
  BY SelectRows
<1>4. \A a \in 1 .. Len(rows) : rows[a] \in OfNet(S, n) => rows[a].net = n
  BY DEF OfNet
<1> QED
  BY <1>1, <1>2, <1>3, <1>4

LEMMA InNetAppend ==
  ASSUME NEW S, NEW rows \in Seq(S), NEW r \in S, NEW n
  PROVE  Fabric!InNet(Append(rows, r), n)
           = IF r.net = n THEN Append(Fabric!InNet(rows, n), r) ELSE Fabric!InNet(rows, n)
<1>1. Append(rows, r) \in Seq(S)
  OBVIOUS
<1>2. /\ Fabric!InNet(rows, n) = Select(rows, OfNet(S, n))
      /\ Fabric!InNet(Append(rows, r), n) = Select(Append(rows, r), OfNet(S, n))
  BY <1>1, InNetIs
<1>3. Select(Append(rows, r), OfNet(S, n))
        = IF r \in OfNet(S, n) THEN Append(Select(rows, OfNet(S, n)), r) ELSE Select(rows, OfNet(S, n))
  BY SelectAppend
<1>4. r \in OfNet(S, n) <=> r.net = n
  BY DEF OfNet
<1> QED
  BY <1>2, <1>3, <1>4

LEMMA InNetConcat ==
  ASSUME NEW S, NEW rows \in Seq(S), NEW n, NEW m, NEW more \in Seq(OfNet(S, m))
  PROVE  Fabric!InNet(rows \o more, n)
           = IF m = n THEN Fabric!InNet(rows, n) \o more ELSE Fabric!InNet(rows, n)
<1> DEFINE which == OfNet(S, n)
<1>0. more \in Seq(S) /\ \A i \in 1 .. Len(more) : more[i].net = m
  <2> DEFINE T == OfNet(S, m)
  <2>1. T \subseteq S /\ \A r \in T : r.net = m
    BY DEF OfNet
  <2>2. more \in Seq(T)
    OBVIOUS
  <2> HIDE DEF T
  <2>3. more \in Seq(S) /\ \A i \in 1 .. Len(more) : more[i] \in T
    BY <2>1, <2>2, SeqMonotonic
  <2> QED
    BY <2>1, <2>3
<1>1. rows \o more \in Seq(S)
  BY <1>0
<1>2. /\ Fabric!InNet(rows, n) = Select(rows, which)
      /\ Fabric!InNet(rows \o more, n) = Select(rows \o more, which)
  BY <1>1, InNetIs
<1>3. \A i \in 1 .. Len(more) : more[i] \in which <=> m = n
  <2>1. \A i \in 1 .. Len(more) : more[i] \in S
    BY <1>0
  <2> QED
    BY <1>0, <2>1 DEF OfNet
<1> HIDE DEF which
<1>4. Select(rows \o more, which) = Select(rows, which) \o Select(more, which)
  BY <1>0, SelectConcat
<1>5. CASE m = n
  <2>1. Select(more, which) = more
    BY <1>0, <1>3, <1>5, SelectWhole
  <2> QED
    BY <1>2, <1>4, <1>5, <2>1
<1>6. CASE m # n
  <2>1. Select(more, which) = <<>>
    BY <1>0, <1>3, <1>6, SelectNone
  <2>2. Select(rows, which) \in Seq(S)
    BY SelectType
  <2>3. Select(rows, which) \o <<>> = Select(rows, which)
    BY <2>2, ConcatEmptySeq
  <2> QED
    BY <1>2, <1>4, <1>6, <2>1, <2>3
<1> QED
  BY <1>5, <1>6

-----------------------------------------------------------------------------
(* The histograms: each row falls into one bucket.                                         *)

LEMMA BucketsOfOne ==
  ASSUME NEW S, NEW rows \in Seq(S), Now \in Nat,
         \A i \in 1 .. Len(rows) : rows[i].time \in 1 .. Now
  PROVE  SumOf(Fabric!RowsBy(rows, 1, Now - 1)) = Len(rows)
<1> DEFINE bucket == [b \in 1 .. Len(rows) |-> rows[b].time]
           At(i) == {r \in Range(rows) : Fabric!Trunc(r.time, 1) = Fabric!Trunc(Now, 1) - (Now - i) * 1}
           which == [i \in 1 .. Now |-> At(i)]
<1>1. \A b \in 1 .. Len(rows) : bucket[b] \in 1 .. Now
  OBVIOUS
<1>2. ASSUME NEW b \in 1 .. Len(rows), NEW i \in 1 .. Now
      PROVE  rows[b] \in which[i] <=> bucket[b] = i
  <2>1. rows[b].time \in Nat /\ i \in Nat
    OBVIOUS
  <2>2. Trunc(rows[b].time, 1) = rows[b].time /\ Trunc(Now, 1) = Now
    BY <2>1, TruncOne
  <2>3. rows[b] \in which[i]
          <=> Trunc(rows[b].time, 1) = Trunc(Now, 1) - (Now - i) * 1
    BY FabricRows DEF Range
  <2> QED
    BY <2>1, <2>2, <2>3
<1>3. Fabric!RowsBy(rows, 1, Now - 1) = GroupSizes(rows, which, Now)
  <2>1. (Now - 1) + 1 = Now
    OBVIOUS
  <2>2. Fabric!RowsBy(rows, 1, Now - 1) = [i \in 1 .. Now |-> Len(Select(rows, At(i)))]
    BY <2>1, FabricRows DEF Fabric!RowsBy, Fabric!Where
  <2> QED
    BY <2>2 DEF GroupSizes
<1> HIDE DEF which, bucket
<1>4. SumOf(GroupSizes(rows, which, Now)) = Len(rows)
  BY <1>1, <1>2, Grouped
<1> QED
  BY <1>3, <1>4

LEMMA BucketsOfTwo ==
  ASSUME NEW S, NEW rows \in Seq(S), Now \in Nat,
         \A i \in 1 .. Len(rows) : rows[i].time \in 1 .. Now
  PROVE  SumOf(Fabric!RowsBy(rows, 2, Now)) = Len(rows)
<1> DEFINE n == Now + 1
           bucket == [b \in 1 .. Len(rows) |-> n - (Now \div 2 - rows[b].time \div 2)]
           At(i) == {r \in Range(rows) : Fabric!Trunc(r.time, 2) = Fabric!Trunc(Now, 2) - (n - i) * 2}
           which == [i \in 1 .. n |-> At(i)]
<1>1. ASSUME NEW b \in 1 .. Len(rows)
      PROVE  /\ bucket[b] \in 1 .. n
             /\ \A i \in 1 .. n : rows[b] \in which[i] <=> bucket[b] = i
  <2> DEFINE t == rows[b].time
  <2>1. t \in Nat /\ t <= Now
    OBVIOUS
  <2>2. /\ t \div 2 \in Nat /\ Trunc(t, 2) = 2 * (t \div 2)
        /\ 2 * (t \div 2) <= t /\ t <= 2 * (t \div 2) + 1
        /\ Now \div 2 \in Nat /\ Trunc(Now, 2) = 2 * (Now \div 2)
        /\ 2 * (Now \div 2) <= Now /\ Now <= 2 * (Now \div 2) + 1
    BY <2>1, TruncTwo
  <2>3. \A i \in 1 .. n : rows[b] \in which[i] <=> Trunc(t, 2) = Trunc(Now, 2) - (n - i) * 2
    BY FabricRows DEF Range
  <2>4. bucket[b] = n - (Now \div 2 - t \div 2)
    OBVIOUS
  <2> HIDE DEF t, bucket, which
  <2> QED
    BY <2>1, <2>2, <2>3, <2>4
<1>2. Fabric!RowsBy(rows, 2, Now) = GroupSizes(rows, which, n)
  <2>1. Fabric!RowsBy(rows, 2, Now) = [i \in 1 .. n |-> Len(Select(rows, At(i)))]
    <3>1. Fabric!RowsBy(rows, 2, Now) =
            [i \in 1 .. n |-> Len(Fabric!Select(rows,
               {r \in Fabric!Range(rows) :
                  Fabric!Trunc(r.time, 2) = Fabric!Trunc(Now, 2) - (n - i) * 2}))]
      BY DEF Fabric!RowsBy, Fabric!Where
    <3> QED
      BY <3>1, FabricRows
  <2> QED
    BY <2>1 DEF GroupSizes
<1>3. n \in Nat
  OBVIOUS
<1> HIDE DEF which, bucket, n
<1>4. SumOf(GroupSizes(rows, which, n)) = Len(rows)
  BY <1>1, <1>3, Grouped
<1> QED
  BY <1>2, <1>4

-----------------------------------------------------------------------------
(* The list of blocks: putting the blocks in their places one by one leaves none out.      *)

LEMMA InsertedIs ==
  ASSUME NEW S, \A r \in S : r.num \in Int, NEW rows \in Seq(S), NEW b \in S
  PROVE  /\ Fabric!Inserted(rows, b) \in Seq(S)
         /\ Len(Fabric!Inserted(rows, b)) = Len(rows) + 1
<1> DEFINE above == {c \in Range(rows) : c.num > b.num}
           below == {c \in Range(rows) : c.num <= b.num}
           s == Select(rows, above)
           t == Select(rows, below)
           u == <<b>>
<1>1. Fabric!Inserted(rows, b) = s \o u \o t
  BY FabricRows DEF Fabric!Inserted, Fabric!Where
<1>2. \A i \in 1 .. Len(rows) : rows[i] \in above <=> rows[i] \notin below
  <2>1. \A i \in 1 .. Len(rows) : rows[i] \in S /\ rows[i] \in Range(rows)
    BY DEF Range
  <2> QED
    BY <2>1
<1> HIDE DEF above, below
<1>3. s \in Seq(S) /\ t \in Seq(S) /\ Len(s) \in Nat /\ Len(t) \in Nat
  BY SelectType
<1>4. Len(s) + Len(t) = Len(rows)
  BY <1>2, SelectRest
<1>5. u \in Seq(S) /\ Len(u) = 1
  OBVIOUS
<1> HIDE DEF s, t, u
<1>6. s \o u \in Seq(S) /\ Len(s \o u) = Len(s) + 1
  <2>1. s \o u \in Seq(S) /\ Len(s \o u) = Len(s) + Len(u)
    BY <1>3, <1>5, ConcatProperties
  <2> QED
    BY <1>5, <2>1
<1> DEFINE v == s \o u
<1> HIDE DEF v
<1>7. v \o t \in Seq(S) /\ Len(v \o t) = Len(s) + 1 + Len(t)
  <2>1. v \in Seq(S) /\ Len(v) = Len(s) + 1
    BY <1>6 DEF v
  <2>2. t \in Seq(S)
    BY <1>3
  <2>3. Len(v \o t) = Len(v) + Len(t) /\ v \o t \in Seq(S)
    BY <2>1, <2>2, ConcatProperties
  <2> QED
    BY <2>1, <2>3
<1> QED
  BY <1>1, <1>3, <1>4, <1>7 DEF v

LEMMA DescendingIs ==
  ASSUME NEW S, \A r \in S : r.num \in Int, NEW rows \in Seq(S)
  PROVE  Fabric!Descending(rows) \in Seq(S) /\ Len(Fabric!Descending(rows)) = Len(rows)
<1> DEFINE N == Len(rows)
           V == Seq(S)
           step == [n \in Nat |-> [v \in V |-> IF n \in 1 .. N THEN Fabric!Inserted(v, rows[n]) ELSE v]]
<1>1. N \in Nat /\ \A n \in 1 .. N : rows[n] \in S
  OBVIOUS
<1>2. \A n \in 1 .. N : \A v \in V :
        Fabric!Inserted(v, rows[n]) \in V /\ Len(Fabric!Inserted(v, rows[n])) = Len(v) + 1
  BY <1>1, InsertedIs
<1>3. <<>> \in V /\ Len(<<>>) = 0
  OBVIOUS
<1> HIDE DEF N, V
<1>4. step \in [Nat -> [V -> V]]
  BY <1>2
<1>5. \A n \in 1 .. N : \A v \in V : step[n][v] = Fabric!Inserted(v, rows[n])
  BY <1>1
<1> HIDE DEF step
<1>6. PICK g \in [0 .. N -> V] : g[0] = <<>> /\ \A n \in 1 .. N : g[n] = step[n][g[n - 1]]
  <2>1. \E g \in [0 .. N -> V] : Recurs(g, N, <<>>, step)
    BY <1>1, <1>3, <1>4, Recursion
  <2> QED
    BY <2>1 DEF Recurs
<1>7. \A n \in 1 .. N : g[n] = Fabric!Inserted(g[n - 1], rows[n])
  <2>1. \A n \in 1 .. N : n - 1 \in 0 .. N /\ g[n - 1] \in V
    BY <1>1, <1>6
  <2> QED
    BY <1>5, <1>6, <2>1
<1> DEFINE Eq(f) == f = [n \in 0 .. N |-> IF n = 0 THEN <<>> ELSE Fabric!Inserted(f[n - 1], rows[n])]
           f == CHOOSE f : Eq(f)
<1>8. Eq(g)
  BY <1>1, <1>6, <1>7
<1>9. Eq(f)
  BY <1>8
<1>10. Fabric!Descending(rows) = f[N]
  BY DEF Fabric!Descending, N
<1> HIDE DEF f
<1>11. f[0] = <<>> /\ \A n \in 1 .. N : f[n] = Fabric!Inserted(f[n - 1], rows[n])
  <2>1. \A n \in 0 .. N : f[n] = IF n = 0 THEN <<>> ELSE Fabric!Inserted(f[n - 1], rows[n])
    BY <1>9
  <2> QED
    BY <1>1, <2>1
<1> DEFINE T == {n \in Nat : f[n] \in V /\ Len(f[n]) = n}
<1>12. 0 \in T
  BY <1>3, <1>11
<1>13. ASSUME NEW n \in Nat, n < N, n \in T PROVE n + 1 \in T
  <2>1. n + 1 \in 1 .. N /\ (n + 1) - 1 = n
    BY <1>1, <1>13
  <2>2. f[n] \in V /\ Len(f[n]) = n
    BY <1>13
  <2>3. f[n + 1] = Fabric!Inserted(f[n], rows[n + 1])
    BY <1>11, <2>1
  <2>4. f[n + 1] \in V /\ Len(f[n + 1]) = n + 1
    BY <1>2, <2>1, <2>2, <2>3
  <2> QED
    BY <2>4
<1> HIDE DEF T
<1>14. \A n \in 0 .. N : n \in T
  BY <1>1, <1>12, <1>13, UpTo
<1>15. N \in T
  BY <1>1, <1>14
<1> QED
  BY <1>10, <1>15 DEF T, N, V

-----------------------------------------------------------------------------
(* What the sync process has stored.                                                       *)

ChannelRows == [net : Networks]

PeerRows == [net : Networks, mspid : Orgs, type : {"PEER", "ORDERER"}]

BlockRows == [net : Networks, num : Nat, txcount : Nat, time : 1 .. Now]

TxRows ==
  [net : Networks, block : Nat, hash : Hashes, org : Orgs, time : 1 .. Now, id : Nat]

TxsOf(net, num) == Select(Fabric!InNet(db.transactions, net), {t \in TxRows : t.block = num})

RowTypes ==
  /\ db = [channel |-> db.channel, peer |-> db.peer, chaincodes |-> db.chaincodes,
           blocks |-> db.blocks, transactions |-> db.transactions]
  /\ db.channel \in Seq(ChannelRows)
  /\ db.peer \in Seq(PeerRows)
  /\ db.chaincodes \in Seq(ChannelRows)
  /\ db.blocks \in Seq(BlockRows)
  /\ db.transactions \in Seq(TxRows)

(* A transaction is in the data of its block.                                              *)
InData(t) == t.block \in 0 .. MaxBlock /\ t.hash \in Fabric!HashesOf(t.block)

(* Each id has one row.                                                                    *)
OneRowEach(rows) == \A i, j \in 1 .. Len(rows) : rows[i].hash = rows[j].hash => i = j

HasHash(rows, h) == \E i \in 1 .. Len(rows) : rows[i].hash = h

(* A stored block counts its data, and whatever is in them has a row.                      *)
BlockStored(b) ==
  /\ b.num \in 0 .. MaxBlock
  /\ b.txcount = Len(Blocks[b.num].data)
  /\ \A h \in Fabric!HashesOf(b.num) : HasHash(TxsOf(b.net, b.num), h)

(* A network has its peers and chaincodes with its channel, and that once; transactions    *)
(* are from the data of their blocks, each once in a block and network.                    *)
Stored ==
  /\ \A n \in Networks :
       /\ Len(Fabric!InNet(db.channel, n)) <= 1
       /\ Fabric!InNet(db.peer, n)
            = IF Fabric!InNet(db.channel, n) = <<>> THEN <<>> ELSE Peers[n]
       /\ Fabric!InNet(db.chaincodes, n)
            = IF Fabric!InNet(db.channel, n) = <<>> THEN <<>> ELSE Chaincodes[n]
  /\ \A i \in 1 .. Len(db.transactions) : InData(db.transactions[i])
  /\ \A n \in Networks, num \in 0 .. MaxBlock : OneRowEach(TxsOf(n, num))
  /\ \A i \in 1 .. Len(db.blocks) : BlockStored(db.blocks[i])

FabricData == RowTypes /\ Stored

LEMMA DataTypes ==
  ASSUME ViewsAssumption, NEW num \in 0 .. MaxBlock
  PROVE  /\ Blocks[num].time \in 1 .. Now
         /\ Blocks[num].data \in Seq([hash : Hashes, org : Orgs])
         /\ Len(Blocks[num].data) \in Nat \ {0}
         /\ Fabric!HashesOf(num) = {Blocks[num].data[i].hash : i \in 1 .. Len(Blocks[num].data)}
         /\ num \in Nat
<1> DEFINE entries == [hash : Hashes, org : Orgs]
           held == Blocks[num].data
<1>1. Blocks[num] \in [time : 1 .. Now, data : Seq(entries) \ {<<>>}] /\ num \in Nat
  <2>1. Blocks \in [0 .. MaxBlock -> [time : 1 .. Now, data : Seq(entries) \ {<<>>}]]
        /\ MaxBlock \in Nat
    BY DEF ViewsAssumption, Fabric!DashboardAssumption
  <2> HIDE DEF entries
  <2> QED
    BY <2>1
<1> HIDE DEF entries
<1>2. Blocks[num].time \in 1 .. Now /\ held \in Seq(entries) /\ held # <<>>
  BY <1>1
<1>3. Fabric!HashesOf(num) = {tx.hash : tx \in Range(held)}
  BY FabricRows DEF Fabric!HashesOf
<1> HIDE DEF held
<1>4. Len(held) \in Nat \ {0} /\ DOMAIN held = 1 .. Len(held)
  BY <1>2
<1>5. {tx.hash : tx \in Range(held)} = {held[i].hash : i \in 1 .. Len(held)}
  BY <1>4 DEF Range
<1> QED
  BY <1>1, <1>2, <1>3, <1>4, <1>5 DEF held, entries

LEMMA DataGiven ==
  ASSUME ViewsAssumption, NEW num \in 0 .. MaxBlock
  PROVE  Fabric!HashesOf(num) # {}
<1>1. /\ Len(Blocks[num].data) \in Nat \ {0}
      /\ Fabric!HashesOf(num) = {Blocks[num].data[i].hash : i \in 1 .. Len(Blocks[num].data)}
  BY DataTypes
<1>2. 1 \in 1 .. Len(Blocks[num].data)
  BY <1>1
<1> QED
  BY <1>1, <1>2

(* A join repeats every row as often as there is a row to join it with.                    *)
LEMMA DivOf ==
  ASSUME NEW n \in Nat \ {0}, NEW k \in Nat, NEW i \in Nat, i < n
  PROVE  (n * k + i) \div n = k
BY SMT

LEMMA MulNext ==
  ASSUME NEW n \in Nat, NEW k \in Nat, NEW l \in Nat, k < l
  PROVE  n * k \in Nat /\ n * k + n <= n * l /\ n * (k + 1) = n * k + n
<1>1. n * (k + 1) <= n * l /\ n * (k + 1) = n * k + n
  BY SMT
<1> QED
  BY <1>1, SMT

LEMMA DivAt ==
  ASSUME NEW n \in Nat \ {0}, NEW m \in Nat, NEW l \in Nat, m < n * l
  PROVE  m \div n \in 0 .. l - 1
<1>1. m \div n \in Int /\ n * (m \div n) <= m
  BY SMT
<1> QED
  BY <1>1, SMT

LEMMA JoinedIs ==
  ASSUME NEW S, NEW rows \in Seq(S), NEW n \in Nat \ {0}
  PROVE  /\ Fabric!Joined(rows, n) \in Seq(S)
         /\ n * Len(rows) \in Nat
         /\ Len(Fabric!Joined(rows, n)) = n * Len(rows)
         /\ \A i \in 1 .. n * Len(rows) : /\ (i - 1) \div n + 1 \in 1 .. Len(rows)
                                         /\ Fabric!Joined(rows, n)[i] = rows[(i - 1) \div n + 1]
<1> DEFINE l == n * Len(rows)
           At(i) == (i - 1) \div n + 1
<1>0. Len(rows) \in Nat
  OBVIOUS
<1>1. l \in Nat
  BY <1>0
<1>2. ASSUME NEW i \in 1 .. l PROVE At(i) \in 1 .. Len(rows)
  <2> DEFINE m == i - 1
  <2>1. m \in Nat /\ m < n * Len(rows)
    BY <1>1
  <2> HIDE DEF m
  <2>2. m \div n \in 0 .. Len(rows) - 1
    BY <1>0, <2>1, DivAt
  <2>3. m \div n + 1 \in 1 .. Len(rows)
    BY <1>0, <2>2
  <2> QED
    BY <2>3 DEF m
<1>3. Fabric!Joined(rows, n) = [i \in 1 .. l |-> rows[At(i)]]
  BY DEF Fabric!Joined
<1> HIDE DEF l, At
<1>4. [i \in 1 .. l |-> rows[At(i)]] \in [1 .. l -> S]
  BY <1>2
<1> QED
  BY <1>1, <1>2, <1>3, <1>4 DEF l, At

LEMMA JoinedRange ==
  ASSUME NEW S, NEW rows \in Seq(S), NEW n \in Nat \ {0}
  PROVE  Range(Fabric!Joined(rows, n)) = Range(rows)
<1> DEFINE all == Fabric!Joined(rows, n)
           l == n * Len(rows)
<1>1. /\ all \in Seq(S) /\ l \in Nat /\ Len(all) = l
      /\ \A i \in 1 .. l : /\ (i - 1) \div n + 1 \in 1 .. Len(rows)
                           /\ all[i] = rows[(i - 1) \div n + 1]
  BY JoinedIs
<1>2. ASSUME NEW k \in 1 .. Len(rows) PROVE \E i \in 1 .. l : all[i] = rows[k]
  <2> DEFINE j == k - 1
             i == n * j + 1
  <2>1. j \in Nat /\ j + 1 = k /\ n * j + n <= l
    <3>1. j \in Nat /\ j + 1 = k /\ j + 1 <= Len(rows) /\ Len(rows) \in Nat
      OBVIOUS
    <3> HIDE DEF j
    <3>2. n * (j + 1) <= n * Len(rows) /\ n * (j + 1) = n * j + n
      BY <3>1, SMT
    <3> QED
      BY <3>1, <3>2
  <2> HIDE DEF j
  <2>2. n * j \in Nat /\ (n * j + 0) \div n = j
    BY <2>1, DivOf
  <2> DEFINE m == n * j
  <2>3. m \in Nat /\ m \div n = j /\ m + n <= l /\ i = m + 1
    BY <2>1, <2>2
  <2> HIDE DEF m, i, l
  <2>4. i \in 1 .. l /\ i - 1 = m
    BY <1>1, <2>3
  <2>5. all[i] = rows[k]
    BY <1>1, <2>1, <2>3, <2>4
  <2> QED
    BY <2>4, <2>5
<1> HIDE DEF all, l
<1>3. DOMAIN all = 1 .. l /\ DOMAIN rows = 1 .. Len(rows)
  BY <1>1
<1>4. Range(all) \subseteq Range(rows)
  BY <1>1, <1>3 DEF Range
<1>5. Range(rows) \subseteq Range(all)
  BY <1>2, <1>3 DEF Range
<1> QED
  BY <1>4, <1>5 DEF all

(* What is selected of a joined table is repeated as often.                                *)
LEMMA JoinedSelect ==
  ASSUME NEW S, NEW rows \in Seq(S), NEW n \in Nat \ {0}, NEW which
  PROVE  Len(Select(Fabric!Joined(rows, n), which)) = n * Len(Select(rows, which))
<1> DEFINE all == Fabric!Joined(rows, n)
           L == Len(rows)
           f == Selected(all, which)
           g == Selected(rows, which)
<1>0. L \in Nat
  OBVIOUS
<1>1. /\ all \in Seq(S) /\ n * L \in Nat /\ Len(all) = n * L
      /\ \A i \in 1 .. n * L : all[i] = rows[(i - 1) \div n + 1]
  BY JoinedIs
<1> HIDE DEF all
<1>2. /\ f[0] = <<>> /\ g[0] = <<>>
      /\ \A m \in 1 .. n * L : f[m] = IF all[m] \in which THEN Append(f[m - 1], all[m]) ELSE f[m - 1]
      /\ \A k \in 1 .. L : g[k] = IF rows[k] \in which THEN Append(g[k - 1], rows[k]) ELSE g[k - 1]
  BY <1>1, SelectedRows
<1>3. /\ \A m \in 0 .. n * L : f[m] \in Seq(S)
      /\ \A k \in 0 .. L : g[k] \in Seq(S)
  BY <1>1, SelectedLength
<1>4. Select(all, which) = f[n * L] /\ Select(rows, which) = g[L]
  BY <1>1 DEF Select
<1> HIDE DEF f, g, L
<1> DEFINE T == {k \in Nat : Len(f[n * k]) = n * Len(g[k])}
<1>5. 0 \in T
  <2>1. n * 0 = 0 /\ Len(<<>>) = 0
    OBVIOUS
  <2> QED
    BY <1>2, <2>1
<1>6. ASSUME NEW k \in Nat, k < L, k \in T PROVE k + 1 \in T
  <2> DEFINE m == n * k
             one == IF rows[k + 1] \in which THEN 1 ELSE 0
             U == {j \in Nat : Len(f[m + j]) = n * Len(g[k]) + j * one}
  <2>1. m \in Nat /\ m + n <= n * L /\ n * (k + 1) = m + n
    BY <1>0, <1>6, MulNext
  <2>2. /\ g[k] \in Seq(S) /\ Len(g[k]) \in Nat /\ Len(g[k + 1]) = Len(g[k]) + one
        /\ rows[k + 1] \in S
    <3>1. k + 1 \in 1 .. L /\ k \in 0 .. L /\ (k + 1) - 1 = k
      BY <1>0, <1>1, <1>6
    <3>2. g[k] \in Seq(S) /\ rows[k + 1] \in S
      BY <1>3, <3>1 DEF L
    <3>3. g[k + 1] = IF rows[k + 1] \in which THEN Append(g[k], rows[k + 1]) ELSE g[k]
      BY <1>2, <3>1
    <3>4. Len(Append(g[k], rows[k + 1])) = Len(g[k]) + 1 /\ Len(g[k]) \in Nat
      BY <3>2
    <3>5. CASE rows[k + 1] \in which
      BY <3>2, <3>3, <3>4, <3>5
    <3>6. CASE rows[k + 1] \notin which
      BY <3>2, <3>3, <3>4, <3>6
    <3> QED
      BY <3>5, <3>6
  <2>3. one \in {0, 1} /\ (one = 1 <=> rows[k + 1] \in which)
    OBVIOUS
  <2>4. Len(f[m]) = n * Len(g[k])
    BY <1>6
  <2>7. ASSUME NEW j \in Nat, j < n PROVE all[m + j + 1] = rows[k + 1]
    <3>1. (m + j) \div n = k
      BY <2>7, DivOf
    <3> HIDE DEF m
    <3>2. m + j + 1 \in 1 .. n * L /\ (m + j + 1) - 1 = m + j
      BY <1>1, <2>1, <2>7
    <3> QED
      BY <1>1, <3>1, <3>2
  <2> HIDE DEF m, one
  <2> DEFINE c == n * Len(g[k])
  <2>5. c \in Nat
    BY <2>2
  <2>6. \A j \in 0 .. n : j \in U
    <3>1. 0 \in U
      <4>1. m + 0 = m /\ 0 * one = 0 /\ c + 0 = c
        BY <2>1, <2>3, <2>5
      <4> QED
        BY <2>4, <4>1
    <3>2. ASSUME NEW j \in Nat, j < n, j \in U PROVE j + 1 \in U
      <4> DEFINE a == m + j
      <4>1. a \in 0 .. n * L /\ a + 1 \in 1 .. n * L /\ (a + 1) - 1 = a /\ m + (j + 1) = a + 1
        BY <1>1, <2>1, <3>2
      <4>2. all[a + 1] = rows[k + 1]
        BY <2>7, <3>2
      <4>3. Len(f[a]) = c + j * one
        BY <3>2
      <4> HIDE DEF a, U, c
      <4>4. f[a] \in Seq(S) /\ f[a + 1] = IF rows[k + 1] \in which THEN Append(f[a], rows[k + 1]) ELSE f[a]
        BY <1>2, <1>3, <4>1, <4>2
      <4>5. Len(f[a + 1]) = Len(f[a]) + one
        BY <2>2, <2>3, <4>4
      <4>6. (j + 1) * one = j * one + one /\ j * one \in Nat
        BY <2>3
      <4>7. Len(f[m + (j + 1)]) = c + (j + 1) * one
        BY <2>3, <2>5, <4>1, <4>3, <4>5, <4>6
      <4> QED
        BY <4>7 DEF U, c
    <3> HIDE DEF U, c
    <3> QED
      BY <3>1, <3>2, UpTo
  <2>8. Len(f[m + n]) = c + n * one
    BY <2>6
  <2>9. n * Len(g[k + 1]) = c + n * one
    <3> DEFINE x == Len(g[k])
    <3>1. x \in Nat /\ Len(g[k + 1]) = x + one
      BY <2>2
    <3> HIDE DEF x
    <3>2. n * (x + 1) = n * x + n /\ n * (x + 0) = n * x + 0 /\ n * 0 = 0 /\ n * 1 = n
      BY <3>1
    <3>3. n * (x + one) = n * x + n * one
      BY <2>3, <3>2
    <3> QED
      BY <3>1, <3>3 DEF x
  <2> QED
    BY <2>1, <2>8, <2>9
<1> HIDE DEF T
<1>7. \A k \in 0 .. L : k \in T
  BY <1>0, <1>5, <1>6, UpTo
<1>8. L \in T
  BY <1>0, <1>7
<1> QED
  BY <1>4, <1>8 DEF T, all

LEMMA JoinedOnce ==
  ASSUME NEW S, NEW rows \in Seq(S)
  PROVE  Fabric!Joined(rows, 1) = rows
<1>1. Len(rows) \in Nat /\ 1 * Len(rows) = Len(rows)
  OBVIOUS
<1>2. ASSUME NEW i \in 1 .. Len(rows) PROVE (i - 1) \div 1 + 1 = i
  <2> DEFINE j == i - 1
  <2>1. j \in Nat /\ j + 1 = i
    OBVIOUS
  <2> HIDE DEF j
  <2>2. j \div 1 = j
    BY <2>1, SMT
  <2> QED
    BY <2>1, <2>2 DEF j
<1>3. rows = [i \in 1 .. Len(rows) |-> rows[i]]
  OBVIOUS
<1> QED
  BY <1>1, <1>2, <1>3 DEF Fabric!Joined

(* The rows of one network.                                                                *)
LEMMA NetTxs ==
  ASSUME FabricData, NEW net \in Networks
  PROVE  /\ Fabric!InNet(db.transactions, net) \in Seq(TxRows)
         /\ Len(Fabric!InNet(db.transactions, net)) \in Nat
         /\ \A k \in 1 .. Len(Fabric!InNet(db.transactions, net)) :
              InData(Fabric!InNet(db.transactions, net)[k])
<1> DEFINE rows == db.transactions
           txs == Fabric!InNet(rows, net)
<1>1. rows \in Seq(TxRows) /\ \A i \in 1 .. Len(rows) : InData(rows[i])
  BY DEF FabricData, RowTypes, Stored
<1> HIDE DEF rows
<1>2. /\ txs \in Seq(TxRows) /\ Len(txs) \in Nat
      /\ \A k \in 1 .. Len(txs) : \E a \in 1 .. Len(rows) : rows[a].net = net /\ txs[k] = rows[a]
  BY <1>1, InNetRows
<1> HIDE DEF txs
<1>3. \A k \in 1 .. Len(txs) : InData(txs[k])
  BY <1>1, <1>2
<1> QED
  BY <1>2, <1>3 DEF rows, txs

(* What is selected of transactions: those that are looked for, and all of them.           *)
LEMMA Picked ==
  ASSUME NEW txs \in Seq(TxRows), NEW which
  PROVE  \A k \in 1 .. Len(Select(txs, which)) :
            \E a \in 1 .. Len(txs) : txs[a] \in which /\ Select(txs, which)[k] = txs[a]
<1> HIDE DEF TxRows
<1> QED
  BY SelectRows

LEMMA PickedAll ==
  ASSUME NEW txs \in Seq(TxRows), NEW which
  PROVE  \A a \in 1 .. Len(txs) : txs[a] \in which =>
            \E k \in 1 .. Len(Select(txs, which)) : Select(txs, which)[k] = txs[a]
<1> HIDE DEF TxRows
<1> QED
  BY SelectRows

(* The rows of a block: those of the network's transactions that are its.                  *)
LEMMA BlockTxs ==
  ASSUME FabricData, NEW net \in Networks, NEW num
  PROVE  /\ TxsOf(net, num) \in Seq(TxRows)
         /\ \A i \in 1 .. Len(TxsOf(net, num)) :
              \E k \in 1 .. Len(Fabric!InNet(db.transactions, net)) :
                 /\ TxsOf(net, num)[i] = Fabric!InNet(db.transactions, net)[k]
                 /\ TxsOf(net, num)[i].block = num
         /\ \A k \in 1 .. Len(Fabric!InNet(db.transactions, net)) :
              Fabric!InNet(db.transactions, net)[k].block = num =>
                \E i \in 1 .. Len(TxsOf(net, num)) :
                   TxsOf(net, num)[i] = Fabric!InNet(db.transactions, net)[k]
<1> DEFINE txs == Fabric!InNet(db.transactions, net)
           which == {t \in TxRows : t.block = num}
           own == Select(txs, which)
<1>1. txs \in Seq(TxRows)
  BY NetTxs
<1>2. TxsOf(net, num) = own
  BY DEF TxsOf
<1> HIDE DEF txs
<1>3. \A k \in 1 .. Len(txs) : txs[k] \in which <=> txs[k].block = num
  BY <1>1
<1> HIDE DEF which
<1>4. own \in Seq(TxRows)
  BY <1>1, SelectType
<1>5. \A i \in 1 .. Len(own) : \E k \in 1 .. Len(txs) : txs[k] \in which /\ own[i] = txs[k]
  BY <1>1, Picked
<1>6. \A k \in 1 .. Len(txs) :
        txs[k] \in which => \E i \in 1 .. Len(own) : own[i] = txs[k]
  BY <1>1, PickedAll
<1> HIDE DEF own
<1>7. \A i \in 1 .. Len(own) : \E k \in 1 .. Len(txs) : own[i] = txs[k] /\ own[i].block = num
  <2>1. ASSUME NEW i \in 1 .. Len(own)
        PROVE  \E k \in 1 .. Len(txs) : own[i] = txs[k] /\ own[i].block = num
    <3>1. PICK k \in 1 .. Len(txs) : txs[k] \in which /\ own[i] = txs[k]
      BY <1>5
    <3>2. txs[k].block = num
      BY <1>3, <3>1
    <3> QED
      BY <3>1, <3>2
  <2> QED
    BY <2>1
<1>8. \A k \in 1 .. Len(txs) : txs[k].block = num => \E i \in 1 .. Len(own) : own[i] = txs[k]
  BY <1>3, <1>6
<1> QED
  BY <1>2, <1>4, <1>7, <1>8 DEF txs

(* saveTransaction passes over what has a row.                                             *)
LEMMA HasIs ==
  ASSUME FabricData, NEW net \in Networks, NEW num, NEW h
  PROVE  Fabric!HasTransaction(net, num, h) <=> HasHash(TxsOf(net, num), h)
<1> DEFINE txs == Fabric!InNet(db.transactions, net)
           own == TxsOf(net, num)
           some == {t \in Range(txs) : t.block = num /\ t.hash = h}
<1>1. txs \in Seq(TxRows)
  BY NetTxs
<1>2. Fabric!HasTransaction(net, num, h) <=> Select(txs, some) # <<>>
  BY FabricRows DEF Fabric!HasTransaction, Fabric!Where
<1>3. /\ \A i \in 1 .. Len(own) : \E k \in 1 .. Len(txs) : own[i] = txs[k] /\ own[i].block = num
      /\ \A k \in 1 .. Len(txs) : txs[k].block = num => \E i \in 1 .. Len(own) : own[i] = txs[k]
  BY BlockTxs
<1> HIDE DEF txs, own
<1>4. \A k \in 1 .. Len(txs) : txs[k] \in some <=> txs[k].block = num /\ txs[k].hash = h
  BY <1>1 DEF Range
<1> HIDE DEF some
<1>5. Select(txs, some) # <<>> <=> \E k \in 1 .. Len(txs) : txs[k] \in some
  BY <1>1, SelectNone
<1>6. (\E k \in 1 .. Len(txs) : txs[k] \in some) <=> HasHash(own, h)
  <2>1. ASSUME NEW k \in 1 .. Len(txs), txs[k] \in some PROVE HasHash(own, h)
    <3>1. txs[k].block = num /\ txs[k].hash = h
      BY <1>4, <2>1
    <3>2. PICK i \in 1 .. Len(own) : own[i] = txs[k]
      BY <1>3, <3>1
    <3> QED
      BY <3>1, <3>2 DEF HasHash
  <2>2. ASSUME HasHash(own, h) PROVE \E k \in 1 .. Len(txs) : txs[k] \in some
    <3>1. PICK i \in 1 .. Len(own) : own[i].hash = h
      BY <2>2 DEF HasHash
    <3>2. PICK k \in 1 .. Len(txs) : own[i] = txs[k] /\ own[i].block = num
      BY <1>3
    <3> QED
      BY <1>4, <3>1, <3>2
  <2> QED
    BY <2>1, <2>2
<1> QED
  BY <1>2, <1>5, <1>6 DEF own

LEMMA NetBlocks ==
  ASSUME ViewsAssumption, FabricData, NEW net \in Networks
  PROVE  /\ Fabric!InNet(db.blocks, net) \in Seq(BlockRows)
         /\ Len(Fabric!InNet(db.blocks, net)) \in Nat
         /\ \A k \in 1 .. Len(Fabric!InNet(db.blocks, net)) :
              LET b == Fabric!InNet(db.blocks, net)[k]
              IN  b.net = net /\ BlockStored(b) /\ TxsOf(net, b.num) # <<>>
<1> DEFINE rows == db.blocks
           blocks == Fabric!InNet(rows, net)
<1>1. rows \in Seq(BlockRows) /\ \A i \in 1 .. Len(rows) : BlockStored(rows[i])
  BY DEF FabricData, RowTypes, Stored
<1> HIDE DEF rows
<1>2. /\ blocks \in Seq(BlockRows) /\ Len(blocks) \in Nat
      /\ \A k \in 1 .. Len(blocks) :
           \E a \in 1 .. Len(rows) : rows[a].net = net /\ blocks[k] = rows[a]
  BY <1>1, InNetRows
<1> HIDE DEF blocks
<1>3. \A k \in 1 .. Len(blocks) : blocks[k].net = net /\ BlockStored(blocks[k])
  BY <1>1, <1>2
<1>4. ASSUME NEW k \in 1 .. Len(blocks) PROVE TxsOf(net, blocks[k].num) # <<>>
  <2> DEFINE num == blocks[k].num
             own == TxsOf(net, num)
  <2>1. num \in 0 .. MaxBlock /\ \A h \in Fabric!HashesOf(num) : HasHash(own, h)
    BY <1>3 DEF BlockStored
  <2>2. own \in Seq(TxRows)
    BY BlockTxs
  <2> HIDE DEF num, own
  <2>3. PICK h : h \in Fabric!HashesOf(num)
    <3>1. Fabric!HashesOf(num) # {}
      BY <2>1, DataGiven
    <3> QED
      BY <3>1
  <2>4. own # <<>>
    BY <2>1, <2>2, <2>3 DEF HasHash
  <2> QED
    BY <2>4 DEF own, num
<1> QED
  BY <1>2, <1>3, <1>4 DEF rows, blocks

(* A joined list has the rows of the network once each.                                    *)
LEMMA JoinedByNet ==
  ASSUME FabricData, NEW net \in Networks, Fabric!InNet(db.channel, net) # <<>>,
         NEW S, NEW rows \in Seq(S)
  PROVE  Fabric!JoinChannel(rows, net) = rows
<1> DEFINE channels == Fabric!InNet(db.channel, net)
<1>1. channels \in Seq(ChannelRows)
  BY InNetRows DEF FabricData, RowTypes
<1>2. Len(channels) <= 1 /\ channels # <<>>
  BY DEF FabricData, Stored
<1>3. Fabric!JoinChannel(rows, net) = Fabric!Joined(rows, Len(channels))
  BY DEF Fabric!JoinChannel
<1> HIDE DEF channels
<1>4. Len(channels) = 1
  <2>1. Len(channels) \in Nat
    BY <1>1
  <2>2. Len(channels) # 0
    BY <1>1, <1>2
  <2>3. Len(channels) <= 1
    BY <1>2
  <2>4. \A m \in Nat : m # 0 /\ m <= 1 => m = 1
    OBVIOUS
  <2> QED
    BY <2>1, <2>2, <2>3, <2>4, Zenon
<1> QED
  BY <1>3, <1>4, JoinedOnce

LEMMA AlwaysWithin ==
  ASSUME NEW t, t.time \in 1 .. Now
  PROVE  Fabric!Within(t, Fabric!Always) /\ Fabric!OfOrgs(t, {})
BY DEF Fabric!Within, Fabric!Always, Fabric!OfOrgs

LEMMA ReverseLength ==
  ASSUME NEW S, NEW s \in Seq(S)
  PROVE  Len(Fabric!Reverse(s)) = Len(s)
<1>1. Len(s) \in Nat
  OBVIOUS
<1> QED
  BY <1>1 DEF Fabric!Reverse

LEMMA TxListLength ==
  ASSUME FabricData, NEW net \in Networks, Fabric!InNet(db.channel, net) # <<>>, NEW orgs
  PROVE  Len(Fabric!GetTxList(net, 0, 0, Fabric!Always, orgs))
           = Len(Select(Fabric!InNet(db.transactions, net), {t \in TxRows : Fabric!OfOrgs(t, orgs)}))
<1> DEFINE txs == Fabric!InNet(db.transactions, net)
           some == {t \in Range(txs) : /\ t.block >= 0 /\ t.id >= 0
                                       /\ Fabric!OfOrgs(t, orgs) /\ Fabric!Within(t, Fabric!Always)}
           which == {t \in TxRows : Fabric!OfOrgs(t, orgs)}
           found == Select(txs, some)
<1>1. txs \in Seq(TxRows)
  BY NetTxs
<1>2. Fabric!GetTxList(net, 0, 0, Fabric!Always, orgs) = Fabric!Reverse(Fabric!JoinChannel(found, net))
  BY FabricRows DEF Fabric!GetTxList, Fabric!Where
<1>3. \A i \in 1 .. Len(txs) : txs[i] \in some <=> txs[i] \in which
  <2> SUFFICES ASSUME NEW i \in 1 .. Len(txs) PROVE txs[i] \in some <=> txs[i] \in which
    OBVIOUS
  <2> HIDE DEF txs
  <2>1. txs[i] \in TxRows /\ txs[i] \in Range(txs)
    BY <1>1 DEF Range
  <2>2. txs[i].block >= 0 /\ txs[i].id >= 0 /\ txs[i].time \in 1 .. Now
    BY <2>1 DEF TxRows
  <2>3. Fabric!Within(txs[i], Fabric!Always)
    BY <2>2, AlwaysWithin
  <2> QED
    BY <2>1, <2>2, <2>3
<1> HIDE DEF txs, some, which
<1>4. found = Select(txs, which) /\ found \in Seq(TxRows)
  <2>1. found = Select(txs, which)
    BY <1>1, <1>3, SelectSame
  <2>2. found \in Seq(TxRows)
    BY <1>1, SelectType
  <2> QED
    BY <2>1, <2>2
<1> HIDE DEF found
<1>5. Fabric!JoinChannel(found, net) = found
  BY <1>4, JoinedByNet
<1>6. Len(Fabric!Reverse(found)) = Len(found)
  BY <1>4, ReverseLength
<1> QED
  BY <1>2, <1>4, <1>5, <1>6 DEF txs, which

(* A transaction looked up by its id is one of that id.                                   *)
LEMMA TxByHash ==
  ASSUME FabricData, NEW net \in Networks, Fabric!InNet(db.channel, net) # <<>>,
         NEW k \in 1 .. Len(Fabric!InNet(db.transactions, net)), NEW h,
         Fabric!InNet(db.transactions, net)[k].hash = h
  PROVE  \E a \in 1 .. Len(Fabric!InNet(db.transactions, net)) :
            /\ Fabric!GetTransactionByID(net, h) = Fabric!InNet(db.transactions, net)[a]
            /\ Fabric!InNet(db.transactions, net)[a].hash = h
<1> DEFINE txs == Fabric!InNet(db.transactions, net)
           some == {t \in Range(txs) : t.hash = h}
           found == Select(txs, some)
<1>1. txs \in Seq(TxRows)
  BY NetTxs
<1>2. Fabric!GetTransactionByID(net, h) = Fabric!FirstRow(Fabric!JoinChannel(found, net))
  BY FabricRows DEF Fabric!GetTransactionByID, Fabric!Where
<1>0. k \in 1 .. Len(txs) /\ txs[k].hash = h
  OBVIOUS
<1> HIDE DEF txs
<1>3. txs[k] \in some
  BY <1>0, <1>1 DEF Range
<1>8. \A a \in 1 .. Len(txs) : txs[a] \in some => txs[a].hash = h
  OBVIOUS
<1> HIDE DEF some
<1>4. found \in Seq(TxRows)
  BY <1>1, SelectType
<1>5. found # <<>>
  BY <1>0, <1>1, <1>3, SelectNone
<1>6. \A i \in 1 .. Len(found) : \E a \in 1 .. Len(txs) : txs[a] \in some /\ found[i] = txs[a]
  BY <1>1, Picked
<1> HIDE DEF found
<1>7. Fabric!JoinChannel(found, net) = found
  BY <1>4, JoinedByNet
<1>9. 1 \in 1 .. Len(found)
  BY <1>4, <1>5
<1>10. PICK a \in 1 .. Len(txs) : txs[a] \in some /\ found[1] = txs[a]
  BY <1>6, <1>9
<1>11. Fabric!GetTransactionByID(net, h) = txs[a]
  BY <1>2, <1>5, <1>7, <1>10 DEF Fabric!FirstRow
<1> QED
  BY <1>8, <1>10, <1>11 DEF txs

(* The transactions of a block, as its row in the list of blocks shows them.               *)
LEMMA TxsShown ==
  ASSUME FabricData, NEW net \in Networks, NEW num
  PROVE  Select(Fabric!InNet(db.transactions, net),
                {t \in Range(Fabric!InNet(db.transactions, net)) :
                   t.block = num /\ Fabric!OfOrgs(t, {}) /\ Fabric!Within(t, Fabric!Always)})
           = TxsOf(net, num)
<1> DEFINE txs == Fabric!InNet(db.transactions, net)
           some == {t \in Range(txs) :
                      t.block = num /\ Fabric!OfOrgs(t, {}) /\ Fabric!Within(t, Fabric!Always)}
           which == {t \in TxRows : t.block = num}
<1>1. txs \in Seq(TxRows)
  BY NetTxs
<1>2. TxsOf(net, num) = Select(txs, which)
  BY DEF TxsOf
<1> HIDE DEF txs
<1>3. ASSUME NEW i \in 1 .. Len(txs) PROVE txs[i] \in some <=> txs[i] \in which
  <2>1. txs[i] \in TxRows /\ txs[i] \in Range(txs)
    BY <1>1 DEF Range
  <2>2. txs[i].time \in 1 .. Now
    BY <2>1 DEF TxRows
  <2>3. Fabric!Within(txs[i], Fabric!Always) /\ Fabric!OfOrgs(txs[i], {})
    BY <2>2, AlwaysWithin
  <2> QED
    BY <2>1, <2>3
<1> HIDE DEF some, which
<1>4. Select(txs, some) = Select(txs, which)
  BY <1>1, <1>3, SelectSame
<1> QED
  BY <1>2, <1>4 DEF txs, some

(* The list of blocks with their transactions shows every block.                           *)
LEMMA BlockListIs ==
  ASSUME ViewsAssumption, FabricData, NEW net \in Networks
  PROVE  LET listed == Fabric!GetBlockAndTxList(net, Fabric!Always, {})
             blocks == Fabric!Descending(Fabric!InNet(db.blocks, net))
         IN  /\ blocks \in Seq(BlockRows)
             /\ Len(blocks) = Len(Fabric!InNet(db.blocks, net))
             /\ \A i \in 1 .. Len(blocks) :
                  \E k \in 1 .. Len(Fabric!InNet(db.blocks, net)) :
                     blocks[i] = Fabric!InNet(db.blocks, net)[k]
             /\ listed = [i \in 1 .. Len(blocks) |->
                         [num |-> blocks[i].num, txcount |-> blocks[i].txcount,
                          txs |-> TxsOf(net, blocks[i].num)]]
<1> DEFINE rows == Fabric!InNet(db.blocks, net)
           S == {rows[k] : k \in 1 .. Len(rows)}
           blocks == Fabric!Descending(rows)
           txs == Fabric!InNet(db.transactions, net)
           some(b) == {t \in Range(txs) :
                         t.block = b.num /\ Fabric!OfOrgs(t, {}) /\ Fabric!Within(t, Fabric!Always)}
           whole == {b \in Range(blocks) :
                       Fabric!Within(b, Fabric!Always) /\ Select(txs, some(b)) # <<>>}
           kept == Select(blocks, whole)
<1>1. /\ rows \in Seq(BlockRows) /\ Len(rows) \in Nat
      /\ \A k \in 1 .. Len(rows) : rows[k].net = net /\ TxsOf(net, rows[k].num) # <<>>
  BY NetBlocks
<1>2. \A b : Select(txs, some(b)) = TxsOf(net, b.num)
  BY TxsShown
<1>3. Fabric!GetBlockAndTxList(net, Fabric!Always, {})
        = [i \in DOMAIN kept |-> [num |-> kept[i].num, txcount |-> kept[i].txcount,
                                  txs |-> Select(txs, some(kept[i]))]]
  <2>1. Fabric!GetBlockAndTxList(net, Fabric!Always, {})
          = [i \in DOMAIN kept |->
              [num |-> kept[i].num, txcount |-> kept[i].txcount,
               txs |-> Fabric!Select(txs, {t \in Fabric!Range(txs) :
                                            /\ t.block = kept[i].num /\ Fabric!OfOrgs(t, {})
                                            /\ Fabric!Within(t, Fabric!Always)})]]
    BY FabricRows DEF Fabric!GetBlockAndTxList, Fabric!Where
  <2> QED
    BY <2>1, FabricRows
<1> HIDE DEF rows
<1>4. rows \in Seq(S) /\ \A r \in S : r.num \in Int
  <2>1. \A k \in 1 .. Len(rows) : rows[k] \in BlockRows
    BY <1>1
  <2>2. \A k \in 1 .. Len(rows) : rows[k].num \in Int
    BY <2>1 DEF BlockRows
  <2>3. rows \in Seq(S)
    BY <1>1
  <2> QED
    BY <2>2, <2>3
<1> HIDE DEF S
<1>5. blocks \in Seq(S) /\ Len(blocks) = Len(rows)
  BY <1>4, DescendingIs
<1> HIDE DEF blocks
<1>6. \A i \in 1 .. Len(blocks) : \E k \in 1 .. Len(rows) : blocks[i] = rows[k]
  <2>1. \A i \in 1 .. Len(blocks) : blocks[i] \in S
    BY <1>5
  <2> QED
    BY <2>1 DEF S
<1>7. blocks \in Seq(BlockRows)
  <2>1. S \subseteq BlockRows
    BY <1>1 DEF S
  <2> QED
    BY <1>5, <2>1, SeqMonotonic
<1>8. ASSUME NEW i \in 1 .. Len(blocks) PROVE blocks[i] \in whole
  <2>0. blocks[i] \in BlockRows /\ blocks[i] \in Range(blocks)
    BY <1>7 DEF Range
  <2>1. blocks[i] \in Range(blocks) /\ blocks[i].time \in 1 .. Now
    BY <2>0 DEF BlockRows
  <2>2. Fabric!Within(blocks[i], Fabric!Always)
    BY <2>1, AlwaysWithin
  <2>3. TxsOf(net, blocks[i].num) # <<>>
    BY <1>1, <1>6
  <2> HIDE DEF some
  <2>4. Select(txs, some(blocks[i])) # <<>>
    BY <1>2, <2>3
  <2> QED
    BY <2>1, <2>2, <2>4
<1> HIDE DEF whole, some
<1>9. kept = blocks
  BY <1>7, <1>8, SelectWhole
<1>10. DOMAIN blocks = 1 .. Len(blocks)
  BY <1>7
<1>11. Fabric!GetBlockAndTxList(net, Fabric!Always, {})
         = [i \in 1 .. Len(blocks) |->
              [num |-> blocks[i].num, txcount |-> blocks[i].txcount,
               txs |-> TxsOf(net, blocks[i].num)]]
  BY <1>2, <1>3, <1>9, <1>10
<1> QED
  BY <1>5, <1>6, <1>7, <1>11 DEF blocks, rows

(* The count of a block's transactions is that of its data.                                *)
LEMMA CountOfBlock ==
  ASSUME ViewsAssumption, FabricData, NEW net \in Networks,
         NEW k \in 1 .. Len(Fabric!InNet(db.blocks, net))
  PROVE  Fabric!BlockTransactions(net, Fabric!InNet(db.blocks, net)[k].num).txCount
           = Len(Blocks[Fabric!InNet(db.blocks, net)[k].num].data)
<1> DEFINE rows == Fabric!InNet(db.blocks, net)
           num == rows[k].num
           some == {b \in Range(rows) : b.num = num}
           found == Select(rows, some)
           row == Fabric!GetTxCountByBlockNum(net, num)
<1>1. /\ rows \in Seq(BlockRows) /\ Len(rows) \in Nat
      /\ \A i \in 1 .. Len(rows) : rows[i].txcount = Len(Blocks[rows[i].num].data)
  BY NetBlocks DEF BlockStored
<1>2. row = IF found = <<>> THEN None ELSE found[1]
  BY FabricRows DEF Fabric!GetTxCountByBlockNum, Fabric!Where, Fabric!FirstRow
<1>3. Fabric!BlockTransactions(net, num)
        = IF row = None THEN NotFound ELSE [number |-> row.num, txCount |-> row.txcount]
  BY DEF Fabric!BlockTransactions
<1>0. k \in 1 .. Len(rows)
  OBVIOUS
<1> HIDE DEF rows
<1>4. rows[k] \in some
  BY <1>0, <1>1 DEF Range
<1>5. \A a \in 1 .. Len(rows) : rows[a] \in some => rows[a].num = num
  OBVIOUS
<1> HIDE DEF some
<1>6. found \in Seq(BlockRows)
  BY <1>1, SelectType
<1>7. found # <<>>
  BY <1>0, <1>1, <1>4, SelectNone
<1>8. \A i \in 1 .. Len(found) : \E a \in 1 .. Len(rows) : rows[a] \in some /\ found[i] = rows[a]
  BY <1>1, SelectRows
<1> HIDE DEF found
<1>9. 1 \in 1 .. Len(found)
  BY <1>6, <1>7
<1>10. PICK a \in 1 .. Len(rows) : rows[a] \in some /\ found[1] = rows[a]
  BY <1>8, <1>9
<1>11. row = rows[a] /\ row.num = num
  BY <1>1, <1>2, <1>5, <1>7, <1>10
<1>12. row # None
  <2>1. row \in BlockRows
    BY <1>1, <1>11
  <2>2. row \in [net : Networks, num : Nat, txcount : Nat, time : Nat]
    BY <2>1 DEF BlockRows
  <2> QED
    BY <2>2 DEF ViewsAssumption, Fabric!DashboardAssumption
<1> HIDE DEF row
<1>13. Fabric!BlockTransactions(net, num).txCount = row.txcount
  BY <1>3, <1>12
<1>14. row.txcount = Len(Blocks[num].data)
  BY <1>1, <1>11
<1> QED
  BY <1>13, <1>14 DEF rows

-----------------------------------------------------------------------------
(* Transactions by organisation.                                                           *)

OrgCounts == [org : Orgs, count : Nat]

Once(rows) == \A i, j \in 1 .. Len(rows) : rows[i].org = rows[j].org => i = j

LEMMA CountsAre ==
  ASSUME NEW rows \in Seq(OrgCounts)
  PROVE  /\ Fabric!Counts(rows) \in Seq(Int)
         /\ Len(Fabric!Counts(rows)) = Len(rows)
         /\ \A i \in 1 .. Len(rows) : Fabric!Counts(rows)[i] = rows[i].count
<1>1. DOMAIN rows = 1 .. Len(rows) /\ Len(rows) \in Nat
  OBVIOUS
<1>2. \A i \in 1 .. Len(rows) : rows[i].count \in Int
  <2>1. \A i \in 1 .. Len(rows) : rows[i] \in OrgCounts
    OBVIOUS
  <2> QED
    BY <2>1 DEF OrgCounts
<1>3. Fabric!Counts(rows) = [i \in 1 .. Len(rows) |-> rows[i].count]
  BY <1>1 DEF Fabric!Counts
<1>4. Fabric!Counts(rows) \in [1 .. Len(rows) -> Int]
  BY <1>2, <1>3
<1> QED
  BY <1>1, <1>3, <1>4

LEMMA OrgsFinite ==
  ASSUME ViewsAssumption, NEW O \in SUBSET Orgs, NEW X, NEW f, X = {f[o] : o \in O}
  PROVE  IsFiniteSet(X)
<1>1. IsFiniteSet(O)
  <2>1. IsFiniteSet(Orgs)
    BY DEF ViewsAssumption, Fabric!DashboardAssumption, Fabric!IsFiniteSet, IsFiniteSet
  <2> QED
    BY <2>1, FS_Subset
<1> DEFINE g == [o \in O |-> f[o]]
<1>2. g \in Surjection(O, X)
  BY DEF Surjection
<1> QED
  BY <1>1, <1>2, FS_Surjection

LEMMA TxByOrgsIs ==
  ASSUME ViewsAssumption, FabricData, NEW net \in Networks
  PROVE  /\ Fabric!GetTxByOrgs(net) \in Seq(OrgCounts)
         /\ Once(Fabric!GetTxByOrgs(net))
         /\ SumOf(Fabric!Counts(Fabric!GetTxByOrgs(net))) = Len(Fabric!InNet(db.transactions, net))
<1> DEFINE txs == Fabric!InNet(db.transactions, net)
           O == {t.org : t \in Range(txs)}
           of(o) == {t \in Range(txs) : t.org = o}
           row == [o \in O |-> [org |-> o, count |-> Len(Select(txs, of(o)))]]
           X == {row[o] : o \in O}
           rows == SetToSeq(X)
           n == Cardinality(X)
           which == [i \in 1 .. n |-> of(rows[i].org)]
<1>1. txs \in Seq(TxRows) /\ Len(txs) \in Nat
  BY NetTxs
<1>2. Fabric!GetTxByOrgs(net) = rows
  <2>1. Fabric!GetTxByOrgs(net)
          = SetToSeq({[org |-> o, count |-> Len(Select(txs, of(o)))] : o \in O})
    BY FabricRows DEF Fabric!GetTxByOrgs, Fabric!Where
  <2>2. {[org |-> o, count |-> Len(Select(txs, of(o)))] : o \in O} = X
    OBVIOUS
  <2> QED
    BY <2>1, <2>2
<1> HIDE DEF txs
<1>3. O \in SUBSET Orgs
  <2>1. Range(txs) \subseteq TxRows
    BY <1>1, RangeFinite
  <2> QED
    BY <2>1 DEF TxRows
<1>4. \A o \in O : row[o] \in OrgCounts /\ row[o].org = o /\ row[o].count = Len(Select(txs, of(o)))
  <2> SUFFICES ASSUME NEW o \in O
      PROVE  row[o] \in OrgCounts /\ row[o].org = o /\ row[o].count = Len(Select(txs, of(o)))
    OBVIOUS
  <2> DEFINE m == Len(Select(txs, of(o)))
  <2>1. m \in Nat
    BY <1>1, SelectType
  <2>2. row[o] = [org |-> o, count |-> m]
    OBVIOUS
  <2>3. o \in Orgs
    BY <1>3
  <2> HIDE DEF m, row, O
  <2>4. row[o] \in OrgCounts /\ row[o].org = o /\ row[o].count = m
    BY <2>1, <2>2, <2>3 DEF OrgCounts
  <2> QED
    BY <2>4 DEF m
<1>5. \A b \in 1 .. Len(txs) : txs[b].org \in O /\ txs[b] \in Range(txs)
  BY <1>1 DEF Range
<1>12. \A b \in 1 .. Len(txs) : \A o : txs[b] \in of(o) <=> txs[b].org = o
  BY <1>5
<1> HIDE DEF row, O, of
<1>6. IsFiniteSet(X)
  BY <1>3, OrgsFinite
<1>7. \A x \in X : x \in OrgCounts /\ x.org \in O /\ x = row[x.org]
  BY <1>4
<1>8. \A o \in O : row[o] \in X
  OBVIOUS
<1> HIDE DEF X
<1>9. /\ n \in Nat /\ rows \in Seq(X) /\ Len(rows) = n
      /\ \A i, j \in 1 .. n : rows[i] = rows[j] => i = j
      /\ \A x \in X : \E i \in 1 .. n : rows[i] = x
  BY <1>6, SetSeq
<1> HIDE DEF rows, n
<1>10. /\ rows \in Seq(OrgCounts)
       /\ \A i \in 1 .. n : rows[i] \in X
  <2>1. X \subseteq OrgCounts
    BY <1>7
  <2> QED
    BY <1>9, <2>1, SeqMonotonic
<1>11. Once(rows)
  BY <1>7, <1>9, <1>10 DEF Once
<1> DEFINE bucket == [b \in 1 .. Len(txs) |-> CHOOSE i \in 1 .. n : rows[i].org = txs[b].org]
<1>13. ASSUME NEW b \in 1 .. Len(txs)
       PROVE  /\ bucket[b] \in 1 .. n
              /\ \A i \in 1 .. n : txs[b] \in which[i] <=> bucket[b] = i
  <2>1. PICK i \in 1 .. n : rows[i] = row[txs[b].org]
    BY <1>5, <1>8, <1>9
  <2>2. rows[i].org = txs[b].org
    BY <1>4, <1>5, <2>1
  <2>3. bucket[b] \in 1 .. n /\ rows[bucket[b]].org = txs[b].org
    BY <2>2
  <2> HIDE DEF bucket
  <2>4. \A k \in 1 .. n : rows[k].org = txs[b].org <=> bucket[b] = k
    BY <1>9, <1>11, <2>3 DEF Once
  <2>5. \A k \in 1 .. n : txs[b] \in which[k] <=> rows[k].org = txs[b].org
    BY <1>12
  <2> QED
    BY <2>3, <2>4, <2>5
<1> HIDE DEF bucket
<1>14. Fabric!Counts(rows) = GroupSizes(txs, which, n)
  <2>1. \A i \in 1 .. n : rows[i].count = Len(Select(txs, of(rows[i].org)))
    BY <1>4, <1>7, <1>10
  <2>2. \A i \in 1 .. n : Len(Select(txs, which[i])) = Len(Select(txs, of(rows[i].org)))
    OBVIOUS
  <2>3. DOMAIN rows = 1 .. n
    BY <1>9
  <2> QED
    BY <2>1, <2>2, <2>3 DEF Fabric!Counts, GroupSizes
<1> HIDE DEF which
<1>15. SumOf(GroupSizes(txs, which, n)) = Len(txs)
  <2>1. n \in Nat
    BY <1>9
  <2>2. /\ \A b \in 1 .. Len(txs) : bucket[b] \in 1 .. n
        /\ \A b \in 1 .. Len(txs) : \A i \in 1 .. n : txs[b] \in which[i] <=> bucket[b] = i
    BY <1>13
  <2> QED
    BY <1>1, <2>1, <2>2, Grouped
<1> QED
  BY <1>2, <1>10, <1>11, <1>14, <1>15 DEF txs

(* The organisations without a transaction follow, and count nothing.                      *)
LEMMA MissingOrgs ==
  ASSUME ViewsAssumption, NEW rows \in Seq(OrgCounts), Once(rows), NEW orgs \in SUBSET Orgs
  PROVE  /\ Fabric!AppendMissingOrgs(rows, orgs) \in Seq(OrgCounts)
         /\ Once(Fabric!AppendMissingOrgs(rows, orgs))
         /\ Fabric!OrgsOnce(Fabric!AppendMissingOrgs(rows, orgs), orgs)
         /\ SumOf(Fabric!Counts(Fabric!AppendMissingOrgs(rows, orgs))) = SumOf(Fabric!Counts(rows))
<1> DEFINE O == orgs \ {r.org : r \in Range(rows)}
           row == [o \in O |-> [org |-> o, count |-> 0]]
           X == {row[o] : o \in O}
           more == SetToSeq(X)
           n == Cardinality(X)
           all == rows \o more
<1>1. Fabric!AppendMissingOrgs(rows, orgs) = all
  <2>1. Fabric!AppendMissingOrgs(rows, orgs) = rows \o SetToSeq({[org |-> o, count |-> 0] : o \in O})
    BY FabricRows DEF Fabric!AppendMissingOrgs
  <2>2. {[org |-> o, count |-> 0] : o \in O} = X
    OBVIOUS
  <2> QED
    BY <2>1, <2>2
<1>2. \A o \in O : row[o] \in OrgCounts /\ row[o].org = o /\ row[o].count = 0
  BY DEF OrgCounts
<1>3. O \in SUBSET Orgs
  OBVIOUS
<1>4. /\ \A i \in 1 .. Len(rows) : rows[i].org \notin O
      /\ \A o \in orgs \ O : \E i \in 1 .. Len(rows) : rows[i].org = o
      /\ O \subseteq orgs
  BY DEF Range
<1> HIDE DEF row, O
<1>5. IsFiniteSet(X)
  BY <1>3, OrgsFinite
<1>6. \A x \in X : x \in OrgCounts /\ x.org \in O /\ x = row[x.org] /\ x.count = 0
  BY <1>2
<1>7. \A o \in O : row[o] \in X
  OBVIOUS
<1> HIDE DEF X
<1>8. /\ n \in Nat /\ more \in Seq(X) /\ Len(more) = n
      /\ \A i, j \in 1 .. n : more[i] = more[j] => i = j
      /\ \A x \in X : \E i \in 1 .. n : more[i] = x
  BY <1>5, SetSeq
<1> HIDE DEF more, n
<1>9. more \in Seq(OrgCounts) /\ \A i \in 1 .. n : more[i] \in X
  <2>1. X \subseteq OrgCounts
    BY <1>6
  <2> QED
    BY <1>8, <2>1, SeqMonotonic
<1>10. /\ all \in Seq(OrgCounts) /\ Len(all) = Len(rows) + n /\ Len(rows) \in Nat
       /\ \A i \in 1 .. Len(rows) : all[i] = rows[i]
       /\ \A i \in 1 .. n : all[Len(rows) + i] = more[i]
  BY <1>8, <1>9
<1> HIDE DEF all
<1>11. ASSUME NEW i \in 1 .. Len(all)
       PROVE  \/ i \in 1 .. Len(rows) /\ all[i] = rows[i] /\ all[i].org \notin O
              \/ \E k \in 1 .. n : i = Len(rows) + k /\ all[i] = more[k] /\ all[i].org \in O
  <2>1. CASE i <= Len(rows)
    <3>1. i \in 1 .. Len(rows)
      BY <1>10, <2>1
    <3> QED
      BY <1>4, <1>10, <3>1
  <2>2. CASE ~(i <= Len(rows))
    <3> DEFINE k == i - Len(rows)
    <3>1. k \in 1 .. n /\ i = Len(rows) + k
      BY <1>8, <1>10, <2>2
    <3> HIDE DEF k
    <3>2. all[i] = more[k] /\ more[k] \in X
      BY <1>9, <1>10, <3>1
    <3> QED
      BY <1>6, <3>1, <3>2
  <2> QED
    BY <2>1, <2>2
<1>12. Once(all)
  <2> SUFFICES ASSUME NEW i \in 1 .. Len(all), NEW j \in 1 .. Len(all), all[i].org = all[j].org
      PROVE  i = j
    BY DEF Once
  <2>1. CASE all[i].org \in O
    <3>1. PICK k \in 1 .. n : i = Len(rows) + k /\ all[i] = more[k]
      BY <1>11, <2>1
    <3>2. PICK m \in 1 .. n : j = Len(rows) + m /\ all[j] = more[m]
      BY <1>11, <2>1
    <3>3. more[k] = more[m]
      BY <1>6, <1>9, <3>1, <3>2
    <3> QED
      BY <1>8, <3>1, <3>2, <3>3
  <2>2. CASE all[i].org \notin O
    <3>1. i \in 1 .. Len(rows) /\ all[i] = rows[i] /\ j \in 1 .. Len(rows) /\ all[j] = rows[j]
      BY <1>11, <2>2
    <3> QED
      BY <3>1 DEF Once
  <2> QED
    BY <2>1, <2>2
<1>13. DOMAIN all = 1 .. Len(all)
  BY <1>10
<1>14. orgs \subseteq {r.org : r \in Range(all)}
  <2> SUFFICES ASSUME NEW o \in orgs PROVE \E i \in 1 .. Len(all) : all[i].org = o
    BY <1>13 DEF Range
  <2>1. CASE o \in O
    <3>1. PICK k \in 1 .. n : more[k] = row[o]
      BY <1>7, <1>8, <2>1
    <3>2. Len(rows) + k \in 1 .. Len(all) /\ all[Len(rows) + k] = more[k]
      BY <1>8, <1>10
    <3>3. row[o].org = o
      BY <1>2, <2>1
    <3> QED
      BY <3>1, <3>2, <3>3
  <2>2. CASE o \notin O
    <3>1. PICK i \in 1 .. Len(rows) : rows[i].org = o
      BY <1>4, <2>2
    <3>2. i \in 1 .. Len(all) /\ all[i] = rows[i]
      BY <1>8, <1>10
    <3> QED
      BY <3>1, <3>2
  <2> QED
    BY <2>1, <2>2
<1>15. Fabric!OrgsOnce(all, orgs)
  BY <1>12, <1>13, <1>14, FabricRows DEF Fabric!OrgsOnce, Once
<1>16. SumOf(Fabric!Counts(all)) = SumOf(Fabric!Counts(rows))
  <2> DEFINE s == Fabric!Counts(rows)
             t == Fabric!Counts(more)
             u == Fabric!Counts(all)
  <2>1. /\ s \in Seq(Int) /\ Len(s) = Len(rows)
        /\ \A i \in 1 .. Len(rows) : s[i] = rows[i].count
    BY CountsAre
  <2>2. /\ t \in Seq(Int) /\ Len(t) = n
        /\ \A i \in 1 .. n : t[i] = more[i].count
    BY <1>8, <1>9, CountsAre
  <2>3. /\ u \in Seq(Int) /\ Len(u) = Len(all)
        /\ \A i \in 1 .. Len(all) : u[i] = all[i].count
    BY <1>10, CountsAre
  <2> HIDE DEF s, t, u
  <2>4. u = s \o t
    <3> DEFINE v == s \o t
    <3>1. /\ v \in Seq(Int) /\ Len(v) = Len(rows) + n
          /\ \A i \in 1 .. Len(rows) : v[i] = s[i]
          /\ \A i \in 1 .. n : v[Len(rows) + i] = t[i]
      <4>0. s \in Seq(Int) /\ t \in Seq(Int)
        BY <2>1, <2>2
      <4>1. s \o t \in Seq(Int) /\ Len(s \o t) = Len(s) + Len(t)
        BY <4>0, ConcatProperties
      <4>2. \A i \in 1 .. Len(s) + Len(t) : (s \o t)[i] = IF i <= Len(s) THEN s[i] ELSE t[i - Len(s)]
        BY <4>0, ConcatProperties
      <4>3. \A i \in 1 .. Len(rows) : (s \o t)[i] = s[i]
        BY <1>8, <1>10, <2>1, <2>2, <4>2
      <4>4. ASSUME NEW i \in 1 .. n PROVE (s \o t)[Len(rows) + i] = t[i]
        <5> DEFINE k == Len(rows) + i
        <5>1. k \in 1 .. Len(rows) + n /\ ~(k <= Len(rows)) /\ k - Len(rows) = i
          BY <1>8, <1>10
        <5> HIDE DEF k
        <5>2. (s \o t)[k] = t[k - Len(rows)]
          BY <2>1, <2>2, <4>2, <5>1
        <5> QED
          BY <5>1, <5>2 DEF k
      <4> QED
        BY <2>1, <2>2, <4>1, <4>3, <4>4
    <3> HIDE DEF v
    <3>2. ASSUME NEW i \in 1 .. Len(all) PROVE u[i] = v[i]
      <4>1. u[i] = all[i].count
        BY <2>3
      <4>2. CASE i \in 1 .. Len(rows) /\ all[i] = rows[i]
        BY <2>1, <3>1, <4>1, <4>2
      <4>3. ASSUME NEW k \in 1 .. n, i = Len(rows) + k, all[i] = more[k] PROVE u[i] = v[i]
        BY <2>2, <3>1, <4>1, <4>3
      <4> QED
        BY <1>11, <4>2, <4>3
    <3>3. u = v
      BY <1>10, <2>3, <3>1, <3>2, SeqEqual
    <3> QED
      BY <3>3 DEF v
  <2>5. \A i \in 1 .. Len(t) : t[i] = 0
    BY <1>6, <1>9, <2>2
  <2>6. SumOf(t) = 0
    <3>1. \A i \in 1 .. Len(t) : t[i] = IF i = 0 THEN 0 ELSE 0
      BY <2>5
    <3>2. 0 \in 0 .. Len(t) /\ 0 \in Int
      BY <1>8, <2>2
    <3> QED
      BY <2>2, <3>1, <3>2, SumSingle
  <2>7. SumOf(u) = SumOf(s) + SumOf(t) /\ SumOf(s) \in Int
    BY <2>1, <2>2, <2>4, SumConcat, SumType
  <2> QED
    BY <2>6, <2>7 DEF s, u
<1> QED
  BY <1>1, <1>10, <1>12, <1>15, <1>16

-----------------------------------------------------------------------------
(* What different statements say agrees.                                                   *)

LEMMA ByOrgsAgree ==
  ASSUME ViewsAssumption, FabricData, NEW net \in Networks, Fabric!InNet(db.channel, net) # <<>>
  PROVE  LET orgs == Fabric!SetToSeq(Orgs)
         IN  Fabric!SumOf([i \in DOMAIN orgs |->
                             Len(Fabric!GetTxList(net, 0, 0, Fabric!Always, {orgs[i]}))])
               = Len(Fabric!InNet(db.transactions, net))
<1> DEFINE orgs == SetToSeq(Orgs)
           n == Cardinality(Orgs)
           txs == Fabric!InNet(db.transactions, net)
           which == [i \in 1 .. n |-> {t \in TxRows : Fabric!OfOrgs(t, {orgs[i]})}]
           bucket == [b \in 1 .. Len(txs) |-> CHOOSE i \in 1 .. n : orgs[i] = txs[b].org]
<1>1. IsFiniteSet(Orgs)
  BY DEF ViewsAssumption, Fabric!DashboardAssumption, Fabric!IsFiniteSet, IsFiniteSet
<1>2. txs \in Seq(TxRows) /\ Len(txs) \in Nat
  BY NetTxs
<1>3. /\ n \in Nat /\ orgs \in Seq(Orgs) /\ Len(orgs) = n
      /\ \A i, j \in 1 .. n : orgs[i] = orgs[j] => i = j
      /\ \A x \in Orgs : \E i \in 1 .. n : orgs[i] = x
  BY <1>1, SetSeq
<1>4. \A i \in 1 .. n : Len(Fabric!GetTxList(net, 0, 0, Fabric!Always, {orgs[i]}))
                          = Len(Select(txs, which[i]))
  BY TxListLength
<1>5. Fabric!SetToSeq(Orgs) = orgs
  BY FabricRows
<1> HIDE DEF orgs, n, txs
<1>6. [i \in DOMAIN orgs |-> Len(Fabric!GetTxList(net, 0, 0, Fabric!Always, {orgs[i]}))]
        = GroupSizes(txs, which, n)
  <2>1. DOMAIN orgs = 1 .. n
    BY <1>3
  <2> QED
    BY <1>4, <2>1 DEF GroupSizes
<1>7. ASSUME NEW b \in 1 .. Len(txs)
      PROVE  /\ bucket[b] \in 1 .. n
             /\ \A i \in 1 .. n : txs[b] \in which[i] <=> bucket[b] = i
  <2>1. txs[b] \in TxRows
    BY <1>2
  <2>2. txs[b].org \in Orgs
    BY <2>1 DEF TxRows
  <2>3. bucket[b] \in 1 .. n /\ orgs[bucket[b]] = txs[b].org
    BY <1>3, <2>2
  <2> HIDE DEF bucket
  <2>4. \A i \in 1 .. n : txs[b] \in which[i] <=> txs[b].org = orgs[i]
    BY <2>1 DEF Fabric!OfOrgs
  <2> QED
    BY <1>3, <2>3, <2>4
<1> HIDE DEF which, bucket
<1>8. SumOf(GroupSizes(txs, which, n)) = Len(txs)
  <2>1. n \in Nat
    BY <1>3
  <2>2. /\ \A b \in 1 .. Len(txs) : bucket[b] \in 1 .. n
        /\ \A b \in 1 .. Len(txs) : \A i \in 1 .. n : txs[b] \in which[i] <=> bucket[b] = i
    BY <1>7
  <2> QED
    BY <1>2, <2>1, <2>2, Grouped
<1> QED
  BY <1>5, <1>6, <1>8, FabricRows DEF txs

LEMMA LookupOf ==
  ASSUME FabricData, NEW net \in Networks, Fabric!InNet(db.channel, net) # <<>>,
         NEW b, NEW t \in Range(TxsOf(net, b.num))
  PROVE  Fabric!LookupAgrees(net, b, t)
<1> DEFINE txs == Fabric!InNet(db.transactions, net)
           own == TxsOf(net, b.num)
           found == Fabric!GetTransactionByID(net, t.hash)
<1>1. /\ own \in Seq(TxRows)
      /\ \A i \in 1 .. Len(own) : \E k \in 1 .. Len(txs) : own[i] = txs[k] /\ own[i].block = b.num
      /\ \A k \in 1 .. Len(txs) : txs[k].block = b.num => \E i \in 1 .. Len(own) : own[i] = txs[k]
  BY BlockTxs
<1>2. txs \in Seq(TxRows) /\ \A k \in 1 .. Len(txs) : InData(txs[k])
  BY NetTxs
<1>3. PICK i \in 1 .. Len(own) : t = own[i]
  BY <1>1 DEF Range
<1>4. PICK k \in 1 .. Len(txs) : t = txs[k] /\ t.block = b.num
  BY <1>1, <1>3
<1>5. PICK a \in 1 .. Len(txs) : found = txs[a] /\ txs[a].hash = t.hash
  BY <1>4, TxByHash
<1>6. OneRowEach(own)
  <2>1. b.num \in 0 .. MaxBlock
    BY <1>2, <1>4 DEF InData
  <2> QED
    BY <2>1 DEF FabricData, Stored
<1> HIDE DEF txs, own, found
<1>7. found \in Range(txs) /\ found.hash = t.hash
  BY <1>2, <1>5 DEF Range
<1>8. ASSUME \A num \in 0 .. MaxBlock : t.hash \in Fabric!HashesOf(num) => num = b.num
      PROVE  found = t
  <2>1. found.block = b.num
    BY <1>2, <1>5, <1>8 DEF InData
  <2>2. PICK j \in 1 .. Len(own) : own[j] = found
    BY <1>1, <1>5, <2>1
  <2> QED
    BY <1>3, <1>5, <1>6, <2>2 DEF OneRowEach
<1> QED
  BY <1>7, <1>8, FabricRows DEF Fabric!LookupAgrees, txs, found

LEMMA ListedAgree ==
  ASSUME ViewsAssumption, FabricData, NEW net \in Networks, Fabric!InNet(db.channel, net) # <<>>
  PROVE  /\ Len(Fabric!GetTxList(net, 0, 0, Fabric!Always, {})) = Len(Fabric!InNet(db.transactions, net))
         /\ \A b \in Fabric!Range(Fabric!GetBlockAndTxList(net, Fabric!Always, {})) :
              \A t \in Fabric!Range(b.txs) : Fabric!LookupAgrees(net, b, t)
<1> DEFINE txs == Fabric!InNet(db.transactions, net)
           which == {t \in TxRows : Fabric!OfOrgs(t, {})}
           listed == Fabric!GetBlockAndTxList(net, Fabric!Always, {})
           blocks == Fabric!Descending(Fabric!InNet(db.blocks, net))
<1>1. txs \in Seq(TxRows)
  BY NetTxs
<1>2. Select(txs, which) = txs
  <2> HIDE DEF txs
  <2>1. \A i \in 1 .. Len(txs) : txs[i] \in which
    BY <1>1 DEF Fabric!OfOrgs
  <2> HIDE DEF which
  <2> QED
    BY <1>1, <2>1, SelectWhole
<1>3. Len(Fabric!GetTxList(net, 0, 0, Fabric!Always, {})) = Len(txs)
  BY <1>2, TxListLength
<1>4. listed = [i \in 1 .. Len(blocks) |->
               [num |-> blocks[i].num, txcount |-> blocks[i].txcount,
                txs |-> TxsOf(net, blocks[i].num)]]
  BY BlockListIs
<1> HIDE DEF listed, blocks
<1>5. ASSUME NEW b \in Range(listed), NEW t \in Range(b.txs)
      PROVE  Fabric!LookupAgrees(net, b, t)
  <2>1. PICK i \in 1 .. Len(blocks) : b = listed[i]
    BY <1>4 DEF Range
  <2>2. b.txs = TxsOf(net, b.num)
    BY <1>4, <2>1
  <2> QED
    BY <2>2, LookupOf
<1> QED
  BY <1>3, <1>5, FabricRows DEF listed

(* A listed block shows its data once and counts them all.                                 *)
LEMMA DataShown ==
  ASSUME ViewsAssumption, FabricData, NEW net \in Networks,
         NEW row, row.net = net, BlockStored(row)
  PROVE  /\ {t.hash : t \in Range(TxsOf(net, row.num))} = Fabric!HashesOf(row.num)
         /\ OneRowEach(TxsOf(net, row.num))
         /\ DOMAIN TxsOf(net, row.num) = 1 .. Len(TxsOf(net, row.num))
<1> DEFINE own == TxsOf(net, row.num)
           num == row.num
           txs == Fabric!InNet(db.transactions, net)
<1>1. num \in 0 .. MaxBlock /\ \A h \in Fabric!HashesOf(num) : HasHash(own, h)
  BY DEF BlockStored
<1>2. OneRowEach(own)
  BY <1>1 DEF FabricData, Stored
<1>3. /\ own \in Seq(TxRows)
      /\ \A i \in 1 .. Len(own) : \E k \in 1 .. Len(txs) : own[i] = txs[k] /\ own[i].block = num
  BY BlockTxs
<1>4. \A k \in 1 .. Len(txs) : InData(txs[k])
  BY NetTxs
<1> HIDE DEF own, num, txs
<1>5. DOMAIN own = 1 .. Len(own)
  BY <1>3
<1>6. \A i \in 1 .. Len(own) : own[i].hash \in Fabric!HashesOf(num)
  BY <1>3, <1>4 DEF InData
<1>7. {t.hash : t \in Range(own)} = Fabric!HashesOf(num)
  BY <1>1, <1>5, <1>6 DEF Range, HasHash
<1> QED
  BY <1>2, <1>5, <1>7 DEF own, num

LEMMA BlocksAgree ==
  ASSUME ViewsAssumption, FabricData, NEW net \in Networks
  PROVE  LET listed == Fabric!GetBlockAndTxList(net, Fabric!Always, {})
         IN  /\ Len(listed) = Len(Fabric!InNet(db.blocks, net))
             /\ \A b \in Fabric!Range(listed) : Fabric!BlockAgrees(net, b)
<1> DEFINE rows == Fabric!InNet(db.blocks, net)
           listed == Fabric!GetBlockAndTxList(net, Fabric!Always, {})
           blocks == Fabric!Descending(rows)
<1>1. /\ blocks \in Seq(BlockRows) /\ Len(blocks) = Len(rows)
      /\ \A i \in 1 .. Len(blocks) : \E k \in 1 .. Len(rows) : blocks[i] = rows[k]
      /\ listed = [i \in 1 .. Len(blocks) |->
                   [num |-> blocks[i].num, txcount |-> blocks[i].txcount,
                    txs |-> TxsOf(net, blocks[i].num)]]
  BY BlockListIs
<1>2. \A k \in 1 .. Len(rows) : rows[k].net = net /\ BlockStored(rows[k])
  BY NetBlocks
<1>3. \A k \in 1 .. Len(rows) :
        Fabric!BlockTransactions(net, rows[k].num).txCount = Len(Blocks[rows[k].num].data)
  BY CountOfBlock
<1> HIDE DEF rows, listed, blocks
<1>4. Len(blocks) \in Nat
  BY <1>1
<1>5. Len(listed) = Len(rows)
  BY <1>1, <1>4
<1>6. ASSUME NEW b \in Range(listed) PROVE Fabric!BlockAgrees(net, b)
  <2>1. PICK i \in 1 .. Len(blocks) : b = listed[i]
    BY <1>1 DEF Range
  <2>2. b.num = blocks[i].num /\ b.txcount = blocks[i].txcount /\ b.txs = TxsOf(net, blocks[i].num)
    BY <1>1, <2>1
  <2>3. PICK k \in 1 .. Len(rows) : blocks[i] = rows[k]
    BY <1>1
  <2>4. /\ {t.hash : t \in Range(b.txs)} = Fabric!HashesOf(b.num)
        /\ OneRowEach(b.txs) /\ DOMAIN b.txs = 1 .. Len(b.txs)
    <3> DEFINE row == rows[k]
    <3>1. row.net = net /\ BlockStored(row)
      BY <1>2, <2>3
    <3>2. b.num = row.num /\ b.txs = TxsOf(net, row.num)
      BY <2>2, <2>3
    <3> HIDE DEF row
    <3>3. /\ {t.hash : t \in Range(TxsOf(net, row.num))} = Fabric!HashesOf(row.num)
          /\ OneRowEach(TxsOf(net, row.num))
          /\ DOMAIN TxsOf(net, row.num) = 1 .. Len(TxsOf(net, row.num))
      BY <3>1, DataShown
    <3> QED
      BY <3>2, <3>3
  <2>5. \A x, y \in DOMAIN b.txs : b.txs[x].hash = b.txs[y].hash => x = y
    BY <2>4 DEF OneRowEach
  <2>6. /\ b.txcount = Len(Blocks[b.num].data)
        /\ Fabric!BlockTransactions(net, b.num).txCount = b.txcount
    BY <1>2, <1>3, <2>2, <2>3 DEF BlockStored
  <2>7. \A q : Fabric!Range(q) = Range(q)
    BY FabricRows
  <2> QED
    BY <2>4, <2>5, <2>6, <2>7 DEF Fabric!BlockAgrees
<1> QED
  BY <1>5, <1>6, FabricRows DEF rows, listed

LEMMA HistogramsAgree ==
  ASSUME ViewsAssumption, FabricData, NEW net \in Networks
  PROVE  /\ Fabric!SumOf(Fabric!TxBy(net, 1, Now - 1)) = Len(Fabric!InNet(db.transactions, net))
         /\ Fabric!SumOf(Fabric!TxBy(net, 2, Now)) = Len(Fabric!InNet(db.transactions, net))
         /\ Fabric!SumOf(Fabric!BlocksBy(net, 1, Now - 1)) = Len(Fabric!InNet(db.blocks, net))
         /\ Fabric!SumOf(Fabric!BlocksBy(net, 2, Now)) = Len(Fabric!InNet(db.blocks, net))
<1> DEFINE txs == Fabric!InNet(db.transactions, net)
           blocks == Fabric!InNet(db.blocks, net)
<1>1. txs \in Seq(TxRows) /\ blocks \in Seq(BlockRows)
  BY NetTxs, NetBlocks
<1>2. Now \in Nat
  BY DEF ViewsAssumption, Fabric!DashboardAssumption
<1>3. /\ Fabric!TxBy(net, 1, Now - 1) = Fabric!RowsBy(txs, 1, Now - 1)
      /\ Fabric!TxBy(net, 2, Now) = Fabric!RowsBy(txs, 2, Now)
      /\ Fabric!BlocksBy(net, 1, Now - 1) = Fabric!RowsBy(blocks, 1, Now - 1)
      /\ Fabric!BlocksBy(net, 2, Now) = Fabric!RowsBy(blocks, 2, Now)
  BY DEF Fabric!TxBy, Fabric!BlocksBy
<1> HIDE DEF txs, blocks
<1>4. \A i \in 1 .. Len(txs) : txs[i].time \in 1 .. Now
  <2>1. \A i \in 1 .. Len(txs) : txs[i] \in TxRows
    BY <1>1
  <2> QED
    BY <2>1 DEF TxRows
<1>5. \A i \in 1 .. Len(blocks) : blocks[i].time \in 1 .. Now
  <2>1. \A i \in 1 .. Len(blocks) : blocks[i] \in BlockRows
    BY <1>1
  <2> QED
    BY <2>1 DEF BlockRows
<1>6. SumOf(Fabric!RowsBy(txs, 1, Now - 1)) = Len(txs) /\ SumOf(Fabric!RowsBy(txs, 2, Now)) = Len(txs)
  BY <1>1, <1>2, <1>4, BucketsOfOne, BucketsOfTwo
<1>7. SumOf(Fabric!RowsBy(blocks, 1, Now - 1)) = Len(blocks) /\ SumOf(Fabric!RowsBy(blocks, 2, Now)) = Len(blocks)
  BY <1>1, <1>2, <1>5, BucketsOfOne, BucketsOfTwo
<1> QED
  BY <1>3, <1>6, <1>7, FabricRows DEF txs, blocks

LEMMA PeerOrgs ==
  ASSUME FabricData, NEW net \in Networks
  PROVE  Fabric!GetOrgsData(net) \in SUBSET Orgs
<1> DEFINE rows == Fabric!InNet(db.peer, net)
<1>1. rows \in Seq(PeerRows)
  BY InNetRows DEF FabricData, RowTypes
<1>2. Fabric!GetOrgsData(net) = {r.mspid : r \in Range(rows)}
  BY FabricRows DEF Fabric!GetOrgsData
<1> HIDE DEF rows
<1>3. Range(rows) \subseteq PeerRows
  BY <1>1, RangeFinite
<1> QED
  BY <1>2, <1>3 DEF PeerRows

LEMMA FabricStatements ==
  ASSUME ViewsAssumption, FabricData, NEW net \in Networks
  PROVE  Fabric!StatementsAgree(net)
<1> DEFINE rows == Fabric!GetTxByOrgs(net)
           byOrgs == Fabric!AppendMissingOrgs(rows, Fabric!GetOrgsData(net))
<1>1. /\ Fabric!Count("transactions", net) = Len(Fabric!InNet(db.transactions, net))
      /\ Fabric!Count("blocks", net) = Len(Fabric!InNet(db.blocks, net))
  BY DEF Fabric!Count
<1>2. /\ rows \in Seq(OrgCounts) /\ Once(rows)
      /\ SumOf(Fabric!Counts(rows)) = Len(Fabric!InNet(db.transactions, net))
  BY TxByOrgsIs
<1>3. Fabric!GetOrgsData(net) \in SUBSET Orgs
  BY PeerOrgs
<1> HIDE DEF rows
<1>4. /\ Fabric!OrgsOnce(byOrgs, Fabric!GetOrgsData(net))
      /\ SumOf(Fabric!Counts(byOrgs)) = SumOf(Fabric!Counts(rows))
  BY <1>2, <1>3, MissingOrgs
<1>5. Fabric!SumOf(Fabric!Counts(byOrgs)) = Len(Fabric!InNet(db.transactions, net))
  BY <1>2, <1>4, FabricRows
<1> HIDE DEF byOrgs
<1> QED
  BY <1>1, <1>4, <1>5, ByOrgsAgree, ListedAgree, BlocksAgree, HistogramsAgree
  DEF Fabric!StatementsAgree, byOrgs, rows

(* The statements that join on the hash alone.                                             *)
LEMMA LatestAgree ==
  ASSUME ViewsAssumption, FabricData, NEW net \in Networks,
         NEW n \in Nat \ {0}, Len(db.channel) = n
  PROVE  LET latest == Fabric!GetBlockActivityList(net)
         IN  /\ Len(latest) = Fabric!Min({3, n * Len(Fabric!InNet(db.blocks, net))})
             /\ \A i \in DOMAIN latest :
                  latest[i].num
                    = Fabric!GetBlockAndTxList(net, Fabric!Always, {})[(i - 1) \div n + 1].num
<1> DEFINE rows == Fabric!InNet(db.blocks, net)
           listed == Fabric!GetBlockAndTxList(net, Fabric!Always, {})
           blocks == Fabric!Descending(rows)
           all == Fabric!Joined(blocks, n)
           latest == Limit(all, 3)
           l == n * Len(blocks)
<1>1. /\ blocks \in Seq(BlockRows) /\ Len(blocks) = Len(rows)
      /\ listed = [i \in 1 .. Len(blocks) |->
                   [num |-> blocks[i].num, txcount |-> blocks[i].txcount,
                    txs |-> TxsOf(net, blocks[i].num)]]
  BY BlockListIs
<1>2. Fabric!GetBlockActivityList(net) = latest
  BY FabricRows DEF Fabric!GetBlockActivityList, Fabric!JoinChannelByHash
<1> HIDE DEF rows, listed, blocks
<1>3. /\ all \in Seq(BlockRows) /\ l \in Nat /\ Len(all) = l
      /\ \A i \in 1 .. l : /\ (i - 1) \div n + 1 \in 1 .. Len(blocks)
                           /\ all[i] = blocks[(i - 1) \div n + 1]
  BY <1>1, JoinedIs
<1>8. l = n * Len(rows)
  BY <1>1
<1> HIDE DEF all, l
<1>4. /\ latest \in Seq(BlockRows)
      /\ Len(latest) = IF 3 < Len(all) THEN 3 ELSE Len(all)
      /\ \A i \in 1 .. Len(latest) : latest[i] = all[i]
  <2>1. all \in Seq(BlockRows) /\ 3 \in Nat
    BY <1>3
  <2> QED
    BY <2>1, LimitRows
<1> HIDE DEF latest
<1>5. Fabric!Min({3, l}) = IF 3 < l THEN 3 ELSE l
  <2>1. \A T : Fabric!Min(T) = Min(T)
    BY DEF Fabric!Min, Min
  <2>2. Min({3, l}) = IF 3 < l THEN 3 ELSE l
    BY <1>3, LeastOfTwo
  <2> QED
    BY <2>1, <2>2
<1>6. ASSUME NEW i \in DOMAIN latest PROVE latest[i].num = listed[(i - 1) \div n + 1].num
  <2>1. i \in 1 .. Len(latest)
    BY <1>4
  <2>2. i \in 1 .. l
    BY <1>3, <1>4, <2>1
  <2> DEFINE k == (i - 1) \div n + 1
  <2>3. k \in 1 .. Len(blocks) /\ latest[i] = blocks[k]
    BY <1>3, <1>4, <2>1, <2>2
  <2> HIDE DEF k
  <2>4. listed[k].num = blocks[k].num
    BY <1>1, <2>3
  <2> QED
    BY <2>3, <2>4 DEF k
<1>7. Len(latest) = Fabric!Min({3, l})
  BY <1>3, <1>4, <1>5
<1> QED
  BY <1>2, <1>6, <1>7, <1>8 DEF rows, listed

LEMMA FabricHashJoins ==
  ASSUME ViewsAssumption, FabricData, NEW net \in Networks
  PROVE  Fabric!HashJoinsAgree(net)
<1> SUFFICES ASSUME Fabric!InNet(db.channel, net) # <<>>
    PROVE  Fabric!HashJoinsAgree(net)
  BY DEF Fabric!HashJoinsAgree
<1> DEFINE n == Len(db.channel)
           peers == Fabric!InNet(db.peer, net)
           codes == Fabric!InNet(db.chaincodes, net)
           all == Fabric!Joined(peers, n)
           some == {p \in Range(all) : p.type \in {"PEER", "ORDERER"}}
           ofPeer == {p \in PeerRows : p.type = "PEER"}
<1>1. n \in Nat \ {0}
  <2>1. db.channel \in Seq(ChannelRows)
    BY DEF FabricData, RowTypes
  <2>2. \E a \in 1 .. Len(db.channel) : TRUE
    <3> DEFINE channels == Fabric!InNet(db.channel, net)
    <3>1. /\ channels \in Seq(ChannelRows) /\ channels # <<>>
          /\ \A k \in 1 .. Len(channels) : \E a \in 1 .. Len(db.channel) : channels[k] = db.channel[a]
      BY <2>1, InNetRows
    <3> HIDE DEF channels
    <3>2. 1 \in 1 .. Len(channels)
      BY <3>1
    <3> QED
      BY <3>1, <3>2
  <2> QED
    BY <2>1, <2>2
<1>2. /\ peers = Peers[net]
      /\ peers \in Seq(PeerRows) /\ codes \in Seq(ChannelRows)
  <2>1. peers \in Seq(PeerRows) /\ codes \in Seq(ChannelRows)
    BY InNetRows DEF FabricData, RowTypes
  <2> QED
    BY <2>1 DEF FabricData, Stored
<1>3. /\ Fabric!GetPeerData(net) = all
      /\ Fabric!GetTxPerChaincode(net) = Fabric!Joined(codes, n)
      /\ Fabric!Count("chaincodes", net) = Len(codes)
      /\ Fabric!Count("blocks", net) = Len(Fabric!InNet(db.blocks, net))
      /\ Fabric!PeersStatus(all) = Select(all, some)
  BY FabricRows DEF Fabric!GetPeerData, Fabric!GetTxPerChaincode, Fabric!JoinChannelByHash,
                    Fabric!Count, Fabric!PeersStatus, Fabric!Where
<1>4. /\ Fabric!GetPeerlistCount(net) = Len(Select(peers, {p \in Range(peers) : p.type = "PEER"}))
      /\ Fabric!Where(all, LAMBDA p : p.type = "PEER")
           = Select(all, {p \in Range(all) : p.type = "PEER"})
  BY FabricRows DEF Fabric!GetPeerlistCount, Fabric!Where
<1>11. Len(Fabric!GetBlockActivityList(net)) = Fabric!Min({3, n * Fabric!Count("blocks", net)})
  BY <1>1, <1>3, LatestAgree
<1>12. \A i \in DOMAIN Fabric!GetBlockActivityList(net) :
         Fabric!GetBlockActivityList(net)[i].num
           = Fabric!GetBlockAndTxList(net, Fabric!Always, {})[(i - 1) \div n + 1].num
  BY <1>1, LatestAgree
<1> HIDE DEF n, peers, codes
<1>5. /\ all \in Seq(PeerRows) /\ Len(all) = n * Len(peers)
      /\ Len(Fabric!Joined(codes, n)) = n * Len(codes)
      /\ Range(all) = Range(peers)
  BY <1>1, <1>2, JoinedIs, JoinedRange
<1>6. Len(Select(all, ofPeer)) = n * Len(Select(peers, ofPeer))
  BY <1>1, <1>2, JoinedSelect
<1> HIDE DEF all
<1>7. Select(all, some) = all
  <2>1. \A i \in 1 .. Len(all) : all[i] \in PeerRows /\ all[i] \in Range(all)
    BY <1>5 DEF Range
  <2>2. \A i \in 1 .. Len(all) : all[i] \in some
    BY <2>1 DEF PeerRows
  <2> HIDE DEF some
  <2> QED
    BY <1>5, <2>2, SelectWhole
<1>8. ASSUME NEW rows \in Seq(PeerRows)
      PROVE  Select(rows, {p \in Range(rows) : p.type = "PEER"}) = Select(rows, ofPeer)
  <2> DEFINE which == {p \in Range(rows) : p.type = "PEER"}
  <2>1. \A i \in 1 .. Len(rows) : rows[i] \in PeerRows /\ rows[i] \in Range(rows)
    BY DEF Range
  <2>2. \A i \in 1 .. Len(rows) : rows[i] \in which <=> rows[i] \in ofPeer
    BY <2>1
  <2> HIDE DEF which, ofPeer
  <2>3. Select(rows, which) = Select(rows, ofPeer)
    BY <2>2, SelectSame
  <2> QED
    BY <2>3 DEF which
<1> HIDE DEF some, ofPeer
<1>9. Len(Fabric!Where(all, LAMBDA p : p.type = "PEER")) = n * Fabric!GetPeerlistCount(net)
  BY <1>2, <1>4, <1>5, <1>6, <1>8
<1>10. Fabric!PeersStatus(Fabric!GetPeerData(net)) = all
  BY <1>3, <1>7
<1>13. Fabric!Range(all) = Range(all) /\ Fabric!Range(Peers[net]) = Range(Peers[net])
  BY FabricRows
<1> QED
  BY <1>2, <1>3, <1>5, <1>9, <1>10, <1>11, <1>12, <1>13 DEF Fabric!HashJoinsAgree, n

-----------------------------------------------------------------------------
(* What is stored stays as it must be.                                                     *)

LEMMA RowsInit ==
  ASSUME ViewsAssumption, Fabric!Init
  PROVE  FabricData
<1>1. db = [channel |-> <<>>, peer |-> <<>>, chaincodes |-> <<>>, blocks |-> <<>>,
            transactions |-> <<>>]
  BY DEF Fabric!Init
<1>2. RowTypes
  BY <1>1 DEF RowTypes
<1>3. ASSUME NEW n PROVE Fabric!InNet(<<>>, n) = <<>>
  <2>1. <<>> \in Seq({})
    OBVIOUS
  <2>2. Fabric!InNet(<<>>, n) = Select(<<>>, OfNet({}, n))
    BY <2>1, InNetIs
  <2> QED
    BY <2>2, SelectEmpty
<1>4. /\ db.channel = <<>> /\ db.peer = <<>> /\ db.chaincodes = <<>> /\ db.blocks = <<>>
      /\ db.transactions = <<>>
  BY <1>1
<1>5. Len(<<>>) = 0
  OBVIOUS
<1>7. ASSUME NEW n, NEW num PROVE OneRowEach(TxsOf(n, num))
  <2>1. TxsOf(n, num) = <<>>
    BY <1>3, <1>4, SelectEmpty DEF TxsOf
  <2> QED
    BY <1>5, <2>1 DEF OneRowEach
<1>6. Stored
  BY <1>3, <1>4, <1>5, <1>7 DEF Stored
<1> QED
  BY <1>2, <1>6 DEF FabricData

LEMMA ChannelStored ==
  ASSUME ViewsAssumption, FabricData, Fabric!StoreChannel
  PROVE  /\ FabricData'
         /\ UNCHANGED <<db.transactions, db.blocks>>
<1>1. PICK net \in Fabric!Storing :
        /\ Fabric!InNet(db.channel, net) = <<>>
        /\ db' = [Fabric!SaveRow(db, "channel", [net |-> net]) EXCEPT
                    !.peer = @ \o Peers[net], !.chaincodes = @ \o Chaincodes[net]]
  BY DEF Fabric!StoreChannel
<1>2. net \in Networks
  BY DEF Fabric!Storing, ViewsAssumption, Fabric!DashboardAssumption
<1> DEFINE row == [net |-> net]
<1>3. row \in ChannelRows /\ row.net = net
  BY <1>2 DEF ChannelRows
<1>4. /\ Peers[net] \in Seq(OfNet(PeerRows, net)) /\ Peers[net] \in Seq(PeerRows)
      /\ Chaincodes[net] \in Seq(OfNet(ChannelRows, net)) /\ Chaincodes[net] \in Seq(ChannelRows)
  <2> DEFINE P == [net : {net}, mspid : Orgs, type : {"PEER", "ORDERER"}]
             C == [net : {net}]
             Q == OfNet(PeerRows, net)
             D == OfNet(ChannelRows, net)
  <2>1. Peers[net] \in Seq(P) /\ Chaincodes[net] \in Seq(C)
    BY <1>2 DEF ViewsAssumption, Fabric!DashboardAssumption
  <2>2. P \subseteq Q /\ C \subseteq D /\ Q \subseteq PeerRows /\ D \subseteq ChannelRows
    BY <1>2 DEF PeerRows, ChannelRows, OfNet
  <2> HIDE DEF P, C, Q, D
  <2>3. Peers[net] \in Seq(Q) /\ Chaincodes[net] \in Seq(D)
    BY <2>1, <2>2, SeqMonotonic
  <2>4. Peers[net] \in Seq(PeerRows) /\ Chaincodes[net] \in Seq(ChannelRows)
    BY <2>2, <2>3, SeqMonotonic
  <2> QED
    BY <2>3, <2>4 DEF Q, D
<1>5. /\ db = [channel |-> db.channel, peer |-> db.peer, chaincodes |-> db.chaincodes,
               blocks |-> db.blocks, transactions |-> db.transactions]
      /\ db.channel \in Seq(ChannelRows) /\ db.peer \in Seq(PeerRows)
      /\ db.chaincodes \in Seq(ChannelRows) /\ db.blocks \in Seq(BlockRows)
      /\ db.transactions \in Seq(TxRows)
  BY DEF FabricData, RowTypes
<1> HIDE DEF row
<1>6. db' = [channel |-> Append(db.channel, row), peer |-> db.peer \o Peers[net],
             chaincodes |-> db.chaincodes \o Chaincodes[net], blocks |-> db.blocks,
             transactions |-> db.transactions]
  BY <1>1, <1>5 DEF Fabric!SaveRow, row
<1>7. /\ db'.channel = Append(db.channel, row) /\ db'.peer = db.peer \o Peers[net]
      /\ db'.chaincodes = db.chaincodes \o Chaincodes[net]
      /\ db'.blocks = db.blocks /\ db'.transactions = db.transactions
  BY <1>6
<1>8. RowTypes'
  <2>1. db' = [channel |-> db'.channel, peer |-> db'.peer, chaincodes |-> db'.chaincodes,
               blocks |-> db'.blocks, transactions |-> db'.transactions]
    BY <1>6
  <2>2. /\ Append(db.channel, row) \in Seq(ChannelRows)
        /\ db.peer \o Peers[net] \in Seq(PeerRows)
        /\ db.chaincodes \o Chaincodes[net] \in Seq(ChannelRows)
    BY <1>3, <1>4, <1>5
  <2> QED
    BY <1>5, <1>7, <2>1, <2>2 DEF RowTypes, ChannelRows, PeerRows, BlockRows, TxRows
<1>9. ASSUME NEW n \in Networks
      PROVE  /\ Len(Fabric!InNet(db'.channel, n)) <= 1
             /\ Fabric!InNet(db'.peer, n)
                  = IF Fabric!InNet(db'.channel, n) = <<>> THEN <<>> ELSE Peers[n]
             /\ Fabric!InNet(db'.chaincodes, n)
                  = IF Fabric!InNet(db'.channel, n) = <<>> THEN <<>> ELSE Chaincodes[n]
  <2>1. Fabric!InNet(db'.channel, n)
          = IF net = n THEN Append(Fabric!InNet(db.channel, n), row) ELSE Fabric!InNet(db.channel, n)
    BY <1>3, <1>5, <1>7, InNetAppend
  <2>2. Fabric!InNet(db'.peer, n)
          = IF net = n THEN Fabric!InNet(db.peer, n) \o Peers[net] ELSE Fabric!InNet(db.peer, n)
    <3> DEFINE rows == db.peer
               more == Peers[net]
    <3>1. rows \in Seq(PeerRows) /\ more \in Seq(OfNet(PeerRows, net))
      BY <1>4, <1>5
    <3> HIDE DEF rows, more
    <3>2. Fabric!InNet(rows \o more, n)
            = IF net = n THEN Fabric!InNet(rows, n) \o more ELSE Fabric!InNet(rows, n)
      BY <3>1, InNetConcat
    <3> QED
      BY <1>7, <3>2 DEF rows, more
  <2>3. Fabric!InNet(db'.chaincodes, n)
          = IF net = n THEN Fabric!InNet(db.chaincodes, n) \o Chaincodes[net]
            ELSE Fabric!InNet(db.chaincodes, n)
    <3> DEFINE rows == db.chaincodes
               more == Chaincodes[net]
    <3>1. rows \in Seq(ChannelRows) /\ more \in Seq(OfNet(ChannelRows, net))
      BY <1>4, <1>5
    <3> HIDE DEF rows, more
    <3>2. Fabric!InNet(rows \o more, n)
            = IF net = n THEN Fabric!InNet(rows, n) \o more ELSE Fabric!InNet(rows, n)
      BY <3>1, InNetConcat
    <3> QED
      BY <1>7, <3>2 DEF rows, more
  <2>4. /\ Len(Fabric!InNet(db.channel, n)) <= 1
        /\ Fabric!InNet(db.peer, n)
             = IF Fabric!InNet(db.channel, n) = <<>> THEN <<>> ELSE Peers[n]
        /\ Fabric!InNet(db.chaincodes, n)
             = IF Fabric!InNet(db.channel, n) = <<>> THEN <<>> ELSE Chaincodes[n]
    BY DEF FabricData, Stored
  <2>5. CASE net = n
    <3>1. Fabric!InNet(db'.channel, n) = <<row>>
      <4>1. Fabric!InNet(db.channel, n) = <<>>
        BY <1>1, <2>5
      <4>2. Append(<<>>, row) = <<row>>
        OBVIOUS
      <4> QED
        BY <2>1, <2>5, <4>1, <4>2
    <3>2. Len(<<row>>) = 1 /\ <<row>> # <<>>
      OBVIOUS
    <3>3. Fabric!InNet(db.peer, n) = <<>> /\ Fabric!InNet(db.chaincodes, n) = <<>>
      BY <1>1, <2>4, <2>5
    <3>4. <<>> \o Peers[net] = Peers[net] /\ <<>> \o Chaincodes[net] = Chaincodes[net]
      BY <1>4, ConcatEmptySeq
    <3> QED
      BY <2>2, <2>3, <2>5, <3>1, <3>2, <3>3, <3>4
  <2>6. CASE net # n
    BY <2>1, <2>2, <2>3, <2>4, <2>6
  <2> QED
    BY <2>5, <2>6
<1>10. \A n, num : TxsOf(n, num)' = TxsOf(n, num)
  BY <1>7 DEF TxsOf
<1>11. /\ (\A i \in 1 .. Len(db.transactions) : InData(db.transactions[i]))'
       /\ (\A n \in Networks, num \in 0 .. MaxBlock : OneRowEach(TxsOf(n, num)))'
  BY <1>7, <1>10 DEF FabricData, Stored, InData, OneRowEach
<1>12. (\A i \in 1 .. Len(db.blocks) : BlockStored(db.blocks[i]))'
  <2>1. ASSUME NEW i \in 1 .. Len(db'.blocks) PROVE BlockStored(db.blocks[i])'
    <3>1. db'.blocks[i] = db.blocks[i] /\ BlockStored(db.blocks[i])
      BY <1>7 DEF FabricData, Stored
    <3> QED
      BY <1>10, <3>1 DEF BlockStored, HasHash
  <2> QED
    BY <2>1 DEF BlockStored, HasHash
<1>13. Stored'
  BY <1>9, <1>11, <1>12 DEF Stored
<1> QED
  BY <1>7, <1>8, <1>13 DEF FabricData

(* A transaction is stored only while its block is not.                                    *)
LEMMA NoBlock ==
  ASSUME ViewsAssumption, FabricData, NEW net \in Networks, NEW num,
         Fabric!GetTxCountByBlockNum(net, num) = None
  PROVE  \A i \in 1 .. Len(db.blocks) : ~(db.blocks[i].net = net /\ db.blocks[i].num = num)
<1> SUFFICES ASSUME NEW i \in 1 .. Len(db.blocks), db.blocks[i].net = net, db.blocks[i].num = num
    PROVE  FALSE
  OBVIOUS
<1> DEFINE rows == db.blocks
           blocks == Fabric!InNet(rows, net)
           some == {b \in Range(blocks) : b.num = num}
           found == Select(blocks, some)
<1>0. rows \in Seq(BlockRows) /\ i \in 1 .. Len(rows) /\ rows[i].net = net /\ rows[i].num = num
  BY DEF FabricData, RowTypes
<1>1. IF found = <<>> THEN TRUE ELSE found[1] = None
  BY FabricRows DEF Fabric!GetTxCountByBlockNum, Fabric!Where, Fabric!FirstRow
<1> HIDE DEF rows
<1>2. blocks \in Seq(BlockRows) /\ blocks = Select(rows, OfNet(BlockRows, net))
  BY <1>0, InNetRows, InNetIs
<1>3. rows[i] \in OfNet(BlockRows, net)
  BY <1>0 DEF OfNet
<1>4. PICK k \in 1 .. Len(blocks) : blocks[k] = rows[i]
  <2> DEFINE which == OfNet(BlockRows, net)
  <2>1. rows[i] \in which /\ blocks = Select(rows, which)
    BY <1>2, <1>3
  <2> HIDE DEF which
  <2>2. \A a \in 1 .. Len(rows) :
          rows[a] \in which => \E k \in 1 .. Len(Select(rows, which)) : Select(rows, which)[k] = rows[a]
    BY <1>0, SelectRows
  <2> QED
    BY <1>0, <2>1, <2>2
<1> HIDE DEF blocks
<1>5. blocks[k] \in some
  BY <1>0, <1>2, <1>4 DEF Range
<1> HIDE DEF some
<1>6. found # <<>> /\ found \in Seq(BlockRows)
  BY <1>2, <1>5, SelectNone, SelectType
<1> HIDE DEF found
<1>7. found[1] \in BlockRows
  BY <1>6
<1>8. None \notin BlockRows
  <2>1. BlockRows \subseteq [net : Networks, num : Nat, txcount : Nat, time : Nat]
    BY DEF BlockRows
  <2> QED
    BY <2>1 DEF ViewsAssumption, Fabric!DashboardAssumption
<1> QED
  BY <1>1, <1>6, <1>7, <1>8

LEMMA TxsAppend ==
  ASSUME FabricData, NEW r \in TxRows, db'.transactions = Append(db.transactions, r),
         NEW n \in Networks, NEW num
  PROVE  TxsOf(n, num)' = IF r.net = n /\ r.block = num THEN Append(TxsOf(n, num), r)
                          ELSE TxsOf(n, num)
<1> DEFINE rows == db.transactions
           txs == Fabric!InNet(rows, n)
           which == {t \in TxRows : t.block = num}
<1>1. rows \in Seq(TxRows)
  BY DEF FabricData, RowTypes
<1>2. TxsOf(n, num)' = Select(Fabric!InNet(Append(rows, r), n), which)
  BY DEF TxsOf
<1>3. TxsOf(n, num) = Select(txs, which)
  BY DEF TxsOf
<1>4. r \in which <=> r.block = num
  OBVIOUS
<1> HIDE DEF rows, which
<1>5. txs \in Seq(TxRows)
  BY <1>1, InNetRows
<1>6. Fabric!InNet(Append(rows, r), n) = IF r.net = n THEN Append(txs, r) ELSE txs
  BY <1>1, InNetAppend
<1> HIDE DEF txs
<1>7. Select(Append(txs, r), which)
        = IF r \in which THEN Append(Select(txs, which), r) ELSE Select(txs, which)
  BY <1>5, SelectAppend
<1> QED
  BY <1>2, <1>3, <1>4, <1>6, <1>7

LEMMA TxStored ==
  ASSUME ViewsAssumption, FabricData, Fabric!StoreTransaction
  PROVE  /\ FabricData'
         /\ UNCHANGED db.blocks
         /\ \E r \in TxRows : db'.transactions = Append(db.transactions, r)
<1>1. PICK net \in Fabric!Storing, num \in 0 .. MaxBlock : \E i \in DOMAIN Blocks[num].data :
        /\ Fabric!GetTxCountByBlockNum(net, num) = None
        /\ ~Fabric!HasTransaction(net, num, Blocks[num].data[i].hash)
        /\ db' = Fabric!SaveRow(db, "transactions",
                   [net |-> net, block |-> num, hash |-> Blocks[num].data[i].hash,
                    org |-> Blocks[num].data[i].org, time |-> Blocks[num].time,
                    id |-> Len(db.transactions) + 1])
  BY DEF Fabric!StoreTransaction
<1>13. PICK i \in DOMAIN Blocks[num].data :
        /\ Fabric!GetTxCountByBlockNum(net, num) = None
        /\ ~Fabric!HasTransaction(net, num, Blocks[num].data[i].hash)
        /\ db' = Fabric!SaveRow(db, "transactions",
                   [net |-> net, block |-> num, hash |-> Blocks[num].data[i].hash,
                    org |-> Blocks[num].data[i].org, time |-> Blocks[num].time,
                    id |-> Len(db.transactions) + 1])
  BY <1>1
<1> DEFINE tx == Blocks[num].data[i]
           time == Blocks[num].time
           r == [net |-> net, block |-> num, hash |-> tx.hash, org |-> tx.org, time |-> time,
                 id |-> Len(db.transactions) + 1]
<1>2. /\ net \in Networks /\ num \in Nat /\ time \in 1 .. Now
      /\ tx.hash \in Hashes /\ tx.org \in Orgs /\ tx.hash \in Fabric!HashesOf(num)
  <2> DEFINE entries == [hash : Hashes, org : Orgs]
             held == Blocks[num].data
  <2>1. net \in Networks
    BY DEF Fabric!Storing, ViewsAssumption, Fabric!DashboardAssumption
  <2>2. /\ num \in Nat /\ time \in 1 .. Now /\ held \in Seq(entries)
        /\ Fabric!HashesOf(num) = {held[j].hash : j \in 1 .. Len(held)}
    BY DataTypes
  <2>3. i \in DOMAIN held /\ tx = held[i]
    OBVIOUS
  <2> HIDE DEF held, tx, entries
  <2>4. i \in 1 .. Len(held) /\ tx \in entries
    BY <2>2, <2>3
  <2> QED
    BY <2>1, <2>2, <2>3, <2>4 DEF entries
<1> HIDE DEF tx, time
<1>3. /\ db = [channel |-> db.channel, peer |-> db.peer, chaincodes |-> db.chaincodes,
               blocks |-> db.blocks, transactions |-> db.transactions]
      /\ db.channel \in Seq(ChannelRows) /\ db.peer \in Seq(PeerRows)
      /\ db.chaincodes \in Seq(ChannelRows) /\ db.blocks \in Seq(BlockRows)
      /\ db.transactions \in Seq(TxRows)
  BY DEF FabricData, RowTypes
<1>4. Len(db.transactions) \in Nat
  BY <1>3
<1>5. r \in TxRows /\ r.net = net /\ r.block = num /\ r.hash = tx.hash
  BY <1>2, <1>4 DEF TxRows
<1>6. db' = [channel |-> db.channel, peer |-> db.peer, chaincodes |-> db.chaincodes,
             blocks |-> db.blocks, transactions |-> Append(db.transactions, r)]
  BY <1>3, <1>13 DEF Fabric!SaveRow, tx, time
<1> HIDE DEF r
<1>7. /\ db'.channel = db.channel /\ db'.peer = db.peer /\ db'.chaincodes = db.chaincodes
      /\ db'.blocks = db.blocks /\ db'.transactions = Append(db.transactions, r)
  BY <1>6
<1>8. RowTypes'
  <2>1. db' = [channel |-> db'.channel, peer |-> db'.peer, chaincodes |-> db'.chaincodes,
               blocks |-> db'.blocks, transactions |-> db'.transactions]
    BY <1>6
  <2>2. Append(db.transactions, r) \in Seq(TxRows)
    BY <1>3, <1>5
  <2> QED
    BY <1>3, <1>7, <2>1, <2>2 DEF RowTypes, ChannelRows, PeerRows, BlockRows, TxRows
<1>9. (\A n \in Networks :
         /\ Len(Fabric!InNet(db.channel, n)) <= 1
         /\ Fabric!InNet(db.peer, n)
              = IF Fabric!InNet(db.channel, n) = <<>> THEN <<>> ELSE Peers[n]
         /\ Fabric!InNet(db.chaincodes, n)
              = IF Fabric!InNet(db.channel, n) = <<>> THEN <<>> ELSE Chaincodes[n])'
  BY <1>7 DEF FabricData, Stored
<1>10. (\A k \in 1 .. Len(db.transactions) : InData(db.transactions[k]))'
  <2> DEFINE rows == db.transactions
  <2>1. (\A k \in 1 .. Len(rows) : InData(rows[k])) /\ InData(r)
    BY <1>2, <1>5 DEF FabricData, Stored, InData
  <2>2. rows \in Seq(TxRows) /\ db'.transactions = Append(rows, r)
    BY <1>3, <1>7
  <2> HIDE DEF rows
  <2>3. ASSUME NEW k \in 1 .. Len(Append(rows, r)) PROVE InData(Append(rows, r)[k])
    <3>1. Len(Append(rows, r)) = Len(rows) + 1 /\ Len(rows) \in Nat
      BY <1>5, <2>2
    <3>2. CASE k = Len(rows) + 1
      <4>1. Append(rows, r)[k] = r
        BY <1>5, <2>2, <3>2
      <4> QED
        BY <2>1, <4>1
    <3>3. CASE k # Len(rows) + 1
      <4>1. k \in 1 .. Len(rows)
        BY <3>1, <3>3
      <4>2. Append(rows, r)[k] = rows[k]
        BY <1>5, <2>2, <4>1
      <4> QED
        BY <2>1, <4>1, <4>2
    <3> QED
      BY <3>2, <3>3
  <2> QED
    BY <2>2, <2>3 DEF InData
<1>20. \A n \in Networks : \A k :
         TxsOf(n, k)' = IF n = net /\ k = num THEN Append(TxsOf(n, k), r) ELSE TxsOf(n, k)
  <2> SUFFICES ASSUME NEW CONSTANT n \in Networks, NEW CONSTANT k
      PROVE  TxsOf(n, k)' = IF n = net /\ k = num THEN Append(TxsOf(n, k), r) ELSE TxsOf(n, k)
    OBVIOUS
  <2>1. TxsOf(n, k)' = IF r.net = n /\ r.block = k THEN Append(TxsOf(n, k), r) ELSE TxsOf(n, k)
    BY <1>5, <1>7, TxsAppend
  <2> QED
    BY <1>5, <2>1
<1>14. (\A n \in Networks, k \in 0 .. MaxBlock : OneRowEach(TxsOf(n, k)))'
  <2>1. \A n \in Networks, k \in 0 .. MaxBlock : OneRowEach(TxsOf(n, k))
    BY DEF FabricData, Stored
  <2> DEFINE own == TxsOf(net, num)
  <2>2. own \in Seq(TxRows) /\ OneRowEach(own)
    BY <1>2, <2>1, BlockTxs
  <2>3. \A k \in 1 .. Len(own) : own[k].hash # r.hash
    <3>1. ~HasHash(own, tx.hash)
      BY <1>2, <1>13, HasIs DEF tx
    <3> QED
      BY <1>5, <3>1 DEF HasHash
  <2> HIDE DEF own
  <2> DEFINE more == Append(own, r)
  <2>4. OneRowEach(more)
    <3>1. Len(more) = Len(own) + 1 /\ Len(own) \in Nat
      BY <1>5, <2>2
    <3>2. more[Len(own) + 1] = r /\ \A k \in 1 .. Len(own) : more[k] = own[k]
      BY <1>5, <2>2
    <3> HIDE DEF more
    <3>3. ASSUME NEW x \in 1 .. Len(more), NEW y \in 1 .. Len(more), more[x].hash = more[y].hash
          PROVE  x = y
      <4>1. x \in 1 .. Len(own) \/ x = Len(own) + 1
        BY <3>1
      <4>2. y \in 1 .. Len(own) \/ y = Len(own) + 1
        BY <3>1
      <4> QED
        BY <2>2, <2>3, <3>2, <3>3, <4>1, <4>2 DEF OneRowEach
    <3> QED
      BY <3>3 DEF OneRowEach
  <2>5. ASSUME NEW n \in Networks, NEW k \in 0 .. MaxBlock PROVE OneRowEach(TxsOf(n, k)')
    <3>1. TxsOf(n, k)' = IF n = net /\ k = num THEN Append(TxsOf(n, k), r) ELSE TxsOf(n, k)
      BY <1>20
    <3>2. CASE n = net /\ k = num
      <4>1. TxsOf(n, k)' = more
        BY <3>1, <3>2 DEF own
      <4> QED
        BY <2>4, <4>1
    <3>3. CASE ~(n = net /\ k = num)
      BY <2>1, <3>1, <3>3
    <3> QED
      BY <3>2, <3>3
  <2> QED
    BY <2>5 DEF OneRowEach
<1>11. (\A m \in 1 .. Len(db.blocks) : BlockStored(db.blocks[m]))'
  <2>1. ASSUME NEW m \in 1 .. Len(db'.blocks) PROVE BlockStored(db.blocks[m])'
    <3> DEFINE b == db.blocks[m]
    <3>1. db'.blocks[m] = b /\ BlockStored(b) /\ m \in 1 .. Len(db.blocks)
      BY <1>7 DEF FabricData, Stored
    <3>2. ~(b.net = net /\ b.num = num)
      BY <1>2, <1>13, <3>1, NoBlock
    <3>3. b.net \in Networks
      <4>1. b \in BlockRows
        BY <1>3, <3>1
      <4> QED
        BY <4>1 DEF BlockRows
    <3>4. TxsOf(b.net, b.num)' = TxsOf(b.net, b.num)
      BY <1>7, <1>20, <3>1, <3>2, <3>3
    <3> QED
      BY <3>1, <3>4 DEF BlockStored, HasHash
  <2> QED
    BY <2>1 DEF BlockStored, HasHash
<1>12. Stored'
  BY <1>9, <1>10, <1>11, <1>14 DEF Stored
<1> QED
  BY <1>5, <1>7, <1>8, <1>12 DEF FabricData

LEMMA DataSame ==
  ASSUME FabricData, UNCHANGED db
  PROVE  FabricData'
<1>1. RowTypes'
  BY DEF FabricData, RowTypes, ChannelRows, PeerRows, BlockRows, TxRows
<1>2. \A n, k : TxsOf(n, k)' = TxsOf(n, k)
  BY DEF TxsOf
<1>3. (\A n \in Networks :
         /\ Len(Fabric!InNet(db.channel, n)) <= 1
         /\ Fabric!InNet(db.peer, n)
              = IF Fabric!InNet(db.channel, n) = <<>> THEN <<>> ELSE Peers[n]
         /\ Fabric!InNet(db.chaincodes, n)
              = IF Fabric!InNet(db.channel, n) = <<>> THEN <<>> ELSE Chaincodes[n])'
  BY DEF FabricData, Stored
<1>4. /\ (\A i \in 1 .. Len(db.transactions) : InData(db.transactions[i]))'
      /\ (\A n \in Networks, k \in 0 .. MaxBlock : OneRowEach(TxsOf(n, k)))'
  BY <1>2 DEF FabricData, Stored, InData, OneRowEach
<1>5. ASSUME NEW m \in 1 .. Len(db'.blocks) PROVE BlockStored(db.blocks[m])'
  <2> DEFINE b == db.blocks[m]
  <2>1. db'.blocks[m] = b /\ BlockStored(b)
    BY <1>5 DEF FabricData, Stored
  <2>2. TxsOf(b.net, b.num)' = TxsOf(b.net, b.num)
    BY <1>2, <2>1
  <2> QED
    BY <2>1, <2>2 DEF BlockStored, HasHash
<1>6. (\A i \in 1 .. Len(db.blocks) : BlockStored(db.blocks[i]))'
  BY <1>5 DEF BlockStored, HasHash
<1> QED
  BY <1>1, <1>3, <1>4, <1>6 DEF FabricData, Stored

LEMMA BlockKept ==
  ASSUME ViewsAssumption, FabricData, Fabric!StoreBlock
  PROVE  /\ FabricData'
         /\ UNCHANGED db.transactions
         /\ \E b \in BlockRows : db'.blocks = Append(db.blocks, b)
<1>1. PICK net \in Networks, num \in 0 .. MaxBlock :
        /\ \A i \in DOMAIN Blocks[num].data :
             Fabric!HasTransaction(net, num, Blocks[num].data[i].hash)
        /\ db' = Fabric!SaveRow(db, "blocks",
                   [net |-> net, num |-> num, txcount |-> Len(Blocks[num].data),
                    time |-> Blocks[num].time])
  BY DEF Fabric!StoreBlock
<1> DEFINE held == Blocks[num].data
           b == [net |-> net, num |-> num, txcount |-> Len(held), time |-> Blocks[num].time]
<1>2. /\ num \in Nat /\ Blocks[num].time \in 1 .. Now /\ Len(held) \in Nat
      /\ Fabric!HashesOf(num) = {held[i].hash : i \in 1 .. Len(held)}
      /\ DOMAIN held = 1 .. Len(held)
  BY DataTypes
<1>6. db' = Fabric!SaveRow(db, "blocks", b)
  BY <1>1
<1>7. b \in BlockRows /\ b.net = net /\ b.num = num /\ b.txcount = Len(held)
  BY <1>2 DEF BlockRows
<1>8. \A h \in Fabric!HashesOf(num) : HasHash(TxsOf(net, num), h)
  BY <1>1, <1>2, HasIs
<1>9. /\ db = [channel |-> db.channel, peer |-> db.peer, chaincodes |-> db.chaincodes,
               blocks |-> db.blocks, transactions |-> db.transactions]
      /\ db.channel \in Seq(ChannelRows) /\ db.peer \in Seq(PeerRows)
      /\ db.chaincodes \in Seq(ChannelRows) /\ db.blocks \in Seq(BlockRows)
      /\ db.transactions \in Seq(TxRows)
  BY DEF FabricData, RowTypes
<1> HIDE DEF b
<1>10. db' = [channel |-> db.channel, peer |-> db.peer, chaincodes |-> db.chaincodes,
              blocks |-> Append(db.blocks, b), transactions |-> db.transactions]
  BY <1>6, <1>9 DEF Fabric!SaveRow
<1>11. /\ db'.channel = db.channel /\ db'.peer = db.peer /\ db'.chaincodes = db.chaincodes
       /\ db'.blocks = Append(db.blocks, b) /\ db'.transactions = db.transactions
  BY <1>10
<1>12. RowTypes'
  <2>1. db' = [channel |-> db'.channel, peer |-> db'.peer, chaincodes |-> db'.chaincodes,
               blocks |-> db'.blocks, transactions |-> db'.transactions]
    BY <1>10
  <2>2. Append(db.blocks, b) \in Seq(BlockRows)
    BY <1>7, <1>9
  <2> QED
    BY <1>9, <1>11, <2>1, <2>2 DEF RowTypes, ChannelRows, PeerRows, BlockRows, TxRows
<1>13. (\A n \in Networks :
         /\ Len(Fabric!InNet(db.channel, n)) <= 1
         /\ Fabric!InNet(db.peer, n)
              = IF Fabric!InNet(db.channel, n) = <<>> THEN <<>> ELSE Peers[n]
         /\ Fabric!InNet(db.chaincodes, n)
              = IF Fabric!InNet(db.channel, n) = <<>> THEN <<>> ELSE Chaincodes[n])'
  BY <1>11 DEF FabricData, Stored
<1>15. \A n, k : TxsOf(n, k)' = TxsOf(n, k)
  BY <1>11 DEF TxsOf
<1>14. /\ (\A i \in 1 .. Len(db.transactions) : InData(db.transactions[i]))'
       /\ (\A n \in Networks, k \in 0 .. MaxBlock : OneRowEach(TxsOf(n, k)))'
  BY <1>11, <1>15 DEF FabricData, Stored, InData, OneRowEach
<1>16. (\A i \in 1 .. Len(db.blocks) : BlockStored(db.blocks[i]))'
  <2> DEFINE blocks == db.blocks
  <2>1. \A i \in 1 .. Len(blocks) : BlockStored(blocks[i])
    BY DEF FabricData, Stored
  <2>2. blocks \in Seq(BlockRows) /\ db'.blocks = Append(blocks, b)
    BY <1>9, <1>11
  <2>3. BlockStored(b)
    BY <1>7, <1>8 DEF BlockStored
  <2> HIDE DEF blocks
  <2>4. ASSUME NEW i \in 1 .. Len(Append(blocks, b)) PROVE BlockStored(Append(blocks, b)[i])
    <3>1. Len(Append(blocks, b)) = Len(blocks) + 1 /\ Len(blocks) \in Nat
      BY <1>7, <2>2
    <3>2. CASE i = Len(blocks) + 1
      <4>1. Append(blocks, b)[i] = b
        BY <1>7, <2>2, <3>2
      <4> QED
        BY <2>3, <4>1
    <3>3. CASE i # Len(blocks) + 1
      <4>1. i \in 1 .. Len(blocks)
        BY <3>1, <3>3
      <4>2. Append(blocks, b)[i] = blocks[i]
        BY <1>7, <2>2, <4>1
      <4> QED
        BY <2>1, <4>1, <4>2
    <3> QED
      BY <3>2, <3>3
  <2>5. ASSUME NEW m \in 1 .. Len(db'.blocks) PROVE BlockStored(db.blocks[m])'
    <3> DEFINE last == Append(blocks, b)[m]
    <3>1. db'.blocks[m] = last /\ BlockStored(last)
      BY <2>2, <2>4, <2>5
    <3> HIDE DEF last
    <3>2. TxsOf(db.blocks[m].net, db.blocks[m].num)' = TxsOf(last.net, last.num)
      BY <1>15, <3>1
    <3> QED
      BY <3>1, <3>2 DEF BlockStored, HasHash
  <2> QED
    BY <2>5 DEF BlockStored, HasHash
<1>17. Stored'
  BY <1>13, <1>14, <1>16 DEF Stored
<1> QED
  BY <1>7, <1>11, <1>12, <1>17 DEF FabricData

-----------------------------------------------------------------------------
(* What a request has read, and what a reducer has kept of it, was true of the tables when *)
(* it was read; it stays within them because the tables grow.                              *)
GotOK(l, got, txs, blocks) ==
  /\ l = "dashStats" =>
       /\ Len(got) >= 2 => got[2] \in Int /\ got[2] <= txs
       /\ Len(got) >= 3 => got[3] \in Int /\ got[3] <= blocks
  /\ l = "transactionByOrg" =>
       /\ Len(got) >= 1 => /\ got[1] \in Seq(OrgCounts) /\ Once(got[1])
                           /\ SumOf(Fabric!Counts(got[1])) \in Int
                           /\ SumOf(Fabric!Counts(got[1])) <= txs
       /\ Len(got) >= 2 => got[2] \in SUBSET Orgs

KeptOK(l, kept, txs, blocks) ==
  /\ l = "transactionByOrg" /\ kept # None =>
       /\ Fabric!OrgsOnce(kept, {})
       /\ SumOf(Fabric!Counts(kept)) \in Int /\ SumOf(Fabric!Counts(kept)) <= txs
  /\ l = "dashStats" /\ kept \notin {None, NotFound} =>
       /\ kept.txCount \in Int /\ kept.txCount <= txs
       /\ kept.latestBlock \in Int /\ kept.latestBlock <= blocks

TxCount == Len(Fabric!InNet(db.transactions, Network))

BlockCount == Len(Fabric!InNet(db.blocks, Network))

AnswersInv ==
  /\ DOMAIN store = Loads
  /\ \A l \in Loads : /\ GotOK(l, request[l].got, TxCount, BlockCount)
                      /\ KeptOK(l, store[l], TxCount, BlockCount)

LEMMA GotNothing ==
  ASSUME NEW l, NEW txs, NEW blocks
  PROVE  GotOK(l, <<>>, txs, blocks)
<1>1. Len(<<>>) = 0
  OBVIOUS
<1> QED
  BY <1>1 DEF GotOK

LEMMA StaysOK ==
  ASSUME NEW a \in Nat, NEW b \in Nat, NEW c \in Nat, NEW d \in Nat, a <= c, b <= d, NEW l, NEW x
  PROVE  /\ GotOK(l, x, a, b) => GotOK(l, x, c, d)
         /\ KeptOK(l, x, a, b) => KeptOK(l, x, c, d)
BY DEF GotOK, KeptOK

LEMMA CountsType ==
  ASSUME ViewsAssumption, FabricData
  PROVE  TxCount \in Nat /\ BlockCount \in Nat /\ Network \in Networks
BY NetTxs, NetBlocks DEF ViewsAssumption, Fabric!DashboardAssumption, TxCount, BlockCount

(* Storing only adds.                                                                      *)
LEMMA StoredGrows ==
  ASSUME ViewsAssumption, FabricData,
         Fabric!StoreChannel \/ Fabric!StoreTransaction \/ Fabric!StoreBlock
  PROVE  FabricData' /\ TxCount <= TxCount' /\ BlockCount <= BlockCount'
<1>1. TxCount \in Nat /\ BlockCount \in Nat /\ Network \in Networks
  BY CountsType
<1>2. ASSUME NEW S, NEW rows \in Seq(S), NEW r \in S
      PROVE  Len(Fabric!InNet(rows, Network)) <= Len(Fabric!InNet(Append(rows, r), Network))
  <2>1. /\ Fabric!InNet(rows, Network) \in Seq(S)
        /\ Fabric!InNet(Append(rows, r), Network)
             \in {Append(Fabric!InNet(rows, Network), r), Fabric!InNet(rows, Network)}
    BY <1>2, InNetRows, InNetAppend
  <2> QED
    BY <2>1
<1>3. CASE Fabric!StoreChannel
  BY <1>1, <1>3, ChannelStored DEF TxCount, BlockCount
<1>4. CASE Fabric!StoreTransaction
  <2>1. PICK r \in TxRows : db'.transactions = Append(db.transactions, r)
    BY <1>4, TxStored
  <2>2. FabricData' /\ UNCHANGED db.blocks
    BY <1>4, TxStored
  <2>3. db.transactions \in Seq(TxRows)
    BY DEF FabricData, RowTypes
  <2>4. TxCount <= TxCount'
    BY <1>2, <2>1, <2>3 DEF TxCount
  <2>5. BlockCount' = BlockCount
    BY <2>2 DEF BlockCount
  <2> QED
    BY <1>1, <2>2, <2>4, <2>5
<1>5. CASE Fabric!StoreBlock
  <2>1. PICK r \in BlockRows : db'.blocks = Append(db.blocks, r)
    BY <1>5, BlockKept
  <2>2. FabricData' /\ UNCHANGED db.transactions
    BY <1>5, BlockKept
  <2>3. db.blocks \in Seq(BlockRows)
    BY DEF FabricData, RowTypes
  <2>4. BlockCount <= BlockCount'
    BY <1>2, <2>1, <2>3 DEF BlockCount
  <2>5. TxCount' = TxCount
    BY <2>2 DEF TxCount
  <2> QED
    BY <1>1, <2>2, <2>4, <2>5
<1> QED
  BY <1>3, <1>4, <1>5

LEMMA AnswersStay ==
  ASSUME ViewsAssumption, FabricData, FabricData', AnswersInv,
         TxCount <= TxCount', BlockCount <= BlockCount', UNCHANGED <<request, store>>
  PROVE  AnswersInv'
<1>1. TxCount \in Nat /\ BlockCount \in Nat
  BY CountsType
<1>2. TxCount' \in Nat /\ BlockCount' \in Nat
  <2>1. Network \in Networks
    BY CountsType
  <2> QED
    BY <2>1, NetTxs, NetBlocks DEF TxCount, BlockCount
<1>3. ASSUME NEW l \in Loads
      PROVE  /\ GotOK(l, request[l].got, TxCount', BlockCount')
             /\ KeptOK(l, store[l], TxCount', BlockCount')
  <2>1. GotOK(l, request[l].got, TxCount, BlockCount) /\ KeptOK(l, store[l], TxCount, BlockCount)
    BY DEF AnswersInv
  <2> DEFINE a == TxCount
             b == BlockCount
             c == TxCount'
             d == BlockCount'
  <2>2. a \in Nat /\ b \in Nat /\ c \in Nat /\ d \in Nat /\ a <= c /\ b <= d
    BY <1>1, <1>2
  <2> HIDE DEF a, b, c, d
  <2>3. ASSUME NEW x
        PROVE  (GotOK(l, x, a, b) => GotOK(l, x, c, d)) /\ (KeptOK(l, x, a, b) => KeptOK(l, x, c, d))
    BY <2>2, StaysOK
  <2> QED
    BY <2>1, <2>3 DEF a, b, c, d
<1> QED
  BY <1>3 DEF AnswersInv, GotOK, KeptOK

(* One more statement has been read.                                                       *)
LEMMA GotMore ==
  ASSUME NEW l, NEW S, NEW got \in Seq(S), NEW x, NEW txs, NEW blocks, GotOK(l, got, txs, blocks),
         l = "dashStats" /\ Len(got) = 1 => x \in Int /\ x <= txs,
         l = "dashStats" /\ Len(got) = 2 => x \in Int /\ x <= blocks,
         l = "transactionByOrg" /\ Len(got) = 0 =>
           /\ x \in Seq(OrgCounts) /\ Once(x)
           /\ SumOf(Fabric!Counts(x)) \in Int /\ SumOf(Fabric!Counts(x)) <= txs,
         l = "transactionByOrg" /\ Len(got) = 1 => x \in SUBSET Orgs
  PROVE  GotOK(l, Append(got, x), txs, blocks)
<1> DEFINE T == S \cup {x}
           more == Append(got, x)
<1>1. got \in Seq(T) /\ x \in T
  <2>1. S \subseteq T
    OBVIOUS
  <2> QED
    BY <2>1, SeqMonotonic
<1> HIDE DEF T
<1>2. /\ Len(got) \in Nat /\ Len(more) = Len(got) + 1
      /\ \A i \in 1 .. Len(got) : more[i] = got[i]
      /\ more[Len(got) + 1] = x
  BY <1>1
<1> HIDE DEF more
<1>3. ASSUME NEW k \in 1 .. 3, Len(more) >= k
      PROVE  (Len(got) = k - 1 /\ more[k] = x) \/ (Len(got) >= k /\ more[k] = got[k])
  <2>1. CASE Len(got) = k - 1
    BY <1>2, <2>1
  <2>2. CASE Len(got) # k - 1
    <3>1. Len(got) >= k
      BY <1>2, <1>3, <2>2
    <3> QED
      BY <1>2, <3>1
  <2> QED
    BY <2>1, <2>2
<1>6. /\ Len(more) >= 2 => (Len(got) = 1 /\ more[2] = x) \/ (Len(got) >= 2 /\ more[2] = got[2])
      /\ Len(more) >= 3 => (Len(got) = 2 /\ more[3] = x) \/ (Len(got) >= 3 /\ more[3] = got[3])
  <2>1. 2 \in 1 .. 3 /\ 3 \in 1 .. 3 /\ 2 - 1 = 1 /\ 3 - 1 = 2
    OBVIOUS
  <2>2. ASSUME NEW k \in 1 .. 3, NEW j, j = k - 1, Len(more) >= k
        PROVE  (Len(got) = j /\ more[k] = x) \/ (Len(got) >= k /\ more[k] = got[k])
    BY <1>3, <2>2
  <2>3. CASE Len(more) >= 2
    BY <2>1, <2>2, <2>3
  <2>4. CASE Len(more) >= 3
    BY <2>1, <2>2, <2>4
  <2> QED
    BY <2>3, <2>4
<1>4. CASE l = "dashStats"
  <2>1. Len(more) >= 2 => more[2] \in Int /\ more[2] <= txs
    BY <1>6, <1>4 DEF GotOK
  <2>2. Len(more) >= 3 => more[3] \in Int /\ more[3] <= blocks
    BY <1>6, <1>4 DEF GotOK
  <2> QED
    BY <1>4, <2>1, <2>2 DEF GotOK, more
<1>5. CASE l = "transactionByOrg"
  <2>1. Len(more) >= 1 => /\ more[1] \in Seq(OrgCounts) /\ Once(more[1])
                          /\ SumOf(Fabric!Counts(more[1])) \in Int
                          /\ SumOf(Fabric!Counts(more[1])) <= txs
    <3> SUFFICES ASSUME Len(more) >= 1
        PROVE  /\ more[1] \in Seq(OrgCounts) /\ Once(more[1])
               /\ SumOf(Fabric!Counts(more[1])) \in Int
               /\ SumOf(Fabric!Counts(more[1])) <= txs
      OBVIOUS
    <3>1. (Len(got) = 1 - 1 /\ more[1] = x) \/ (Len(got) >= 1 /\ more[1] = got[1])
      BY <1>3
    <3>2. CASE Len(got) = 0 /\ more[1] = x
      BY <1>5, <3>2
    <3>3. CASE Len(got) >= 1 /\ more[1] = got[1]
      BY <1>5, <3>3 DEF GotOK
    <3> QED
      BY <3>1, <3>2, <3>3
  <2>2. Len(more) >= 2 => more[2] \in SUBSET Orgs
    BY <1>6, <1>5 DEF GotOK
  <2> QED
    BY <1>5, <2>1, <2>2 DEF GotOK, more
<1> QED
  BY <1>4, <1>5 DEF GotOK

(* What each statement reads for the two requests that are put together.                   *)
LEMMA ReadIs ==
  ASSUME ViewsAssumption, FabricData
  PROVE  /\ Fabric!Read("dashStats", 2) = TxCount
         /\ Fabric!Read("dashStats", 3) = BlockCount
         /\ Fabric!Read("transactionByOrg", 1) = Fabric!GetTxByOrgs(Network)
         /\ Fabric!Read("transactionByOrg", 2) = Fabric!GetOrgsData(Network)
         /\ Fabric!GetTxByOrgs(Network) \in Seq(OrgCounts)
         /\ Once(Fabric!GetTxByOrgs(Network))
         /\ SumOf(Fabric!Counts(Fabric!GetTxByOrgs(Network))) = TxCount
         /\ Fabric!GetOrgsData(Network) \in SUBSET Orgs
         /\ Len(Fabric!Statements("dashStats")) = 4
         /\ Len(Fabric!Statements("transactionByOrg")) = 2
<1>1. /\ Fabric!Read("dashStats", 2) = TxCount
      /\ Fabric!Read("dashStats", 3) = BlockCount
  <2>1. db.transactions = db["transactions"] /\ db.blocks = db["blocks"]
    OBVIOUS
  <2>2. Fabric!Statements("dashStats")[2] = "transactions" /\ Fabric!Statements("dashStats")[3] = "blocks"
    BY DEF Fabric!Statements
  <2> QED
    BY <2>1, <2>2 DEF Fabric!Read, Fabric!Count, TxCount, BlockCount
<1>2. /\ Fabric!Read("transactionByOrg", 1) = Fabric!GetTxByOrgs(Network)
      /\ Fabric!Read("transactionByOrg", 2) = Fabric!GetOrgsData(Network)
  BY DEF Fabric!Read
<1>3. Len(Fabric!Statements("dashStats")) = 4 /\ Len(Fabric!Statements("transactionByOrg")) = 2
  BY DEF Fabric!Statements
<1> QED
  BY <1>1, <1>2, <1>3, CountsType, TxByOrgsIs, PeerOrgs DEF TxCount

(* One request changes, and what is kept of it at most.                                    *)
LEMMA AnswersChange ==
  ASSUME AnswersInv, Requests, NEW l \in Loads, NEW r, NEW v,
         GotOK(l, r.got, TxCount, BlockCount), KeptOK(l, v, TxCount, BlockCount),
         request' = [request EXCEPT ![l] = r],
         store' = store \/ store' = [store EXCEPT ![l] = v],
         UNCHANGED db
  PROVE  AnswersInv'
<1>1. TxCount' = TxCount /\ BlockCount' = BlockCount
  BY DEF TxCount, BlockCount
<1>2. DOMAIN store' = Loads
  BY DEF AnswersInv
<1>3. ASSUME NEW k \in Loads
      PROVE  /\ GotOK(k, request'[k].got, TxCount, BlockCount)
             /\ KeptOK(k, store'[k], TxCount, BlockCount)
  <2>1. GotOK(k, request[k].got, TxCount, BlockCount) /\ KeptOK(k, store[k], TxCount, BlockCount)
    BY DEF AnswersInv
  <2>2. request'[k] = IF k = l THEN r ELSE request[k]
    BY DEF Requests
  <2>3. store'[k] = store[k] \/ (k = l /\ store'[k] = v)
    BY DEF AnswersInv
  <2>4. GotOK(k, request'[k].got, TxCount, BlockCount)
    BY <2>1, <2>2
  <2>5. KeptOK(k, store'[k], TxCount, BlockCount)
    BY <2>1, <2>3
  <2> QED
    BY <2>4, <2>5
<1> QED
  BY <1>1, <1>2, <1>3 DEF AnswersInv, GotOK, KeptOK

(* A request that ends without an answer.                                                  *)
LEMMA AnswersEnd ==
  ASSUME AnswersInv, Requests, NEW l \in Loads, UNCHANGED <<db, store>>,
         request' = [request EXCEPT ![l] = [at |-> "done", got |-> <<>>]]
  PROVE  AnswersInv'
<1> DEFINE r == [at |-> "done", got |-> <<>>]
           v == store[l]
<1>1. r.got = <<>> /\ request' = [request EXCEPT ![l] = r] /\ KeptOK(l, v, TxCount, BlockCount)
  BY DEF AnswersInv
<1> HIDE DEF r, v
<1> QED
  BY <1>1, GotNothing, AnswersChange

LEMMA AnswersSame ==
  ASSUME AnswersInv, UNCHANGED <<db, request, store>>
  PROVE  AnswersInv'
BY DEF AnswersInv, TxCount, BlockCount, GotOK, KeptOK

(* An answer reaches a reducer.                                                            *)
LEMMA KeepStep ==
  ASSUME AnswersInv, Requests, NEW l \in Loads, NEW resp, Fabric!Keep(l, resp), UNCHANGED db,
         l = "transactionByOrg" /\ resp # ServerError => KeptOK(l, resp, TxCount, BlockCount),
         l = "dashStats" /\ resp # ServerError => KeptOK(l, resp, TxCount, BlockCount)
  PROVE  AnswersInv'
<1>1. request' = [request EXCEPT ![l] = [at |-> "done", got |-> <<>>]]
  BY DEF Fabric!Keep
<1>2. CASE store' = store
  BY <1>1, <1>2, AnswersEnd
<1>3. CASE store' # store
  <2>1. PICK v \in {Fabric!ChartReducer(l, resp), Fabric!TableReducer(resp)} :
          store' = [store EXCEPT ![l] = v]
    BY <1>3 DEF Fabric!Keep, Fabric!ChartOperation, Fabric!TableOperation
  <2>2. resp # ServerError
    BY <1>3 DEF Fabric!Keep, Fabric!ChartOperation, Fabric!TableOperation
  <2>3. v \in {resp, None}
    BY <2>1 DEF Fabric!ChartReducer, Fabric!TableReducer
  <2>4. KeptOK(l, None, TxCount, BlockCount)
    BY DEF KeptOK
  <2>5. KeptOK(l, resp, TxCount, BlockCount)
    BY <2>2 DEF KeptOK
  <2>6. KeptOK(l, v, TxCount, BlockCount)
    BY <2>3, <2>4, <2>5
  <2> DEFINE r == [at |-> "done", got |-> <<>>]
  <2>7. r.got = <<>> /\ request' = [request EXCEPT ![l] = r]
    BY <1>1
  <2> HIDE DEF r
  <2> QED
    BY <2>1, <2>6, <2>7, GotNothing, AnswersChange
<1> QED
  BY <1>2, <1>3

LEMMA StatementAnswers ==
  ASSUME ViewsAssumption, FabricData, AnswersInv, Requests, NEW l \in Loads, Fabric!Statement(l)
  PROVE  AnswersInv'
<1> DEFINE got == request[l].got
           x == Fabric!Read(l, Len(got) + 1)
           r == [at |-> request[l].at, got |-> Append(got, x)]
<1>1. /\ request[l] = [at |-> request[l].at, got |-> got]
      /\ got \in Seq(Range(got))
  BY DEF Requests, RequestOK
<1>2. request' = [request EXCEPT ![l] = r] /\ UNCHANGED <<db, store>>
  <2>1. request' = [request EXCEPT ![l].got = Append(@, Fabric!Read(l, Len(@) + 1))]
    BY DEF Fabric!Statement
  <2>2. request' = [request EXCEPT ![l] = [request[l] EXCEPT !.got = Append(got, x)]]
    BY <2>1
  <2>3. \A v : [request[l] EXCEPT !.got = v] = [at |-> request[l].at, got |-> v]
    BY <1>1
  <2> QED
    BY <2>2, <2>3 DEF Fabric!Statement
<1>3. GotOK(l, got, TxCount, BlockCount) /\ KeptOK(l, store[l], TxCount, BlockCount)
  BY DEF AnswersInv
<1>4. TxCount \in Nat /\ BlockCount \in Nat
  BY CountsType
<1>5. /\ l = "dashStats" /\ Len(got) = 1 => x = TxCount
      /\ l = "dashStats" /\ Len(got) = 2 => x = BlockCount
      /\ l = "transactionByOrg" /\ Len(got) = 0 => x = Fabric!GetTxByOrgs(Network)
      /\ l = "transactionByOrg" /\ Len(got) = 1 => x = Fabric!GetOrgsData(Network)
  <2> DEFINE n == Len(got)
             k == n + 1
  <2>1. x = Fabric!Read(l, k)
    OBVIOUS
  <2> HIDE DEF got, x
  <2> HIDE DEF n
  <2>2. (n = 0 => k = 1) /\ (n = 1 => k = 2) /\ (n = 2 => k = 3)
    OBVIOUS
  <2> HIDE DEF k
  <2> QED
    BY <2>1, <2>2, ReadIs DEF n
<1>6. r.got = Append(got, x)
  OBVIOUS
<1> HIDE DEF got, x, r
<1>7. GotOK(l, Append(got, x), TxCount, BlockCount)
  <2>1. /\ l = "dashStats" /\ Len(got) = 1 => x \in Int /\ x <= TxCount
        /\ l = "dashStats" /\ Len(got) = 2 => x \in Int /\ x <= BlockCount
    BY <1>4, <1>5
  <2>2. /\ l = "transactionByOrg" /\ Len(got) = 0 =>
             /\ x \in Seq(OrgCounts) /\ Once(x)
             /\ SumOf(Fabric!Counts(x)) \in Int /\ SumOf(Fabric!Counts(x)) <= TxCount
        /\ l = "transactionByOrg" /\ Len(got) = 1 => x \in SUBSET Orgs
    BY <1>4, <1>5, ReadIs
  <2> QED
    BY <1>1, <1>3, <2>1, <2>2, GotMore
<1> DEFINE v == store[l]
<1>8. KeptOK(l, v, TxCount, BlockCount)
  BY <1>3
<1> HIDE DEF v
<1> QED
  BY <1>2, <1>6, <1>7, <1>8, AnswersChange

LEMMA FailureAnswers ==
  ASSUME ViewsAssumption, FabricData, AnswersInv, Requests, NEW l \in Loads,
         Fabric!StatementFails(l)
  PROVE  AnswersInv'
<1>1. UNCHANGED db
  BY DEF Fabric!StatementFails
<1>2. CASE Fabric!AnsweredOnFailure(l) # None /\ Fabric!Keep(l, Fabric!AnsweredOnFailure(l))
  <2>1. l # "transactionByOrg"
    BY <1>2 DEF Fabric!AnsweredOnFailure
  <2>2. l = "dashStats" => Fabric!AnsweredOnFailure(l) = NotFound
    BY DEF Fabric!AnsweredOnFailure
  <2> DEFINE resp == Fabric!AnsweredOnFailure(l)
  <2>3. l = "dashStats" => KeptOK(l, resp, TxCount, BlockCount)
    BY <2>2 DEF KeptOK
  <2>4. Fabric!Keep(l, resp)
    BY <1>2
  <2> HIDE DEF resp
  <2> QED
    BY <1>1, <2>1, <2>3, <2>4, KeepStep
<1>3. CASE Fabric!Reject
  BY <1>1, <1>3, AnswersSame DEF Fabric!Reject
<1>4. CASE request' = [request EXCEPT ![l].at = "hanging"] /\ UNCHANGED store
  <2> DEFINE r == [at |-> "hanging", got |-> request[l].got]
             v == store[l]
  <2>1. RequestOK(request[l], l)
    BY DEF Requests
  <2>2. request' = [request EXCEPT ![l] = r]
    <3>1. [request[l] EXCEPT !.at = "hanging"] = r
      BY <2>1 DEF RequestOK
    <3>2. request' = [request EXCEPT ![l] = [request[l] EXCEPT !.at = "hanging"]]
      BY <1>4
    <3> QED
      BY <3>1, <3>2
  <2>3. GotOK(l, r.got, TxCount, BlockCount) /\ KeptOK(l, v, TxCount, BlockCount)
    BY DEF AnswersInv
  <2> HIDE DEF r, v
  <2> QED
    BY <1>1, <1>4, <2>2, <2>3, AnswersChange
<1> QED
  BY <1>2, <1>3, <1>4 DEF Fabric!StatementFails

LEMMA ResponseAnswers ==
  ASSUME ViewsAssumption, FabricData, AnswersInv, Requests, NEW l \in Loads, Fabric!Respond(l)
  PROVE  AnswersInv'
<1> DEFINE got == request[l].got
           resp == Fabric!Answered(l, got)
<1>1. UNCHANGED db /\ Len(got) = Len(Fabric!Statements(l))
  BY DEF Fabric!Respond
<1>2. CASE Fabric!Reject
  BY <1>1, <1>2, AnswersSame DEF Fabric!Reject
<1>3. CASE Fabric!Keep(l, resp)
  <2>1. GotOK(l, got, TxCount, BlockCount)
    BY DEF AnswersInv
  <2>2. l = "transactionByOrg" => resp = Fabric!AppendMissingOrgs(got[1], got[2])
    BY DEF Fabric!Answered
  <2>3. l = "dashStats" => resp.txCount = got[2] /\ resp.latestBlock = got[3]
    BY DEF Fabric!Answered
  <2>4. Fabric!Keep(l, resp)
    BY <1>3
  <2>5. l = "transactionByOrg" => Len(got) = 2
    BY <1>1, ReadIs
  <2>6. l = "dashStats" => Len(got) = 4
    BY <1>1, ReadIs
  <2> HIDE DEF got, resp
  <2>7. ASSUME l = "transactionByOrg" PROVE KeptOK(l, resp, TxCount, BlockCount)
    <3> DEFINE rows == got[1]
               orgs == got[2]
    <3>1. /\ rows \in Seq(OrgCounts) /\ Once(rows) /\ SumOf(Fabric!Counts(rows)) \in Int
          /\ SumOf(Fabric!Counts(rows)) <= TxCount /\ orgs \in SUBSET Orgs
      BY <2>1, <2>5, <2>7 DEF GotOK
    <3>2. resp = Fabric!AppendMissingOrgs(rows, orgs)
      BY <2>2, <2>7
    <3> HIDE DEF rows, orgs
    <3>3. Fabric!OrgsOnce(resp, orgs) /\ SumOf(Fabric!Counts(resp)) = SumOf(Fabric!Counts(rows))
      BY <3>1, <3>2, MissingOrgs
    <3>4. Fabric!OrgsOnce(resp, {})
      BY <3>3 DEF Fabric!OrgsOnce
    <3> QED
      BY <2>7, <3>1, <3>3, <3>4 DEF KeptOK
  <2>8. ASSUME l = "dashStats" PROVE KeptOK(l, resp, TxCount, BlockCount)
    <3>1. Len(got) >= 2 /\ Len(got) >= 3
      BY <2>6, <2>8
    <3>2. /\ got[2] \in Int /\ got[2] <= TxCount
          /\ got[3] \in Int /\ got[3] <= BlockCount
      BY <2>1, <2>8, <3>1 DEF GotOK
    <3>3. /\ resp.txCount \in Int /\ resp.txCount <= TxCount
          /\ resp.latestBlock \in Int /\ resp.latestBlock <= BlockCount
      BY <2>3, <2>8, <3>2
    <3> QED
      BY <2>8, <3>3 DEF KeptOK
  <2> QED
    BY <1>1, <2>4, <2>7, <2>8, KeepStep
<1> QED
  BY <1>2, <1>3 DEF Fabric!Respond

LEMMA StartAnswers ==
  ASSUME AnswersInv, NEW channel, Fabric!StartLoads(channel), UNCHANGED <<db, store>>
  PROVE  AnswersInv'
<1>1. \A l \in Loads : request'[l].got = <<>>
  BY DEF Fabric!StartLoads, Fabric!Sent
<1>2. \A l \in Loads : GotOK(l, request'[l].got, TxCount, BlockCount)
  BY <1>1, GotNothing
<1>3. TxCount' = TxCount /\ BlockCount' = BlockCount
  BY DEF TxCount, BlockCount
<1> QED
  BY <1>2, <1>3 DEF AnswersInv, GotOK, KeptOK

LEMMA ShutDownAnswers ==
  ASSUME AnswersInv, Fabric!ShutDown
  PROVE  AnswersInv'
<1>1. UNCHANGED <<db, store>>
  BY DEF Fabric!ShutDown
<1>2. \A l \in Loads : request'[l].got = <<>> \/ request'[l] = request[l]
  BY DEF Fabric!ShutDown
<1>3. \A l \in Loads : GotOK(l, request'[l].got, TxCount, BlockCount)
  BY <1>2, GotNothing DEF AnswersInv
<1>4. TxCount' = TxCount /\ BlockCount' = BlockCount
  BY <1>1 DEF TxCount, BlockCount
<1> QED
  BY <1>1, <1>3, <1>4 DEF AnswersInv, GotOK, KeptOK

LEMMA RowsStep ==
  ASSUME ViewsAssumption, FabricData, AnswersInv, Requests, Fabric!Next
  PROVE  FabricData' /\ AnswersInv'
<1>1. CASE Fabric!StoreChannel \/ Fabric!StoreTransaction \/ Fabric!StoreBlock
  <2>1. UNCHANGED <<request, store>>
    BY <1>1 DEF Fabric!StoreChannel, Fabric!StoreTransaction, Fabric!StoreBlock, Fabric!client
  <2> QED
    BY <1>1, <2>1, StoredGrows, AnswersStay
<1>2. ASSUME UNCHANGED db PROVE FabricData'
  BY <1>2, DataSame
<1>3. ASSUME NEW l \in Loads, Fabric!Unauthorized(l) \/ Fabric!Refused(l)
      PROVE  UNCHANGED db /\ AnswersInv'
  BY <1>3, AnswersEnd DEF Fabric!Unauthorized, Fabric!Refused
<1>4. ASSUME NEW l \in Loads,
             Fabric!Statement(l) \/ Fabric!StatementFails(l) \/ Fabric!Respond(l)
      PROVE  UNCHANGED db /\ AnswersInv'
  <2>1. UNCHANGED db
    BY <1>4 DEF Fabric!Statement, Fabric!StatementFails, Fabric!Respond
  <2> QED
    BY <1>4, <2>1, StatementAnswers, FailureAnswers, ResponseAnswers
<1>5. CASE Fabric!ShutDown
  BY <1>2, <1>5, ShutDownAnswers DEF Fabric!ShutDown
<1>6. CASE Fabric!ChannelAnswered
  <2>1. PICK known \in BOOLEAN : Fabric!StartLoads(Fabric!CurrentChannel(known))
    BY <1>6 DEF Fabric!ChannelAnswered
  <2>2. UNCHANGED <<db, store>>
    BY <1>6 DEF Fabric!ChannelAnswered
  <2> QED
    BY <1>2, <2>1, <2>2, StartAnswers
<1>7. CASE \/ Fabric!ChangeChannelFails \/ Fabric!TokenExpires \/ Fabric!SubmitForm
           \/ Fabric!LoginAnswered \/ Fabric!Loaded \/ Fabric!Timeout
  <2>1. UNCHANGED <<db, request, store>>
    BY <1>7 DEF Fabric!ChangeChannelFails, Fabric!TokenExpires, Fabric!SubmitForm,
                Fabric!LoginAnswered, Fabric!Loaded, Fabric!Timeout, Fabric!Reject
  <2> QED
    BY <1>2, <2>1, AnswersSame
<1> QED
  BY <1>1, <1>2, <1>3, <1>4, <1>5, <1>6, <1>7 DEF Fabric!Next

LEMMA AnswersInit ==
  ASSUME ViewsAssumption, Fabric!Init
  PROVE  AnswersInv
<1>1. /\ DOMAIN store = Loads
      /\ \A l \in Loads : request[l].got = <<>> /\ store[l] = None
  BY DEF Fabric!Init, Fabric!Idle
<1>2. \A l \in Loads : KeptOK(l, None, TxCount, BlockCount)
  BY DEF KeptOK
<1> QED
  BY <1>1, <1>2, GotNothing DEF AnswersInv

(* What the reader of the Fabric side sees agrees.                                         *)
LEMMA FabricAgrees ==
  ASSUME ViewsAssumption, FabricData, AnswersInv
  PROVE  Fabric!ViewsAgree
<1>1. Fabric!AnswersAgree
  <2>1. \A s : Fabric!SumOf(s) = SumOf(s)
    BY FabricRows
  <2>2. TxCount = Fabric!Count("transactions", Network) /\ BlockCount = Fabric!Count("blocks", Network)
    BY DEF TxCount, BlockCount, Fabric!Count
  <2>3. ASSUME "transactionByOrg" \in Loads, store["transactionByOrg"] # None
        PROVE  /\ Fabric!OrgsOnce(store["transactionByOrg"], {})
               /\ Fabric!SumOf(Fabric!Counts(store["transactionByOrg"]))
                    <= Fabric!Count("transactions", Network)
    BY <2>1, <2>2, <2>3 DEF AnswersInv, KeptOK
  <2>4. ASSUME "dashStats" \in Loads, store["dashStats"] \notin {None, NotFound}
        PROVE  /\ store["dashStats"].txCount <= Fabric!Count("transactions", Network)
               /\ store["dashStats"].latestBlock <= Fabric!Count("blocks", Network)
    BY <2>2, <2>4 DEF AnswersInv, KeptOK
  <2> QED
    BY <2>3, <2>4 DEF Fabric!AnswersAgree
<1> QED
  BY <1>1, FabricStatements, FabricHashJoins DEF Fabric!ViewsAgree

-----------------------------------------------------------------------------
(* The two sides together.                                                                 *)

LEMMA ViewsStep ==
  ASSUME ListsAssumption, ViewsAssumption, FabricInv, ListsInv, [ViewsNext]_viewVars
  PROVE  FabricInv' /\ ListsInv'
<1>1. ASSUME UNCHANGED vars PROVE ListsInv'
  BY <1>1, ListsStep
<1>2. ASSUME UNCHANGED fabricVars PROVE FabricInv'
  <2>1. UNCHANGED <<server, phase, token, request, timer, failures>>
    BY <1>2 DEF fabricVars
  <2> QED
    BY <2>1, SameRequests DEF FabricInv, ClientOK
<1>3. CASE UNCHANGED viewVars
  BY <1>1, <1>2, <1>3 DEF viewVars
<1>4. CASE Fabric!Next /\ UNCHANGED <<screen, vars>>
  BY <1>1, <1>4, FabricStep
<1>5. CASE Next /\ UNCHANGED <<screen, fabricVars>>
  BY <1>2, <1>5, ListsStep
<1> QED
  BY <1>3, <1>4, <1>5 DEF ViewsNext

(* The invariant of the two sides.                                                         *)
THEOREM ViewsInductive == ViewsSpec => [](FabricInv /\ ListsInv)
<1>1. ViewsInit => FabricInv /\ ListsInv
  BY ListsAssumption, ViewsAssumption, FabricInit, InvInit DEF ViewsInit
<1>2. FabricInv /\ ListsInv /\ [ViewsNext]_viewVars => (FabricInv /\ ListsInv)'
  BY ListsAssumption, ViewsAssumption, ViewsStep
<1> QED
  BY <1>1, <1>2, PTL DEF ViewsSpec

(* The client of the Fabric side (LandingPage and its loads, the explorer they ask) and    *)
(* the lists of the Iroha side are in states of their types.                               *)
THEOREM ViewsTypes == ViewsSpec => []ViewsTypeOK
<1>1. FabricInv /\ ListsInv => ViewsTypeOK
  BY ListsAssumption, FabricTypeOK, InvTypeOK DEF ViewsTypeOK
<1> QED
  BY <1>1, ViewsInductive, PTL

(* Paging (BlockList, TransactionList, AccountList of the client) loses nothing whichever  *)
(* side is shown.                                                                          *)
THEOREM ViewsLoseNothing == ViewsSpec => []PagingLosesNothing
<1>1. ListsInv => PagingLosesNothing
  BY ListsAssumption, InvPaging
<1> QED
  BY <1>1, ViewsInductive, PTL

(* The tables of both sides, and what the Fabric client has read of its own.               *)
ViewsData == FabricData /\ AnswersInv /\ TablesInv

LEMMA ViewsDataStep ==
  ASSUME ListsAssumption, LedgerAssumption, ViewsAssumption, FabricInv, ViewsData,
         [ViewsNext]_viewVars
  PROVE  ViewsData'
<1>1. ASSUME UNCHANGED vars PROVE TablesInv'
  BY <1>1, TablesStep DEF ViewsData
<1>2. ASSUME UNCHANGED fabricVars PROVE FabricData' /\ AnswersInv'
  <2>1. UNCHANGED <<db, request, store>>
    BY <1>2 DEF fabricVars
  <2>2. FabricData /\ AnswersInv
    BY DEF ViewsData
  <2>3. FabricData'
    BY <2>1, <2>2, DataSame
  <2>4. AnswersInv'
    BY <2>1, <2>2, AnswersSame
  <2> QED
    BY <2>3, <2>4
<1>3. CASE UNCHANGED viewVars
  BY <1>1, <1>2, <1>3 DEF viewVars, ViewsData
<1>4. CASE Fabric!Next /\ UNCHANGED <<screen, vars>>
  <2>1. FabricData' /\ AnswersInv'
    BY <1>4, RowsStep DEF ViewsData, FabricInv
  <2> QED
    BY <1>1, <1>4, <2>1 DEF ViewsData
<1>5. CASE Next /\ UNCHANGED <<screen, fabricVars>>
  <2>1. TablesInv'
    BY <1>5, TablesStep DEF ViewsData
  <2> QED
    BY <1>2, <1>5, <2>1 DEF ViewsData
<1> QED
  BY <1>3, <1>4, <1>5 DEF ViewsNext

(* What is in the tables of either side, and what the Fabric client keeps of it: an id in  *)
(* the data of a block has one row for the block however often it is there (the count of   *)
(* saveTransaction), while a block row counts all its data (processBlockEvent); rows are   *)
(* never deleted, so that what a request has read stays within the tables.                 *)
THEOREM ViewsDataInductive == ViewsSpec => []ViewsData
<1>1. ViewsInit => ViewsData
  BY ListsAssumption, ViewsAssumption, RowsInit, AnswersInit, TablesInit DEF ViewsInit, Init, ViewsData
<1>2. FabricInv /\ ViewsData /\ [ViewsNext]_viewVars => ViewsData'
  BY ListsAssumption, LedgerAssumption, ViewsAssumption, ViewsDataStep
<1> QED
  BY <1>1, <1>2, ViewsInductive, PTL DEF ViewsSpec

(* What the statements of CRUDService and MetricService answer about the same rows agrees, *)
(* and with the data of the blocks, although ids repeat and networks share the channel; so *)
(* does what the Iroha explorer shows of its ledger.                                       *)
THEOREM ViewsAlwaysAgree == ViewsSpec => []ViewsAgree
<1>1. ViewsData => ViewsAgree
  BY ListsAssumption, LedgerAssumption, ViewsAssumption, FabricAgrees, TablesAgree
  DEF ViewsData, ViewsAgree
<1> QED
  BY <1>1, ViewsDataInductive, PTL
=============================================================================
